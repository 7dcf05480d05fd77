----------------------------- MODULE TopProofs -----------------------------
(***************************************************************************)
(* Theorems about boom_core_top, for every depth of the ports and of the   *)
(* inner streams, every program and any delay of the memory behind the     *)
(* ports: one request and one trace entry a cycle keep up with the core,   *)
(* and the LSU's two promises hold across both pairs of streams and with   *)
(* stray answers.                                                          *)
(*                                                                         *)
(* To the core, both pairs of streams are one pair.  The theory of its     *)
(* loads is that of CoreDataProofs with the request streams joined, and   *)
(* of the answers only the one that is due.                                *)
(***************************************************************************)
EXTENDS BoomTop, CoreDataProofs, SequenceFacts

-----------------------------------------------------------------------------
(* Both pairs of streams as one.                                           *)

\* The answer with a foreign id that the memory may send.
Stray == [tx |-> StrayTx, data |-> 1, fault |-> FALSE]
AnyResponse == DmemResponse \cup {Stray}

\* The places in a sequence of the answers that were asked for, and the one that is
\* due.
DueAt(s) == {n \in 1 .. Len(s) : s[n].tx # StrayTx}
Due(s) == IF DueAt(s) = {} THEN <<>> ELSE <<s[CHOOSE n \in DueAt(s) : TRUE]>>

OneDue(s) == s \in Seq(AnyResponse) /\ \A m, n \in DueAt(s) : m = n

Requests == dmemReqOut \o dmemReq
Answers == dmemResp \o dmemRespIn

\* More room than both request streams have.
JoinedDepth == PortDepth + DmemDepth + 1

All == INSTANCE CoreDataProofs WITH dmemReq <- Requests, dmemResp <- Due(Answers),
                                     DmemDepth <- JoinedDepth, IdealMemory <- FALSE

-----------------------------------------------------------------------------
(* The inductive invariant.                                                *)

\* The types of the LSU's registers and of the streams; only one answer is due.
PortsInv ==
    /\ loop \in {"in", "step", "out"}
    /\ loadPending \in BOOLEAN
    /\ pendingTx \in Tx /\ nextTx \in Tx
    /\ pendingRob \in Slots
    /\ memory \in [Word -> Word]
    /\ dmemReqOut \in Seq(DmemRequest) /\ Len(dmemReqOut) <= PortDepth
    /\ dmemReq \in Seq(DmemRequest)
    /\ dmemResp \in Seq(AnyResponse)
    /\ dmemRespIn \in Seq(AnyResponse)
    /\ OneDue(Answers)

\* The request in the inner stream is that of a load sent in this cycle.
JustSent ==
    /\ Len(dmemReq) = 1
    /\ entries[pendingRob].valid
    /\ entries[pendingRob].mem.sent

\* What the inner request stream and the trace hold in each part of the loop.
RoomInv ==
    /\ loop = "in" => stage = "branch" /\ dmemReq = <<>> /\ commitTrace = <<>>
    /\ loop = "step" => /\ commitTrace = <<>>
                        /\ dmemReq = <<>> \/ (stage \notin {"branch", "lsu"} /\ JustSent)
    /\ loop = "out" => /\ stage = "branch" /\ Len(dmemReq) \in {0, 1}
                       /\ commitTrace \in Seq(Word) /\ Len(commitTrace) \in {0, 1}

TopInv == BaseInv /\ PortsInv /\ RoomInv /\ All!LoadsInv

-----------------------------------------------------------------------------
(* The answer that is due.                                                 *)

LEMMA AnyType ==
    /\ \A r \in DmemResponse : r.tx # StrayTx
    /\ \A r \in AnyResponse : r.tx # StrayTx => r \in DmemResponse
    /\ Stray.tx = StrayTx
  BY TxIdsAssumption DEF AnyResponse, Stray, StrayTx, DmemResponse, Tx

LEMMA DueIs ==
    ASSUME NEW s, OneDue(s)
    PROVE  /\ DueAt(s) = {} => Due(s) = <<>>
           /\ \A n \in DueAt(s) : Due(s) = <<s[n]>> /\ s[n] \in DmemResponse
           /\ Due(s) \in Seq(DmemResponse) /\ Len(Due(s)) <= 1
<1>1. DueAt(s) = {} => Due(s) = <<>>
  BY DEF Due
<1>2. ASSUME NEW n \in DueAt(s)
      PROVE  Due(s) = <<s[n]>> /\ s[n] \in DmemResponse
  <2>1. (CHOOSE m \in DueAt(s) : TRUE) = n
    BY DEF OneDue
  <2>2. s[n] \in AnyResponse /\ s[n].tx # StrayTx
    BY ElementOfSeq DEF OneDue, DueAt
  <2> QED
    BY <2>1, <2>2, AnyType DEF Due
<1>3. CASE DueAt(s) = {}
  BY <1>1, <1>3
<1>4. CASE DueAt(s) # {}
  <2>1. PICK n \in DueAt(s) : TRUE
    BY <1>4
  <2>2. Due(s) = <<s[n]>> /\ s[n] \in DmemResponse
    BY <1>2
  <2> QED
    BY <1>2, <1>4, <2>2
<1> QED
  BY <1>1, <1>2, <1>3, <1>4

\* Taking the front answer takes the one that is due or leaves it.
LEMMA DueTail ==
    ASSUME NEW s, OneDue(s), s # <<>>
    PROVE  /\ OneDue(Tail(s))
           /\ Head(s).tx = StrayTx => Due(Tail(s)) = Due(s)
           /\ Head(s).tx # StrayTx => Due(s) = <<Head(s)>> /\ Due(Tail(s)) = <<>>
<1>1. /\ s \in Seq(AnyResponse) /\ Tail(s) \in Seq(AnyResponse)
      /\ Len(Tail(s)) = Len(s) - 1 /\ Len(s) \in Nat \ {0}
      /\ \A i \in 1 .. Len(Tail(s)) : Tail(s)[i] = s[i + 1]
      /\ Head(s) = s[1]
  BY HeadTailProperties, EmptySeq DEF OneDue
<1>2. \A n \in DueAt(Tail(s)) : n \in Nat /\ n + 1 \in DueAt(s) /\ Tail(s)[n] = s[n + 1]
  BY <1>1 DEF DueAt
<1>3. \A n \in DueAt(s) : n # 1 => n - 1 \in DueAt(Tail(s)) /\ Tail(s)[n - 1] = s[n]
  <2> SUFFICES ASSUME NEW n \in DueAt(s), n # 1
               PROVE  n - 1 \in DueAt(Tail(s)) /\ Tail(s)[n - 1] = s[n]
    OBVIOUS
  <2>1. n \in 1 .. Len(s) /\ s[n].tx # StrayTx
    BY DEF DueAt
  <2>2. n - 1 \in 1 .. Len(Tail(s)) /\ (n - 1) + 1 = n
    BY <1>1, <2>1
  <2>3. Tail(s)[n - 1] = s[n]
    BY <1>1, <2>2
  <2> QED
    BY <2>1, <2>2, <2>3 DEF DueAt
<1>4. OneDue(Tail(s))
  <2>1. ASSUME NEW m \in DueAt(Tail(s)), NEW n \in DueAt(Tail(s))
        PROVE  m = n
    <3>1. m + 1 = n + 1 /\ m \in Nat /\ n \in Nat
      BY <1>2 DEF OneDue
    <3> QED
      BY <3>1
  <2> QED
    BY <1>1, <2>1 DEF OneDue
<1>5. CASE Head(s).tx = StrayTx
  <2>1. CASE DueAt(s) = {}
    <3>1. DueAt(Tail(s)) = {}
      BY <1>2, <2>1
    <3> QED
      BY <1>4, <1>5, <2>1, <3>1, DueIs
  <2>2. CASE DueAt(s) # {}
    <3>1. PICK n \in DueAt(s) : TRUE
      BY <2>2
    <3>2. n # 1
      BY <1>1, <1>5 DEF DueAt
    <3>3. n - 1 \in DueAt(Tail(s)) /\ Tail(s)[n - 1] = s[n]
      BY <1>3, <3>2
    <3>5. Due(s) = <<s[n]>> /\ Due(Tail(s)) = <<Tail(s)[n - 1]>>
      BY <1>4, <3>3, DueIs
    <3> QED
      BY <1>4, <1>5, <3>3, <3>5
  <2> QED
    BY <2>1, <2>2
<1>6. CASE Head(s).tx # StrayTx
  <2>1. 1 \in DueAt(s)
    BY <1>1, <1>6 DEF DueAt
  <2>2. DueAt(Tail(s)) = {}
    <3> SUFFICES ASSUME NEW n \in DueAt(Tail(s)) PROVE FALSE
      OBVIOUS
    <3>1. n + 1 = 1 /\ n \in Nat /\ n \in 1 .. Len(Tail(s))
      BY <1>2, <2>1 DEF OneDue, DueAt
    <3> QED
      BY <3>1
  <2> QED
    BY <1>1, <1>4, <1>6, <2>1, <2>2, DueIs
<1> QED
  BY <1>4, <1>5, <1>6

\* An answer at the end: one that nobody asked for changes nothing.
LEMMA DueAppend ==
    ASSUME NEW s, OneDue(s), NEW r \in AnyResponse, r.tx # StrayTx => Due(s) = <<>>
    PROVE  /\ OneDue(Append(s, r))
           /\ Due(Append(s, r)) = IF r.tx = StrayTx THEN Due(s) ELSE <<r>>
<1> DEFINE a == Append(s, r)
<1>1. /\ s \in Seq(AnyResponse) /\ a \in Seq(AnyResponse)
      /\ Len(s) \in Nat /\ Len(a) = Len(s) + 1
      /\ \A i \in 1 .. Len(s) : a[i] = s[i]
      /\ a[Len(s) + 1] = r
  BY AppendProperties, LenProperties DEF OneDue
<1> HIDE DEF a
<1>2. CASE r.tx = StrayTx
  <2>1. DueAt(a) = DueAt(s) /\ \A n \in DueAt(s) : a[n] = s[n]
    BY <1>1, <1>2 DEF DueAt
  <2>2. OneDue(a)
    BY <1>1, <2>1 DEF OneDue
  <2>3. Due(a) = Due(s)
    <3>1. CASE DueAt(s) = {}
      BY <2>1, <2>2, <3>1, DueIs
    <3>2. CASE DueAt(s) # {}
      <4>1. PICK n \in DueAt(s) : TRUE
        BY <3>2
      <4>2. Due(s) = <<s[n]>> /\ Due(a) = <<a[n]>>
        BY <2>1, <2>2, <4>1, DueIs
      <4> QED
        BY <2>1, <4>1, <4>2
    <3> QED
      BY <3>1, <3>2
  <2> QED
    BY <1>2, <2>2, <2>3 DEF a
<1>3. CASE r.tx # StrayTx
  <2>1. DueAt(s) = {}
    <3> SUFFICES ASSUME NEW n \in DueAt(s) PROVE FALSE
      OBVIOUS
    <3>1. Due(s) = <<s[n]>>
      BY DueIs
    <3> QED
      BY <1>3, <3>1
  <2>2. DueAt(a) = {Len(s) + 1}
    BY <1>1, <1>3, <2>1 DEF DueAt
  <2>3. OneDue(a)
    BY <1>1, <2>2 DEF OneDue
  <2>4. Due(a) = <<r>>
    BY <1>1, <2>2, <2>3, DueIs
  <2> QED
    BY <1>3, <2>3, <2>4 DEF a
<1> QED
  BY <1>2, <1>3

-----------------------------------------------------------------------------
(* What of CoreDataProofs does not look at the streams means the same     *)
(* under All.                                                              *)

LEMMA JoinedData ==
    /\ All!Word = Word /\ All!Reg = Reg /\ All!Preg = Preg /\ All!Slots = Slots
    /\ All!Instr = Instr /\ All!MicroOp = MicroOp /\ All!NoUop = NoUop
    /\ All!MemInfo = MemInfo /\ All!NoMem = NoMem
    /\ All!AluResult = AluResult /\ All!NoResult = NoResult
    /\ All!Entry = Entry /\ All!EmptyEntry = EmptyEntry
    /\ All!Tx = Tx /\ All!DmemRequest = DmemRequest /\ All!DmemResponse = DmemResponse
    /\ All!RobStates = RobStates /\ All!Stages = Stages
<1>1. /\ All!Word = Word /\ All!Reg = Reg /\ All!Preg = Preg /\ All!Slots = Slots
      /\ All!NoUop = NoUop /\ All!NoMem = NoMem /\ All!NoResult = NoResult
      /\ All!Ops = Ops /\ All!Tx = Tx
      /\ All!RobStates = RobStates /\ All!Stages = Stages
  BY DEF All!Word, Word, All!Reg, Reg, All!Preg, Preg, All!Slots, Slots, All!NoUop, NoUop,
     All!NoMem, NoMem, All!NoResult, NoResult, All!Ops, Ops, All!Tx, Tx,
     All!RobStates, RobStates, All!Stages, Stages
<1>2. All!Instr = Instr /\ All!MemInfo = MemInfo
  BY <1>1 DEF All!Instr, Instr, All!MemInfo, MemInfo
<1>3. All!MicroOp = MicroOp
  BY <1>1, <1>2 DEF All!MicroOp, MicroOp
<1>4. /\ All!AluResult = AluResult /\ All!Entry = Entry /\ All!EmptyEntry = EmptyEntry
      /\ All!DmemRequest = DmemRequest /\ All!DmemResponse = DmemResponse
  BY <1>1, <1>2, <1>3 DEF All!AluResult, AluResult, All!Entry, Entry, All!EmptyEntry,
     EmptyEntry, All!DmemRequest, DmemRequest, All!DmemResponse, DmemResponse
<1> QED
  BY <1>1, <1>2, <1>3, <1>4

\* What the modules under All assume of their constants.
LEMMA JoinedAssumptions ==
    /\ WordCount \in Nat \ {0} /\ LogicalRegs \in Nat \ {0}
    /\ IntPhysRegs \in Nat /\ IntPhysRegs > 1
    /\ RobSlots \in Nat \ {0} /\ A0 \in 0 .. LogicalRegs - 1
    /\ FetchIds \in Nat /\ MaxFetches \in Nat /\ 0 < MaxFetches /\ MaxFetches < FetchIds
    /\ ResetVector \in All!Word
    /\ \A p \in Programs : p \in [All!Word -> All!Instr]
    /\ TxIds \in Nat \ {0, 1} /\ JoinedDepth \in Nat \ {0}
    /\ FaultAddrs \subseteq All!Word
    /\ IqDepth \in Nat \ {0} /\ FALSE \in BOOLEAN
<1>1. JoinedDepth \in Nat \ {0}
  BY DepthsAssumption, DmemDepthAssumption DEF JoinedDepth
<1> QED
  BY <1>1, JoinedData, WordCountAssumption, LogicalRegsAssumption, IntPhysRegsAssumption,
     RobSlotsAssumption, A0Assumption, FetchIdsAssumption, ResetVectorAssumption,
     ProgramsAssumption, TxIdsAssumption, FaultAddrsAssumption, IqDepthAssumption

LEMMA JoinedTypes ==
    ASSUME BaseInv
    PROVE  All!PipeTypeOK /\ All!RobTypeOK /\ All!RingInv /\ All!ResultInv
<1> USE DEF BaseInv
<1>1. All!PipeTypeOK
  BY JoinedData DEF All!PipeTypeOK, PipeTypeOK
<1>2. All!RobTypeOK
  BY JoinedData DEF All!RobTypeOK, RobTypeOK, RingInv
<1>3. All!RingInv
  BY <1>2, JoinedData DEF All!RingInv, RingInv, All!RobWindow, RobWindow, All!InWindow, InWindow
<1>4. All!ResultInv
  BY JoinedData DEF All!ResultInv, ResultInv, All!AlwaysLeaves, AlwaysLeaves, All!Fresh, Fresh,
     All!FreshEntry, FreshEntry
<1> QED
  BY <1>1, <1>2, <1>3, <1>4

LEMMA JoinedLoadsSame ==
    ASSUME All!LoadsInv, UNCHANGED <<entries, robHead, loadPending, pendingTx, pendingRob, memory>>,
           Requests' = Requests, Due(Answers)' = Due(Answers)
    PROVE  All!LoadsInv'
<1>1. UNCHANGED All!loadsVars
  BY DEF All!loadsVars
<1> QED
  BY <1>1, All!LoadsSame, JoinedAssumptions

-----------------------------------------------------------------------------
(* What the invariant says of the joined streams.                          *)

LEMMA RoomIs ==
    ASSUME BaseInv, PortsInv, RoomInv
    PROVE  /\ Len(dmemReq) \in {0, 1} /\ Requests \in Seq(DmemRequest)
           /\ Len(Requests) < JoinedDepth
           /\ stage \in {"branch", "lsu"} /\ loop # "out" => dmemReq = <<>>
<1> DEFINE m == Len(dmemReqOut)
           n == Len(dmemReq)
<1>1. m \in Nat /\ n \in Nat /\ Requests \in Seq(DmemRequest) /\ Len(Requests) = m + n
  BY LenProperties, ConcatProperties DEF PortsInv, Requests
<1>2. dmemReq = <<>> \/ n \in {0, 1}
  BY DEF PortsInv, RoomInv, JustSent
<1>3. n \in {0, 1} /\ m + n < JoinedDepth
  <2>1. m <= PortDepth /\ PortDepth \in Nat /\ DmemDepth \in Nat \ {0}
    BY DepthsAssumption, DmemDepthAssumption DEF PortsInv
  <2>2. n \in {0, 1}
    BY <1>2, EmptySeq
  <2> HIDE DEF m, n
  <2> QED
    BY <1>1, <2>1, <2>2 DEF JoinedDepth
<1>4. stage \in {"branch", "lsu"} /\ loop # "out" => dmemReq = <<>>
  BY DEF PortsInv, RoomInv
<1> QED
  BY <1>1, <1>3, <1>4

LEMMA JoinedLsuType ==
    ASSUME BaseInv, PortsInv, RoomInv
    PROVE  All!LsuTypeOK /\ ~All!DmemFull
<1>1. Requests \in Seq(DmemRequest) /\ Len(Requests) < JoinedDepth /\ Len(Requests) \in Nat
  BY RoomIs, LenProperties
<1>2. JoinedDepth \in Nat /\ 1 <= JoinedDepth
  BY DepthsAssumption, DmemDepthAssumption DEF JoinedDepth
<1>3. Due(Answers) \in Seq(DmemResponse) /\ Len(Due(Answers)) <= 1 /\ Len(Due(Answers)) \in Nat
  BY DueIs, LenProperties DEF PortsInv
<1>4. Len(Requests) <= JoinedDepth /\ Len(Due(Answers)) <= JoinedDepth /\ ~All!DmemFull
  BY <1>1, <1>2, <1>3 DEF All!DmemFull
<1> QED
  BY <1>1, <1>3, <1>4, JoinedData DEF All!LsuTypeOK, PortsInv, BaseInv, PipeTypeOK

\* The request of a load that was just sent is not in the way of a store: had the
\* store been in the ROB, the load would have waited for it.
LEMMA StoreFindsRoom ==
    ASSUME TopInv, loop = "step", entries[robHead].valid, CtrlIsSta(entries[robHead].uop.inst)
    PROVE  dmemReq = <<>>
<1> SUFFICES ASSUME JustSent PROVE FALSE
  BY DEF TopInv, RoomInv
<1>1. robHead \in Slots /\ pendingRob \in Slots /\ RobSlots \in Nat
  BY RobSlotsAssumption DEF TopInv, BaseInv, RingInv, RobTypeOK, PortsInv
<1>2. entries[pendingRob].mem.isLoad /\ entries[pendingRob].uop.inst.op = "load"
  BY <1>1, JoinedData DEF JustSent, TopInv, All!LoadsInv, All!MemFields
<1>3. robHead # pendingRob
  BY <1>2 DEF CtrlIsSta
<1>4. All!Pos(robHead) < All!Pos(pendingRob)
  BY <1>1, <1>3 DEF All!Pos, Slots
<1>5. ~All!CtrlIsSta(entries[robHead].uop.inst)
  BY <1>1, <1>4, JoinedData DEF JustSent, TopInv, All!LoadsInv, All!NoOlderStore
<1> QED
  BY <1>5 DEF CtrlIsSta, All!CtrlIsSta

-----------------------------------------------------------------------------
(* lsu_module: what it does with both streams is what it does with one, or *)
(* it goes on waiting.                                                     *)

\* The front answer is the one waited for; or there is nothing to wait for; or none
\* that is due can be read yet.
LEMMA AnswerTaken ==
    ASSUME TopInv, dmemResp' = IF dmemResp = <<>> THEN <<>> ELSE Tail(dmemResp),
           dmemRespIn' = dmemRespIn
    PROVE  /\ AnswerIsWord
           /\ dmemResp' \in Seq(AnyResponse) /\ OneDue(Answers')
           /\ Answered => Due(Answers) = <<Head(dmemResp)>> /\ Due(Answers') = <<>>
           /\ ~Answered => Due(Answers') = Due(Answers)
           /\ ~Answered /\ ~loadPending => Due(Answers) = <<>>
<1>1. /\ dmemResp \in Seq(AnyResponse) /\ dmemRespIn \in Seq(AnyResponse)
      /\ OneDue(Answers) /\ pendingTx \in Tx
  BY DEF TopInv, PortsInv
<1>2. Due(Answers) # <<>> => loadPending /\ Due(Answers)[1].tx = pendingTx
  BY DEF TopInv, All!LoadsInv, All!OneLoad
<1>3. CASE dmemResp = <<>>
  <2>1. dmemResp' = dmemResp /\ Answers' = Answers
    BY <1>3 DEF Answers
  <2> QED
    BY <1>1, <1>2, <1>3, <2>1 DEF Answered, AnswerIsWord
<1>4. CASE dmemResp # <<>>
  <2>1. /\ Answers # <<>> /\ Head(Answers) = Head(dmemResp)
        /\ Answers' = Tail(Answers) /\ dmemResp' \in Seq(AnyResponse)
    BY <1>1, <1>4, JoinFirst DEF Answers
  <2>2. Head(dmemResp) \in AnyResponse
    BY <1>1, <1>4, HeadTailProperties
  <2>3. OneDue(Answers')
    BY <1>1, <2>1, DueTail
  <2>4. CASE Head(dmemResp).tx = StrayTx
    <3>1. ~Answered
      BY <1>1, <2>4, TxIdsAssumption DEF Answered, Tx, StrayTx
    <3>2. Due(Answers') = Due(Answers)
      BY <1>1, <2>1, <2>4, DueTail
    <3> QED
      BY <1>2, <2>1, <2>3, <3>1, <3>2 DEF AnswerIsWord
  <2>5. CASE Head(dmemResp).tx # StrayTx
    <3>1. Due(Answers) = <<Head(dmemResp)>> /\ Due(Answers') = <<>>
      BY <1>1, <2>1, <2>5, DueTail
    <3>2. Answered
      BY <1>2, <1>4, <3>1 DEF Answered
    <3>3. Head(dmemResp) \in DmemResponse
      BY <2>2, <2>5, AnyType
    <3> QED
      BY <2>1, <2>3, <3>1, <3>2, <3>3 DEF AnswerIsWord, DmemResponse
  <2> QED
    BY <2>4, <2>5
<1> QED
  BY <1>3, <1>4

\* What a call of lsu_module leaves in its registers and in dmem_req.
LEMMA LsuSends ==
    ASSUME BaseInv, PortsInv, AnswerIsWord, LsuModule(aluResult)
    PROVE  /\ loadPending' \in BOOLEAN /\ pendingTx' \in Tx /\ nextTx' \in Tx
           /\ pendingRob' \in Slots
           /\ \/ dmemReq' = dmemReq
              \/ /\ \E r \in DmemRequest : dmemReq' = Append(dmemReq, r)
                 /\ entries'[pendingRob'].valid
                 /\ entries'[pendingRob'].mem.sent
<1> DEFINE es == WithAddress(WithResponse, aluResult)
<1>1. es \in [Slots -> Entry]
  BY ResponseKeepsEntries, AddressKeepsEntries DEF BaseInv, PipeTypeOK, RingInv, RobTypeOK
<1>2. 0 \in Tx /\ NextTx \in Tx
  BY TxIdsAssumption DEF Tx, NextTx, PortsInv
<1>3. SendLoad(es, loadPending /\ ~Answered)
  BY DEF LsuModule
<1> HIDE DEF es
<1>4. CASE /\ loadPending' = (loadPending /\ ~Answered)
           /\ pendingTx' = IF Answered THEN 0 ELSE pendingTx
           /\ UNCHANGED <<pendingRob, nextTx, dmemReq>>
  BY <1>2, <1>4 DEF PortsInv
<1>5. ASSUME NEW k \in Slots, MaySend(es, k),
             entries' = [es EXCEPT ![SlotFromHead(k)].mem.sent = TRUE],
             loadPending' = TRUE, pendingTx' = nextTx, pendingRob' = SlotFromHead(k),
             nextTx' = NextTx,
             dmemReq' = Append(dmemReq, [isStore |-> FALSE,
                                         addr |-> es[SlotFromHead(k)].mem.addr,
                                         data |-> 0, tx |-> nextTx])
      PROVE  /\ pendingRob' \in Slots /\ pendingTx' \in Tx /\ nextTx' \in Tx
             /\ \E r \in DmemRequest : dmemReq' = Append(dmemReq, r)
             /\ entries'[pendingRob'].valid
             /\ entries'[pendingRob'].mem.sent
  <2>1. SlotFromHead(k) \in Slots
    BY SentSlot DEF BaseInv, RingInv, RobTypeOK
  <2>2. es[SlotFromHead(k)].mem.addr \in Word /\ es[SlotFromHead(k)].valid
    BY <1>1, <1>5, <2>1 DEF Entry, MemInfo, MaySend
  <2>3. [isStore |-> FALSE, addr |-> es[SlotFromHead(k)].mem.addr, data |-> 0, tx |-> nextTx]
            \in DmemRequest
    BY <2>2, Zeros DEF DmemRequest, PortsInv
  <2>4. /\ entries'[SlotFromHead(k)].valid = es[SlotFromHead(k)].valid
        /\ entries'[SlotFromHead(k)].mem.sent = TRUE
    <3>1. es[SlotFromHead(k)] \in Entry
      BY <1>1, <2>1
    <3> QED
      BY <1>1, <1>5, <2>1, <3>1 DEF Entry, MemInfo
  <2> QED
    BY <1>2, <1>5, <2>1, <2>2, <2>3, <2>4 DEF PortsInv
<1> QED
  BY <1>3, <1>4, <1>5 DEF SendLoad

\* The operators that do not look at the streams.
LEMMA JoinedLsu ==
    /\ \A es, r : All!WithAddress(es, r) = WithAddress(es, r)
    /\ \A e, r : All!Returned(e, r) = Returned(e, r)
    /\ \A k : All!SlotFromHead(k) = SlotFromHead(k)
    /\ \A es, k : All!OlderStore(es, k) <=> OlderStore(es, k)
    /\ All!NextTx = NextTx
<1>1. \A e, r : All!Addressed(e, r) = Addressed(e, r)
  BY DEF All!Addressed, Addressed
<1>2. \A es, r : All!WithAddress(es, r) = WithAddress(es, r)
  BY <1>1 DEF All!WithAddress, WithAddress
<1>3. \A e, r : All!Returned(e, r) = Returned(e, r)
  BY DEF All!Returned, Returned
<1>4. \A k : All!SlotFromHead(k) = SlotFromHead(k)
  BY DEF All!SlotFromHead, SlotFromHead
<1>5. \A es, k : All!OlderStore(es, k) <=> OlderStore(es, k)
  BY <1>4 DEF All!OlderStore, OlderStore, All!CtrlIsSta, CtrlIsSta
<1>6. All!NextTx = NextTx
  BY DEF All!NextTx, NextTx
<1> QED
  BY <1>2, <1>3, <1>4, <1>5, <1>6

LEMMA JoinedLsuModule ==
    ASSUME TopInv, LsuModule(aluResult), dmemReq = <<>>, UNCHANGED portVars,
           Answered \/ ~loadPending
    PROVE  All!LsuModule(aluResult)
<1> DEFINE es == WithAddress(WithResponse, aluResult)
           sp == loadPending /\ ~Answered
<1>1. /\ dmemResp' = IF dmemResp = <<>> THEN <<>> ELSE Tail(dmemResp)
      /\ dmemRespIn' = dmemRespIn /\ dmemReqOut' = dmemReqOut
      /\ intRf' = RfWithResponse
      /\ SendLoad(es, sp)
      /\ UNCHANGED <<robHead, robTail, maybeFull, robState, memory>>
  BY DEF LsuModule, portVars
<1>2. /\ AnswerIsWord
      /\ Answered => Due(Answers) = <<Head(dmemResp)>> /\ Due(Answers') = <<>>
      /\ ~Answered => Due(Answers) = <<>> /\ Due(Answers') = <<>>
  BY <1>1, AnswerTaken
<1>3. /\ All!Answered <=> Answered
      /\ Answered => Head(Due(Answers)) = Head(dmemResp)
  BY <1>2 DEF All!Answered, Answered
<1>4. Due(Answers') = IF Due(Answers) = <<>> THEN <<>> ELSE Tail(Due(Answers))
  <2>1. \A x : <<x>> # <<>> /\ Tail(<<x>>) = <<>>
    OBVIOUS
  <2>2. CASE Answered
    BY <1>2, <2>1, <2>2
  <2>3. CASE ~Answered
    BY <1>2, <2>3
  <2> QED
    BY <2>2, <2>3
<1>5. /\ All!Completes <=> Completes
      /\ All!WithResponse = WithResponse
      /\ All!RfWithResponse = RfWithResponse
  <2>1. All!Completes <=> Completes
    BY <1>3 DEF All!Completes, Completes
  <2>2. Completes => Head(Due(Answers)) = Head(dmemResp)
    BY <1>3 DEF Completes
  <2>3. All!WithResponse = WithResponse
    BY <2>1, <2>2, JoinedLsu DEF All!WithResponse, WithResponse
  <2>4. All!RfWithResponse = RfWithResponse
    BY <2>1, <2>2 DEF All!RfWithResponse, RfWithResponse
  <2> QED
    BY <2>1, <2>3, <2>4
<1>6. All!WithAddress(All!WithResponse, aluResult) = es
  BY <1>5, JoinedLsu
<1>7. \A k : All!MaySend(es, k) <=> MaySend(es, k)
  <2>1. ~DmemFull
    BY DmemDepthAssumption, EmptySeq DEF DmemFull
  <2>2. ~All!DmemFull
    BY JoinedLsuType DEF TopInv
  <2> QED
    BY <2>1, <2>2, JoinedLsu DEF All!MaySend, MaySend
<1>8. All!SendLoad(es, sp)
  <2>1. {k \in All!Slots : ~sp /\ All!MaySend(es, k)} = {k \in Slots : ~sp /\ MaySend(es, k)}
    BY <1>7, JoinedData
  <2>2. \A r \in DmemRequest : dmemReq' = Append(dmemReq, r) =>
            Requests' = Append(Requests, r)
    BY <1>1, JoinAppended DEF TopInv, PortsInv, Requests
  <2>3. dmemReq' = dmemReq => Requests' = Requests
    BY <1>1 DEF Requests
  <2> DEFINE candidates == {k \in Slots : ~sp /\ MaySend(es, k)}
  <2>4. CASE /\ candidates = {}
             /\ entries' = es
             /\ loadPending' = sp
             /\ pendingTx' = IF Answered THEN 0 ELSE pendingTx
             /\ UNCHANGED <<pendingRob, nextTx, dmemReq>>
    BY <1>3, <2>1, <2>3, <2>4 DEF All!SendLoad
  <2>5. ASSUME NEW k \in candidates,
               \A other \in candidates : k <= other,
               entries' = [es EXCEPT ![SlotFromHead(k)].mem.sent = TRUE],
               loadPending' = TRUE, pendingTx' = nextTx, pendingRob' = SlotFromHead(k),
               nextTx' = NextTx,
               dmemReq' = Append(dmemReq, [isStore |-> FALSE,
                                           addr |-> es[SlotFromHead(k)].mem.addr,
                                           data |-> 0, tx |-> nextTx])
        PROVE  All!SendLoad(es, sp)
    <3> DEFINE r == [isStore |-> FALSE, addr |-> es[SlotFromHead(k)].mem.addr,
                     data |-> 0, tx |-> nextTx]
    <3>1. es \in [Slots -> Entry]
      BY <1>2, ResponseKeepsEntries, AddressKeepsEntries
      DEF TopInv, BaseInv, PipeTypeOK, RingInv, RobTypeOK
    <3>2. SlotFromHead(k) \in Slots
      BY SentSlot DEF TopInv, BaseInv, RingInv, RobTypeOK
    <3>3. r \in DmemRequest
      BY <3>1, <3>2, Zeros DEF DmemRequest, TopInv, PortsInv, Entry, MemInfo
    <3>4. Requests' = Append(Requests, r)
      BY <2>2, <2>5, <3>3
    <3> QED
      BY <2>1, <2>5, <3>4, JoinedLsu DEF All!SendLoad
  <2> QED
    BY <1>1, <2>4, <2>5 DEF SendLoad
<1> HIDE DEF es
<1> QED
  BY <1>1, <1>3, <1>4, <1>5, <1>6, <1>8 DEF All!LsuModule

\* What the loads' part of the invariant needs of lsu_module.
LEMMA TopLsuKeepsLoads ==
    ASSUME TopInv, BaseInv', PortsInv', RoomInv', dmemReq = <<>>, LsuStage, UNCHANGED portVars
    PROVE  All!LoadsInv'
<1>1. LsuModule(aluResult) /\ stage = "lsu"
  BY DEF LsuStage, At
<1>2. /\ All!PipeTypeOK /\ All!RobTypeOK /\ All!ResultInv
      /\ All!LsuTypeOK /\ All!LoadsInv
  BY JoinedTypes, JoinedLsuType DEF TopInv
<1>3. All!LsuTypeOK'
  BY JoinedLsuType, PTL
<1>4. CASE Answered \/ ~loadPending
  <2>1. All!LsuModule(aluResult)
    BY <1>1, <1>4, JoinedLsuModule
  <2> QED
    BY <1>1, <1>2, <1>3, <2>1, All!LsuKeepsLoads, JoinedAssumptions
<1>5. CASE ~Answered /\ loadPending
  <2>1. /\ dmemResp' = IF dmemResp = <<>> THEN <<>> ELSE Tail(dmemResp)
        /\ dmemRespIn' = dmemRespIn /\ dmemReqOut' = dmemReqOut
        /\ SendLoad(WithAddress(WithResponse, aluResult), TRUE)
        /\ UNCHANGED <<robHead, memory>>
    BY <1>1, <1>5 DEF LsuModule, portVars
  <2>2. Due(Answers') = Due(Answers)
    BY <1>5, <2>1, AnswerTaken
  <2>3. /\ entries' = WithAddress(WithResponse, aluResult)
        /\ loadPending' = TRUE /\ pendingTx' = pendingTx
        /\ UNCHANGED <<pendingRob, dmemReq>>
    BY <1>5, <2>1 DEF SendLoad
  <2>4. entries' = All!WithAddress(entries, aluResult)
    BY <1>5, <2>3, JoinedLsu DEF WithResponse, Completes
  <2>5. Requests' = Requests
    BY <2>1, <2>3 DEF Requests
  <2>6. loadPending' = loadPending
    BY <1>5, <2>3 DEF TopInv, PortsInv
  <2> QED
    BY <1>1, <1>2, <1>5, <2>1, <2>2, <2>3, <2>4, <2>5, <2>6, All!WaitingKeepsLoads,
       JoinedAssumptions
<1> QED
  BY <1>4, <1>5

-----------------------------------------------------------------------------
(* The other calls of the cycle, seen through All.                         *)

\* The operators on the ring that do not look at the streams.
LEMMA JoinedRing ==
    /\ \A es : All!Marked(es) <=> Marked(es)
    /\ \A es : All!HeadReady(es) <=> HeadReady(es)
    /\ \A es : All!PopHead(es) <=> PopHead(es)
    /\ \A u : All!Allocate(u) <=> Allocate(u)
<1>1. \A es : All!Marked(es) <=> Marked(es)
  BY JoinedData DEF All!Marked, Marked, All!OnlyMarked, OnlyMarked
<1>2. \A es : All!HeadReady(es) <=> HeadReady(es)
  BY DEF All!HeadReady, HeadReady, All!RobEmpty, RobEmpty
<1>3. \A es : All!PopHead(es) <=> PopHead(es)
  BY JoinedData DEF All!PopHead, PopHead, All!NextSlot, NextSlot
<1>4. \A u : All!Allocate(u) <=> Allocate(u)
  BY JoinedData DEF All!Allocate, Allocate, All!WakeRob, WakeRob, All!RobFull, RobFull,
     All!FreshEntry, FreshEntry, All!NextSlot, NextSlot
<1> QED
  BY <1>1, <1>2, <1>3, <1>4

LEMMA CommitHeadKeepsAll ==
    ASSUME TopInv, CommitHead, UNCHANGED portVars, loop = "step"
    PROVE  /\ All!LoadsInv'
           /\ dmemReq' \in Seq(DmemRequest) /\ Len(dmemReq') \in {0, 1}
           /\ nextTx' \in Tx
<1> DEFINE h == WithResult[robHead]
           r == [isStore |-> TRUE, addr |-> h.mem.addr, data |-> h.mem.data, tx |-> nextTx]
<1>1. /\ All!RingInv /\ All!LsuTypeOK /\ ~All!DmemFull /\ All!LoadsInv
      /\ nextTx \in Tx /\ dmemReq \in Seq(DmemRequest) /\ dmemReqOut \in Seq(DmemRequest)
      /\ Len(dmemReq) \in {0, 1}
  BY JoinedTypes, JoinedLsuType, RoomIs DEF TopInv, PortsInv
<1>2. All!Marked(WithResult) /\ Marked(WithResult)
  BY WithResultMarksMore, JoinedRing DEF TopInv, BaseInv
<1>3. /\ HeadReady(WithResult) /\ PopHead(WithResult)
      /\ UNCHANGED <<loadPending, pendingTx, pendingRob, dmemResp, dmemRespIn, memory, dmemReqOut>>
      /\ h.mem.isStore => dmemReq' = Append(dmemReq, r) /\ nextTx' = NextTx
      /\ ~h.mem.isStore => dmemReq' = dmemReq /\ nextTx' = nextTx
  <2>1. HeadReady(WithResult) /\ PopHead(WithResult)
    BY DEF CommitHead, HeadWaits
  <2>2. /\ UNCHANGED <<loadPending, pendingTx, pendingRob, dmemResp, memory>>
        /\ UNCHANGED <<dmemRespIn, dmemReqOut>>
    BY DEF CommitHead, CommitFrame, portVars
  <2>3. /\ h.mem.isStore => dmemReq' = Append(dmemReq, r) /\ nextTx' = NextTx
        /\ ~h.mem.isStore => dmemReq' = dmemReq /\ nextTx' = nextTx
    BY DEF CommitHead
  <2> QED
    BY <2>1, <2>2, <2>3
<1>4. Due(Answers') = Due(Answers)
  BY <1>3 DEF Answers
<1>5. All!HeadReady(WithResult) /\ All!PopHead(WithResult)
  BY <1>3, JoinedRing
<1>6. CASE ~h.mem.isStore
  <2>1. Requests' = Requests
    BY <1>3, <1>6 DEF Requests
  <2>2. All!LoadsInv'
    BY <1>1, <1>2, <1>3, <1>4, <1>5, <2>1, All!PopKeepsLoads,
       JoinedAssumptions
  <2> QED
    BY <1>1, <1>3, <1>6, <2>2
<1>7. CASE h.mem.isStore
  <2>1. h \in Entry /\ robHead \in Slots /\ h.valid
    BY <1>2, <1>3 DEF Marked, OnlyMarked, TopInv, BaseInv, RingInv, RobTypeOK, HeadReady
  <2>2. r \in DmemRequest /\ r.isStore
    BY <1>1, <2>1 DEF Entry, MemInfo, DmemRequest
  <2>3. NextTx \in Tx
    BY <1>1, TxIdsAssumption DEF NextTx, Tx
  <2>4. /\ entries[robHead].valid /\ entries[robHead].mem.isStore
        /\ entries[robHead].uop.inst.op = "store"
    <3>1. entries[robHead].valid /\ entries[robHead].mem = h.mem
      BY <1>2, <2>1 DEF Marked, OnlyMarked
    <3> QED
      BY <1>7, <2>1, <3>1, JoinedData DEF TopInv, All!LoadsInv, All!MemFields
  <2>5. dmemReq = <<>>
    BY <2>4, StoreFindsRoom DEF CtrlIsSta
  <2> HIDE DEF r
  <2>6. Requests' = Append(Requests, r) /\ dmemReq' = <<r>>
    <3>1. dmemReq' = Append(dmemReq, r) /\ Append(<<>>, r) = <<r>>
      BY <1>3, <1>7
    <3> QED
      BY <1>1, <1>3, <2>2, <2>5, <3>1, JoinAppended DEF Requests
  <2>7. <<r>> \in Seq(DmemRequest) /\ Len(<<r>>) = 1
    BY <2>2
  <2>8. r \in All!DmemRequest
    BY <2>2, JoinedData
  <2>9. All!LoadsInv'
    BY <1>1, <1>2, <1>3, <1>4, <1>5, <1>7, <2>2, <2>6, <2>8, All!PopKeepsLoads,
       JoinedAssumptions
  <2> QED
    BY <1>3, <1>7, <2>3, <2>6, <2>7, <2>9
<1> QED
  BY <1>6, <1>7

\* The calls that leave the LSU's registers and all streams alone.
Quiet == UNCHANGED <<lsuVars, memoryVars, portVars>>

LEMMA QuietKeepsAll ==
    ASSUME TopInv, Cycle, ~LsuStage, ~CommitHead, UNCHANGED portVars
    PROVE  Quiet /\ All!LoadsInv'
<1>1. Quiet
  BY DEF Cycle, Quiet, Branch, FetchStopped, FetchWaits, FetchReads, FetchFrame, Decode,
     RenameStage, RobAllocate, Issue, Execute, CommitFlush, CommitNothing, CommitEcall,
     CommitTrap, CommitFrame, lsuVars, memoryVars
<1> SUFFICES All!LoadsInv'
  BY <1>1
<1>2. /\ UNCHANGED <<loadPending, pendingTx, pendingRob, memory>>
      /\ Requests' = Requests /\ Due(Answers') = Due(Answers)
  BY <1>1 DEF Quiet, lsuVars, memoryVars, portVars, Requests, Answers
<1>3. All!RingInv /\ All!LsuTypeOK /\ All!LoadsInv
  BY JoinedTypes, JoinedLsuType DEF TopInv
<1>4. CASE UNCHANGED <<entries, robHead>>
  BY <1>2, <1>3, <1>4, JoinedLoadsSame
<1>5. CASE RobAllocate
  <2>1. CASE renamedUop = NoUop
    BY <1>4, <1>5, <2>1 DEF RobAllocate
  <2>2. CASE renamedUop # NoUop
    <3> DEFINE u == [renamedUop EXCEPT !.rob = robTail]
    <3>1. Allocate(u) /\ renamedUop \in MicroOp /\ robTail \in Slots
      BY <1>5, <2>2 DEF RobAllocate, TopInv, BaseInv, RenameTypeOK, RingInv, RobTypeOK
    <3>2. u \in All!MicroOp
      BY <3>1, JoinedData DEF MicroOp, Slots
    <3> HIDE DEF u
    <3>3. All!Allocate(u)
      BY <3>1, JoinedRing
    <3> QED
      BY <1>2, <1>3, <3>2, <3>3, All!AllocateKeepsLoads,
         JoinedAssumptions
  <2> QED
    BY <2>1, <2>2
<1>6. CASE CommitFlush
  <2>1. \A i \in All!Slots : ~entries'[i].valid
    BY <1>6, SquashKeepsRing, JoinedData DEF CommitFlush
  <2> QED
    BY <1>2, <1>3, <2>1, All!FlushKeepsLoads,
       JoinedAssumptions
<1>7. CASE CommitNothing \/ CommitTrap
  <2>1. All!Marked(entries') /\ robHead' = robHead
    BY <1>7, WithResultMarksMore, JoinedRing DEF TopInv, BaseInv, CommitNothing, CommitTrap
  <2> QED
    BY <1>2, <1>3, <2>1, All!MarkKeepsLoads,
       JoinedAssumptions
<1>8. CASE CommitEcall
  <2>1. All!Marked(WithResult) /\ All!HeadReady(WithResult) /\ All!PopHead(WithResult)
    BY <1>8, WithResultMarksMore, JoinedRing DEF TopInv, BaseInv, CommitEcall
  <2> QED
    BY <1>2, <1>3, <2>1, All!PopKeepsLoads,
       JoinedAssumptions
<1>9. CASE \/ Branch \/ FetchStopped \/ FetchWaits \/ FetchReads \/ Decode \/ RenameStage
           \/ Issue \/ Execute
  BY <1>4, <1>9 DEF Branch, FetchStopped, FetchWaits, FetchReads, FetchFrame, Decode,
     RenameStage, Issue, Execute, robRing
<1> QED
  BY <1>5, <1>6, <1>7, <1>8, <1>9 DEF Cycle

-----------------------------------------------------------------------------
(* The step of the core keeps the invariant.                               *)

LEMMA StepIsCycle ==
    ASSUME TopStep
    PROVE  /\ Cycle /\ UNCHANGED portVars /\ loop = "step"
           /\ loop' = IF stage = "rob_commit" THEN "out" ELSE "step"
           /\ ~CommitHead => commitTrace' = commitTrace
  BY DEF TopStep, Cycle

LEMMA StepAnswerIsWord ==
    ASSUME TopInv PROVE AnswerIsWord
<1> SUFFICES ASSUME Answered
             PROVE  Head(dmemResp).data \in Word /\ Head(dmemResp).fault \in BOOLEAN
  BY DEF AnswerIsWord
<1>1. Head(dmemResp) \in AnyResponse /\ Head(dmemResp).tx \in Tx
  BY HeadTailProperties DEF Answered, TopInv, PortsInv
<1>2. Head(dmemResp).tx # StrayTx
  BY <1>1, TxIdsAssumption DEF Tx, StrayTx
<1> QED
  BY <1>1, <1>2, AnyType DEF DmemResponse

\* A load that was just sent keeps its entry until the commit stage.
LEMMA JustSentStays ==
    ASSUME TopInv, BaseInv', Cycle, JustSent, stage \notin {"branch", "lsu", "rob_commit"}
    PROVE  JustSent' /\ stage' \notin {"branch", "lsu"}
<1>1. /\ pendingRob' = pendingRob /\ dmemReq' = dmemReq
      /\ stage' \notin {"branch", "lsu"}
      /\ RobAllocate \/ entries' = entries
  BY DEF Cycle, Branch, LsuStage, FetchStopped, FetchWaits, FetchReads, FetchFrame, Decode,
     RenameStage, RobAllocate, Issue, Execute, CommitFlush, CommitNothing, CommitHead,
     CommitEcall, CommitTrap, CommitFrame, At, lsuVars, memoryVars, robRing
<1>2. CASE RobAllocate
  <2>1. entries' = entries \/ (~RobFull /\ \E u : entries' = [entries EXCEPT ![robTail] = u])
    BY <1>2 DEF RobAllocate, Allocate
  <2>2. ~RobFull => ~entries[robTail].valid
    BY RobSlotsAssumption
    DEF TopInv, BaseInv, RingInv, RobTypeOK, RobWindow, InWindow, RobFull, Slots
  <2>3. pendingRob \in Slots /\ entries \in [Slots -> Entry]
    BY DEF TopInv, BaseInv, RingInv, RobTypeOK, PortsInv
  <2>4. entries'[pendingRob] = entries[pendingRob]
    BY <2>1, <2>2, <2>3 DEF JustSent
  <2> QED
    BY <1>1, <2>4 DEF JustSent
<1>3. CASE entries' = entries
  BY <1>1, <1>3 DEF JustSent
<1> QED
  BY <1>1, <1>2, <1>3

\* The trace entry of a commit.
LEMMA TraceWritten ==
    ASSUME TopInv, TopStep, commitTrace = <<>>
    PROVE  commitTrace' \in Seq(Word) /\ Len(commitTrace') \in {0, 1}
<1>1. CASE commitTrace' = commitTrace
  BY <1>1
<1>2. CASE CommitHead /\ commitTrace' = Append(commitTrace, entries[robHead].uop.pc)
  <2>1. HeadReady(WithResult) /\ robHead \in Slots
    BY <1>2 DEF CommitHead, HeadWaits, TopInv, BaseInv, RingInv, RobTypeOK
  <2>2. entries[robHead].valid
    BY <2>1, WithResultMarksMore DEF HeadReady, Marked, OnlyMarked, TopInv, BaseInv
  <2>3. entries[robHead].uop.pc \in Word
    BY <2>1, <2>2 DEF TopInv, BaseInv, RingInv, MicroOp
  <2>4. commitTrace' = <<entries[robHead].uop.pc>>
    BY <1>2
  <2> QED
    BY <2>3, <2>4
<1> QED
  BY <1>1, <1>2 DEF TopStep

LEMMA TopStepKeepsPorts ==
    ASSUME TopInv, BaseInv', TopStep
    PROVE  PortsInv' /\ RoomInv'
<1>1. /\ Cycle /\ UNCHANGED portVars /\ loop = "step"
      /\ loop' = IF stage = "rob_commit" THEN "out" ELSE "step"
      /\ ~CommitHead => commitTrace' = commitTrace
  BY StepIsCycle
<1>2. PortsInv /\ commitTrace = <<>>
      /\ (stage \in {"branch", "lsu"} => dmemReq = <<>>)
      /\ (dmemReq # <<>> => JustSent)
      /\ Len(dmemReq) \in {0, 1}
  BY <1>1, RoomIs DEF TopInv, RoomInv
<1>3. CASE LsuStage
  <2>1. stage = "lsu" /\ stage' = "frontend" /\ LsuModule(aluResult)
    BY <1>3 DEF LsuStage, At
  <2>2. ~CommitHead
    BY <2>1 DEF CommitHead, CommitFrame, At
  <2>3. /\ dmemResp' = IF dmemResp = <<>> THEN <<>> ELSE Tail(dmemResp)
        /\ dmemRespIn' = dmemRespIn /\ dmemReqOut' = dmemReqOut /\ memory' = memory
    BY <1>1, <2>1 DEF LsuModule, portVars
  <2>4. AnswerIsWord /\ dmemResp' \in Seq(AnyResponse) /\ OneDue(Answers')
    BY <2>3, AnswerTaken
  <2>5. /\ loadPending' \in BOOLEAN /\ pendingTx' \in Tx /\ nextTx' \in Tx
        /\ pendingRob' \in Slots
        /\ \/ dmemReq' = dmemReq
           \/ /\ \E r \in DmemRequest : dmemReq' = Append(dmemReq, r)
              /\ entries'[pendingRob'].valid
              /\ entries'[pendingRob'].mem.sent
    BY <2>1, <2>4, LsuSends DEF TopInv
  <2>6. dmemReq' \in Seq(DmemRequest) /\ (dmemReq' = <<>> \/ JustSent')
    <3>1. CASE dmemReq' = dmemReq
      BY <1>2, <2>1, <3>1 DEF PortsInv
    <3>2. ASSUME NEW r \in DmemRequest, dmemReq' = Append(dmemReq, r),
                 entries'[pendingRob'].valid, entries'[pendingRob'].mem.sent
          PROVE  dmemReq' \in Seq(DmemRequest) /\ JustSent'
      <4>1. dmemReq' = <<r>>
        BY <1>2, <2>1, <3>2
      <4> QED
        BY <3>2, <4>1 DEF JustSent
    <3> QED
      BY <2>5, <3>1, <3>2
  <2>7. PortsInv'
    BY <1>1, <1>2, <2>1, <2>3, <2>4, <2>5, <2>6 DEF PortsInv
  <2>8. RoomInv'
    BY <1>1, <1>2, <2>1, <2>2, <2>6 DEF RoomInv
  <2> QED
    BY <2>7, <2>8
<1>4. CASE CommitHead
  <2>1. /\ stage = "rob_commit" /\ stage' = "branch" /\ loop' = "out"
        /\ UNCHANGED <<loadPending, pendingTx, pendingRob, dmemResp, memory>>
        /\ UNCHANGED <<dmemReqOut, dmemRespIn>>
    BY <1>1, <1>4 DEF CommitHead, CommitFrame, At, portVars
  <2>2. dmemReq' \in Seq(DmemRequest) /\ Len(dmemReq') \in {0, 1} /\ nextTx' \in Tx
    BY <1>1, <1>4, CommitHeadKeepsAll
  <2>3. PortsInv'
    BY <1>2, <2>1, <2>2 DEF PortsInv, Answers
  <2>4. RoomInv'
    BY <1>2, <2>1, <2>2, TraceWritten DEF RoomInv
  <2> QED
    BY <2>3, <2>4
<1>5. CASE ~LsuStage /\ ~CommitHead
  <2>1. UNCHANGED <<loadPending, pendingTx, pendingRob, nextTx, dmemReq, dmemResp, memory,
                    dmemReqOut, dmemRespIn, commitTrace>>
    BY <1>1, <1>5, QuietKeepsAll DEF Quiet, lsuVars, memoryVars, portVars
  <2>2. PortsInv'
    BY <1>1, <1>2, <2>1 DEF PortsInv, Answers
  <2>3. CASE stage = "rob_commit"
    <3>1. stage' = "branch"
      BY <1>1, <2>3 DEF Cycle, Branch, LsuStage, FetchStopped, FetchWaits, FetchReads,
         FetchFrame, Decode, RenameStage, RobAllocate, Issue, Execute, CommitFlush,
         CommitNothing, CommitHead, CommitEcall, CommitTrap, CommitFrame, At
    <3>2. RoomInv'
      BY <1>1, <1>2, <2>1, <2>3, <3>1, TraceWritten DEF RoomInv
    <3> QED
      BY <2>2, <3>2
  <2>4. CASE stage \in {"branch", "lsu"}
    BY <1>1, <1>2, <2>1, <2>2, <2>4 DEF RoomInv
  <2>5. CASE stage \notin {"branch", "lsu", "rob_commit"}
    <3>1. dmemReq' = <<>> \/ (JustSent' /\ stage' \notin {"branch", "lsu"})
      BY <1>1, <1>2, <2>1, <2>5, JustSentStays
    <3> QED
      BY <1>1, <1>2, <2>1, <2>2, <2>5, <3>1 DEF RoomInv
  <2> QED
    BY <2>3, <2>4, <2>5
<1> QED
  BY <1>3, <1>4, <1>5

LEMMA TopStepKeepsInv ==
    ASSUME TopInv, TopStep PROVE TopInv'
<1>1. Cycle /\ UNCHANGED portVars /\ loop = "step"
  BY StepIsCycle
<1>2. BaseInv'
  BY <1>1, StepAnswerIsWord, CycleKeepsBase DEF TopInv
<1>3. PortsInv' /\ RoomInv'
  BY <1>2, TopStepKeepsPorts
<1>4. All!LoadsInv'
  <2>1. CASE LsuStage
    <3>1. dmemReq = <<>>
      BY <1>1, <2>1, RoomIs DEF TopInv, LsuStage, At
    <3> QED
      BY <1>1, <1>2, <1>3, <2>1, <3>1, TopLsuKeepsLoads
  <2>2. CASE CommitHead
    BY <1>1, <2>2, CommitHeadKeepsAll
  <2>3. CASE ~LsuStage /\ ~CommitHead
    BY <1>1, <2>3, QuietKeepsAll
  <2> QED
    BY <2>1, <2>2, <2>3
<1> QED
  BY <1>2, <1>3, <1>4 DEF TopInv

-----------------------------------------------------------------------------
(* What happens around the core.                                           *)

\* The core, the joined streams and the inner request stream stay.
LEMMA AroundKeepsInv ==
    ASSUME TopInv, CoreFrame, Requests' = Requests, Answers' = Answers
    PROVE  BaseInv' /\ All!LoadsInv'
<1>1. BaseInv'
  BY OutsideKeepsBase DEF CoreFrame, TopInv
<1>2. All!LoadsInv'
  BY JoinedLoadsSame DEF CoreFrame, TopInv, robRing, lsuVars
<1> QED
  BY <1>1, <1>2

LEMMA TopInKeepsInv ==
    ASSUME TopInv, TopIn PROVE TopInv'
<1>1. /\ loop = "in" /\ loop' = "step" /\ CoreFrame
      /\ UNCHANGED <<dmemReq, dmemReqOut, commitTrace>>
  BY DEF TopIn
<1>2. PortsInv /\ stage = "branch" /\ dmemReq = <<>> /\ commitTrace = <<>>
  BY <1>1 DEF TopInv, RoomInv
<1>3. /\ dmemResp' \in Seq(AnyResponse) /\ dmemRespIn' \in Seq(AnyResponse)
      /\ Answers' = Answers
  <2>1. CASE UNCHANGED <<dmemResp, dmemRespIn>>
    BY <1>2, <2>1 DEF PortsInv, Answers
  <2>2. CASE /\ dmemRespIn # <<>>
             /\ dmemResp' = Append(dmemResp, Head(dmemRespIn))
             /\ dmemRespIn' = Tail(dmemRespIn)
    BY <1>2, <2>2, JoinMoved DEF PortsInv, Answers
  <2> QED
    BY <2>1, <2>2 DEF TopIn
<1>4. BaseInv' /\ All!LoadsInv'
  BY <1>1, <1>3, AroundKeepsInv DEF Requests
<1>5. PortsInv'
  BY <1>1, <1>2, <1>3 DEF PortsInv, CoreFrame, lsuVars
<1>6. RoomInv'
  BY <1>1, <1>2 DEF RoomInv, CoreFrame
<1> QED
  BY <1>4, <1>5, <1>6 DEF TopInv

LEMMA TopOutKeepsInv ==
    ASSUME TopInv, TopOut PROVE TopInv'
<1>1. /\ loop = "out" /\ loop' = "in" /\ CoreFrame
      /\ UNCHANGED <<dmemResp, dmemRespIn>>
      /\ commitTrace' = IF commitTrace = <<>> THEN <<>> ELSE Tail(commitTrace)
  BY DEF TopOut
<1>2. /\ PortsInv /\ stage = "branch" /\ Len(dmemReq) \in {0, 1}
      /\ commitTrace \in Seq(Word) /\ Len(commitTrace) \in {0, 1}
  BY <1>1 DEF TopInv, RoomInv
<1>3. /\ dmemReqOut' \in Seq(DmemRequest) /\ Len(dmemReqOut') <= PortDepth
      /\ dmemReq' = <<>> /\ Requests' = Requests
  <2>1. CASE dmemReq = <<>> /\ UNCHANGED <<dmemReq, dmemReqOut>>
    BY <1>2, <2>1 DEF PortsInv, Requests
  <2>2. CASE /\ dmemReq # <<>>
             /\ Len(dmemReqOut) < PortDepth
             /\ dmemReqOut' = Append(dmemReqOut, Head(dmemReq))
             /\ dmemReq' = Tail(dmemReq)
    <3>1. /\ dmemReqOut' \in Seq(DmemRequest) /\ Len(dmemReqOut') = Len(dmemReqOut) + 1
          /\ dmemReq' \in Seq(DmemRequest) /\ Len(dmemReq') = Len(dmemReq) - 1
          /\ Requests' = Requests
      <4>1. dmemReqOut \in Seq(DmemRequest) /\ dmemReq \in Seq(DmemRequest)
        BY <1>2 DEF PortsInv
      <4>2. Requests = dmemReqOut \o dmemReq /\ Requests' = dmemReqOut' \o dmemReq'
        BY DEF Requests
      <4>3. /\ Append(dmemReqOut, Head(dmemReq)) \in Seq(DmemRequest)
            /\ Len(Append(dmemReqOut, Head(dmemReq))) = Len(dmemReqOut) + 1
            /\ Tail(dmemReq) \in Seq(DmemRequest) /\ Len(Tail(dmemReq)) = Len(dmemReq) - 1
            /\ Append(dmemReqOut, Head(dmemReq)) \o Tail(dmemReq) = dmemReqOut \o dmemReq
        BY <2>2, <4>1, JoinMoved, Zenon
      <4> QED
        BY <2>2, <4>2, <4>3, Zenon
    <3>2. Len(dmemReq) \in Nat \ {0}
      BY <1>2, <2>2, EmptySeq DEF PortsInv
    <3>3. Len(dmemReq') = 0
      BY <1>2, <3>1, <3>2
    <3>4. Len(dmemReqOut) \in Nat /\ PortDepth \in Nat
      BY <1>2, LenProperties, DepthsAssumption DEF PortsInv
    <3>5. Len(dmemReqOut') <= PortDepth
      BY <2>2, <3>1, <3>4
    <3> QED
      BY <3>1, <3>3, <3>5, EmptySeq
  <2> QED
    BY <2>1, <2>2 DEF TopOut
<1>4. commitTrace' = <<>>
  <2>1. CASE commitTrace = <<>>
    BY <1>1, <2>1
  <2>2. CASE commitTrace # <<>>
    <3>1. Tail(commitTrace) \in Seq(Word) /\ Len(Tail(commitTrace)) = Len(commitTrace) - 1
      BY <1>2, <2>2, HeadTailProperties
    <3>2. Len(commitTrace) \in Nat \ {0}
      BY <1>2, <2>2, EmptySeq
    <3>3. Len(Tail(commitTrace)) = 0
      BY <1>2, <3>1, <3>2
    <3> QED
      BY <1>1, <2>2, <3>1, <3>3, EmptySeq
  <2> QED
    BY <2>1, <2>2
<1>5. BaseInv' /\ All!LoadsInv'
  BY <1>1, <1>3, AroundKeepsInv DEF Answers
<1>6. PortsInv'
  BY <1>1, <1>2, <1>3, EmptySeq DEF PortsInv, Answers, CoreFrame, lsuVars
<1>7. RoomInv'
  BY <1>1, <1>2, <1>3, <1>4 DEF RoomInv, CoreFrame
<1> QED
  BY <1>5, <1>6, <1>7 DEF TopInv

\* An answer, with one that nobody asked for in front of it or without.
LEMMA AnswerSent ==
    ASSUME PortsInv, Due(Answers) = <<>>, NEW due \in DmemResponse, NEW strays \in {<<>>, <<Stray>>},
           dmemRespIn' = dmemRespIn \o strays \o <<due>>, dmemResp' = dmemResp
    PROVE  /\ dmemRespIn' \in Seq(AnyResponse)
           /\ OneDue(Answers') /\ Due(Answers') = <<due>>
<1>1. /\ dmemResp \in Seq(AnyResponse) /\ dmemRespIn \in Seq(AnyResponse) /\ OneDue(Answers)
      /\ due \in AnyResponse /\ Stray \in AnyResponse /\ due.tx # StrayTx
      /\ Answers \in Seq(AnyResponse)
  BY AnyType, ConcatProperties DEF PortsInv, AnyResponse, Answers
<1>2. CASE strays = <<>>
  <2>1. dmemRespIn \o <<>> = dmemRespIn
    BY <1>1, ConcatEmptySeq
  <2>2. dmemRespIn' = Append(dmemRespIn, due)
    BY <1>1, <1>2, <2>1, AppendIsConcat
  <2>3. /\ Append(dmemRespIn, due) \in Seq(AnyResponse)
        /\ dmemResp \o Append(dmemRespIn, due) = Append(Answers, due)
    BY <1>1, JoinAppended DEF Answers
  <2>4. dmemRespIn' \in Seq(AnyResponse) /\ Answers' = Append(Answers, due)
    BY <2>2, <2>3 DEF Answers
  <2> QED
    BY <1>1, <2>4, DueAppend
<1>3. CASE strays = <<Stray>>
  <2> DEFINE t == Append(dmemRespIn, Stray)
  <2>1. /\ t \in Seq(AnyResponse) /\ dmemRespIn \o <<Stray>> = t
        /\ dmemResp \o t = Append(Answers, Stray)
    BY <1>1, AppendIsConcat, JoinAppended DEF Answers
  <2> HIDE DEF t
  <2>2. dmemRespIn' = Append(t, due)
    BY <1>1, <1>3, <2>1, AppendIsConcat
  <2>3. /\ Append(t, due) \in Seq(AnyResponse)
        /\ dmemResp \o Append(t, due) = Append(dmemResp \o t, due)
    <3>1. t \in Seq(AnyResponse)
      BY <2>1
    <3> QED
      BY <1>1, <3>1, JoinAppended
  <2>4. dmemRespIn' \in Seq(AnyResponse) /\ Answers' = Append(Append(Answers, Stray), due)
    BY <2>1, <2>2, <2>3 DEF Answers
  <2>5. OneDue(Append(Answers, Stray)) /\ Due(Append(Answers, Stray)) = <<>>
    BY <1>1, AnyType, DueAppend
  <2> QED
    BY <1>1, <2>4, <2>5, DueAppend
<1> QED
  BY <1>2, <1>3

LEMMA OuterMemoryKeepsInv ==
    ASSUME TopInv, OuterMemory PROVE TopInv'
<1> DEFINE req == Head(dmemReqOut)
           due == [tx |-> req.tx, data |-> memory[req.addr], fault |-> req.addr \in FaultAddrs]
<1>1. /\ UNCHANGED <<stage, program, branchVars, frontendVars, pipeVars, renameVars,
                     robRing, intRf, ioVars>>
      /\ UNCHANGED <<lsuVars, dmemReq, dmemResp, loop, commitTrace>>
      /\ dmemReqOut # <<>> /\ dmemReqOut' = Tail(dmemReqOut)
  BY DEF OuterMemory, MemoryStores, MemoryLoads, MemoryFrame
<1>2. BaseInv'
  BY <1>1, OutsideKeepsBase DEF TopInv
<1>3. RoomInv'
  BY <1>1 DEF TopInv, RoomInv, JustSent, robRing, lsuVars
<1>4. /\ PortsInv /\ req \in DmemRequest
      /\ dmemReqOut' \in Seq(DmemRequest) /\ Len(dmemReqOut') = Len(dmemReqOut) - 1
      /\ Len(dmemReqOut) \in Nat \ {0}
      /\ Requests # <<>> /\ Head(Requests) = req /\ Requests' = Tail(Requests)
      /\ Requests \in Seq(DmemRequest)
  <2>1. /\ PortsInv /\ dmemReqOut \in Seq(DmemRequest) /\ dmemReq \in Seq(DmemRequest)
        /\ dmemReqOut # <<>>
    BY <1>1 DEF TopInv, PortsInv
  <2>2. Requests = dmemReqOut \o dmemReq /\ Requests' = Tail(dmemReqOut) \o dmemReq
    BY <1>1 DEF Requests
  <2>3. /\ req \in DmemRequest /\ Tail(dmemReqOut) \in Seq(DmemRequest)
        /\ Len(Tail(dmemReqOut)) = Len(dmemReqOut) - 1 /\ Len(dmemReqOut) \in Nat \ {0}
    BY <2>1, HeadTailProperties, EmptySeq
  <2>4. Requests # <<>> /\ Head(Requests) = req /\ Requests' = Tail(Requests)
    BY <2>1, <2>2, JoinFirst, Zenon
  <2>5. Requests \in Seq(DmemRequest)
    BY <2>1, <2>2, ConcatProperties
  <2> QED
    BY <1>1, <2>1, <2>3, <2>4, <2>5
<1>5. /\ Len(dmemReqOut') <= PortDepth /\ due \in DmemResponse
  <2>1. Len(dmemReqOut) <= PortDepth /\ PortDepth \in Nat
    BY <1>4, DepthsAssumption DEF PortsInv
  <2>2. Len(dmemReqOut') <= PortDepth
    BY <1>4, <2>1
  <2>3. due \in DmemResponse
    BY <1>4 DEF PortsInv, DmemRequest, DmemResponse
  <2> QED
    BY <2>2, <2>3
<1>6. memory' \in [Word -> Word] /\ dmemRespIn' \in Seq(AnyResponse) /\ OneDue(Answers')
      /\ All!MemoryServes
  <2>1. CASE MemoryStores
    <3>1. req.isStore /\ memory' = [memory EXCEPT ![req.addr] = req.data]
          /\ dmemRespIn' = dmemRespIn
      BY <2>1 DEF MemoryStores
    <3>2. memory' \in [Word -> Word]
      BY <1>4, <3>1 DEF PortsInv, DmemRequest
    <3>3. Answers' = Answers
      BY <1>1, <3>1 DEF Answers
    <3>4. Len(Due(Answers)) < JoinedDepth
      <4>1. Len(Due(Answers)) <= 1 /\ Len(Due(Answers)) \in Nat
        BY <1>4, DueIs, LenProperties DEF PortsInv
      <4> QED
        BY <4>1, DepthsAssumption, DmemDepthAssumption DEF JoinedDepth
    <3>5. All!MemoryServes
      BY <1>4, <3>1, <3>3, <3>4 DEF All!MemoryServes
    <3> QED
      BY <1>4, <3>1, <3>2, <3>3, <3>5 DEF PortsInv
  <2>2. CASE MemoryLoads
    <3>1. /\ ~req.isStore /\ memory' = memory
          /\ \E strays \in {<<>>, <<Stray>>} : dmemRespIn' = dmemRespIn \o strays \o <<due>>
      BY <2>2 DEF MemoryLoads, Stray
    <3> HIDE DEF due
    <3>2. Due(Answers) = <<>>
      <4>1. 1 \in 1 .. Len(Requests) /\ ~Requests[1].isStore
        BY <1>4, <3>1, HeadTailProperties, EmptySeq
      <4> QED
        BY <4>1 DEF TopInv, All!LoadsInv, All!OneLoad
    <3>3. /\ dmemRespIn' \in Seq(AnyResponse)
          /\ OneDue(Answers') /\ Due(Answers') = <<due>>
      BY <1>1, <1>4, <1>5, <3>1, <3>2, AnswerSent
    <3>4. Len(Due(Answers)) < JoinedDepth /\ Due(Answers') = Append(Due(Answers), due)
      BY <3>2, <3>3, DepthsAssumption, DmemDepthAssumption DEF JoinedDepth
    <3>5. All!MemoryServes
      BY <1>4, <3>1, <3>4 DEF All!MemoryServes, due
    <3> QED
      BY <1>4, <3>1, <3>3, <3>5 DEF PortsInv
  <2> QED
    BY <2>1, <2>2 DEF OuterMemory
<1>7. PortsInv'
  BY <1>1, <1>4, <1>5, <1>6 DEF PortsInv, lsuVars
<1>8. All!LoadsInv'
  <2>1. /\ All!LsuTypeOK /\ All!RobTypeOK /\ All!LoadsInv
    BY JoinedLsuType, JoinedTypes DEF TopInv
  <2>2. All!LsuTypeOK'
    BY <1>2, <1>3, <1>7, JoinedLsuType, PTL
  <2>3. UNCHANGED <<entries, robHead, loadPending, pendingTx, pendingRob>>
    BY <1>1 DEF robRing, lsuVars
  <2> QED
    BY <1>6, <2>1, <2>2, <2>3, All!MemoryKeepsLoads,
       JoinedAssumptions
<1> QED
  BY <1>2, <1>3, <1>7, <1>8 DEF TopInv

-----------------------------------------------------------------------------
(* The theorems.                                                           *)

LEMMA TopInvInit == TopInit => TopInv
<1> SUFFICES ASSUME TopInit PROVE TopInv
  OBVIOUS
<1>1. /\ Init /\ loop = "in" /\ dmemReqOut = <<>> /\ dmemRespIn = <<>> /\ commitTrace = <<>>
      /\ dmemReq = <<>> /\ dmemResp = <<>> /\ stage = "branch"
  BY DEF TopInit, Init, LsuInit
<1>2. BaseInv
  BY <1>1, BaseInvInit
<1>3. Requests = <<>> /\ Answers = <<>> /\ Due(Answers) = <<>> /\ OneDue(Answers)
  BY <1>1 DEF Requests, Answers, Due, DueAt, OneDue
<1>4. PortsInv
  <2>1. 0 \in Tx /\ 1 \in Tx /\ 0 <= PortDepth
    BY TxIdsAssumption, DepthsAssumption DEF Tx
  <2>2. Len(<<>>) = 0
    OBVIOUS
  <2> QED
    BY <1>1, <1>3, <2>1, <2>2, Zeros, EmptySeq DEF PortsInv, Init, LsuInit
<1>5. RoomInv
  BY <1>1 DEF RoomInv
<1>6. All!LoadsInv
  <2>1. loadPending = FALSE /\ \A i \in Slots : ~entries[i].valid
    BY <1>1 DEF Init, LsuInit, RobInit, EmptyEntry
  <2>2. All!OneLoad
    BY <1>3, <2>1 DEF All!OneLoad
  <2> QED
    BY <1>3, <2>1, <2>2, JoinedData DEF All!LoadsInv, All!MemFields, All!NoOlderStore,
       All!LastRequest, All!AnswerRight, All!ValuesRight, All!Waits
<1> QED
  BY <1>2, <1>4, <1>5, <1>6 DEF TopInv

LEMMA TopInvStep == TopInv /\ [TopNext]_topVars => TopInv'
<1> SUFFICES ASSUME TopInv, [TopNext]_topVars PROVE TopInv'
  OBVIOUS
<1>1. CASE UNCHANGED topVars
  <2>1. /\ UNCHANGED vars /\ UNCHANGED <<loop, portVars, commitTrace>>
        /\ CoreFrame /\ Requests' = Requests /\ Answers' = Answers
    BY <1>1 DEF topVars, vars, portVars, memoryVars, CoreFrame, Requests, Answers
  <2>2. BaseInv' /\ All!LoadsInv'
    BY <2>1, AroundKeepsInv
  <2>3. PortsInv' /\ RoomInv'
    BY <2>1 DEF TopInv, PortsInv, RoomInv, JustSent, vars, portVars, lsuVars, memoryVars,
       robRing
  <2> QED
    BY <2>2, <2>3 DEF TopInv
<1> QED
  BY <1>1, TopInKeepsInv, TopStepKeepsInv, TopOutKeepsInv, OuterMemoryKeepsInv
  DEF TopNext, TopLoop

LEMMA TopInvAlways == TopSpec => []TopInv
  BY TopInvInit, TopInvStep, PTL DEF TopSpec

\* One request and one trace entry a time round are enough, whatever the depths: a
\* store that may leave the ROB finds the inner request stream empty, and a commit
\* finds room for its trace entry.
THEOREM TopKeepsUpAlways == TopSpec => []TopKeepsUp
<1>1. TopInv => TopKeepsUp
  <2> SUFFICES ASSUME TopInv, stage = "rob_commit"
               PROVE  /\ StoreLeaves => dmemReq = <<>>
                      /\ Len(commitTrace) < TraceDepth
    BY DEF TopKeepsUp
  <2>1. loop = "step" /\ commitTrace = <<>>
    BY DEF TopInv, PortsInv, RoomInv
  <2>2. Len(commitTrace) < TraceDepth
    BY <2>1, DepthsAssumption
  <2>3. ASSUME StoreLeaves PROVE dmemReq = <<>>
    <3>1. /\ HeadReady(WithResult) /\ CtrlIsSta(WithResult[robHead].uop.inst)
          /\ Marked(WithResult) /\ robHead \in Slots
      BY <2>3, WithResultMarksMore DEF StoreLeaves, TopInv, BaseInv, RingInv, RobTypeOK
    <3>2. entries[robHead].valid /\ entries[robHead].uop = WithResult[robHead].uop
      BY <3>1 DEF HeadReady, Marked, OnlyMarked
    <3> QED
      BY <2>1, <3>1, <3>2, StoreFindsRoom
  <2> QED
    BY <2>2, <2>3
<1> QED
  BY <1>1, TopInvAlways, PTL

LEMMA RangeOfConcat ==
    ASSUME NEW S, NEW s \in Seq(S), NEW t \in Seq(S)
    PROVE  Range(s \o t) = Range(s) \cup Range(t)
<1>1. /\ s \o t \in Seq(S) /\ Len(s \o t) = Len(s) + Len(t)
      /\ \A i \in 1 .. Len(s) + Len(t) : (s \o t)[i] =
            IF i <= Len(s) THEN s[i] ELSE t[i - Len(s)]
      /\ Len(s) \in Nat /\ Len(t) \in Nat
  BY ConcatProperties, LenProperties
<1>2. /\ Range(s) = {s[i] : i \in 1 .. Len(s)} /\ Range(t) = {t[i] : i \in 1 .. Len(t)}
      /\ Range(s \o t) = {(s \o t)[i] : i \in 1 .. Len(s) + Len(t)}
  BY <1>1, LenProperties DEF Range
<1>3. ASSUME NEW i \in 1 .. Len(s)
      PROVE  i \in 1 .. Len(s) + Len(t) /\ (s \o t)[i] = s[i]
  BY <1>1
<1>4. ASSUME NEW i \in 1 .. Len(t)
      PROVE  Len(s) + i \in 1 .. Len(s) + Len(t) /\ (s \o t)[Len(s) + i] = t[i]
  <2>1. /\ Len(s) + i \in 1 .. Len(s) + Len(t) /\ ~(Len(s) + i <= Len(s))
        /\ (Len(s) + i) - Len(s) = i
    BY <1>1
  <2> QED
    BY <1>1, <2>1
<1>5. ASSUME NEW i \in 1 .. Len(s) + Len(t)
      PROVE  (s \o t)[i] \in Range(s) \cup Range(t)
  <2>1. CASE i <= Len(s)
    BY <1>1, <1>2, <2>1
  <2>2. CASE ~(i <= Len(s))
    <3>1. i - Len(s) \in 1 .. Len(t)
      BY <1>1, <2>2
    <3> QED
      BY <1>1, <1>2, <2>2, <3>1
  <2> QED
    BY <2>1, <2>2
<1> QED
  BY <1>2, <1>3, <1>4, <1>5

\* However the request and its answer are spread over the streams, and with answers
\* of foreign ids between them: exactly the load that the LSU waits for is on its
\* way, and none when it waits for none.
THEOREM TopLoadAnswerComingAlways == TopSpec => []TopLoadAnswerComing
<1>1. TopInv => TopLoadAnswerComing
  <2> SUFFICES ASSUME TopInv PROVE TopLoadAnswerComing
    OBVIOUS
  <2> DEFINE asked == {r \in Range(dmemReq \o dmemReqOut) : ~r.isStore}
             given == {r \in Range(dmemResp \o dmemRespIn) : r.tx # StrayTx}
  <2>1. /\ dmemReq \in Seq(DmemRequest) /\ dmemReqOut \in Seq(DmemRequest)
        /\ Requests \in Seq(DmemRequest)
        /\ Answers \in Seq(AnyResponse) /\ OneDue(Answers)
    BY ConcatProperties DEF TopInv, PortsInv, Requests, OneDue
  <2>2. /\ asked = {r \in {Requests[n] : n \in 1 .. Len(Requests)} : ~r.isStore}
        /\ given = {r \in {Answers[n] : n \in 1 .. Len(Answers)} : r.tx # StrayTx}
    <3>1. Range(dmemReq \o dmemReqOut) = Range(Requests)
      <4>1. Range(dmemReq \o dmemReqOut) = Range(dmemReq) \cup Range(dmemReqOut)
        BY <2>1, RangeOfConcat
      <4>2. Range(dmemReqOut \o dmemReq) = Range(dmemReqOut) \cup Range(dmemReq)
        BY <2>1, RangeOfConcat
      <4> QED
        BY <4>1, <4>2 DEF Requests
    <3>2. /\ DOMAIN Requests = 1 .. Len(Requests) /\ DOMAIN Answers = 1 .. Len(Answers)
      BY <2>1, LenProperties
    <3> QED
      BY <3>1, <3>2 DEF Range, Answers
  <2>3. All!OneLoad
    BY DEF TopInv, All!LoadsInv
  <2>4. \A r \in asked : loadPending /\ r.tx = pendingTx
    BY <2>2, <2>3 DEF All!OneLoad
  <2>5. \A r \in given : loadPending /\ r.tx = pendingTx
    <3> SUFFICES ASSUME NEW n \in DueAt(Answers)
                 PROVE  loadPending /\ Answers[n].tx = pendingTx
      BY <2>2 DEF DueAt
    <3>1. Due(Answers) = <<Answers[n]>>
      BY <2>1, DueIs
    <3> QED
      BY <2>3, <3>1 DEF All!OneLoad
  <2>6. loadPending => asked # {} \/ given # {}
    <3>1. CASE Due(Answers) # <<>>
      <4>1. PICK n \in DueAt(Answers) : TRUE
        BY <3>1 DEF Due
      <4>2. Answers[n] \in given
        BY <2>2, <4>1 DEF DueAt
      <4> QED
        BY <4>2
    <3>2. CASE Due(Answers) = <<>> /\ loadPending
      <4>1. PICK n \in 1 .. Len(Requests) : ~Requests[n].isStore
        BY <2>3, <3>2 DEF All!OneLoad
      <4>2. Requests[n] \in asked
        BY <2>2, <4>1
      <4> QED
        BY <4>2
    <3> QED
      BY <3>1, <3>2
  <2> HIDE DEF asked, given
  <2>7. {r.tx : r \in asked} \cup {r.tx : r \in given}
            = IF loadPending THEN {pendingTx} ELSE {}
    BY <2>4, <2>5, <2>6
  <2> QED
    BY <2>7 DEF TopLoadAnswerComing, asked, given
<1> QED
  BY <1>1, TopInvAlways, PTL

\* A load that has its data has what memory will hold once every store in either
\* request stream has arrived: neither the second pair of streams nor an answer with
\* a foreign id lets a load take another word.
THEOREM TopLoadValueIsCurrentAlways == TopSpec => []TopLoadValueIsCurrent
<1>1. TopInv => TopLoadValueIsCurrent
  <2> SUFFICES ASSUME TopInv PROVE TopLoadValueIsCurrent
    OBVIOUS
  <2> DEFINE stores(a) == {n \in DOMAIN Requests : Requests[n].isStore /\ Requests[n].addr = a}
             arrived(a) == IF stores(a) = {} THEN memory[a] ELSE Requests[Max(stores(a))].data
  <2>1. ASSUME NEW a \in Word
        PROVE  All!ArchMem[a] = arrived(a)
    <3>1. All!StoresTo(a) = stores(a)
      BY DEF All!StoresTo
    <3>2. \A T : All!Max(T) = Max(T)
      BY DEF All!Max, Max
    <3>3. a \in All!Word
      BY JoinedData
    <3> HIDE DEF stores
    <3> QED
      BY <3>1, <3>2, <3>3 DEF All!ArchMem
  <2>2. ASSUME NEW i \in Slots, entries[i].valid, entries[i].mem.isLoad,
               entries[i].mem.completed, ~entries[i].exception
        PROVE  entries[i].mem.data = arrived(entries[i].mem.addr)
    <3>1. entries[i].mem.data = All!ArchMem[entries[i].mem.addr]
      BY <2>2, JoinedData DEF TopInv, All!LoadsInv, All!ValuesRight
    <3>2. entries[i].mem.addr \in Word
      BY DEF TopInv, BaseInv, RingInv, RobTypeOK, Entry, MemInfo
    <3> QED
      BY <2>1, <3>1, <3>2
  <2> QED
    BY <2>2 DEF TopLoadValueIsCurrent, Requests
<1> QED
  BY <1>1, TopInvAlways, PTL

\* Stray answers and the ports change nothing in the core's pipeline: nothing enters
\* the ROB behind a jump.
THEOREM TopNoWrongPath == TopSpec => []NoWrongPath
  BY TopInvAlways, BaseNoWrongPath, PTL DEF TopInv

=============================================================================
