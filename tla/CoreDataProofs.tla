--------------------------- MODULE CoreDataProofs ---------------------------
(***************************************************************************)
(* Theorems about the data of the core, for every ROB depth, every number  *)
(* of registers, every program, every depth of the data streams and any    *)
(* delay of the memory.                                                    *)
(*                                                                         *)
(* Loads: the load in flight is the one the LSU waits for, and a load that *)
(* has its data has what memory will hold once every store before it has   *)
(* arrived.                                                                *)
(*                                                                         *)
(* Registers: the map that renaming starts from is the committed one with  *)
(* the uops in flight laid over it, and no physical register is lost or    *)
(* held twice, as long as nothing happens that the code does not look at.  *)
(***************************************************************************)
EXTENDS CoreProofs, SequenceFacts, FiniteSetTheorems

WF == INSTANCE WellFoundedInduction

-----------------------------------------------------------------------------
(* The youngest store to a word.                                           *)

\* A finite set of numbers has a greatest one: the smallest distance from an upper
\* bound is well founded.
LEMMA MaxIs ==
    ASSUME NEW N \in Nat, NEW S \in SUBSET (1 .. N), S # {}
    PROVE  Max(S) \in S /\ \A n \in S : n <= Max(S)
<1> DEFINE T == {N - n : n \in S}
<1>0. \A n \in S : n \in Nat /\ N - n \in Nat
  OBVIOUS
<1>1. T \subseteq Nat /\ T # {}
  BY <1>0
<1>2. \E x \in T : \A y \in T : ~(<<y, x>> \in WF!OpToRel(<, Nat))
  BY <1>1, WF!WFMin, WF!NatLessThanWellFounded
<1>3. PICK x \in T : \A y \in T : ~(<<y, x>> \in WF!OpToRel(<, Nat))
  BY <1>2
<1>4. \A y \in T : ~(y < x)
  BY <1>1, <1>3 DEF WF!OpToRel
<1>5. PICK m \in S : x = N - m
  BY <1>3
<1>6. \A n \in S : m >= n
  <2> TAKE n \in S
  <2>1. n \in Nat /\ m \in Nat /\ ~(N - n < N - m)
    BY <1>0, <1>4, <1>5
  <2> QED
    BY <2>1
<1>7. Max(S) \in S /\ \A n \in S : Max(S) >= n
  BY <1>6 DEF Max
<1> QED
  BY <1>7

\* m is the place of the youngest store to a.
Youngest(a, m) == m \in StoresTo(a) /\ \A n \in StoresTo(a) : n <= m

LEMMA ArchMemIs ==
    ASSUME LsuTypeOK, NEW a \in Word
    PROVE  /\ StoresTo(a) = {} => ArchMem[a] = memory[a]
           /\ StoresTo(a) # {} => \E m \in StoresTo(a) : Youngest(a, m)
           /\ \A m \in StoresTo(a) : Youngest(a, m) => ArchMem[a] = dmemReq[m].data
<1>1. StoresTo(a) \in SUBSET (1 .. Len(dmemReq)) /\ Len(dmemReq) \in Nat
  <2>1. dmemReq \in Seq(DmemRequest)
    BY DEF LsuTypeOK
  <2>2. DOMAIN dmemReq = 1 .. Len(dmemReq) /\ Len(dmemReq) \in Nat
    BY <2>1, LenProperties
  <2> QED
    BY <2>2 DEF StoresTo
<1>2. ArchMem[a] = IF StoresTo(a) = {} THEN memory[a]
                   ELSE dmemReq[Max(StoresTo(a))].data
  BY DEF ArchMem
<1>3. CASE StoresTo(a) = {}
  BY <1>2, <1>3
<1>4. CASE StoresTo(a) # {}
  <2>1. Youngest(a, Max(StoresTo(a)))
    BY <1>1, <1>4, MaxIs DEF Youngest
  <2>2. ASSUME NEW m \in StoresTo(a), Youngest(a, m)
        PROVE  m = Max(StoresTo(a))
    <3>1. /\ m \in Nat /\ Max(StoresTo(a)) \in Nat
          /\ m <= Max(StoresTo(a)) /\ Max(StoresTo(a)) <= m
      BY <1>1, <2>1, <2>2 DEF Youngest
    <3> QED
      BY <3>1
  <2> QED
    BY <1>2, <1>4, <2>1, <2>2 DEF Youngest
<1> QED
  BY <1>3, <1>4

LEMMA ArchMemIsNext ==
    ASSUME LsuTypeOK', NEW a \in Word
    PROVE  /\ StoresTo(a)' = {} => ArchMem'[a] = memory'[a]
           /\ \A m \in StoresTo(a)' :
                 (\A n \in StoresTo(a)' : n <= m) => ArchMem'[a] = dmemReq'[m].data
<1>1. StoresTo(a)' \in SUBSET (1 .. Len(dmemReq')) /\ Len(dmemReq') \in Nat
  <2>1. dmemReq' \in Seq(DmemRequest)
    BY DEF LsuTypeOK
  <2>2. DOMAIN dmemReq' = 1 .. Len(dmemReq') /\ Len(dmemReq') \in Nat
    BY <2>1, LenProperties
  <2> QED
    BY <2>2 DEF StoresTo
<1>2. ArchMem'[a] = IF StoresTo(a)' = {} THEN memory'[a]
                    ELSE dmemReq'[Max(StoresTo(a)')].data
  BY DEF ArchMem
<1> DEFINE S == StoresTo(a)'
<1> HIDE DEF S
<1>3. ASSUME NEW m \in S, \A n \in S : n <= m
      PROVE  m = Max(S)
  <2>1. Max(S) \in S /\ \A n \in S : n <= Max(S)
    BY <1>1, <1>3, MaxIs DEF S
  <2>2. m \in Nat /\ Max(S) \in Nat /\ m <= Max(S) /\ Max(S) <= m
    BY <1>1, <1>3, <2>1 DEF S
  <2> QED
    BY <2>2
<1> QED
  BY <1>2, <1>3 DEF S

\* A load that is sent does not change what memory will hold.
LEMMA LoadSentKeepsArchMem ==
    ASSUME LsuTypeOK, LsuTypeOK', NEW r \in DmemRequest, ~r.isStore, ~DmemFull,
           dmemReq' = Append(dmemReq, r), memory' = memory, NEW a \in Word
    PROVE  ArchMem'[a] = ArchMem[a]
<1>1. /\ dmemReq \in Seq(DmemRequest) /\ Len(dmemReq) \in Nat
      /\ DOMAIN dmemReq = 1 .. Len(dmemReq) /\ DOMAIN dmemReq' = 1 .. Len(dmemReq')
      /\ Len(dmemReq') = Len(dmemReq) + 1
      /\ \A n \in 1 .. Len(dmemReq) : dmemReq'[n] = dmemReq[n]
      /\ dmemReq'[Len(dmemReq) + 1] = r
  BY RequestType, LenProperties DEF LsuTypeOK
<1>2. StoresTo(a)' = StoresTo(a)
  BY <1>1 DEF StoresTo
<1>3. CASE StoresTo(a) = {}
  BY <1>2, <1>3, ArchMemIs, ArchMemIsNext
<1>4. CASE StoresTo(a) # {}
  <2>1. PICK m \in StoresTo(a) : Youngest(a, m)
    BY <1>4, ArchMemIs
  <2>2. dmemReq'[m] = dmemReq[m]
    BY <1>1 DEF StoresTo
  <2>3. ArchMem[a] = dmemReq[m].data
    BY <2>1, ArchMemIs
  <2>4. m \in StoresTo(a)' /\ \A n \in StoresTo(a)' : n <= m
    BY <1>2, <2>1 DEF Youngest
  <2>5. ArchMem'[a] = dmemReq'[m].data
    BY <2>4, ArchMemIsNext
  <2> QED
    BY <2>2, <2>3, <2>5
<1> QED
  BY <1>3, <1>4

\* Nor does the memory when it serves a request.
LEMMA ServedKeepsArchMem ==
    ASSUME LsuTypeOK, LsuTypeOK', MemoryServes, NEW a \in Word
    PROVE  ArchMem'[a] = ArchMem[a]
<1> DEFINE req == dmemReq[1]
<1>1. /\ dmemReq' = Tail(dmemReq) /\ dmemReq # <<>>
      /\ IF req.isStore THEN memory' = [memory EXCEPT ![req.addr] = req.data]
                        ELSE memory' = memory
  BY OldestRequest DEF MemoryServes
<1>2. /\ dmemReq \in Seq(DmemRequest) /\ Len(dmemReq) \in Nat \ {0}
      /\ DOMAIN dmemReq = 1 .. Len(dmemReq) /\ DOMAIN dmemReq' = 1 .. Len(dmemReq')
      /\ Len(dmemReq') = Len(dmemReq) - 1
      /\ \A n \in 1 .. Len(dmemReq') : dmemReq'[n] = dmemReq[n + 1]
      /\ req \in DmemRequest
  BY <1>1, OldestRequest, LenProperties DEF LsuTypeOK
<1>3. \A n \in 1 .. Len(dmemReq') : n \in StoresTo(a)' <=> n + 1 \in StoresTo(a)
  BY <1>2 DEF StoresTo
<1>4. StoresTo(a)' \subseteq 1 .. Len(dmemReq') /\ StoresTo(a) \subseteq 1 .. Len(dmemReq)
  BY <1>2 DEF StoresTo
<1>5. CASE StoresTo(a)' # {}
  <2>1. PICK k \in StoresTo(a)' : TRUE
    BY <1>5
  <2>2. StoresTo(a) # {}
    BY <1>3, <1>4, <2>1
  <2>3. PICK m \in StoresTo(a) : Youngest(a, m)
    BY <2>2, ArchMemIs
  <2>4. k \in 1 .. Len(dmemReq') /\ k + 1 \in StoresTo(a) /\ k + 1 <= m /\ m \in 1 .. Len(dmemReq)
    BY <1>3, <1>4, <2>1, <2>3 DEF Youngest
  <2>5. m - 1 \in 1 .. Len(dmemReq') /\ (m - 1) + 1 = m
    BY <1>2, <2>4
  <2>6. m - 1 \in StoresTo(a)'
    BY <1>3, <2>3, <2>5
  <2>7. \A n \in StoresTo(a)' : n <= m - 1
    <3> TAKE n \in StoresTo(a)'
    <3>1. n \in 1 .. Len(dmemReq') /\ n + 1 \in StoresTo(a)
      BY <1>3, <1>4
    <3>2. n + 1 <= m
      BY <2>3, <3>1 DEF Youngest
    <3> QED
      BY <2>4, <3>1, <3>2
  <2>8. ArchMem'[a] = dmemReq'[m - 1].data
    BY <2>6, <2>7, ArchMemIsNext
  <2>9. dmemReq'[m - 1] = dmemReq[m]
    BY <1>2, <2>5
  <2> QED
    BY <2>3, <2>8, <2>9, ArchMemIs
<1>6. CASE StoresTo(a)' = {} /\ StoresTo(a) = {}
  <2>1. ~(req.isStore /\ req.addr = a)
    BY <1>2, <1>6 DEF StoresTo
  <2>2. memory'[a] = memory[a]
    BY <1>1, <2>1 DEF LsuTypeOK
  <2> QED
    BY <1>6, <2>2, ArchMemIs, ArchMemIsNext
<1>7. CASE StoresTo(a)' = {} /\ StoresTo(a) # {}
  <2>1. PICK m \in StoresTo(a) : Youngest(a, m)
    BY <1>7, ArchMemIs
  <2>2. m = 1
    <3>1. m \in 1 .. Len(dmemReq)
      BY <1>4
    <3>2. m # 1 => m - 1 \in 1 .. Len(dmemReq') /\ (m - 1) + 1 = m
      BY <1>2, <3>1
    <3> QED
      BY <1>3, <1>7, <3>2
  <2>3. req.isStore /\ req.addr = a
    BY <2>1, <2>2 DEF StoresTo
  <2>4. memory'[a] = req.data
    BY <1>1, <2>3 DEF LsuTypeOK
  <2> QED
    BY <1>7, <2>1, <2>2, <2>4, ArchMemIs, ArchMemIsNext
<1> QED
  BY <1>5, <1>6, <1>7

-----------------------------------------------------------------------------
(* The inductive invariant.  That a completed load is right is not         *)
(* inductive: its answer must have been, so the load must have been the    *)
(* last request when it was sent, and no store may leave the ROB after it  *)
(* while it is there.                                                      *)

\* At most one load is in flight, as a request or as an answer, and exactly when
\* load_response_pending is set; it carries the pending transaction id.
OneLoad ==
    /\ \A m, n \in 1 .. Len(dmemReq) : ~dmemReq[m].isStore /\ ~dmemReq[n].isStore => m = n
    /\ \A n \in 1 .. Len(dmemReq) : ~dmemReq[n].isStore =>
          loadPending /\ dmemReq[n].tx = pendingTx /\ dmemResp = <<>>
    /\ dmemResp # <<>> => loadPending /\ Len(dmemResp) = 1 /\ dmemResp[1].tx = pendingTx
    /\ loadPending => dmemResp # <<>> \/ \E n \in 1 .. Len(dmemReq) : ~dmemReq[n].isStore

\* The entries' memory fields agree with their uops and with the LSU, which waits
\* for the load in "slot" if it waits.
MemFields(es, waits, slot) ==
    \A i \in Slots : es[i].valid =>
        /\ es[i].mem.isLoad => es[i].uop.inst.op = "load"
        /\ es[i].mem.isStore => es[i].uop.inst.op = "store"
        /\ es[i].mem.sent => es[i].mem.isLoad
        /\ es[i].mem.isLoad /\ es[i].mem.completed => es[i].mem.sent
        /\ es[i].mem.sent => (~es[i].mem.completed <=> waits /\ slot = i)

\* How far a slot is from the head.
Pos(i) == IF i >= robHead THEN i - robHead ELSE i + RobSlots - robHead

\* No store is in front of a load that was sent.
NoOlderStore(es) ==
    \A i, j \in Slots :
        es[i].valid /\ es[i].mem.sent /\ es[j].valid /\ Pos(j) < Pos(i)
            => ~CtrlIsSta(es[j].uop.inst)

\* The entry waits for its data.
Waits(e) == e.valid /\ e.mem.sent /\ ~e.mem.completed

\* The request of the entry that waits is the last one.
LastRequest(es) ==
    \A i \in Slots : Waits(es[i]) =>
        \A n \in 1 .. Len(dmemReq) : ~dmemReq[n].isStore =>
            n = Len(dmemReq) /\ dmemReq[n].addr = es[i].mem.addr

\* The answer that the entry waits for is right.
AnswerRight(es) ==
    \A i \in Slots : Waits(es[i]) /\ dmemResp # <<>> /\ ~dmemResp[1].fault
        => dmemResp[1].data = ArchMem[es[i].mem.addr]

\* The data in the entries is right.
ValuesRight(es) ==
    \A i \in Slots :
        es[i].valid /\ es[i].mem.isLoad /\ es[i].mem.completed /\ ~es[i].exception
            => es[i].mem.data = ArchMem[es[i].mem.addr]

LoadsInv ==
    /\ OneLoad
    /\ MemFields(entries, loadPending, pendingRob)
    /\ NoOlderStore(entries)
    /\ LastRequest(entries)
    /\ AnswerRight(entries)
    /\ ValuesRight(entries)

-----------------------------------------------------------------------------
(* lsu_module.                                                             *)

\* The memory fields of an entry whose load returns.
LEMMA ReturnedMem ==
    ASSUME NEW e \in Entry, NEW resp, resp.data \in Word
    PROVE  LET m == Returned(e, resp).mem
           IN  /\ m.isLoad = e.mem.isLoad /\ m.isStore = e.mem.isStore
               /\ m.sent = e.mem.sent /\ m.completed = TRUE
               /\ m.addr = e.mem.addr
               /\ ~resp.fault => m.data = resp.data
<1>1. e.mem \in MemInfo
  BY DEF Entry
<1> QED
  BY <1>1 DEF Returned, Entry, MemInfo

\* What a returning load leaves of its entry, and the exception it adds.
LEMMA ReturnedStatus ==
    ASSUME NEW e \in Entry, NEW resp
    PROVE  /\ Returned(e, resp).valid = e.valid
           /\ Returned(e, resp).uop = e.uop
           /\ Returned(e, resp).exception = (e.exception \/ resp.fault)
  BY DEF Returned, Entry

\* The memory fields of an entry that gets an address.
LEMMA AddressedMem ==
    ASSUME NEW e \in Entry, NEW r \in AluResult
    PROVE  LET m == Addressed(e, r).mem
           IN  /\ m.isLoad = r.isLoad /\ m.isStore = r.isStore
               /\ m.sent = e.mem.sent
               /\ m.completed = (e.mem.completed \/ r.isStore)
<1>1. e.mem \in MemInfo
  BY DEF Entry
<1> QED
  BY <1>1 DEF Addressed, Entry, MemInfo

\* Reading the answer completes the load that waits for it, if it is still there.
LEMMA ResponseStep ==
    ASSUME entries \in [Slots -> Entry], LsuTypeOK, LoadsInv
    PROVE  /\ MemFields(WithResponse, loadPending /\ ~Answered, pendingRob)
           /\ NoOlderStore(WithResponse)
           /\ LastRequest(WithResponse)
           /\ ValuesRight(WithResponse)
           /\ \A i \in Slots : entries[i].valid /\ entries[i].mem = NoMem
                                  => WithResponse[i] = entries[i]
<1> DEFINE e1 == WithResponse
           sp == loadPending /\ ~Answered
<1>1. /\ entries \in [Slots -> Entry] /\ LsuTypeOK /\ AnswerIsWord /\ pendingRob \in Slots
      /\ loadPending \in BOOLEAN
  BY TypedAnswer DEF LsuTypeOK
<1>2. dmemResp # <<>> => Answered /\ Head(dmemResp) = dmemResp[1]
  BY <1>1 DEF LoadsInv, OneLoad, Answered, LsuTypeOK
<1>3. CASE ~Completes
  <2>1. e1 = entries
    BY <1>3 DEF WithResponse
  <2>2. MemFields(entries, sp, pendingRob)
    <3> SUFFICES ASSUME NEW i \in Slots, entries[i].valid, entries[i].mem.sent
                 PROVE  ~entries[i].mem.completed <=> sp /\ pendingRob = i
      BY DEF LoadsInv, MemFields
    <3>1. CASE Answered
      BY <1>3, <3>1 DEF LoadsInv, MemFields, Completes
    <3>2. CASE ~Answered
      BY <3>2 DEF LoadsInv, MemFields
    <3> QED
      BY <3>1, <3>2
  <2> QED
    BY <2>1, <2>2 DEF LoadsInv
<1>4. CASE Completes
  <2> DEFINE p == pendingRob
             f == Returned(entries[p], Head(dmemResp))
             d == Head(dmemResp).data
  <2>1. /\ Answered /\ ~sp /\ dmemResp # <<>> /\ Head(dmemResp) = dmemResp[1]
        /\ entries[p].valid /\ entries[p].mem.isLoad /\ entries[p].mem.sent
        /\ loadPending
    BY <1>2, <1>4 DEF Completes, Answered
  <2>2. d \in Word /\ Head(dmemResp).fault \in BOOLEAN /\ entries[p] \in Entry
    BY <1>1, <2>1 DEF AnswerIsWord
  <2>3. e1 = [entries EXCEPT ![p] = f]
    BY <1>4 DEF WithResponse
  <2>4. /\ f.valid = entries[p].valid /\ f.uop = entries[p].uop
        /\ f.exception = (entries[p].exception \/ Head(dmemResp).fault)
        /\ f.mem.isLoad = entries[p].mem.isLoad /\ f.mem.isStore = entries[p].mem.isStore
        /\ f.mem.sent = entries[p].mem.sent /\ f.mem.completed = TRUE
        /\ f.mem.addr = entries[p].mem.addr
        /\ ~Head(dmemResp).fault => f.mem.data = d
    <3> DEFINE e == entries[p]
               resp == Head(dmemResp)
    <3>1. e \in Entry /\ resp.data \in Word /\ resp.data = d /\ resp.fault \in BOOLEAN
      BY <2>2
    <3>2. f = Returned(e, resp)
      OBVIOUS
    <3> HIDE DEF e, f, d, resp
    <3>3. f.valid = e.valid /\ f.uop = e.uop /\ f.exception = (e.exception \/ resp.fault)
      <4>1. /\ Returned(e, resp).valid = e.valid
            /\ Returned(e, resp).uop = e.uop
            /\ Returned(e, resp).exception = (e.exception \/ resp.fault)
        BY <3>1, ReturnedStatus
      <4> QED
        BY <3>2, <4>1, Zenon
    <3>4. /\ f.mem.isLoad = e.mem.isLoad /\ f.mem.isStore = e.mem.isStore
          /\ f.mem.sent = e.mem.sent /\ f.mem.completed = TRUE
          /\ f.mem.addr = e.mem.addr /\ (~resp.fault => f.mem.data = d)
      <4>1. LET m == Returned(e, resp).mem
            IN  /\ m.isLoad = e.mem.isLoad /\ m.isStore = e.mem.isStore
                /\ m.sent = e.mem.sent /\ m.completed = TRUE
                /\ m.addr = e.mem.addr
                /\ ~resp.fault => m.data = resp.data
        BY <3>1, ReturnedMem
      <4> QED
        BY <3>1, <3>2, <4>1
    <3> QED
      BY <3>3, <3>4 DEF e, resp
  <2> HIDE DEF f, d
  <2>6. Waits(entries[p])
    BY <1>1, <2>1 DEF LoadsInv, MemFields, Waits
  <2>7. ~f.exception => f.mem.data = ArchMem[f.mem.addr]
    BY <1>1, <2>1, <2>2, <2>4, <2>6 DEF LoadsInv, AnswerRight, d
  <2>8. \A i \in Slots : i # p => e1[i] = entries[i]
    BY <1>1, <2>3
  <2>9. e1[p] = f
    BY <1>1, <2>3
  <2> HIDE DEF e1
  <2>10. MemFields(e1, sp, p)
    <3> SUFFICES ASSUME NEW i \in Slots, e1[i].valid
                 PROVE  /\ e1[i].mem.isLoad => e1[i].uop.inst.op = "load"
                        /\ e1[i].mem.isStore => e1[i].uop.inst.op = "store"
                        /\ e1[i].mem.sent => e1[i].mem.isLoad
                        /\ e1[i].mem.isLoad /\ e1[i].mem.completed => e1[i].mem.sent
                        /\ e1[i].mem.sent => (~e1[i].mem.completed <=> sp /\ p = i)
      BY DEF MemFields
    <3>1. CASE i = p
      BY <2>1, <2>4, <2>9, <3>1 DEF LoadsInv, MemFields
    <3>2. CASE i # p
      BY <2>8, <3>2 DEF LoadsInv, MemFields
    <3> QED
      BY <3>1, <3>2
  <2>11. NoOlderStore(e1)
    <3>1. \A i \in Slots : /\ e1[i].valid = entries[i].valid /\ e1[i].uop = entries[i].uop
                           /\ e1[i].mem.sent = entries[i].mem.sent
      BY <2>4, <2>8, <2>9
    <3> QED
      BY <3>1 DEF LoadsInv, NoOlderStore
  <2>12. LastRequest(e1)
    <3>1. ~Waits(e1[p])
      BY <2>4, <2>9 DEF Waits
    <3> QED
      BY <2>8, <3>1 DEF LoadsInv, LastRequest
  <2>13. ValuesRight(e1)
    BY <2>7, <2>8, <2>9 DEF LoadsInv, ValuesRight
  <2>14. entries[p].mem # NoMem
    BY <2>1 DEF NoMem
  <2> QED
    BY <2>8, <2>10, <2>11, <2>12, <2>13, <2>14 DEF e1
<1> QED
  BY <1>3, <1>4

\* Taking an address touches an entry without memory fields, and leaves a load
\* unsent and a store complete.
LEMMA AddressStep ==
    ASSUME NEW es \in [Slots -> Entry], aluResult \in AluResult \cup {NoResult},
           TakesAddress(es) => /\ es[aluResult.uop.rob].uop = aluResult.uop
                               /\ es[aluResult.uop.rob].mem = NoMem,
           ResultInv, NEW waits \in BOOLEAN, NEW slot \in Slots,
           MemFields(es, waits, slot), NoOlderStore(es), LastRequest(es), ValuesRight(es)
    PROVE  /\ MemFields(WithAddress(es, aluResult), waits, slot)
           /\ NoOlderStore(WithAddress(es, aluResult))
           /\ LastRequest(WithAddress(es, aluResult))
           /\ ValuesRight(WithAddress(es, aluResult))
           /\ AnswerRight(es) => AnswerRight(WithAddress(es, aluResult))
<1> DEFINE e2 == WithAddress(es, aluResult)
<1>1. CASE ~TakesAddress(es)
  BY <1>1, AddressIs
<1>2. CASE TakesAddress(es)
  <2> DEFINE s == aluResult.uop.rob
             f == Addressed(es[s], aluResult)
  <2>1. /\ aluResult \in AluResult /\ s \in Slots /\ e2 = [es EXCEPT ![s] = f]
    BY <1>2, AddressIs
  <2>2. /\ es[s].valid /\ es[s].uop = aluResult.uop /\ es[s].mem = NoMem /\ es[s] \in Entry
    BY <1>2, <2>1 DEF TakesAddress
  <2>3. /\ f.valid = es[s].valid /\ f.uop = es[s].uop
        /\ f.mem.isLoad = aluResult.isLoad /\ f.mem.isStore = aluResult.isStore
        /\ f.mem.sent = es[s].mem.sent
        /\ f.mem.completed = (es[s].mem.completed \/ aluResult.isStore)
    <3> DEFINE e == es[s]
    <3>1. e \in Entry /\ aluResult \in AluResult /\ f = Addressed(e, aluResult)
      BY <2>1, <2>2
    <3> HIDE DEF e, f
    <3>2. /\ f.valid = e.valid /\ f.uop = e.uop
          /\ f.mem.isLoad = aluResult.isLoad /\ f.mem.isStore = aluResult.isStore
          /\ f.mem.sent = e.mem.sent
          /\ f.mem.completed = (e.mem.completed \/ aluResult.isStore)
      <4>1. f.valid = e.valid /\ f.uop = e.uop
        BY <3>1, AddressedType
      <4> QED
        BY <3>1, <4>1, AddressedMem
    <3> QED
      BY <3>2 DEF e
  <2>4. es[s].mem.sent = FALSE /\ es[s].mem.completed = FALSE
    BY <2>2 DEF NoMem
  <2>5. /\ aluResult.isLoad => aluResult.uop.inst.op = "load"
        /\ aluResult.isStore => aluResult.uop.inst.op = "store"
    BY <1>2 DEF TakesAddress, ResultInv
  <2> HIDE DEF f, s, e2
  <2>6. /\ ~f.mem.sent /\ ~(f.mem.isLoad /\ f.mem.completed)
        /\ f.mem.isLoad => f.uop.inst.op = "load"
        /\ f.mem.isStore => f.uop.inst.op = "store"
    BY <2>2, <2>3, <2>4, <2>5
  <2>7. e2[s] = f /\ \A i \in Slots : i # s => e2[i] = es[i]
    BY <2>1
  <2>8. MemFields(e2, waits, slot)
    <3> SUFFICES ASSUME NEW i \in Slots, e2[i].valid
                 PROVE  /\ e2[i].mem.isLoad => e2[i].uop.inst.op = "load"
                        /\ e2[i].mem.isStore => e2[i].uop.inst.op = "store"
                        /\ e2[i].mem.sent => e2[i].mem.isLoad
                        /\ e2[i].mem.isLoad /\ e2[i].mem.completed => e2[i].mem.sent
                        /\ e2[i].mem.sent => (~e2[i].mem.completed <=> waits /\ slot = i)
      BY DEF MemFields
    <3>1. CASE i = s
      BY <2>6, <2>7, <3>1
    <3>2. CASE i # s
      BY <2>7, <3>2 DEF MemFields
    <3> QED
      BY <3>1, <3>2
  <2>9. NoOlderStore(e2)
    <3>1. \A i \in Slots : /\ e2[i].valid = es[i].valid /\ e2[i].uop = es[i].uop
                           /\ e2[i].mem.sent => es[i].mem.sent
      BY <2>3, <2>6, <2>7
    <3> QED
      BY <3>1 DEF NoOlderStore
  <2>10. LastRequest(e2) /\ ValuesRight(e2) /\ (AnswerRight(es) => AnswerRight(e2))
    <3>1. ~Waits(e2[s]) /\ ~(e2[s].mem.isLoad /\ e2[s].mem.completed)
      BY <2>6, <2>7 DEF Waits
    <3> QED
      BY <2>7, <3>1 DEF LastRequest, ValuesRight, AnswerRight
  <2> QED
    BY <2>8, <2>9, <2>10 DEF e2
<1> QED
  BY <1>1, <1>2

\* A slot and its distance from the head.
LEMMA PosIs ==
    ASSUME robHead \in Slots
    PROVE  /\ \A k \in Slots : Pos(SlotFromHead(k)) = k
           /\ \A j \in Slots : Pos(j) \in Slots /\ SlotFromHead(Pos(j)) = j
<1>1. RobSlots \in Nat \ {0} /\ robHead \in 0 .. RobSlots - 1
  BY RobSlotsAssumption DEF Slots
<1>2. ASSUME NEW k \in Slots
      PROVE  SlotFromHead(k) = IF robHead + k < RobSlots THEN robHead + k
                               ELSE robHead + k - RobSlots
  BY Ring!SlotAfter, RingAssumptions DEF SlotFromHead, Slots, Ring!Slots
<1>3. ASSUME NEW k \in Slots
      PROVE  Pos(SlotFromHead(k)) = k
  BY <1>1, <1>2 DEF Pos, Slots
<1>4. ASSUME NEW j \in Slots
      PROVE  Pos(j) \in Slots
  BY <1>1 DEF Pos, Slots
<1>5. ASSUME NEW j \in Slots
      PROVE  SlotFromHead(Pos(j)) = j
  <2>1. SlotFromHead(Pos(j)) = IF robHead + Pos(j) < RobSlots THEN robHead + Pos(j)
                               ELSE robHead + Pos(j) - RobSlots
    BY <1>2, <1>4
  <2> QED
    BY <1>1, <2>1 DEF Pos, Slots
<1> QED
  BY <1>3, <1>4, <1>5

\* No call of lsu_module leaves an answer unread, and the LSU waits on only for a
\* load that the memory still has to answer.
LEMMA AnswerRead ==
    ASSUME LsuTypeOK, OneLoad, dmemResp' = IF dmemResp = <<>> THEN <<>> ELSE Tail(dmemResp)
    PROVE  /\ dmemResp' = <<>>
           /\ dmemResp # <<>> => Answered
           /\ loadPending /\ ~Answered <=>
                 \E n \in 1 .. Len(dmemReq) : ~dmemReq[n].isStore
<1>1. dmemResp \in Seq(DmemResponse)
  BY DEF LsuTypeOK
<1>2. CASE dmemResp = <<>>
  BY <1>2 DEF OneLoad, Answered
<1>3. CASE dmemResp # <<>>
  <2>1. Len(dmemResp) = 1 /\ Head(dmemResp) = dmemResp[1] /\ loadPending
    BY <1>1, <1>3 DEF OneLoad
  <2>2. Tail(dmemResp) = <<>>
    <3>1. Tail(dmemResp) \in Seq(DmemResponse) /\ Len(Tail(dmemResp)) = 0
      BY <1>1, <1>3, <2>1, HeadTailProperties
    <3> QED
      BY <3>1, EmptySeq
  <2>3. Answered
    BY <1>3, <2>1 DEF OneLoad, Answered
  <2> QED
    BY <1>3, <2>2, <2>3 DEF OneLoad
<1> QED
  BY <1>2, <1>3

\* No load goes out.
LEMMA HoldStep ==
    ASSUME LsuTypeOK, OneLoad, NEW es,
           MemFields(es, loadPending /\ ~Answered, pendingRob),
           NoOlderStore(es), LastRequest(es), ValuesRight(es),
           entries' = es, loadPending' = (loadPending /\ ~Answered),
           pendingTx' = IF Answered THEN 0 ELSE pendingTx,
           dmemResp' = IF dmemResp = <<>> THEN <<>> ELSE Tail(dmemResp),
           UNCHANGED <<pendingRob, dmemReq, memory, robHead>>
    PROVE  LoadsInv'
<1>1. /\ dmemResp' = <<>>
      /\ loadPending' <=> \E n \in 1 .. Len(dmemReq) : ~dmemReq[n].isStore
  BY AnswerRead
<1>2. OneLoad'
  <2>1. loadPending' => pendingTx' = pendingTx
    OBVIOUS
  <2> QED
    BY <1>1, <2>1 DEF OneLoad
<1>3. MemFields(entries, loadPending, pendingRob)'
  BY DEF MemFields
<1>4. NoOlderStore(entries)' /\ LastRequest(entries)'
  BY DEF NoOlderStore, LastRequest, Pos, Waits
<1>5. ArchMem' = ArchMem
  BY DEF ArchMem, StoresTo
<1>6. AnswerRight(entries)' /\ ValuesRight(entries)'
  BY <1>1, <1>5 DEF AnswerRight, ValuesRight
<1> QED
  BY <1>2, <1>3, <1>4, <1>6 DEF LoadsInv

\* The load in the k-th slot goes out: no store is in front of it, and no other
\* load is in flight.
LEMMA SendStep ==
    ASSUME LsuTypeOK, LsuTypeOK', OneLoad, robHead \in Slots,
           NEW es \in [Slots -> Entry], NEW k \in Slots,
           MemFields(es, loadPending /\ ~Answered, pendingRob),
           NoOlderStore(es), LastRequest(es), ValuesRight(es),
           ~(loadPending /\ ~Answered), MaySend(es, k),
           entries' = [es EXCEPT ![SlotFromHead(k)].mem.sent = TRUE],
           loadPending' = TRUE, pendingTx' = nextTx, pendingRob' = SlotFromHead(k),
           dmemReq' = Append(dmemReq, [isStore |-> FALSE,
                                       addr |-> es[SlotFromHead(k)].mem.addr,
                                       data |-> 0, tx |-> nextTx]),
           dmemResp' = IF dmemResp = <<>> THEN <<>> ELSE Tail(dmemResp),
           UNCHANGED <<memory, robHead>>
    PROVE  LoadsInv'
<1> DEFINE i == SlotFromHead(k)
           e == es[i]
           f == [e EXCEPT !.mem = [e.mem EXCEPT !.sent = TRUE]]
           r == [isStore |-> FALSE, addr |-> e.mem.addr, data |-> 0, tx |-> nextTx]
<1>1. /\ i \in Slots /\ e \in Entry /\ e.mem \in MemInfo
      /\ Pos(i) = k /\ \A j \in Slots : Pos(j) \in Slots /\ SlotFromHead(Pos(j)) = j
  <2>1. i \in Slots
    BY SentSlot
  <2> HIDE DEF i
  <2>2. e \in Entry
    BY <2>1
  <2>3. e.mem \in MemInfo
    BY <2>2 DEF Entry
  <2> QED
    BY <2>1, <2>2, <2>3, PosIs DEF i
<1>2. /\ e.valid /\ e.mem.isLoad /\ ~e.mem.sent /\ ~OlderStore(es, k) /\ ~DmemFull
  BY DEF MaySend
<1>3. entries' = [es EXCEPT ![i] = f]
  <2> HIDE DEF i
  <2>1. entries' = [es EXCEPT ![i].mem.sent = TRUE]
    BY DEF i
  <2> QED
    BY <1>1, <2>1
<1>4. dmemReq' = Append(dmemReq, r) /\ pendingRob' = i /\ r.isStore = FALSE
      /\ r.addr = e.mem.addr /\ r.tx = nextTx
  OBVIOUS
<1>5. r \in DmemRequest
  <2>1. e.mem.addr \in Word /\ nextTx \in Tx
    BY <1>1 DEF MemInfo, LsuTypeOK
  <2> HIDE DEF e
  <2> QED
    BY <2>1, Zeros DEF DmemRequest
<1>6. /\ f.valid = e.valid /\ f.uop = e.uop /\ f.exception = e.exception
      /\ f.mem.isLoad = e.mem.isLoad /\ f.mem.isStore = e.mem.isStore
      /\ f.mem.completed = e.mem.completed /\ f.mem.addr = e.mem.addr
      /\ f.mem.data = e.mem.data /\ f.mem.sent = TRUE
  <2> HIDE DEF e
  <2> QED
    BY <1>1 DEF Entry, MemInfo
<1> HIDE DEF i, f, r
<1>7. entries'[i] = f /\ \A j \in Slots : j # i => entries'[j] = es[j]
  BY <1>1, <1>3
<1> HIDE DEF e
<1>8. /\ Len(dmemReq) \in Nat /\ Len(dmemReq') = Len(dmemReq) + 1
      /\ \A n \in 1 .. Len(dmemReq) : dmemReq'[n] = dmemReq[n]
      /\ dmemReq'[Len(dmemReq) + 1] = r
  BY <1>2, <1>4, <1>5, RequestType, LenProperties DEF LsuTypeOK
<1>9. dmemResp' = <<>> /\ \A n \in 1 .. Len(dmemReq) : dmemReq[n].isStore
  BY AnswerRead
<1>10. \A n \in 1 .. Len(dmemReq') : ~dmemReq'[n].isStore => n = Len(dmemReq')
  BY <1>8, <1>9
<1>11. ~e.mem.completed
  BY <1>1, <1>2 DEF MemFields, e
<1>12. \A j \in Slots : es[j].valid /\ es[j].mem.sent => es[j].mem.completed
  BY DEF MemFields
<1>13. OneLoad'
  <2>1. dmemReq'[Len(dmemReq')].tx = pendingTx'
    BY <1>4, <1>8
  <2>2. Len(dmemReq') \in 1 .. Len(dmemReq') /\ ~dmemReq'[Len(dmemReq')].isStore
    BY <1>4, <1>8
  <2> QED
    BY <1>9, <1>10, <2>1, <2>2 DEF OneLoad
<1>14. MemFields(entries, loadPending, pendingRob)'
  <2> SUFFICES ASSUME NEW j \in Slots, entries'[j].valid
               PROVE  /\ entries'[j].mem.isLoad => entries'[j].uop.inst.op = "load"
                      /\ entries'[j].mem.isStore => entries'[j].uop.inst.op = "store"
                      /\ entries'[j].mem.sent => entries'[j].mem.isLoad
                      /\ entries'[j].mem.isLoad /\ entries'[j].mem.completed
                            => entries'[j].mem.sent
                      /\ entries'[j].mem.sent =>
                            (~entries'[j].mem.completed <=> loadPending' /\ pendingRob' = j)
    BY DEF MemFields
  <2>1. CASE j = i
    BY <1>1, <1>2, <1>4, <1>6, <1>7, <1>11, <2>1 DEF MemFields, e
  <2>2. CASE j # i
    BY <1>4, <1>7, <1>12, <2>2 DEF MemFields
  <2> QED
    BY <2>1, <2>2
<1>15. NoOlderStore(entries)'
  <2> SUFFICES ASSUME NEW l \in Slots, NEW j \in Slots, entries'[l].valid,
                      entries'[l].mem.sent, entries'[j].valid, Pos(j)' < Pos(l)',
                      CtrlIsSta(entries'[j].uop.inst)
               PROVE  FALSE
    BY DEF NoOlderStore
  <2>1. Pos(j) < Pos(l) /\ es[j].valid /\ CtrlIsSta(es[j].uop.inst)
    BY <1>2, <1>6, <1>7 DEF Pos, e
  <2>2. CASE l # i
    BY <1>7, <2>1, <2>2 DEF NoOlderStore
  <2>3. CASE l = i
    <3>1. Pos(j) \in 0 .. k - 1 /\ SlotFromHead(Pos(j)) = j
      BY <1>1, <2>1, <2>3 DEF Slots
    <3> QED
      BY <1>2, <2>1, <3>1 DEF OlderStore
  <2> QED
    BY <2>2, <2>3
<1>16. LastRequest(entries)'
  <2> SUFFICES ASSUME NEW j \in Slots, Waits(entries'[j]), NEW n \in 1 .. Len(dmemReq'),
                      ~dmemReq'[n].isStore
               PROVE  n = Len(dmemReq') /\ dmemReq'[n].addr = entries'[j].mem.addr
    BY DEF LastRequest, Waits
  <2>1. j = i
    BY <1>7, <1>12 DEF Waits
  <2> QED
    BY <1>4, <1>6, <1>7, <1>8, <1>10, <2>1
<1>17. AnswerRight(entries)'
  BY <1>9 DEF AnswerRight
<1>18. ValuesRight(entries)'
  <2> SUFFICES ASSUME NEW j \in Slots, entries'[j].valid, entries'[j].mem.isLoad,
                      entries'[j].mem.completed, ~entries'[j].exception
               PROVE  entries'[j].mem.data = ArchMem'[entries'[j].mem.addr]
    BY DEF ValuesRight
  <2>1. j # i /\ entries'[j] = es[j]
    BY <1>6, <1>7, <1>11
  <2>2. es[j].mem.addr \in Word
    BY DEF Entry, MemInfo
  <2>3. ArchMem'[es[j].mem.addr] = ArchMem[es[j].mem.addr]
    BY <1>2, <1>4, <1>5, <2>2, LoadSentKeepsArchMem
  <2> QED
    BY <2>1, <2>3 DEF ValuesRight
<1> QED
  BY <1>13, <1>14, <1>15, <1>16, <1>17, <1>18 DEF LoadsInv

LEMMA LsuKeepsLoads ==
    ASSUME PipeTypeOK, RobTypeOK, ResultInv, LsuTypeOK, LsuTypeOK', LoadsInv,
           stage = "lsu", LsuModule(aluResult)
    PROVE  LoadsInv'
<1> DEFINE e1 == WithResponse
           e2 == WithAddress(e1, aluResult)
           sp == loadPending /\ ~Answered
<1>1. /\ LsuTypeOK /\ AnswerIsWord /\ pendingRob \in Slots /\ robHead \in Slots
      /\ aluResult \in AluResult \cup {NoResult} /\ ResultInv /\ stage = "lsu"
      /\ entries \in [Slots -> Entry] /\ loadPending \in BOOLEAN
  BY TypedAnswer DEF PipeTypeOK, RobTypeOK, LsuTypeOK
<1>2. /\ e1 \in [Slots -> Entry]
      /\ \A i \in Slots : e1[i].valid = entries[i].valid
  BY <1>1, ResponseKeepsEntries
<1>3. /\ MemFields(e1, sp, pendingRob) /\ NoOlderStore(e1) /\ LastRequest(e1)
      /\ ValuesRight(e1)
      /\ \A i \in Slots : entries[i].valid /\ entries[i].mem = NoMem => e1[i] = entries[i]
  BY <1>1, ResponseStep
<1>4. /\ dmemResp' = IF dmemResp = <<>> THEN <<>> ELSE Tail(dmemResp)
      /\ SendLoad(e2, sp)
      /\ UNCHANGED <<robHead, memory>>
  BY DEF LsuModule
<1>5. sp \in BOOLEAN
  OBVIOUS
<1> HIDE DEF e1
<1>6. TakesAddress(e1) => /\ e1[aluResult.uop.rob].uop = aluResult.uop
                          /\ e1[aluResult.uop.rob].mem = NoMem
  <2> SUFFICES ASSUME TakesAddress(e1)
               PROVE  /\ e1[aluResult.uop.rob].uop = aluResult.uop
                      /\ e1[aluResult.uop.rob].mem = NoMem
    OBVIOUS
  <2> DEFINE s == aluResult.uop.rob
  <2>1. s \in Slots
    BY <1>1, <1>2, AddressIs
  <2>2. aluResult.valid /\ entries[s].valid
    BY <1>2, <2>1 DEF TakesAddress
  <2>3. Fresh(aluResult.uop)
    BY <1>1, <2>2 DEF ResultInv
  <2> QED
    BY <1>3, <2>1, <2>2, <2>3 DEF Fresh
<1>7. e2 \in [Slots -> Entry]
  BY <1>1, <1>2, AddressKeepsEntries
<1> HIDE DEF sp
<1>8. /\ MemFields(e2, sp, pendingRob) /\ NoOlderStore(e2) /\ LastRequest(e2)
      /\ ValuesRight(e2)
  BY <1>1, <1>2, <1>3, <1>5, <1>6, AddressStep
<1> HIDE DEF e2
<1>9. CASE /\ entries' = e2 /\ loadPending' = sp
           /\ pendingTx' = IF Answered THEN 0 ELSE pendingTx
           /\ UNCHANGED <<pendingRob, nextTx, dmemReq>>
  BY <1>1, <1>4, <1>8, <1>9, HoldStep DEF LoadsInv, sp
<1>10. CASE \E k \in Slots :
              /\ ~sp /\ MaySend(e2, k)
              /\ entries' = [e2 EXCEPT ![SlotFromHead(k)].mem.sent = TRUE]
              /\ loadPending' = TRUE /\ pendingTx' = nextTx
              /\ pendingRob' = SlotFromHead(k)
              /\ dmemReq' = Append(dmemReq, [isStore |-> FALSE,
                                             addr |-> e2[SlotFromHead(k)].mem.addr,
                                             data |-> 0, tx |-> nextTx])
  <2> PICK k \in Slots :
              /\ ~sp /\ MaySend(e2, k)
              /\ entries' = [e2 EXCEPT ![SlotFromHead(k)].mem.sent = TRUE]
              /\ loadPending' = TRUE /\ pendingTx' = nextTx
              /\ pendingRob' = SlotFromHead(k)
              /\ dmemReq' = Append(dmemReq, [isStore |-> FALSE,
                                             addr |-> e2[SlotFromHead(k)].mem.addr,
                                             data |-> 0, tx |-> nextTx])
    BY <1>10
  <2> QED
    BY <1>1, <1>4, <1>7, <1>8, SendStep DEF LoadsInv, sp
<1> QED
  BY <1>4, <1>9, <1>10 DEF SendLoad

\* The load is still in flight and its answer is not read, so that nothing is sent.
LEMMA WaitingKeepsLoads ==
    ASSUME PipeTypeOK, RobTypeOK, ResultInv, LsuTypeOK, LoadsInv, stage = "lsu", loadPending,
           entries' = WithAddress(entries, aluResult),
           UNCHANGED <<robHead, loadPending, pendingTx, pendingRob, dmemReq, dmemResp, memory>>
    PROVE  LoadsInv'
<1>1. TakesAddress(entries) => /\ entries[aluResult.uop.rob].uop = aluResult.uop
                               /\ entries[aluResult.uop.rob].mem = NoMem
  BY DEF TakesAddress, ResultInv, Fresh
<1>2. /\ MemFields(entries', loadPending, pendingRob) /\ NoOlderStore(entries')
      /\ LastRequest(entries') /\ ValuesRight(entries') /\ AnswerRight(entries')
  BY <1>1, AddressStep DEF PipeTypeOK, RobTypeOK, LsuTypeOK, LoadsInv
<1>3. ArchMem' = ArchMem
  BY DEF ArchMem, StoresTo
<1>4. OneLoad'
  BY DEF LoadsInv, OneLoad
<1>5. MemFields(entries, loadPending, pendingRob)'
  BY <1>2 DEF MemFields
<1>6. NoOlderStore(entries)' /\ LastRequest(entries)'
  BY <1>2 DEF NoOlderStore, LastRequest, Pos, Waits
<1>7. AnswerRight(entries)' /\ ValuesRight(entries)'
  BY <1>2, <1>3 DEF AnswerRight, ValuesRight, Waits
<1> QED
  BY <1>4, <1>5, <1>6, <1>7 DEF LoadsInv

-----------------------------------------------------------------------------
(* The rest of the cycle.                                                  *)

\* What the invariant looks at.
loadsVars == <<entries, robHead, loadPending, pendingTx, pendingRob, dmemReq, dmemResp, memory>>

LEMMA LoadsSame ==
    ASSUME LoadsInv, UNCHANGED loadsVars
    PROVE  LoadsInv'
<1>1. ArchMem' = ArchMem
  BY DEF loadsVars, ArchMem, StoresTo
<1>2. OneLoad'
  BY DEF loadsVars, LoadsInv, OneLoad
<1>3. MemFields(entries, loadPending, pendingRob)'
  BY DEF loadsVars, LoadsInv, MemFields
<1>4. NoOlderStore(entries)' /\ LastRequest(entries)'
  BY DEF loadsVars, LoadsInv, NoOlderStore, LastRequest, Pos, Waits
<1>5. AnswerRight(entries)' /\ ValuesRight(entries)'
  BY <1>1 DEF loadsVars, LoadsInv, AnswerRight, ValuesRight, Waits
<1> QED
  BY <1>2, <1>3, <1>4, <1>5 DEF LoadsInv

\* A new entry sits behind all others and has no memory fields.
LEMMA AllocateKeepsLoads ==
    ASSUME RingInv, LoadsInv, NEW u \in MicroOp, Allocate(u),
           UNCHANGED <<loadPending, pendingTx, pendingRob, dmemReq, dmemResp, memory>>
    PROVE  LoadsInv'
<1>1. CASE RobFull
  BY <1>1, LoadsSame DEF Allocate, loadsVars
<1>2. CASE ~RobFull
  <2>1. /\ entries' = [entries EXCEPT ![robTail] = FreshEntry(u)] /\ robHead' = robHead
        /\ entries \in [Slots -> Entry] /\ robTail \in Slots
    BY <1>2 DEF Allocate, RingInv, RobTypeOK
  <2>2. /\ entries'[robTail] = FreshEntry(u)
        /\ \A i \in Slots : i # robTail => entries'[i] = entries[i]
    BY <2>1
  <2>3. /\ ~FreshEntry(u).mem.isLoad /\ ~FreshEntry(u).mem.isStore
        /\ ~FreshEntry(u).mem.sent
    BY DEF FreshEntry, NoMem
  <2>4. ArchMem' = ArchMem
    BY DEF ArchMem, StoresTo
  <2>5. OneLoad'
    BY DEF LoadsInv, OneLoad
  <2>6. MemFields(entries, loadPending, pendingRob)'
    <3> SUFFICES ASSUME NEW i \in Slots, entries'[i].valid
                 PROVE  /\ entries'[i].mem.isLoad => entries'[i].uop.inst.op = "load"
                        /\ entries'[i].mem.isStore => entries'[i].uop.inst.op = "store"
                        /\ entries'[i].mem.sent => entries'[i].mem.isLoad
                        /\ entries'[i].mem.isLoad /\ entries'[i].mem.completed
                              => entries'[i].mem.sent
                        /\ entries'[i].mem.sent =>
                              (~entries'[i].mem.completed <=> loadPending' /\ pendingRob' = i)
      BY DEF MemFields
    <3>1. CASE i = robTail
      BY <2>2, <2>3, <3>1
    <3>2. CASE i # robTail
      BY <2>2, <3>2 DEF LoadsInv, MemFields
    <3> QED
      BY <3>1, <3>2
  <2>7. NoOlderStore(entries)'
    <3> SUFFICES ASSUME NEW i \in Slots, NEW j \in Slots, entries'[i].valid,
                        entries'[i].mem.sent, entries'[j].valid, Pos(j)' < Pos(i)'
                 PROVE  ~CtrlIsSta(entries'[j].uop.inst)
      BY DEF NoOlderStore
    <3>1. i # robTail /\ entries'[i] = entries[i] /\ Pos(j) < Pos(i)
      BY <2>1, <2>2, <2>3 DEF Pos
    <3>2. j # robTail
      <4>1. InWindow(i)
        BY <3>1 DEF RingInv, RobWindow
      <4>2. ~maybeFull
        BY <1>2 DEF RobFull, RingInv, RobWindow
      <4>3. /\ RobSlots \in Nat \ {0} /\ robHead \in 0 .. RobSlots - 1
            /\ robTail \in 0 .. RobSlots - 1 /\ i \in 0 .. RobSlots - 1
        BY RobSlotsAssumption DEF RingInv, RobTypeOK, Slots
      <4> QED
        BY <3>1, <4>1, <4>2, <4>3 DEF InWindow, Pos
    <3> QED
      BY <2>2, <3>1, <3>2 DEF LoadsInv, NoOlderStore
  <2>8. ~Waits(entries'[robTail])
    BY <2>2, <2>3 DEF Waits
  <2>9. LastRequest(entries)'
    <3> SUFFICES ASSUME NEW i \in Slots, Waits(entries'[i]), NEW n \in 1 .. Len(dmemReq),
                        ~dmemReq[n].isStore
                 PROVE  n = Len(dmemReq) /\ dmemReq[n].addr = entries'[i].mem.addr
      BY DEF LastRequest, Waits
    <3> QED
      BY <2>2, <2>8 DEF LoadsInv, LastRequest
  <2>10. AnswerRight(entries)'
    <3> SUFFICES ASSUME NEW i \in Slots, Waits(entries'[i]), dmemResp # <<>>,
                        ~dmemResp[1].fault
                 PROVE  dmemResp[1].data = ArchMem[entries'[i].mem.addr]
      BY <2>4 DEF AnswerRight, Waits
    <3> QED
      BY <2>2, <2>8 DEF LoadsInv, AnswerRight
  <2>11. ValuesRight(entries)'
    BY <2>2, <2>3, <2>4 DEF LoadsInv, ValuesRight
  <2> QED
    BY <2>5, <2>6, <2>7, <2>9, <2>10, <2>11 DEF LoadsInv
<1> QED
  BY <1>1, <1>2

\* What remains of the entries is as it was, and dmem_req too.
LEMMA FlushKeepsLoads ==
    ASSUME LoadsInv, \A i \in Slots : ~entries'[i].valid,
           UNCHANGED <<loadPending, pendingTx, pendingRob, dmemReq, dmemResp, memory>>
    PROVE  LoadsInv'
<1>1. OneLoad'
  BY DEF LoadsInv, OneLoad
<1>2. MemFields(entries, loadPending, pendingRob)' /\ NoOlderStore(entries)'
      /\ LastRequest(entries)' /\ AnswerRight(entries)' /\ ValuesRight(entries)'
  BY DEF MemFields, NoOlderStore, LastRequest, AnswerRight, ValuesRight, Waits
<1> QED
  BY <1>1, <1>2 DEF LoadsInv

\* The entries es differ from the ring's in no more than busy bits and exceptions
\* that came in.
Marked(es) == OnlyMarked(es) /\ \A j \in Slots : entries[j].exception => es[j].exception

LEMMA ResultMarksMore ==
    ASSUME PipeTypeOK, RingInv, aluResult.valid
    PROVE  Marked(MarkDone(entries, aluResult.uop.rob, aluResult.exception))
<1>1. aluResult \in AluResult /\ entries \in [Slots -> Entry]
  BY DEF PipeTypeOK, NoResult, RingInv, RobTypeOK
<1>2. aluResult.uop.rob \in Slots /\ aluResult.exception \in BOOLEAN
  BY <1>1 DEF AluResult, MicroOp, Slots
<1>3. \A j \in Slots : entries[j].exception =>
          MarkDone(entries, aluResult.uop.rob, aluResult.exception)[j].exception
  BY <1>1, <1>2 DEF MarkDone, Entry
<1> QED
  BY <1>3, ResultMarks DEF Marked

LEMMA WithResultMarksMore ==
    ASSUME PipeTypeOK, RingInv
    PROVE  Marked(WithResult)
<1>1. Marked(entries)
  BY DEF Marked, OnlyMarked, RingInv, RobTypeOK
<1> QED
  BY <1>1, ResultMarksMore DEF WithResult

LEMMA MarkKeepsLoads ==
    ASSUME LoadsInv, Marked(entries'),
           UNCHANGED <<robHead, loadPending, pendingTx, pendingRob, dmemReq, dmemResp, memory>>
    PROVE  LoadsInv'
<1>1. \A i \in Slots : /\ entries'[i].valid = entries[i].valid
                       /\ entries'[i].uop = entries[i].uop
                       /\ entries'[i].mem = entries[i].mem
                       /\ entries[i].exception => entries'[i].exception
  BY DEF Marked, OnlyMarked
<1>2. ArchMem' = ArchMem
  BY DEF ArchMem, StoresTo
<1>3. OneLoad'
  BY DEF LoadsInv, OneLoad
<1>4. MemFields(entries, loadPending, pendingRob)'
  BY <1>1 DEF LoadsInv, MemFields
<1>5. NoOlderStore(entries)' /\ LastRequest(entries)'
  BY <1>1 DEF LoadsInv, NoOlderStore, LastRequest, Pos, Waits
<1>6. AnswerRight(entries)' /\ ValuesRight(entries)'
  BY <1>1, <1>2 DEF LoadsInv, AnswerRight, ValuesRight, Waits
<1> QED
  BY <1>3, <1>4, <1>5, <1>6 DEF LoadsInv

\* The head leaves; if it is a store, its request goes out behind the others.  No
\* load that was sent is behind a store, so none that is left could see it.
LEMMA PopKeepsLoads ==
    ASSUME RingInv, LsuTypeOK, LoadsInv, NEW es, Marked(es), HeadReady(es), PopHead(es),
           UNCHANGED <<loadPending, pendingTx, pendingRob, dmemResp, memory>>,
           \/ UNCHANGED dmemReq
           \/ /\ es[robHead].mem.isStore
              /\ ~DmemFull
              /\ \E r \in DmemRequest : r.isStore /\ dmemReq' = Append(dmemReq, r)
    PROVE  LoadsInv'
<1>1. /\ robHead \in Slots /\ es \in [Slots -> Entry]
      /\ entries' = [es EXCEPT ![robHead] = EmptyEntry] /\ robHead' = NextSlot(robHead)
  BY DEF RingInv, RobTypeOK, Marked, OnlyMarked, PopHead
<1>2. ASSUME NEW i \in Slots, entries'[i].valid
      PROVE  /\ i # robHead /\ entries[i].valid
             /\ entries'[i].uop = entries[i].uop /\ entries'[i].mem = entries[i].mem
             /\ entries[i].exception => entries'[i].exception
  BY <1>1, <1>2 DEF EmptyEntry, Marked, OnlyMarked
<1>3. ASSUME NEW i \in Slots, i # robHead
      PROVE  Pos(robHead) < Pos(i) /\ Pos(i)' = Pos(i) - 1 /\ Pos(i) \in Int
  <2>1. robHead' = IF robHead = RobSlots - 1 THEN 0 ELSE robHead + 1
    BY <1>1, Ring!NextSlotIs, RingAssumptions DEF NextSlot, Ring!NextSlot, Slots, Ring!Slots
  <2> QED
    BY <1>1, <1>3, <2>1, RobSlotsAssumption DEF Pos, Slots
<1>4. MemFields(entries, loadPending, pendingRob)'
  <2> SUFFICES ASSUME NEW i \in Slots, entries'[i].valid
               PROVE  /\ entries'[i].mem.isLoad => entries'[i].uop.inst.op = "load"
                      /\ entries'[i].mem.isStore => entries'[i].uop.inst.op = "store"
                      /\ entries'[i].mem.sent => entries'[i].mem.isLoad
                      /\ entries'[i].mem.isLoad /\ entries'[i].mem.completed
                            => entries'[i].mem.sent
                      /\ entries'[i].mem.sent =>
                            (~entries'[i].mem.completed <=> loadPending' /\ pendingRob' = i)
    BY DEF MemFields
  <2> QED
    BY <1>2 DEF LoadsInv, MemFields
<1>5. NoOlderStore(entries)'
  <2> SUFFICES ASSUME NEW i \in Slots, NEW j \in Slots, entries'[i].valid,
                      entries'[i].mem.sent, entries'[j].valid, Pos(j)' < Pos(i)'
               PROVE  ~CtrlIsSta(entries'[j].uop.inst)
    BY DEF NoOlderStore
  <2>1. Pos(j) < Pos(i)
    BY <1>2, <1>3
  <2> QED
    BY <1>2, <2>1 DEF LoadsInv, NoOlderStore
<1>6. CASE UNCHANGED dmemReq
  <2>1. ArchMem' = ArchMem
    BY <1>6 DEF ArchMem, StoresTo
  <2>2. OneLoad'
    BY <1>6 DEF LoadsInv, OneLoad
  <2>3. LastRequest(entries)'
    <3> SUFFICES ASSUME NEW i \in Slots, Waits(entries'[i]), NEW n \in 1 .. Len(dmemReq),
                        ~dmemReq[n].isStore
                 PROVE  n = Len(dmemReq) /\ dmemReq[n].addr = entries'[i].mem.addr
      BY <1>6 DEF LastRequest, Waits
    <3> QED
      BY <1>2 DEF LoadsInv, LastRequest, Waits
  <2>4. AnswerRight(entries)'
    <3> SUFFICES ASSUME NEW i \in Slots, Waits(entries'[i]), dmemResp # <<>>,
                        ~dmemResp[1].fault
                 PROVE  dmemResp[1].data = ArchMem[entries'[i].mem.addr]
      BY <2>1 DEF AnswerRight, Waits
    <3> QED
      BY <1>2 DEF LoadsInv, AnswerRight, Waits
  <2>5. ValuesRight(entries)'
    <3> SUFFICES ASSUME NEW i \in Slots, entries'[i].valid, entries'[i].mem.isLoad,
                        entries'[i].mem.completed, ~entries'[i].exception
                 PROVE  entries'[i].mem.data = ArchMem[entries'[i].mem.addr]
      BY <2>1 DEF ValuesRight
    <3> QED
      BY <1>2 DEF LoadsInv, ValuesRight
  <2> QED
    BY <1>4, <1>5, <2>2, <2>3, <2>4, <2>5 DEF LoadsInv
<1>7. CASE /\ es[robHead].mem.isStore
           /\ ~DmemFull
           /\ \E r \in DmemRequest : r.isStore /\ dmemReq' = Append(dmemReq, r)
  <2> PICK r \in DmemRequest : r.isStore /\ dmemReq' = Append(dmemReq, r)
    BY <1>7
  <2>1. /\ Len(dmemReq) \in Nat /\ Len(dmemReq') = Len(dmemReq) + 1
        /\ \A n \in 1 .. Len(dmemReq) : dmemReq'[n] = dmemReq[n]
        /\ dmemReq'[Len(dmemReq) + 1] = r
    BY <1>7, RequestType, LenProperties DEF LsuTypeOK
  <2>2. \A n \in 1 .. Len(dmemReq') : ~dmemReq'[n].isStore =>
            n \in 1 .. Len(dmemReq) /\ dmemReq'[n] = dmemReq[n]
    BY <2>1
  <2>3. OneLoad'
    <3>1. loadPending' => dmemResp' # <<>> \/ \E n \in 1 .. Len(dmemReq') : ~dmemReq'[n].isStore
      <4> SUFFICES ASSUME loadPending, dmemResp = <<>>
                   PROVE  \E n \in 1 .. Len(dmemReq') : ~dmemReq'[n].isStore
        OBVIOUS
      <4>1. PICK n \in 1 .. Len(dmemReq) : ~dmemReq[n].isStore
        BY DEF LoadsInv, OneLoad
      <4>2. n \in 1 .. Len(dmemReq') /\ dmemReq'[n] = dmemReq[n]
        BY <2>1, <4>1
      <4> QED
        BY <4>1, <4>2
    <3> QED
      BY <2>2, <3>1 DEF LoadsInv, OneLoad
  <2>4. entries[robHead].valid /\ CtrlIsSta(entries[robHead].uop.inst)
    <3>1. entries[robHead].valid /\ entries[robHead].mem.isStore
      BY <1>1, <1>7 DEF HeadReady, Marked, OnlyMarked
    <3> QED
      BY <1>1, <3>1 DEF LoadsInv, MemFields, CtrlIsSta
  <2>5. ASSUME NEW i \in Slots, entries'[i].valid
        PROVE  ~entries'[i].mem.sent
    BY <1>1, <1>2, <1>3, <2>4, <2>5 DEF LoadsInv, NoOlderStore
  <2>6. LastRequest(entries)' /\ AnswerRight(entries)'
    BY <2>5 DEF LastRequest, AnswerRight, Waits
  <2>7. ValuesRight(entries)'
    BY <1>4, <2>5 DEF ValuesRight, MemFields
  <2> QED
    BY <1>4, <1>5, <2>3, <2>6, <2>7 DEF LoadsInv
<1> QED
  BY <1>6, <1>7

-----------------------------------------------------------------------------
(* The memory, between two cycles.                                         *)

LEMMA MemoryKeepsLoads ==
    ASSUME LsuTypeOK, LsuTypeOK', RobTypeOK, LoadsInv, MemoryServes,
           UNCHANGED <<entries, robHead, loadPending, pendingTx, pendingRob>>
    PROVE  LoadsInv'
<1> DEFINE req == dmemReq[1]
<1>1. /\ Len(dmemReq) \in Nat \ {0} /\ Len(dmemReq') = Len(dmemReq) - 1
      /\ \A n \in 1 .. Len(dmemReq') : dmemReq'[n] = dmemReq[n + 1]
      /\ req \in DmemRequest /\ Head(dmemReq) = req
  BY OldestRequest DEF MemoryServes
<1>2. \A n \in 1 .. Len(dmemReq') : n + 1 \in 1 .. Len(dmemReq) /\ n + 1 # 1
  BY <1>1
<1>3. \A a \in Word : ArchMem'[a] = ArchMem[a]
  BY ServedKeepsArchMem
<1>4. \A i \in Slots : entries[i].mem.addr \in Word
  BY DEF RobTypeOK, Entry, MemInfo
<1>5. MemFields(entries, loadPending, pendingRob)'
  BY DEF LoadsInv, MemFields
<1>6. NoOlderStore(entries)'
  BY DEF LoadsInv, NoOlderStore, Pos
<1>7. ValuesRight(entries)'
  BY <1>3, <1>4 DEF LoadsInv, ValuesRight
<1>8. LastRequest(entries)'
  <2> SUFFICES ASSUME NEW i \in Slots, Waits(entries[i]), NEW n \in 1 .. Len(dmemReq'),
                      ~dmemReq'[n].isStore
               PROVE  n = Len(dmemReq') /\ dmemReq'[n].addr = entries[i].mem.addr
    BY DEF LastRequest, Waits
  <2>1. n + 1 = Len(dmemReq) /\ dmemReq[n + 1].addr = entries[i].mem.addr
    BY <1>1, <1>2 DEF LoadsInv, LastRequest
  <2> QED
    BY <1>1, <2>1
<1>9. CASE req.isStore
  <2>1. dmemResp' = dmemResp
    BY <1>1, <1>9 DEF MemoryServes
  <2>2. OneLoad'
    <3>1. \A m, n \in 1 .. Len(dmemReq') :
              ~dmemReq'[m].isStore /\ ~dmemReq'[n].isStore => m = n
      <4> TAKE m, n \in 1 .. Len(dmemReq')
      <4>1. ~dmemReq'[m].isStore /\ ~dmemReq'[n].isStore => m + 1 = n + 1
        BY <1>1, <1>2 DEF LoadsInv, OneLoad
      <4> QED
        BY <1>1, <4>1
    <3>2. \A n \in 1 .. Len(dmemReq') : ~dmemReq'[n].isStore =>
              loadPending /\ dmemReq'[n].tx = pendingTx /\ dmemResp = <<>>
      BY <1>1, <1>2 DEF LoadsInv, OneLoad
    <3>3. loadPending => dmemResp # <<>> \/ \E n \in 1 .. Len(dmemReq') : ~dmemReq'[n].isStore
      <4> SUFFICES ASSUME loadPending, dmemResp = <<>>
                   PROVE  \E n \in 1 .. Len(dmemReq') : ~dmemReq'[n].isStore
        OBVIOUS
      <4>1. PICK n \in 1 .. Len(dmemReq) : ~dmemReq[n].isStore
        BY DEF LoadsInv, OneLoad
      <4>2. n - 1 \in 1 .. Len(dmemReq') /\ (n - 1) + 1 = n
        BY <1>1, <1>9, <4>1
      <4> QED
        BY <1>1, <4>1, <4>2
    <3> QED
      BY <2>1, <3>1, <3>2, <3>3 DEF LoadsInv, OneLoad
  <2>3. AnswerRight(entries)'
    <3> SUFFICES ASSUME NEW i \in Slots, Waits(entries[i]), dmemResp # <<>>,
                        ~dmemResp[1].fault
                 PROVE  dmemResp[1].data = ArchMem'[entries[i].mem.addr]
      BY <2>1 DEF AnswerRight, Waits
    <3> QED
      BY <1>3, <1>4 DEF LoadsInv, AnswerRight
  <2> QED
    BY <1>5, <1>6, <1>7, <1>8, <2>2, <2>3 DEF LoadsInv
<1>10. CASE ~req.isStore
  <2> DEFINE a == [tx |-> req.tx, data |-> memory[req.addr], fault |-> req.addr \in FaultAddrs]
  <2>1. dmemResp = <<>> /\ loadPending /\ req.tx = pendingTx
    BY <1>1, <1>10 DEF LoadsInv, OneLoad
  <2>2. dmemResp' = Append(dmemResp, a) /\ memory' = memory
    BY <1>1, <1>10 DEF MemoryServes
  <2> HIDE DEF a
  <2>3. dmemResp' # <<>> /\ Len(dmemResp') = 1 /\ dmemResp'[1] = a
    BY <2>1, <2>2
  <2>4. \A n \in 1 .. Len(dmemReq') : dmemReq'[n].isStore
    BY <1>1, <1>2, <1>10 DEF LoadsInv, OneLoad
  <2>5. OneLoad'
    BY <2>1, <2>3, <2>4 DEF OneLoad, a
  <2>6. AnswerRight(entries)'
    <3> SUFFICES ASSUME NEW i \in Slots, Waits(entries[i])
                 PROVE  a.data = ArchMem'[entries[i].mem.addr]
      BY <2>3 DEF AnswerRight, Waits
    <3>1. Len(dmemReq) = 1 /\ req.addr = entries[i].mem.addr
      BY <1>1, <1>10 DEF LoadsInv, LastRequest
    <3>2. StoresTo(req.addr) = {}
      <4>1. DOMAIN dmemReq = 1 .. Len(dmemReq)
        BY LenProperties DEF LsuTypeOK
      <4> QED
        BY <1>10, <3>1, <4>1 DEF StoresTo
    <3>3. req.addr \in Word
      BY <1>1 DEF DmemRequest
    <3>4. ArchMem[req.addr] = memory[req.addr]
      BY <3>2, <3>3, ArchMemIs
    <3> QED
      BY <1>3, <3>1, <3>3, <3>4 DEF a
  <2> QED
    BY <1>5, <1>6, <1>7, <1>8, <2>5, <2>6 DEF LoadsInv
<1> QED
  BY <1>9, <1>10

-----------------------------------------------------------------------------
(* The theorems.                                                           *)

LEMMA LoadsInvInit == Init => LoadsInv
<1> SUFFICES ASSUME Init PROVE LoadsInv
  OBVIOUS
<1>1. dmemReq = <<>> /\ dmemResp = <<>> /\ loadPending = FALSE
      /\ \A i \in Slots : ~entries[i].valid
  BY DEF Init, LsuInit, RobInit, EmptyEntry
<1>2. OneLoad
  BY <1>1 DEF OneLoad
<1> QED
  BY <1>1, <1>2 DEF LoadsInv, MemFields, NoOlderStore, LastRequest, AnswerRight, ValuesRight,
     Waits

LEMMA LoadsInvStep == CoreInv /\ CoreInv' /\ LoadsInv /\ [Next]_vars => LoadsInv'
<1> SUFFICES ASSUME CoreInv, CoreInv', LoadsInv, [Next]_vars
             PROVE  LoadsInv'
  OBVIOUS
<1> USE DEF CoreInv
<1>1. CASE LsuStage
  BY <1>1, LsuKeepsLoads DEF BaseInv, RingInv, LsuStage, At
<1>2. CASE RobAllocate
  <2>1. UNCHANGED <<loadPending, pendingTx, pendingRob, dmemReq, dmemResp, memory>>
    BY <1>2 DEF RobAllocate, lsuVars, memoryVars
  <2>2. CASE renamedUop = NoUop
    BY <1>2, <2>1, <2>2, LoadsSame DEF RobAllocate, loadsVars
  <2>3. CASE renamedUop # NoUop
    <3> DEFINE u == [renamedUop EXCEPT !.rob = robTail]
    <3>1. Allocate(u) /\ renamedUop \in MicroOp /\ robTail \in Slots
      BY <1>2, <2>3 DEF RobAllocate, BaseInv, RenameTypeOK, RingInv, RobTypeOK
    <3>2. u \in MicroOp
      BY <3>1 DEF MicroOp, Slots
    <3> HIDE DEF u
    <3> QED
      BY <2>1, <3>1, <3>2, AllocateKeepsLoads DEF BaseInv
  <2> QED
    BY <2>2, <2>3
<1>3. CASE CommitFlush
  <2>1. \A i \in Slots : ~entries'[i].valid
    BY <1>3, SquashKeepsRing DEF CommitFlush
  <2> QED
    BY <1>3, <2>1, FlushKeepsLoads DEF CommitFlush, CommitFrame
<1>4. CASE CommitNothing \/ CommitTrap
  <2>1. Marked(entries')
    BY <1>4, WithResultMarksMore DEF BaseInv, CommitNothing, CommitTrap
  <2> QED
    BY <1>4, <2>1, MarkKeepsLoads DEF CommitNothing, CommitTrap, CommitFrame
<1>5. CASE CommitEcall
  <2>1. Marked(WithResult)
    BY WithResultMarksMore DEF BaseInv
  <2> QED
    BY <1>5, <2>1, PopKeepsLoads DEF BaseInv, CommitEcall, CommitFrame
<1>6. CASE CommitHead
  <2>1. Marked(WithResult)
    BY WithResultMarksMore DEF BaseInv
  <2> DEFINE h == WithResult[robHead]
  <2>2. /\ HeadReady(WithResult) /\ PopHead(WithResult)
        /\ ~HeadWaits(WithResult) /\ ~h.exception
        /\ UNCHANGED <<loadPending, pendingTx, pendingRob, dmemResp, memory>>
    BY <1>6 DEF CommitHead, CommitFrame, HeadWaits
  <2>3. CASE ~h.mem.isStore
    BY <1>6, <2>1, <2>2, <2>3, PopKeepsLoads DEF BaseInv, CommitHead
  <2>4. CASE h.mem.isStore
    <3> DEFINE r == [isStore |-> TRUE, addr |-> h.mem.addr, data |-> h.mem.data, tx |-> nextTx]
    <3>1. dmemReq' = Append(dmemReq, r)
      BY <1>6, <2>4 DEF CommitHead
    <3>2. ~DmemFull
      BY <2>2, <2>4 DEF HeadWaits
    <3>3. h \in Entry
      BY <2>1 DEF Marked, OnlyMarked, BaseInv, RingInv, RobTypeOK
    <3>4. h.mem.addr \in Word /\ h.mem.data \in Word
      BY <3>3 DEF Entry, MemInfo
    <3>5. r \in DmemRequest /\ r.isStore
      BY <3>4 DEF DmemRequest, LsuTypeOK
    <3> HIDE DEF r
    <3> QED
      BY <2>1, <2>2, <2>4, <3>1, <3>2, <3>5, PopKeepsLoads DEF BaseInv
  <2> QED
    BY <2>3, <2>4
<1>7. CASE Memory
  BY <1>7, MemoryKeepsLoads DEF Memory, BaseInv, RingInv, robRing, lsuVars
<1>8. CASE UNCHANGED loadsVars
  BY <1>8, LoadsSame
<1>9. CASE Branch \/ FetchStopped \/ FetchWaits \/ FetchReads \/ Decode \/ RenameStage
           \/ Issue \/ Execute \/ UNCHANGED vars
  BY <1>8, <1>9 DEF Branch, FetchStopped, FetchWaits, FetchReads, FetchFrame, Decode,
     RenameStage, Issue, Execute, vars, loadsVars, robRing, lsuVars, memoryVars
<1> QED
  BY <1>1, <1>2, <1>3, <1>4, <1>5, <1>6, <1>7, <1>9 DEF Next, Cycle

LEMMA LoadsInvAlways == Spec => []LoadsInv
  BY LoadsInvInit, LoadsInvStep, CoreInvAlways, PTL DEF Spec

\* The load in flight is the one the LSU waits for, however long the memory takes
\* and whatever is flushed meanwhile: lsu.cpp never stops sending loads, and never
\* takes the data of another.
THEOREM CoreLoadAnswerComing == Spec => []LoadAnswerComing
<1>1. CoreInv /\ LoadsInv => LoadAnswerComing
  <2> SUFFICES ASSUME CoreInv, LoadsInv PROVE LoadAnswerComing
    OBVIOUS
  <2>1. /\ dmemReq \in Seq(DmemRequest) /\ dmemResp \in Seq(DmemResponse)
        /\ DOMAIN dmemReq = 1 .. Len(dmemReq) /\ DOMAIN dmemResp = 1 .. Len(dmemResp)
    BY LenProperties DEF CoreInv, LsuTypeOK
  <2>2. /\ Range(dmemReq) = {dmemReq[n] : n \in 1 .. Len(dmemReq)}
        /\ Range(dmemResp) = {dmemResp[n] : n \in 1 .. Len(dmemResp)}
    BY <2>1 DEF Range
  <2>3. LoadsInFlight \subseteq IF loadPending THEN {pendingTx} ELSE {}
    BY <2>1, <2>2 DEF LoadsInFlight, LoadsInv, OneLoad
  <2>4. loadPending => pendingTx \in LoadsInFlight
    <3>1. CASE dmemResp # <<>>
      <4>1. 1 \in 1 .. Len(dmemResp) /\ (loadPending => dmemResp[1].tx = pendingTx)
        BY <3>1 DEF LoadsInv, OneLoad
      <4>2. dmemResp[1] \in Range(dmemResp)
        BY <2>2, <4>1
      <4> QED
        BY <4>1, <4>2 DEF LoadsInFlight
    <3>2. CASE dmemResp = <<>> /\ loadPending
      <4>1. PICK n \in 1 .. Len(dmemReq) : ~dmemReq[n].isStore
        BY <3>2 DEF LoadsInv, OneLoad
      <4>2. dmemReq[n].tx = pendingTx /\ dmemReq[n] \in Range(dmemReq)
        BY <2>2, <4>1 DEF LoadsInv, OneLoad
      <4> QED
        BY <4>1, <4>2 DEF LoadsInFlight
    <3> QED
      BY <3>1, <3>2
  <2>5. LoadsInFlight = IF loadPending THEN {pendingTx} ELSE {}
    BY <2>3, <2>4
  <2>6. \A i \in Slots :
            entries[i].valid /\ entries[i].mem.sent /\ ~entries[i].mem.completed
                => loadPending /\ pendingRob = i
    BY DEF LoadsInv, MemFields
  <2> QED
    BY <2>5, <2>6 DEF LoadAnswerComing
<1> QED
  BY <1>1, CoreInvAlways, LoadsInvAlways, PTL

\* A load that has its data has what memory will hold once every store that has left
\* the ROB has arrived: no older store is passed, and no answer to a flushed load is
\* taken for it, whatever the delays and the number of transaction ids.
THEOREM CoreLoadValueIsCurrent == Spec => []LoadValueIsCurrent
<1>1. LoadsInv => LoadValueIsCurrent
  BY DEF LoadsInv, ValuesRight, LoadValueIsCurrent
<1> QED
  BY <1>1, LoadsInvAlways, PTL

-----------------------------------------------------------------------------
(* The free list on its own.                                               *)

\* The place k positions after the head of the list.
Place(k) == (freeHead + k) % IntPhysRegs

\* The registers that are ever handed out.
Handed == 1 .. IntPhysRegs - 2

\* The list has its head and its tail where its count says, and no register twice.
FreeListInv ==
    /\ freeCount \in 1 .. IntPhysRegs - 1
    /\ freeTail = Place(freeCount - 1)
    /\ \A j, k \in 0 .. freeCount - 2 : freeList[Place(j)] = freeList[Place(k)] => j = k
    /\ FreeRegs \subseteq Handed

\* A position of a ring, without the modulus.
LEMMA PlaceAfter ==
    ASSUME NEW h \in Preg, NEW k \in Preg
    PROVE  /\ (h + k) % IntPhysRegs \in Preg
           /\ (h + k) % IntPhysRegs =
                 IF h + k < IntPhysRegs THEN h + k ELSE h + k - IntPhysRegs
<1> DEFINE n == h + k
<1>1. n \in Nat /\ n < 2 * IntPhysRegs /\ IntPhysRegs \in Nat /\ IntPhysRegs > 1
  BY IntPhysRegsAssumption DEF Preg
<1> HIDE DEF n
<1>2. CASE n < IntPhysRegs
  <2>1. n % IntPhysRegs = n
    BY <1>1, <1>2
  <2> QED
    BY <1>1, <1>2, <2>1 DEF Preg, n
<1>3. CASE n >= IntPhysRegs
  <2> DEFINE r == n - IntPhysRegs
  <2>1. r \in 0 .. IntPhysRegs - 1 /\ n = 1 * IntPhysRegs + r
    BY <1>1, <1>3
  <2>2. n % IntPhysRegs = r
    BY <1>1, <2>1
  <2> QED
    BY <1>1, <1>3, <2>1, <2>2 DEF Preg, n
<1> QED
  BY <1>1, <1>2, <1>3

\* The places of the list are different ones.
LEMMA PlacesDiffer ==
    ASSUME freeHead \in Preg, NEW j \in Preg, NEW k \in Preg
    PROVE  Place(j) \in Preg /\ (Place(j) = Place(k) => j = k)
<1>1. /\ Place(j) \in Preg
      /\ Place(j) = IF freeHead + j < IntPhysRegs THEN freeHead + j
                    ELSE freeHead + j - IntPhysRegs
      /\ Place(k) = IF freeHead + k < IntPhysRegs THEN freeHead + k
                    ELSE freeHead + k - IntPhysRegs
  BY PlaceAfter DEF Place
<1> QED
  BY <1>1, IntPhysRegsAssumption DEF Preg

LEMMA FreeRegsAre ==
    FreeRegs = {freeList[Place(k)] : k \in 0 .. freeCount - 2}
  BY DEF FreeRegs, Place

LEMMA FreeRegsCounted ==
    ASSUME FreeListInv
    PROVE  Cardinality(FreeRegs) = freeCount - 1
<1> DEFINE K == 0 .. freeCount - 2
           f == [k \in K |-> freeList[Place(k)]]
<1>1. freeCount \in Nat /\ freeCount >= 1
  BY IntPhysRegsAssumption DEF FreeListInv
<1>2. IsFiniteSet(K) /\ Cardinality(K) = freeCount - 1
  BY <1>1, FS_Interval
<1>3. f \in Bijection(K, FreeRegs)
  BY FreeRegsAre DEF FreeListInv, Bijection, Injection, Surjection, IsInjective
<1>4. Cardinality(FreeRegs) = Cardinality(K)
  BY <1>2, <1>3, FS_Bijection DEF ExistsBijection
<1> QED
  BY <1>2, <1>4

\* Rename takes the register at the head.
LEMMA TakeFromList ==
    ASSUME RenameTypeOK, FreeListInv, freeCount > 1,
           freeHead' = (freeHead + 1) % IntPhysRegs, freeCount' = freeCount - 1,
           UNCHANGED <<freeList, freeTail>>
    PROVE  /\ FreeListInv'
           /\ freeList[freeHead] \in FreeRegs
           /\ FreeRegs' = FreeRegs \ {freeList[freeHead]}
<1>1. /\ IntPhysRegs \in Nat /\ IntPhysRegs > 1 /\ freeHead \in Preg
      /\ freeCount \in 2 .. IntPhysRegs - 1 /\ freeCount' \in 1 .. IntPhysRegs - 1
  BY IntPhysRegsAssumption DEF FreeListInv, RenameTypeOK
<1>2. freeHead = Place(0) /\ freeHead' = Place(1) /\ freeHead' \in Preg
  <2>1. 0 \in Preg /\ 1 \in Preg
    BY <1>1 DEF Preg
  <2>2. (freeHead + 0) % IntPhysRegs = IF freeHead + 0 < IntPhysRegs THEN freeHead + 0
                                       ELSE freeHead + 0 - IntPhysRegs
    BY <1>1, <2>1, PlaceAfter
  <2>3. (freeHead + 1) % IntPhysRegs \in Preg
    BY <1>1, <2>1, PlaceAfter
  <2> QED
    BY <1>1, <2>2, <2>3 DEF Place, Preg
<1>3. ASSUME NEW k \in 0 .. freeCount - 2
      PROVE  Place(k)' = Place(k + 1)
  <2>1. k \in Preg /\ k + 1 \in Preg
    BY <1>1 DEF Preg
  <2>2. /\ Place(k + 1) = IF freeHead + (k + 1) < IntPhysRegs THEN freeHead + (k + 1)
                          ELSE freeHead + (k + 1) - IntPhysRegs
        /\ freeHead' = IF freeHead + 1 < IntPhysRegs THEN freeHead + 1
                       ELSE freeHead + 1 - IntPhysRegs
    <3>1. 1 \in Preg
      BY <1>1 DEF Preg
    <3> QED
      BY <1>1, <2>1, <3>1, PlaceAfter DEF Place
  <2>3. (freeHead' + k) % IntPhysRegs = IF freeHead' + k < IntPhysRegs THEN freeHead' + k
                                        ELSE freeHead' + k - IntPhysRegs
    BY <1>2, <2>1, PlaceAfter
  <2>4. Place(k)' = (freeHead' + k) % IntPhysRegs
    BY DEF Place
  <2> QED
    BY <1>1, <2>1, <2>2, <2>3, <2>4 DEF Preg
<1>4. freeTail' = Place(freeCount - 1)'
  <2>1. PICK k \in 0 .. freeCount - 2 : k = freeCount - 2 /\ k + 1 = freeCount - 1
    BY <1>1
  <2>2. k = freeCount' - 1
    BY <1>1, <2>1
  <2>3. (freeHead' + k) % IntPhysRegs = Place(freeCount - 1)
    BY <1>3, <2>1 DEF Place
  <2>4. freeTail' = Place(freeCount - 1)
    BY DEF FreeListInv
  <2> QED
    BY <2>2, <2>3, <2>4 DEF Place
<1>5. freeCount' - 2 = freeCount - 3
  BY <1>1
<1>6. ASSUME NEW k \in 0 .. freeCount' - 2
      PROVE  /\ k \in 0 .. freeCount - 2 /\ k + 1 \in 0 .. freeCount - 2
             /\ Place(k)' = Place(k + 1)
  BY <1>1, <1>3
<1>7. \A j, k \in 0 .. freeCount' - 2 :
          freeList'[Place(j)'] = freeList'[Place(k)'] => j = k
  <2> SUFFICES ASSUME NEW j \in 0 .. freeCount' - 2, NEW k \in 0 .. freeCount' - 2,
                      freeList[Place(j + 1)] = freeList[Place(k + 1)]
               PROVE  j = k
    BY <1>6
  <2>1. j + 1 = k + 1
    BY <1>6 DEF FreeListInv
  <2> QED
    BY <1>1, <2>1
<1>8. FreeRegs = {freeList[Place(k)] : k \in 0 .. freeCount - 2}
  BY FreeRegsAre
<1>9. FreeRegs' = {freeList[Place(k + 1)] : k \in 0 .. freeCount' - 2}
  <2>1. FreeRegs' = {freeList'[Place(k)'] : k \in 0 .. freeCount' - 2}
    BY DEF FreeRegs, Place
  <2> QED
    BY <1>6, <2>1
<1>10. freeList[freeHead] \in FreeRegs
  <2>1. 0 \in 0 .. freeCount - 2
    BY <1>1
  <2> QED
    BY <1>2, <1>8, <2>1
<1>11. FreeRegs' = FreeRegs \ {freeList[freeHead]}
  <2>1. ASSUME NEW k \in 0 .. freeCount' - 2
        PROVE  freeList[Place(k + 1)] \in FreeRegs \ {freeList[freeHead]}
    <3>1. freeList[Place(k + 1)] # freeList[Place(0)]
      <4>1. 0 \in 0 .. freeCount - 2 /\ k + 1 # 0
        BY <1>1
      <4> QED
        BY <1>6, <4>1 DEF FreeListInv
    <3> QED
      BY <1>2, <1>6, <1>8, <3>1
  <2>2. ASSUME NEW k \in 0 .. freeCount - 2, freeList[Place(k)] # freeList[Place(0)]
        PROVE  freeList[Place(k)] \in FreeRegs'
    <3>1. k - 1 \in 0 .. freeCount' - 2 /\ (k - 1) + 1 = k
      BY <1>1, <2>2
    <3> QED
      BY <1>9, <3>1
  <2> QED
    BY <1>2, <1>8, <1>9, <2>1, <2>2
<1> QED
  BY <1>1, <1>4, <1>7, <1>10, <1>11 DEF FreeListInv

\* A register that is not in the list goes to its tail.  There is room for it: the
\* list holds only registers that are handed out, each once.
LEMMA ReleaseToList ==
    ASSUME RenameTypeOK, FreeListInv, NEW p \in Handed, p \notin FreeRegs, Release(p)
    PROVE  FreeListInv' /\ FreeRegs' = FreeRegs \cup {p}
<1>1. /\ IntPhysRegs \in Nat /\ IntPhysRegs > 1 /\ freeHead \in Preg
      /\ freeCount \in 1 .. IntPhysRegs - 1 /\ freeList \in [Preg -> Preg]
  BY IntPhysRegsAssumption DEF FreeListInv, RenameTypeOK
<1>2. freeCount < IntPhysRegs - 1
  <2>1. IsFiniteSet(Handed) /\ Cardinality(Handed) = IntPhysRegs - 2
    BY <1>1, FS_Interval DEF Handed
  <2>2. FreeRegs \in SUBSET Handed /\ FreeRegs # Handed
    BY DEF FreeListInv
  <2>3. Cardinality(FreeRegs) <= IntPhysRegs - 2 /\ Cardinality(FreeRegs) # IntPhysRegs - 2
    BY <2>1, <2>2, FS_Subset
  <2> QED
    BY <1>1, <2>3, FreeRegsCounted
<1>3. /\ freeList' = [freeList EXCEPT ![freeTail] = p]
      /\ freeTail' = (freeTail + 1) % IntPhysRegs
      /\ freeCount' = freeCount + 1 /\ freeHead' = freeHead
  BY <1>1, <1>2 DEF Release
<1>4. freeTail = Place(freeCount - 1) /\ freeCount - 1 \in Preg /\ freeCount \in Preg
  BY <1>1, <1>2 DEF FreeListInv, Preg
<1>5. \A k : Place(k)' = Place(k)
  BY <1>3 DEF Place
<1>6. freeTail' = Place(freeCount - 1)'
  <2>1. 1 \in Preg /\ freeTail \in Preg
    BY <1>1, <1>4, PlacesDiffer DEF Preg
  <2>2. /\ freeTail = IF freeHead + (freeCount - 1) < IntPhysRegs THEN freeHead + (freeCount - 1)
                      ELSE freeHead + (freeCount - 1) - IntPhysRegs
        /\ freeTail' = IF freeTail + 1 < IntPhysRegs THEN freeTail + 1
                       ELSE freeTail + 1 - IntPhysRegs
        /\ Place(freeCount) = IF freeHead + freeCount < IntPhysRegs THEN freeHead + freeCount
                              ELSE freeHead + freeCount - IntPhysRegs
    BY <1>1, <1>3, <1>4, <2>1, PlaceAfter DEF Place
  <2>3. freeTail' = Place(freeCount)
    BY <1>1, <1>2, <2>2 DEF Preg
  <2>4. freeCount' - 1 = freeCount
    BY <1>1, <1>3
  <2> QED
    BY <1>3, <2>3, <2>4 DEF Place
<1>7. freeCount' - 2 = freeCount - 1
  BY <1>1, <1>3
<1>8. freeList'[freeTail] = p
  BY <1>1, <1>3, <1>4, PlacesDiffer
<1>9. ASSUME NEW k \in 0 .. freeCount - 2
      PROVE  freeList'[Place(k)] = freeList[Place(k)]
  <2>1. k \in Preg /\ k # freeCount - 1
    BY <1>1 DEF Preg
  <2>2. Place(k) # freeTail /\ Place(k) \in Preg
    BY <1>1, <1>4, <2>1, PlacesDiffer
  <2> QED
    BY <1>1, <1>3, <2>2
<1>10. FreeRegs = {freeList[Place(k)] : k \in 0 .. freeCount - 2}
  BY FreeRegsAre
<1>11. FreeRegs' = {freeList'[Place(k)] : k \in 0 .. freeCount - 1}
  <2>1. FreeRegs' = {freeList'[Place(k)'] : k \in 0 .. freeCount' - 2}
    BY DEF FreeRegs, Place
  <2> QED
    BY <1>5, <1>7, <2>1
<1>12. \A k \in 0 .. freeCount - 1 : k \in 0 .. freeCount - 2 \/ k = freeCount - 1
  BY <1>1
<1>13. /\ freeCount - 1 \in 0 .. freeCount - 1
       /\ \A k \in 0 .. freeCount - 2 : k \in 0 .. freeCount - 1
  BY <1>1
<1>14. FreeRegs' = FreeRegs \cup {p}
  BY <1>4, <1>8, <1>9, <1>10, <1>11, <1>12, <1>13
<1>15. \A j, k \in 0 .. freeCount - 1 : freeList'[Place(j)] = freeList'[Place(k)] => j = k
  <2> SUFFICES ASSUME NEW j \in 0 .. freeCount - 1, NEW k \in 0 .. freeCount - 1,
                      freeList'[Place(j)] = freeList'[Place(k)]
               PROVE  j = k
    OBVIOUS
  <2>1. ASSUME NEW i \in 0 .. freeCount - 2
        PROVE  freeList'[Place(i)] # p
    BY <1>9, <1>10
  <2>2. CASE j \in 0 .. freeCount - 2 /\ k \in 0 .. freeCount - 2
    BY <1>9, <2>2 DEF FreeListInv
  <2>3. CASE j = freeCount - 1 \/ k = freeCount - 1
    BY <1>4, <1>8, <1>12, <2>1, <2>3
  <2> QED
    BY <1>12, <2>2, <2>3
<1>16. freeCount' \in 1 .. IntPhysRegs - 1
  BY <1>1, <1>2, <1>3
<1>17. \A j, k \in 0 .. freeCount' - 2 : freeList'[Place(j)'] = freeList'[Place(k)'] => j = k
  BY <1>5, <1>7, <1>15
<1> QED
  BY <1>6, <1>14, <1>16, <1>17 DEF FreeListInv

LEMMA FreeListSame ==
    ASSUME FreeListInv, UNCHANGED freeListVars
    PROVE  FreeListInv' /\ FreeRegs' = FreeRegs
  BY DEF FreeListInv, FreeRegs, Place, freeListVars

-----------------------------------------------------------------------------
(* The inductive invariant.                                                *)

\* The uop in slot i holds a register, and it is the new mapping of l.
Claims(i) == entries[i].valid /\ entries[i].uop.pdst # 0
Writes(i, l) == Claims(i) /\ entries[i].uop.ldst = l

\* The uop that comes from rename holds a register and has no entry yet.
Pending == stage = "rob_allocate" /\ renamedUop # NoUop /\ renamedUop.pdst # 0

\* Register l is mapped to p behind the first n uops in the ROB: by the youngest
\* of them that writes it, or else by the committed map.
MapsTo(n, l, p) ==
    \/ /\ p = committedMap[l]
       /\ \A i \in Slots : Writes(i, l) => Pos(i) >= n
    \/ \E i \in Slots :
          /\ Writes(i, l) /\ Pos(i) < n
          /\ p = entries[i].uop.pdst
          /\ \A j \in Slots : Writes(j, l) /\ Pos(j) < n => Pos(j) <= Pos(i)

\* What l was mapped to before the uop that has no entry yet.
MapBefore(l) ==
    IF Pending /\ l = renamedUop.ldst THEN renamedUop.stale ELSE mapTable[l]

\* A redirect has set the map to the committed one, and the ROB is still to be
\* dropped.
MapReset == redirect /\ stage \in {"rob_allocate", "issue", "execute", "rob_commit"}

\* Renaming starts from the committed map with the uops in the ROB over it, and
\* each of these remembers the register it replaces.
MapsInv ==
    /\ IF MapReset THEN mapTable = committedMap
       ELSE \A l \in Reg : MapsTo(RobSlots, l, MapBefore(l))
    /\ Pending => mapTable[renamedUop.ldst] = renamedUop.pdst
    /\ \A i \in Slots :
          Claims(i) => MapsTo(Pos(i), entries[i].uop.ldst, entries[i].uop.stale)

\* ECALL, which leaves without committing a mapping, has none.
DstInv ==
    /\ decUop # NoUop => decUop.ldst = decUop.inst.rd
    /\ Pending => renamedUop.inst.op # "ecall"
    /\ \A i \in Slots : Claims(i) => entries[i].uop.inst.op # "ecall"

\* The holders of register p.
InUse(p) ==
    \/ \E l \in Reg : committedMap[l] = p
    \/ \E i \in Slots : Claims(i) /\ entries[i].uop.pdst = p
    \/ Pending /\ renamedUop.pdst = p

\* A register has one holder, or is free.
Apart ==
    /\ \A l, m \in Reg : committedMap[l] = committedMap[m] => committedMap[l] = 0 \/ l = m
    /\ \A i, j \in Slots :
          Claims(i) /\ Claims(j) /\ entries[i].uop.pdst = entries[j].uop.pdst => i = j
    /\ \A i \in Slots, l \in Reg : Claims(i) => committedMap[l] # entries[i].uop.pdst
    /\ Pending => /\ \A l \in Reg : committedMap[l] # renamedUop.pdst
                  /\ \A i \in Slots : Claims(i) => entries[i].uop.pdst # renamedUop.pdst
    /\ \A p : InUse(p) => p \in {0} \cup Handed
    /\ \A p \in FreeRegs : ~InUse(p)

RegsInv ==
    /\ FreeListInv
    /\ DstInv
    /\ Apart
    /\ MapsInv

\* No register is lost: each has a holder or is free.
NoneLost == \A p \in Handed : InUse(p) \/ p \in FreeRegs

-----------------------------------------------------------------------------
(* The ring, in the order of its uops.                                     *)

\* The new entry is behind all others.
LEMMA TailIsLast ==
    ASSUME RingInv, ~RobFull
    PROVE  /\ robTail \in Slots /\ ~entries[robTail].valid
           /\ \A i \in Slots : entries[i].valid => Pos(i) < Pos(robTail)
<1>1. /\ RobSlots \in Nat \ {0} /\ robHead \in 0 .. RobSlots - 1
      /\ robTail \in 0 .. RobSlots - 1
  BY RobSlotsAssumption DEF RingInv, RobTypeOK, Slots
<1>2. ~maybeFull
  BY DEF RobFull, RingInv, RobWindow
<1>3. \A i \in Slots : entries[i].valid <=> InWindow(i)
  BY DEF RingInv, RobWindow
<1>4. ~entries[robTail].valid /\ robTail \in Slots
  BY <1>1, <1>2, <1>3 DEF InWindow, Slots
<1>5. ASSUME NEW i \in Slots, entries[i].valid
      PROVE  Pos(i) < Pos(robTail)
  <2>1. InWindow(i) /\ i \in 0 .. RobSlots - 1
    BY <1>3, <1>5 DEF Slots
  <2> QED
    BY <1>1, <1>2, <2>1 DEF InWindow, Pos
<1> QED
  BY <1>4, <1>5

\* The others move up by one when the head leaves.
LEMMA HeadIsFirst ==
    ASSUME robHead \in Slots, robHead' = NextSlot(robHead)
    PROVE  /\ Pos(robHead) = 0
           /\ \A i \in Slots : i # robHead => /\ Pos(i) \in 1 .. RobSlots - 1
                                              /\ Pos(i)' = Pos(i) - 1
<1>1. RobSlots \in Nat \ {0} /\ robHead \in 0 .. RobSlots - 1
  BY RobSlotsAssumption DEF Slots
<1>2. robHead' = IF robHead = RobSlots - 1 THEN 0 ELSE robHead + 1
  BY Ring!NextSlotIs, RingAssumptions DEF NextSlot, Ring!NextSlot, Slots, Ring!Slots
<1>3. ASSUME NEW i \in Slots, i # robHead
      PROVE  Pos(i) \in 1 .. RobSlots - 1 /\ Pos(i)' = Pos(i) - 1
  BY <1>1, <1>2, <1>3 DEF Pos, Slots
<1> QED
  BY <1>1, <1>3 DEF Pos

\* A register is mapped to one register.
LEMMA MapsToOne ==
    ASSUME robHead \in Slots, NEW n \in Int, NEW l, NEW p, NEW q, MapsTo(n, l, p), MapsTo(n, l, q)
    PROVE  p = q
<1>1. \A i \in Slots : Pos(i) \in Int /\ SlotFromHead(Pos(i)) = i
  BY PosIs, RobSlotsAssumption DEF Slots
<1>2. ASSUME NEW i \in Slots, NEW j \in Slots, Pos(i) <= Pos(j), Pos(j) <= Pos(i)
      PROVE  i = j
  <2>1. Pos(i) \in Int /\ Pos(j) \in Int
    BY <1>1
  <2>2. Pos(i) = Pos(j)
    BY <1>2, <2>1
  <2> QED
    BY <1>1, <2>2
<1> HIDE DEF Pos
<1>3. CASE \A i \in Slots : Writes(i, l) => Pos(i) >= n
  <2>1. ASSUME NEW x, MapsTo(n, l, x), NEW i \in Slots, Writes(i, l), Pos(i) < n
        PROVE  FALSE
    <3>1. Pos(i) >= n /\ Pos(i) \in Int
      BY <1>1, <1>3, <2>1
    <3> QED
      BY <2>1, <3>1
  <2> QED
    BY <2>1 DEF MapsTo
<1> QED
  BY <1>2, <1>3 DEF MapsTo

\* A step that keeps the uops of the ring and the committed map keeps what the
\* registers are mapped to.
LEMMA MapsToSame ==
    ASSUME UNCHANGED <<robHead, committedMap>>,
           \A i \in Slots : /\ entries'[i].valid = entries[i].valid
                            /\ entries'[i].uop = entries[i].uop
    PROVE  /\ \A i \in Slots : (Claims(i)' <=> Claims(i)) /\ Pos(i)' = Pos(i)
           /\ \A n, l, p : MapsTo(n, l, p)' <=> MapsTo(n, l, p)
<1>1. \A i \in Slots : (Claims(i)' <=> Claims(i)) /\ Pos(i)' = Pos(i)
  BY DEF Claims, Pos
<1>2. \A i \in Slots : \A l : Writes(i, l)' <=> Writes(i, l)
  BY <1>1 DEF Writes
<1> QED
  BY <1>1, <1>2 DEF MapsTo

\* A uop that enters is behind all others, and is what its register is mapped to.
LEMMA AllocatedMaps ==
    ASSUME RingInv, ~RobFull, NEW u \in MicroOp, Allocate(u), UNCHANGED committedMap,
           NEW t \in Slots, t = robTail
    PROVE  /\ \A i \in Slots : /\ i # t => entries'[i] = entries[i]
                               /\ Pos(i)' = Pos(i)
           /\ entries'[t].valid /\ entries'[t].uop = u
           /\ \A l \in Reg : \A p :
                 MapsTo(RobSlots, l, p) =>
                    /\ MapsTo(Pos(t), l, p)'
                    /\ u.pdst = 0 \/ u.ldst # l => MapsTo(RobSlots, l, p)'
           /\ \A i \in Slots : \A l \in Reg : \A p :
                 entries[i].valid /\ MapsTo(Pos(i), l, p) => MapsTo(Pos(i), l, p)'
           /\ u.pdst # 0 => MapsTo(RobSlots, u.ldst, u.pdst)'
<1>1. /\ t \in Slots /\ ~entries[t].valid
      /\ \A i \in Slots : entries[i].valid => Pos(i) < Pos(t)
  BY TailIsLast
<1>2. \A i \in Slots : Pos(i) \in 0 .. RobSlots - 1
  BY PosIs DEF RingInv, RobTypeOK, Slots
<1>3. /\ entries' = [entries EXCEPT ![t] = FreshEntry(u)] /\ robHead' = robHead
      /\ entries \in [Slots -> Entry]
  BY DEF Allocate, RingInv, RobTypeOK, RobFull
<1>4. /\ \A i \in Slots : (i # t => entries'[i] = entries[i]) /\ Pos(i)' = Pos(i)
      /\ entries'[t].valid /\ entries'[t].uop = u
  BY <1>1, <1>3 DEF FreshEntry, Pos
<1> HIDE DEF Pos
<1>6. ASSUME NEW l \in Reg
      PROVE  /\ ~Writes(t, l)
             /\ Writes(t, l)' <=> u.pdst # 0 /\ u.ldst = l
             /\ \A i \in Slots : i # t => (Writes(i, l)' <=> Writes(i, l))
             /\ \A i \in Slots : Writes(i, l) => /\ i # t
                                                 /\ Pos(i) < Pos(t)
                                                 /\ entries'[i] = entries[i]
  BY <1>1, <1>4 DEF Writes, Claims
<1>7. RobSlots \in Nat
  BY RobSlotsAssumption
<1>8. ASSUME NEW l \in Reg, NEW p, NEW n \in Int, MapsTo(n, l, p),
             NEW m \in Int, m <= Pos(t) \/ u.pdst = 0 \/ u.ldst # l,
             m = n \/ (m = Pos(t) /\ n = RobSlots)
      PROVE  MapsTo(m, l, p)'
  <2>1. \A i \in Slots : Writes(i, l) /\ Pos(i) >= n => Pos(i) >= m
    BY <1>2, <1>6, <1>7, <1>8
  <2>2. \A i \in Slots : Writes(i, l) /\ Pos(i) < n => Pos(i) < m
    BY <1>2, <1>6, <1>7, <1>8
  <2>3. \A i \in Slots : Writes(i, l)' => Writes(i, l) \/ Pos(i) >= m
    BY <1>2, <1>6, <1>8, <1>1
  <2>4. \A i \in Slots : ~(Pos(i) < n /\ Pos(i) >= n) /\ ~(Pos(i) < m /\ Pos(i) >= m)
                         /\ (Pos(i) < n \/ Pos(i) >= n)
    BY <1>2, <1>8
  <2>5. CASE /\ p = committedMap[l]
             /\ \A i \in Slots : Writes(i, l) => Pos(i) >= n
    <3>1. \A i \in Slots : Writes(i, l)' => Pos(i)' >= m
      BY <1>4, <2>1, <2>3, <2>5
    <3> QED
      BY <2>5, <3>1 DEF MapsTo
  <2>6. CASE \E i \in Slots :
                /\ Writes(i, l) /\ Pos(i) < n
                /\ p = entries[i].uop.pdst
                /\ \A j \in Slots : Writes(j, l) /\ Pos(j) < n => Pos(j) <= Pos(i)
    <3>1. PICK i \in Slots :
                /\ Writes(i, l) /\ Pos(i) < n
                /\ p = entries[i].uop.pdst
                /\ \A j \in Slots : Writes(j, l) /\ Pos(j) < n => Pos(j) <= Pos(i)
      BY <2>6
    <3>2. Writes(i, l)' /\ Pos(i)' < m /\ p = entries'[i].uop.pdst
      BY <1>4, <1>6, <2>2, <3>1
    <3>3. ASSUME NEW j \in Slots, Writes(j, l)', Pos(j)' < m
          PROVE  Pos(j)' <= Pos(i)'
      BY <1>4, <2>1, <2>3, <2>4, <3>1, <3>3
    <3> QED
      BY <3>2, <3>3 DEF MapsTo
  <2> QED
    BY <1>8, <2>5, <2>6 DEF MapsTo
<1>9. ASSUME NEW l \in Reg, NEW p, MapsTo(RobSlots, l, p)
      PROVE  /\ MapsTo(Pos(t), l, p)'
             /\ u.pdst = 0 \/ u.ldst # l => MapsTo(RobSlots, l, p)'
  <2>1. Pos(t) \in Int /\ Pos(t) <= Pos(t)
    BY <1>1, <1>2
  <2>2. ASSUME NEW m \in Int, m = Pos(t)
        PROVE  MapsTo(m, l, p)'
    BY <1>7, <1>8, <1>9, <2>1, <2>2
  <2> QED
    BY <1>4, <1>7, <1>8, <1>9, <2>1, <2>2
<1>10. ASSUME NEW i \in Slots, NEW l \in Reg, NEW p, entries[i].valid, MapsTo(Pos(i), l, p)
       PROVE  MapsTo(Pos(i), l, p)'
  <2>1. Pos(i) \in Int /\ Pos(i) <= Pos(t) /\ Pos(i)' = Pos(i)
    BY <1>1, <1>2, <1>4, <1>10
  <2>2. ASSUME NEW m \in Int, m = Pos(i)
        PROVE  MapsTo(m, l, p)'
    BY <1>8, <1>10, <2>1, <2>2
  <2> QED
    BY <2>1, <2>2
<1>11. ASSUME u.pdst # 0
       PROVE  MapsTo(RobSlots, u.ldst, u.pdst)'
  <2>1. u.ldst \in Reg
    BY DEF MicroOp
  <2>2. /\ Writes(t, u.ldst)' /\ Pos(t)' < RobSlots
        /\ u.pdst = entries'[t].uop.pdst
    BY <1>2, <1>4, <1>6, <1>7, <1>11, <2>1
  <2>3. ASSUME NEW j \in Slots, Writes(j, u.ldst)'
        PROVE  Pos(j)' <= Pos(t)'
    BY <1>2, <1>4, <1>6, <2>1, <2>3
  <2> QED
    BY <2>2, <2>3 DEF MapsTo
<1> QED
  BY <1>4, <1>9, <1>10, <1>11

\* When the head leaves, its mapping becomes the committed one; what registers are
\* mapped to behind it stays, one place nearer.
LEMMA PoppedMaps ==
    ASSUME RingInv, NEW es, OnlyMarked(es), PopHead(es),
           NEW h \in Slots, h = robHead,
           committedMap \in [Reg -> Preg],
           Claims(h) => entries[h].uop.ldst \in Reg,
           committedMap' = IF Claims(h)
                           THEN [committedMap EXCEPT ![entries[h].uop.ldst] = entries[h].uop.pdst]
                           ELSE committedMap
    PROVE  /\ Pos(h) = 0 /\ ~entries'[h].valid
           /\ \A i \in Slots : i # h => /\ entries'[i].valid = entries[i].valid
                                        /\ entries'[i].uop = entries[i].uop
                                        /\ Pos(i) \in 1 .. RobSlots - 1
                                        /\ Pos(i)' = Pos(i) - 1
           /\ \A l \in Reg : \A p :
                 MapsTo(RobSlots, l, p) => MapsTo(RobSlots, l, p)'
           /\ \A i \in Slots : \A l \in Reg : \A p :
                 i # h /\ MapsTo(Pos(i), l, p) => MapsTo(Pos(i), l, p)'
<1>1. /\ entries' = [es EXCEPT ![h] = EmptyEntry] /\ es \in [Slots -> Entry]
      /\ robHead' = NextSlot(robHead) /\ robHead \in Slots
      /\ \A i \in Slots : es[i].valid = entries[i].valid /\ es[i].uop = entries[i].uop
  BY DEF PopHead, OnlyMarked
<1>2. /\ ~entries'[h].valid
      /\ \A i \in Slots : i # h => /\ entries'[i].valid = entries[i].valid
                                   /\ entries'[i].uop = entries[i].uop
  BY <1>1 DEF EmptyEntry
<1>3. /\ Pos(h) = 0
      /\ \A i \in Slots : i # h => Pos(i) \in 1 .. RobSlots - 1 /\ Pos(i)' = Pos(i) - 1
  BY <1>1, HeadIsFirst
<1> HIDE DEF Pos
<1>4. RobSlots \in Nat \ {0}
  BY RobSlotsAssumption
<1>5. ASSUME NEW l \in Reg
      PROVE  /\ ~Writes(h, l)'
             /\ \A i \in Slots : i # h => (Writes(i, l)' <=> Writes(i, l))
             /\ committedMap'[l] = IF Writes(h, l) THEN entries[h].uop.pdst
                                   ELSE committedMap[l]
  BY <1>2 DEF Writes, Claims
<1>6. ASSUME NEW l \in Reg, NEW p, NEW n \in Int, MapsTo(n, l, p), n > 0,
             NEW m \in Int, m = n - 1 \/ (m = n /\ n = RobSlots)
      PROVE  MapsTo(m, l, p)'
  <2>1. ASSUME NEW i \in Slots, i # h
        PROVE  /\ Pos(i) \in Int /\ Pos(i)' \in Int
               /\ Pos(i) < n <=> Pos(i)' < m
               /\ Pos(i) >= n <=> Pos(i)' >= m
               /\ Pos(h) <= Pos(i) /\ ~(Pos(i) <= Pos(h))
    BY <1>3, <1>4, <1>6, <2>1
  <2>2. Pos(h) < n /\ ~(Pos(h) >= n)
    BY <1>3, <1>6
  <2>3. CASE /\ p = committedMap[l]
             /\ \A i \in Slots : Writes(i, l) => Pos(i) >= n
    <3>1. ~Writes(h, l)
      BY <2>2, <2>3
    <3>2. \A i \in Slots : Writes(i, l)' => Pos(i)' >= m
      BY <1>5, <2>1, <2>3
    <3> QED
      BY <1>5, <2>3, <3>1, <3>2 DEF MapsTo
  <2>4. CASE \E i \in Slots :
                /\ Writes(i, l) /\ Pos(i) < n
                /\ p = entries[i].uop.pdst
                /\ \A j \in Slots : Writes(j, l) /\ Pos(j) < n => Pos(j) <= Pos(i)
    <3>1. PICK i \in Slots :
                /\ Writes(i, l) /\ Pos(i) < n
                /\ p = entries[i].uop.pdst
                /\ \A j \in Slots : Writes(j, l) /\ Pos(j) < n => Pos(j) <= Pos(i)
      BY <2>4
    <3>2. CASE i = h
      <4>1. ASSUME NEW j \in Slots, Writes(j, l)'
            PROVE  Pos(j)' >= m
        <5>1. j # h /\ Writes(j, l)
          BY <1>5, <4>1
        <5>2. ~(Pos(j) < n)
          BY <2>1, <3>1, <3>2, <5>1
        <5> QED
          BY <1>6, <2>1, <5>1, <5>2
      <4> QED
        BY <1>5, <3>1, <3>2, <4>1 DEF MapsTo
    <3>3. CASE i # h
      <4>1. Writes(i, l)' /\ Pos(i)' < m /\ p = entries'[i].uop.pdst
        BY <1>2, <1>5, <2>1, <3>1, <3>3
      <4>2. ASSUME NEW j \in Slots, Writes(j, l)', Pos(j)' < m
            PROVE  Pos(j)' <= Pos(i)'
        <5>1. j # h /\ Writes(j, l)
          BY <1>5, <4>2
        <5>2. Pos(j) <= Pos(i)
          BY <2>1, <3>1, <4>2, <5>1
        <5> QED
          BY <1>3, <3>3, <5>1, <5>2
      <4> QED
        BY <4>1, <4>2 DEF MapsTo
    <3> QED
      BY <3>2, <3>3
  <2> QED
    BY <1>6, <2>3, <2>4 DEF MapsTo
<1>7. \A l \in Reg : \A p : MapsTo(RobSlots, l, p) => MapsTo(RobSlots, l, p)'
  BY <1>4, <1>6
<1>8. ASSUME NEW i \in Slots, NEW l \in Reg, NEW p, i # h, MapsTo(Pos(i), l, p)
      PROVE  MapsTo(Pos(i), l, p)'
  <2>1. Pos(i) \in Int /\ Pos(i) > 0 /\ Pos(i)' \in Int /\ Pos(i)' = Pos(i) - 1
    BY <1>3, <1>4, <1>8
  <2>2. ASSUME NEW m \in Int, m = Pos(i) - 1
        PROVE  MapsTo(m, l, p)'
    BY <1>6, <1>8, <2>1, <2>2
  <2> QED
    BY <2>1, <2>2
<1> QED
  BY <1>2, <1>3, <1>7, <1>8

-----------------------------------------------------------------------------
(* The stages.                                                             *)

LEMMA RegsInvInit == Init => RegsInv /\ NoneLost
<1> SUFFICES ASSUME Init PROVE RegsInv /\ NoneLost
  OBVIOUS
<1>1. /\ \A l \in Reg : mapTable[l] = 0 /\ committedMap[l] = 0
      /\ \A i \in Slots : ~Claims(i)
      /\ ~Pending /\ ~MapReset /\ decUop = NoUop
      /\ freeHead = 1 /\ freeTail = IntPhysRegs - 1 /\ freeCount = IntPhysRegs - 1
      /\ \A p \in Preg : freeList[p] = p
  BY DEF Init, RenameInit, RobInit, EmptyEntry, Claims, Pending, MapReset
<1>2. IntPhysRegs \in Nat /\ IntPhysRegs > 1
  BY IntPhysRegsAssumption
<1>3. ASSUME NEW k \in 0 .. IntPhysRegs - 2
      PROVE  Place(k) = k + 1 /\ k + 1 \in Preg /\ freeList[Place(k)] = k + 1
  <2>1. k \in Preg /\ 1 \in Preg /\ 1 + k = k + 1 /\ k + 1 \in Preg /\ k + 1 < IntPhysRegs
    BY <1>2 DEF Preg
  <2>2. Place(k) = k + 1
    BY <1>1, <2>1, PlaceAfter DEF Place
  <2> QED
    BY <1>1, <2>1, <2>2
<1>4. FreeRegs = Handed
  <2>1. FreeRegs = {freeList[Place(k)] : k \in 0 .. IntPhysRegs - 3}
    <3>1. freeCount - 2 = IntPhysRegs - 3
      BY <1>1, <1>2
    <3> QED
      BY <3>1, FreeRegsAre
  <2>2. \A k \in 0 .. IntPhysRegs - 3 : freeList[Place(k)] = k + 1
    BY <1>2, <1>3
  <2>3. \A p \in Handed : p - 1 \in 0 .. IntPhysRegs - 3 /\ (p - 1) + 1 = p
    BY <1>2 DEF Handed
  <2>4. \A k \in 0 .. IntPhysRegs - 3 : k + 1 \in Handed
    BY <1>2 DEF Handed
  <2> QED
    BY <2>1, <2>2, <2>3, <2>4
<1>5. FreeListInv
  <2>1. freeCount \in 1 .. IntPhysRegs - 1
    BY <1>1, <1>2
  <2>2. freeTail = Place(freeCount - 1)
    <3>1. PICK k \in 0 .. IntPhysRegs - 2 : k = freeCount - 1
      BY <1>1, <1>2
    <3>2. Place(k) = k + 1
      BY <1>3
    <3> QED
      BY <1>1, <1>2, <3>1, <3>2
  <2>3. ASSUME NEW j \in 0 .. freeCount - 2, NEW k \in 0 .. freeCount - 2,
               freeList[Place(j)] = freeList[Place(k)]
        PROVE  j = k
    <3>1. j \in 0 .. IntPhysRegs - 2 /\ k \in 0 .. IntPhysRegs - 2
      BY <1>1, <1>2
    <3>2. j + 1 = k + 1
      BY <1>3, <2>3, <3>1
    <3> QED
      BY <3>1, <3>2
  <2> QED
    BY <1>4, <2>1, <2>2, <2>3 DEF FreeListInv
<1>6. DstInv
  BY <1>1 DEF DstInv
<1>7. \A p : InUse(p) => p = 0
  BY <1>1 DEF InUse
<1>8. Apart
  <2>1. 0 \notin Handed
    BY <1>2 DEF Handed
  <2> QED
    BY <1>1, <1>4, <1>7, <2>1 DEF Apart
<1>9. MapsInv
  BY <1>1 DEF MapsInv, MapsTo, MapBefore, Writes
<1> QED
  BY <1>4, <1>5, <1>6, <1>8, <1>9 DEF RegsInv, NoneLost

\* A step that changes neither the maps nor the list nor the uops in the ROB.
LEMMA RegsSame ==
    ASSUME RegsInv, UNCHANGED <<mapTable, committedMap, freeListVars, robHead>>,
           \A i \in Slots : /\ entries'[i].valid = entries[i].valid
                            /\ entries'[i].uop = entries[i].uop,
           Pending' <=> Pending, Pending => UNCHANGED renamedUop, MapReset' <=> MapReset,
           decUop' # NoUop => decUop'.ldst = decUop'.inst.rd
    PROVE  RegsInv' /\ (NoneLost => NoneLost')
<1>1. /\ \A i \in Slots : (Claims(i)' <=> Claims(i)) /\ Pos(i)' = Pos(i)
      /\ \A n, l, p : MapsTo(n, l, p)' <=> MapsTo(n, l, p)
  BY MapsToSame
<1>2. FreeListInv' /\ FreeRegs' = FreeRegs
  BY FreeListSame DEF RegsInv
<1>3. DstInv'
  BY <1>1 DEF RegsInv, DstInv, Claims
<1>4. \A p : InUse(p)' <=> InUse(p)
  BY <1>1 DEF InUse, Claims
<1>5. Apart'
  BY <1>1, <1>2, <1>4 DEF RegsInv, Apart, Claims
<1>6. MapsInv'
  <2>1. \A l \in Reg : MapBefore(l)' = MapBefore(l)
    BY DEF MapBefore
  <2>2. IF MapReset' THEN mapTable' = committedMap'
        ELSE \A l \in Reg : MapsTo(RobSlots, l, MapBefore(l))'
    BY <1>1, <2>1 DEF RegsInv, MapsInv
  <2>3. \A i \in Slots :
           Claims(i)' => MapsTo(Pos(i), entries[i].uop.ldst, entries[i].uop.stale)'
    BY <1>1 DEF RegsInv, MapsInv, Claims
  <2>4. Pending' => mapTable'[renamedUop'.ldst] = renamedUop'.pdst
    BY DEF RegsInv, MapsInv
  <2> QED
    BY <2>2, <2>3, <2>4 DEF MapsInv
<1>7. NoneLost => NoneLost'
  BY <1>2, <1>4 DEF NoneLost
<1> QED
  BY <1>2, <1>3, <1>5, <1>6, <1>7 DEF RegsInv

\* Rename takes a free register for the uop's destination, and the uop remembers
\* the one that its destination was mapped to.
LEMMA RenameKeepsRegs ==
    ASSUME BaseInv, RegsInv, RegisterLeft, RenameStage
    PROVE  RegsInv' /\ (NoneLost => NoneLost')
<1>1. /\ stage = "rename" /\ stage' = "rob_allocate" /\ ~Pending /\ ~MapReset
      /\ UNCHANGED <<robHead, entries, decUop, redirect, committedMap>>
  BY DEF RenameStage, At, Pending, MapReset, pipeVars, branchVars, robRing, RenameNothing,
         RenameUop, RenameTakes, RenameStarves, RenameWithoutDst
<1>2. \A l \in Reg : MapsTo(RobSlots, l, mapTable[l])
  BY <1>1 DEF RegsInv, MapsInv, MapBefore
<1>3. CASE decUop = NoUop
  <2>1. renamedUop' = NoUop /\ mapTable' = CurrentMap(redirect) /\ UNCHANGED freeListVars
    BY <1>3 DEF RenameStage, RenameNothing
  <2>2. ~Pending'
    BY <2>1 DEF Pending
  <2>3. CASE ~redirect
    <3>1. mapTable' = mapTable /\ ~MapReset'
      BY <1>1, <2>1, <2>3 DEF CurrentMap, MapReset
    <3> QED
      BY <1>1, <1>3, <2>1, <2>2, <3>1, RegsSame
  <2>4. CASE redirect
    <3>1. mapTable' = committedMap' /\ MapReset'
      BY <1>1, <2>1, <2>4 DEF CurrentMap, MapReset
    <3>2. /\ \A i \in Slots : (Claims(i)' <=> Claims(i)) /\ Pos(i)' = Pos(i)
          /\ \A n, l, p : MapsTo(n, l, p)' <=> MapsTo(n, l, p)
      BY <1>1, MapsToSame
    <3>3. FreeListInv' /\ FreeRegs' = FreeRegs
      BY <2>1, FreeListSame DEF RegsInv
    <3>4. DstInv'
      BY <1>1, <2>2, <3>2 DEF RegsInv, DstInv
    <3>5. \A p : InUse(p)' <=> InUse(p)
      BY <1>1, <2>2, <3>2 DEF InUse
    <3>6. Apart'
      BY <1>1, <2>2, <3>2, <3>3, <3>5 DEF RegsInv, Apart
    <3>7. MapsInv'
      BY <1>1, <2>2, <3>1, <3>2 DEF RegsInv, MapsInv
    <3>8. NoneLost => NoneLost'
      BY <3>3, <3>5 DEF NoneLost
    <3> QED
      BY <3>3, <3>4, <3>6, <3>7, <3>8 DEF RegsInv
  <2> QED
    BY <2>3, <2>4
<1>4. CASE decUop # NoUop
  <2> DEFINE u == decUop
             d == u.ldst
  <2>1. /\ u \in MicroOp /\ u # NoUop /\ ~redirect /\ RenameUop(u, redirect)
        /\ u.inst \in Instr /\ d = u.inst.rd /\ d \in Reg /\ NoUop \notin MicroOp
    <3>1. u \in MicroOp /\ ~redirect
      BY <1>1, <1>4 DEF BaseInv, PipeTypeOK, RedirectEmpties
    <3>2. RenameUop(u, redirect)
      BY <1>4 DEF RenameStage
    <3>3. u.inst \in Instr /\ d \in Reg
      BY <3>1 DEF MicroOp
    <3>4. d = u.inst.rd
      BY <1>4 DEF RegsInv, DstInv
    <3> QED
      BY <1>4, <3>1, <3>2, <3>3, <3>4, NoUopIsNone
  <2>2. CurrentMap(redirect) = mapTable /\ ~MapReset'
    BY <1>1, <2>1 DEF CurrentMap, MapReset
  <2>3. CASE RenameWithoutDst(u, redirect)
    <3>1. /\ renamedUop'.pdst = 0 /\ mapTable' = mapTable /\ UNCHANGED freeListVars
      BY <2>1, <2>2, <2>3 DEF RenameWithoutDst, Renamed, MicroOp
    <3>2. ~Pending'
      BY <3>1 DEF Pending
    <3> HIDE DEF u
    <3> QED
      BY <1>1, <2>1, <2>2, <3>1, <3>2, RegsSame DEF u
  <2>4. CASE RenameStarves(u, redirect)
    BY <2>4, IntPhysRegsAssumption DEF RenameStarves, RegsInv, FreeListInv
  <2>5. CASE RenameTakes(u, redirect)
    <3> DEFINE p == freeList[freeHead]
    <3>1. /\ freeHead' = (freeHead + 1) % IntPhysRegs /\ freeCount' = freeCount - 1
          /\ mapTable' = [mapTable EXCEPT ![d] = p]
          /\ renamedUop' = Renamed(u, mapTable, p, d)
          /\ UNCHANGED <<freeList, freeTail>> /\ WantsReg(u) /\ d # 0
      BY <2>2, <2>5 DEF RenameTakes, WantsReg
    <3>2. freeCount > 1
      BY <1>1, <1>4, <3>1 DEF RegisterLeft
    <3>3. FreeListInv' /\ p \in FreeRegs /\ FreeRegs' = FreeRegs \ {p}
      BY <3>1, <3>2, TakeFromList DEF RegsInv, BaseInv
    <3>4. p \in Handed /\ p # 0 /\ ~InUse(p)
      <4>1. p \in Handed
        BY <3>3 DEF RegsInv, FreeListInv
      <4> QED
        BY <3>3, <4>1, IntPhysRegsAssumption DEF RegsInv, Apart, Handed
    <3>5. /\ renamedUop'.pdst = p /\ renamedUop'.ldst = d /\ renamedUop'.inst = u.inst
          /\ renamedUop'.stale = mapTable[d]
      BY <2>1, <3>1 DEF Renamed, MicroOp
    <3> HIDE DEF p, u, d
    <3>6. renamedUop' # NoUop
      <4>1. renamedUop' \in MicroOp \cup {NoUop} /\ Renamed(u, mapTable, p, d) \in MicroOp
        <5>1. p \in Preg
          BY <3>4, IntPhysRegsAssumption DEF Handed, Preg
        <5>2. /\ mapTable[u.inst.rs1] \in Preg /\ mapTable[u.inst.rs2] \in Preg
              /\ mapTable[u.ldst] \in Preg
          BY <2>1 DEF BaseInv, RenameTypeOK, Instr, d
        <5>3. Renamed(u, mapTable, p, d) \in MicroOp
          BY <2>1, <5>1, <5>2 DEF Renamed, MicroOp
        <5> QED
          BY <3>1, <5>3
      <4> QED
        BY <2>1, <3>1, <4>1
    <3>7. Pending'
      BY <1>1, <3>4, <3>5, <3>6 DEF Pending
    <3>8. /\ \A i \in Slots : (Claims(i)' <=> Claims(i)) /\ Pos(i)' = Pos(i)
          /\ \A n, l, q : MapsTo(n, l, q)' <=> MapsTo(n, l, q)
      BY <1>1, MapsToSame
    <3>9. DstInv'
      <4>1. u.inst.op # "ecall"
        BY <2>1, <3>1 DEF Instr, d
      <4> QED
        BY <1>1, <3>5, <3>8, <4>1 DEF RegsInv, DstInv
    <3>10. \A q : InUse(q)' <=> InUse(q) \/ q = p
      BY <1>1, <3>5, <3>7, <3>8 DEF InUse
    <3>11. Apart'
      <4>1. /\ \A l \in Reg : committedMap[l] # p
            /\ \A i \in Slots : Claims(i) => entries[i].uop.pdst # p
        BY <3>4 DEF InUse
      <4>2. /\ \A q : InUse(q)' => q \in {0} \cup Handed
            /\ \A q \in FreeRegs' : ~InUse(q)'
        BY <3>3, <3>4, <3>10 DEF RegsInv, Apart
      <4> QED
        BY <1>1, <3>5, <3>8, <4>1, <4>2 DEF RegsInv, Apart
    <3>12. MapsInv'
      <4>1. mapTable'[d] = p /\ \A l \in Reg : l # d => mapTable'[l] = mapTable[l]
        BY <2>1, <3>1 DEF BaseInv, RenameTypeOK
      <4>2. \A l \in Reg : MapBefore(l)' = mapTable[l]
        BY <3>5, <3>7, <4>1 DEF MapBefore
      <4>3. \A l \in Reg : MapsTo(RobSlots, l, MapBefore(l))'
        BY <1>2, <3>8, <4>2
      <4>4. \A i \in Slots :
               Claims(i)' => MapsTo(Pos(i), entries[i].uop.ldst, entries[i].uop.stale)'
        BY <1>1, <3>8 DEF RegsInv, MapsInv
      <4> QED
        BY <2>2, <3>5, <4>1, <4>3, <4>4 DEF MapsInv
    <3>13. NoneLost => NoneLost'
      BY <3>3, <3>10 DEF NoneLost
    <3> QED
      BY <3>3, <3>9, <3>11, <3>12, <3>13 DEF RegsInv
  <2> QED
    BY <2>1, <2>3, <2>4, <2>5 DEF RenameUop
<1> QED
  BY <1>3, <1>4

\* The uop gets its entry and holds its register there.
LEMMA RobAllocateKeepsRegs ==
    ASSUME BaseInv, RegsInv, RoomForUop, RobAllocate
    PROVE  RegsInv' /\ (NoneLost => NoneLost')
<1>1. /\ stage = "rob_allocate" /\ stage' = "issue" /\ ~Pending'
      /\ UNCHANGED <<redirect, mapTable, committedMap, freeListVars, decUop>>
  BY DEF RobAllocate, At, Pending, branchVars, pipeVars
<1>2. MapReset' <=> MapReset
  BY <1>1 DEF MapReset
<1>3. FreeListInv' /\ FreeRegs' = FreeRegs
  BY <1>1, FreeListSame DEF RegsInv
<1>4. CASE renamedUop = NoUop
  <2>1. UNCHANGED <<entries, robHead>> /\ ~Pending
    BY <1>4 DEF RobAllocate, Pending
  <2> QED
    BY <1>1, <1>2, <2>1, RegsSame DEF RegsInv, DstInv
<1>5. CASE renamedUop # NoUop
  <2>a. /\ renamedUop \in MicroOp /\ Allocate([renamedUop EXCEPT !.rob = robTail])
        /\ ~RobFull /\ ~redirect /\ robTail \in Slots /\ RingInv
    BY <1>1, <1>5 DEF RobAllocate, RoomForUop, BaseInv, RenameTypeOK, RingInv, RobTypeOK,
                      RedirectEmpties
  <2>b. [renamedUop EXCEPT !.rob = robTail] \in MicroOp
    BY <2>a DEF MicroOp, Slots
  <2> PICK u \in MicroOp : u = [renamedUop EXCEPT !.rob = robTail]
    BY <2>b
  <2>1. /\ renamedUop \in MicroOp /\ Allocate(u) /\ ~RobFull /\ ~redirect
        /\ robTail \in Slots /\ RingInv
    BY <2>a
  <2>2. /\ u.pdst = renamedUop.pdst /\ u.ldst = renamedUop.ldst
        /\ u.stale = renamedUop.stale /\ u.inst = renamedUop.inst /\ u.ldst \in Reg
    BY <2>1 DEF MicroOp
  <2> PICK t \in Slots : t = robTail
    BY <2>1
  <2>3. /\ \A i \in Slots : /\ i # t => entries'[i] = entries[i]
                            /\ Pos(i)' = Pos(i)
        /\ entries'[t].valid /\ entries'[t].uop = u
        /\ \A l \in Reg : \A p :
              MapsTo(RobSlots, l, p) =>
                 /\ MapsTo(Pos(t), l, p)'
                 /\ u.pdst = 0 \/ u.ldst # l => MapsTo(RobSlots, l, p)'
        /\ \A i \in Slots : \A l \in Reg : \A p :
              Claims(i) /\ MapsTo(Pos(i), l, p) => MapsTo(Pos(i), l, p)'
        /\ u.pdst # 0 => MapsTo(RobSlots, u.ldst, u.pdst)'
    BY <1>1, <2>1, <2>2, AllocatedMaps DEF Claims
  <2>4. ~entries[t].valid
    BY <2>1, TailIsLast
  <2>5. /\ \A i \in Slots : i # t => (Claims(i)' <=> Claims(i)) /\ entries'[i] = entries[i]
        /\ ~Claims(t) /\ (Claims(t)' <=> Pending)
    <3>1. \A i \in Slots : i # t => entries'[i] = entries[i]
      BY <2>3
    <3>2. \A i \in Slots : i # t => (Claims(i)' <=> Claims(i))
      BY <3>1 DEF Claims
    <3>3. ~Claims(t)
      BY <2>4 DEF Claims
    <3>4. entries'[t].valid /\ entries'[t].uop.pdst = renamedUop.pdst
      BY <2>2, <2>3
    <3>5. Claims(t)' <=> Pending
      BY <1>1, <1>5, <3>4 DEF Claims, Pending
    <3> QED
      BY <3>1, <3>2, <3>3, <3>5
  <2>6. DstInv'
    <3>1. DstInv
      BY DEF RegsInv
    <3>2. \A i \in Slots : Claims(i)' => entries'[i].uop.inst.op # "ecall"
      <4>1. ASSUME NEW i \in Slots, Claims(i)', i = t
            PROVE  entries'[i].uop.inst.op # "ecall"
        <5>1. Pending /\ entries'[i].uop = u
          BY <2>3, <2>5, <4>1
        <5>2. renamedUop.inst.op # "ecall"
          BY <3>1, <5>1 DEF DstInv
        <5> QED
          BY <2>2, <5>1, <5>2
      <4>2. ASSUME NEW i \in Slots, Claims(i)', i # t
            PROVE  entries'[i].uop.inst.op # "ecall"
        BY <2>5, <3>1, <4>2 DEF DstInv
      <4> QED
        BY <4>1, <4>2
    <3> QED
      BY <1>1, <3>1, <3>2 DEF DstInv
  <2>7. \A p : InUse(p)' <=> InUse(p)
    BY <1>1, <2>2, <2>3, <2>5 DEF InUse
  <2>8. Apart'
    <3>a. \A i \in Slots : Claims(i)' =>
             IF i = t THEN Pending /\ entries'[i].uop.pdst = renamedUop.pdst
             ELSE Claims(i) /\ entries'[i].uop.pdst = entries[i].uop.pdst
      BY <2>2, <2>3, <2>5
    <3>b. Apart
      BY DEF RegsInv
    <3>1. \A i, j \in Slots :
             Claims(i)' /\ Claims(j)' /\ entries'[i].uop.pdst = entries'[j].uop.pdst => i = j
      BY <3>a, <3>b DEF Apart
    <3>2. \A i \in Slots, l \in Reg : Claims(i)' => committedMap[l] # entries'[i].uop.pdst
      BY <3>a, <3>b DEF Apart
    <3> QED
      BY <1>1, <1>3, <2>7, <3>1, <3>2 DEF RegsInv, Apart
  <2>9. MapsInv'
    <3>1. ~MapReset /\ ~MapReset'
      BY <1>1, <2>1 DEF MapReset
    <3>2. ASSUME NEW l \in Reg
          PROVE  MapsTo(RobSlots, l, MapBefore(l))'
      <4>1. MapsTo(RobSlots, l, MapBefore(l)) /\ MapBefore(l)' = mapTable[l]
        BY <1>1, <3>1 DEF RegsInv, MapsInv, MapBefore
      <4>2. CASE Pending /\ l = renamedUop.ldst
        <5>1. mapTable[l] = u.pdst /\ u.pdst # 0 /\ u.ldst = l
          BY <2>2, <4>2 DEF RegsInv, MapsInv, Pending
        <5> QED
          BY <2>3, <4>1, <5>1
      <4>3. CASE ~(Pending /\ l = renamedUop.ldst)
        <5>1. MapBefore(l) = mapTable[l] /\ (u.pdst = 0 \/ u.ldst # l)
          BY <1>1, <1>5, <2>2, <4>3 DEF MapBefore, Pending
        <5> QED
          BY <2>3, <4>1, <5>1
      <4> QED
        BY <4>2, <4>3
    <3>3. ASSUME NEW i \in Slots, Claims(i)'
          PROVE  MapsTo(Pos(i), entries[i].uop.ldst, entries[i].uop.stale)'
      <4>1. CASE i = t
        <5>1. Pending
          BY <2>5, <3>3, <4>1
        <5>2. MapsTo(RobSlots, u.ldst, u.stale)
          BY <2>2, <3>1, <5>1 DEF RegsInv, MapsInv, MapBefore
        <5>3. MapsTo(Pos(t), u.ldst, u.stale)'
          BY <2>2, <2>3, <5>2
        <5>4. u.ldst = entries'[t].uop.ldst /\ u.stale = entries'[t].uop.stale
          BY <2>3
        <5> QED
          BY <4>1, <5>3, <5>4
      <4>2. CASE i # t
        <5>1. Claims(i) /\ entries'[i] = entries[i]
          BY <2>5, <3>3, <4>2
        <5>2. MapsTo(Pos(i), entries[i].uop.ldst, entries[i].uop.stale)
          BY <5>1 DEF RegsInv, MapsInv
        <5>3. entries[i].uop.ldst \in Reg
          BY <2>1, <5>1 DEF RingInv, Claims, MicroOp
        <5>4. PICK l, p : l \in Reg /\ l = entries[i].uop.ldst /\ p = entries[i].uop.stale
          BY <5>3
        <5>5. MapsTo(Pos(i), l, p)'
          BY <2>3, <5>1, <5>2, <5>4
        <5>6. l = entries'[i].uop.ldst /\ p = entries'[i].uop.stale
          BY <5>1, <5>4
        <5> QED
          BY <5>5, <5>6
      <4> QED
        BY <4>1, <4>2
    <3> QED
      BY <1>1, <3>1, <3>2, <3>3 DEF MapsInv
  <2>10. NoneLost => NoneLost'
    BY <1>3, <2>7 DEF NoneLost
  <2> QED
    BY <1>3, <2>6, <2>8, <2>9, <2>10 DEF RegsInv
<1> QED
  BY <1>4, <1>5

\* A mispredict leaves the committed map alone, which is the map by now.
LEMMA CommitFlushKeepsRegs ==
    ASSUME BaseInv, RegsInv, CommitFlush
    PROVE  RegsInv' /\ (NoneLost /\ FlushDropsNoRegister => NoneLost')
<1>1. /\ redirect /\ stage = "rob_commit" /\ stage' = "branch" /\ MapReset
      /\ ~Pending /\ ~Pending' /\ ~MapReset'
      /\ UNCHANGED <<mapTable, committedMap, freeListVars, decUop>>
  BY DEF CommitFlush, CommitFrame, At, MapReset, Pending, pipeVars
<1>2. \A i \in Slots : ~Claims(i)'
  BY SquashKeepsRing DEF CommitFlush, Claims
<1>3. FreeListInv' /\ FreeRegs' = FreeRegs
  BY <1>1, FreeListSame DEF RegsInv
<1>4. DstInv'
  BY <1>1, <1>2 DEF RegsInv, DstInv
<1>5. \A p : InUse(p)' => InUse(p)
  BY <1>1, <1>2 DEF InUse
<1>6. Apart'
  BY <1>1, <1>2, <1>3, <1>5 DEF RegsInv, Apart
<1>7. MapsInv'
  <2>1. mapTable' = committedMap'
    BY <1>1 DEF RegsInv, MapsInv
  <2>2. \A i \in Slots : \A l : ~Writes(i, l)'
    BY <1>2 DEF Writes
  <2>3. \A l \in Reg : MapBefore(l)' = committedMap'[l]
    BY <1>1, <2>1 DEF MapBefore
  <2>4. \A l \in Reg : MapsTo(RobSlots, l, MapBefore(l))'
    BY <2>2, <2>3 DEF MapsTo
  <2> QED
    BY <1>1, <1>2, <2>4 DEF MapsInv
<1>8. NoneLost /\ FlushDropsNoRegister => NoneLost'
  <2> SUFFICES ASSUME NoneLost, FlushDropsNoRegister PROVE NoneLost'
    OBVIOUS
  <2>1. \A i \in Slots : ~Claims(i)
    BY <1>1 DEF FlushDropsNoRegister, Claims
  <2>2. \A p : InUse(p) => InUse(p)'
    BY <1>1, <2>1 DEF InUse
  <2> QED
    BY <1>3, <2>2 DEF NoneLost
<1> QED
  BY <1>3, <1>4, <1>6, <1>7, <1>8 DEF RegsInv

\* The head leaves, and the register that its own replaces goes back.
LEMMA PopKeepsRegs ==
    ASSUME BaseInv, RegsInv, NEW es, OnlyMarked(es), HeadReady(es), PopHead(es),
           stage = "rob_commit", stage' = "branch", ~redirect,
           UNCHANGED <<mapTable, redirect, decUop>>,
           IF Claims(robHead) THEN CommitMapping(entries[robHead].uop)
           ELSE UNCHANGED <<committedMap, freeListVars>>
    PROVE  RegsInv' /\ (NoneLost => NoneLost')
<1> PICK h \in Slots : h = robHead
  BY DEF BaseInv, RingInv, RobTypeOK
<1> DEFINE d == entries[h].uop.ldst
           new == entries[h].uop.pdst
           s == entries[h].uop.stale
<1>1. /\ ~Pending /\ ~Pending' /\ ~MapReset /\ ~MapReset'
      /\ committedMap \in [Reg -> Preg] /\ RingInv /\ RenameTypeOK
  BY DEF Pending, MapReset, BaseInv, RenameTypeOK
<1>2. /\ Claims(h) => d \in Reg
      /\ committedMap' = IF Claims(h) THEN [committedMap EXCEPT ![d] = new] ELSE committedMap
  BY <1>1 DEF RingInv, Claims, MicroOp, CommitMapping
<1>3. /\ Pos(h) = 0 /\ ~entries'[h].valid
      /\ \A i \in Slots : i # h => /\ entries'[i].valid = entries[i].valid
                                   /\ entries'[i].uop = entries[i].uop
                                   /\ Pos(i) \in 1 .. RobSlots - 1
                                   /\ Pos(i)' = Pos(i) - 1
      /\ \A l \in Reg : \A p :
            MapsTo(RobSlots, l, p) => MapsTo(RobSlots, l, p)'
      /\ \A i \in Slots : \A l \in Reg : \A p :
            i # h /\ MapsTo(Pos(i), l, p) => MapsTo(Pos(i), l, p)'
  BY <1>1, <1>2, PoppedMaps
<1>4. \A i \in Slots : (Claims(i)' <=> Claims(i) /\ i # h)
  BY <1>3 DEF Claims
<1>5. Claims(h) => s = committedMap[d]
  <2> SUFFICES ASSUME Claims(h) PROVE s = committedMap[d]
    OBVIOUS
  <2>1. MapsTo(0, d, s)
    BY <1>3 DEF RegsInv, MapsInv
  <2>2. \A i \in Slots : ~(Pos(i) < 0)
    BY <1>3, RobSlotsAssumption
  <2> QED
    BY <2>1, <2>2 DEF MapsTo
<1>6. DstInv'
  BY <1>1, <1>3, <1>4 DEF RegsInv, DstInv
<1>7. MapsInv'
  <2>1. \A l \in Reg : MapsTo(RobSlots, l, mapTable[l])
    BY <1>1 DEF RegsInv, MapsInv, MapBefore
  <2>2. \A l \in Reg : MapBefore(l)' = mapTable[l]
    BY <1>1 DEF MapBefore
  <2>3. \A l \in Reg : MapsTo(RobSlots, l, MapBefore(l))'
    BY <1>3, <2>1, <2>2
  <2>4. ASSUME NEW i \in Slots, Claims(i)'
        PROVE  MapsTo(Pos(i), entries[i].uop.ldst, entries[i].uop.stale)'
    <3>1. i # h /\ Claims(i) /\ entries'[i].uop = entries[i].uop
      BY <1>3, <1>4, <2>4
    <3>2. MapsTo(Pos(i), entries[i].uop.ldst, entries[i].uop.stale)
      BY <3>1 DEF RegsInv, MapsInv
    <3>3. entries[i].uop.ldst \in Reg
      BY <1>1, <3>1 DEF RingInv, Claims, MicroOp
    <3>4. PICK l, p : l \in Reg /\ l = entries[i].uop.ldst /\ p = entries[i].uop.stale
      BY <3>3
    <3>5. MapsTo(Pos(i), l, p)'
      BY <1>3, <3>1, <3>2, <3>4
    <3>6. l = entries'[i].uop.ldst /\ p = entries'[i].uop.stale
      BY <3>1, <3>4
    <3> QED
      BY <3>5, <3>6
  <2> QED
    BY <1>1, <2>3, <2>4 DEF MapsInv
<1>8. CASE ~Claims(h)
  <2>1. UNCHANGED <<committedMap, freeListVars>>
    BY <1>8
  <2>2. FreeListInv' /\ FreeRegs' = FreeRegs
    BY <2>1, FreeListSame DEF RegsInv
  <2>3. \A i \in Slots : (Claims(i)' <=> Claims(i))
                         /\ (Claims(i) => entries'[i].uop = entries[i].uop)
    BY <1>3, <1>4, <1>8
  <2>4. \A p : InUse(p)' <=> InUse(p)
    BY <1>1, <2>1, <2>3 DEF InUse
  <2>5. Apart'
    BY <1>1, <2>1, <2>2, <2>3, <2>4 DEF RegsInv, Apart
  <2>6. NoneLost => NoneLost'
    BY <2>2, <2>4 DEF NoneLost
  <2> QED
    BY <1>6, <1>7, <2>2, <2>5, <2>6 DEF RegsInv
<1>9. CASE Claims(h)
  <2>1. /\ d \in Reg /\ s = committedMap[d] /\ new # 0
        /\ committedMap'[d] = new
        /\ \A l \in Reg : l # d => committedMap'[l] = committedMap[l]
    BY <1>1, <1>2, <1>5, <1>9 DEF Claims
  <2>2. /\ InUse(s) /\ s \in {0} \cup Handed /\ s \notin FreeRegs /\ InUse(new)
        /\ \A l \in Reg : committedMap[l] # new
    <3>1. InUse(s) /\ InUse(new)
      BY <1>9, <2>1 DEF InUse
    <3> QED
      BY <1>9, <3>1 DEF RegsInv, Apart
  <2>3. /\ FreeListInv'
        /\ s # 0 => FreeRegs' = FreeRegs \cup {s}
        /\ s = 0 => FreeRegs' = FreeRegs
    <3>1. IF s # 0 THEN Release(s) ELSE UNCHANGED freeListVars
      BY <1>9, <2>1 DEF CommitMapping
    <3>2. CASE s # 0
      <4>1. s \in Handed /\ s \notin FreeRegs /\ Release(s) /\ FreeListInv
        BY <2>2, <3>1, <3>2 DEF RegsInv
      <4>2. PICK p \in Handed : p = s
        BY <4>1
      <4> HIDE DEF s
      <4> QED
        BY <1>1, <3>2, <4>1, <4>2, ReleaseToList
    <3>3. CASE s = 0
      BY <3>1, <3>3, FreeListSame DEF RegsInv
    <3> QED
      BY <3>2, <3>3
  <2>4. \A i \in Slots : Claims(i)' => /\ i # h /\ Claims(i)
                                       /\ entries'[i].uop = entries[i].uop
                                       /\ entries[i].uop.pdst # new
    BY <1>3, <1>4, <1>9 DEF RegsInv, Apart
  <2>5. ASSUME NEW p, p # 0, p # s, InUse(p)
        PROVE  InUse(p)'
    <3>1. CASE \E l \in Reg : committedMap[l] = p
      BY <2>1, <2>5, <3>1 DEF InUse
    <3>2. CASE \E i \in Slots : Claims(i) /\ entries[i].uop.pdst = p
      BY <1>3, <1>4, <2>1, <3>2 DEF InUse
    <3> QED
      BY <1>1, <2>5, <3>1, <3>2 DEF InUse
  <2>6. ASSUME NEW p, InUse(p)'
        PROVE  InUse(p) /\ (p = s => s = 0)
    <3>1. CASE \E l \in Reg : committedMap'[l] = p
      <4>1. PICK l \in Reg : committedMap'[l] = p
        BY <3>1
      <4>2. CASE l = d
        BY <2>1, <2>2, <4>1, <4>2
      <4>3. CASE l # d
        BY <2>1, <4>1, <4>3 DEF InUse, RegsInv, Apart
      <4> QED
        BY <4>2, <4>3
    <3>2. CASE \E i \in Slots : Claims(i)' /\ entries'[i].uop.pdst = p
      BY <2>1, <2>4, <3>2 DEF InUse, RegsInv, Apart
    <3> QED
      BY <1>1, <2>6, <3>1, <3>2 DEF InUse
  <2>7. Apart'
    <3>1. \A l, m \in Reg : committedMap'[l] = committedMap'[m] => committedMap'[l] = 0 \/ l = m
      BY <2>1, <2>2 DEF RegsInv, Apart
    <3>2. \A i, j \in Slots :
             Claims(i)' /\ Claims(j)' /\ entries'[i].uop.pdst = entries'[j].uop.pdst => i = j
      BY <2>4 DEF RegsInv, Apart
    <3>3. \A i \in Slots, l \in Reg : Claims(i)' => committedMap'[l] # entries'[i].uop.pdst
      BY <2>1, <2>4 DEF RegsInv, Apart
    <3>4. \A p : InUse(p)' => p \in {0} \cup Handed
      BY <2>6 DEF RegsInv, Apart
    <3>5. ASSUME NEW p \in FreeRegs'
          PROVE  ~InUse(p)'
      <4>1. p \in FreeRegs \/ (p = s /\ s # 0)
        BY <2>3, <3>5
      <4> QED
        BY <2>6, <4>1 DEF RegsInv, Apart
    <3> QED
      BY <1>1, <3>1, <3>2, <3>3, <3>4, <3>5 DEF Apart
  <2>8. NoneLost => NoneLost'
    <3> SUFFICES ASSUME NoneLost, NEW p \in Handed
                 PROVE  InUse(p)' \/ p \in FreeRegs'
      BY DEF NoneLost, Handed
    <3>1. p # 0
      BY IntPhysRegsAssumption DEF Handed
    <3> QED
      BY <2>3, <2>5, <3>1 DEF NoneLost
  <2> QED
    BY <1>6, <1>7, <2>3, <2>7, <2>8 DEF RegsInv
<1> QED
  BY <1>8, <1>9

LEMMA RegsInvStep ==
    ASSUME CoreInv, RegsInv, RoomForUop, RegisterLeft, [Next]_vars
    PROVE  RegsInv' /\ (NoneLost /\ FlushDropsNoRegister => NoneLost')
<1> USE DEF CoreInv
<1>1. CASE RenameStage
  BY <1>1, RenameKeepsRegs
<1>2. CASE RobAllocate
  BY <1>2, RobAllocateKeepsRegs
<1>3. CASE CommitFlush
  BY <1>3, CommitFlushKeepsRegs
<1>4. CASE CommitHead \/ CommitEcall
  <2>1. /\ OnlyMarked(WithResult) /\ HeadReady(WithResult) /\ PopHead(WithResult)
        /\ stage = "rob_commit" /\ stage' = "branch" /\ ~redirect
        /\ UNCHANGED <<mapTable, redirect, decUop>>
    BY <1>4, WithResultMarks
    DEF BaseInv, CommitHead, CommitEcall, CommitFrame, HeadWaits, At, branchVars, pipeVars
  <2>2. robHead \in Slots
    BY DEF BaseInv, RingInv, RobTypeOK
  <2>3. /\ WithResult[robHead].uop = entries[robHead].uop
        /\ WithResult[robHead].valid /\ entries[robHead].valid
    BY <2>1, <2>2 DEF OnlyMarked, HeadReady
  <2>4. IF Claims(robHead) THEN CommitMapping(entries[robHead].uop)
        ELSE UNCHANGED <<committedMap, freeListVars>>
    <3>1. CASE CommitHead
      <4>1. CommitMapping(entries[robHead].uop)
        BY <2>3, <3>1 DEF CommitHead
      <4> QED
        BY <2>3, <4>1 DEF CommitMapping, Claims
    <3>2. CASE CommitEcall
      <4>1. entries[robHead].uop.inst.op = "ecall" /\ UNCHANGED <<committedMap, freeListVars>>
        BY <2>3, <3>2 DEF CommitEcall
      <4>2. ~Claims(robHead)
        BY <2>2, <4>1 DEF RegsInv, DstInv
      <4> QED
        BY <4>1, <4>2
    <3> QED
      BY <1>4, <3>1, <3>2
  <2> HIDE DEF CoreInv
  <2> QED
    BY <2>1, <2>4, PopKeepsRegs DEF CoreInv
<1>5. ASSUME UNCHANGED <<renameVars, robHead, decUop>>,
             \A i \in Slots : /\ entries'[i].valid = entries[i].valid
                              /\ entries'[i].uop = entries[i].uop,
             stage # "rob_allocate", stage' # "rob_allocate", MapReset' <=> MapReset
      PROVE  RegsInv' /\ (NoneLost => NoneLost')
  BY <1>5, RegsSame DEF renameVars, Pending, RegsInv, DstInv
<1>6. CASE LsuStage
  <2>1. \A i \in Slots : /\ entries'[i].valid = entries[i].valid
                         /\ entries'[i].uop = entries[i].uop
    BY <1>6, LsuKeepsEntries, TypedAnswer DEF BaseInv, LsuStage
  <2>2. /\ UNCHANGED <<renameVars, robHead, decUop>> /\ stage = "lsu" /\ stage' = "frontend"
    BY <1>6 DEF LsuStage, LsuModule, At, pipeVars
  <2> QED
    BY <1>5, <2>1, <2>2 DEF MapReset
<1>7. CASE Branch \/ FetchStopped \/ FetchWaits \/ FetchReads
  <2>1. /\ UNCHANGED <<renameVars, robRing, decUop>>
        /\ (stage = "branch" /\ stage' = "lsu") \/ (stage = "frontend" /\ stage' = "decode")
    BY <1>7 DEF Branch, FetchStopped, FetchWaits, FetchReads, FetchFrame, At, pipeVars
  <2> QED
    BY <1>5, <2>1 DEF MapReset, robRing
<1>8. CASE Decode
  <2>1. /\ UNCHANGED <<renameVars, robRing>> /\ stage = "decode" /\ stage' = "rename"
        /\ decUop' # NoUop => decUop'.ldst = decUop'.inst.rd
    BY <1>8 DEF Decode, Decoded, At
  <2>2. ~Pending /\ ~Pending' /\ (MapReset' <=> MapReset)
    BY <2>1 DEF Pending, MapReset
  <2> QED
    BY <2>1, <2>2, RegsSame DEF renameVars, robRing
<1>9. CASE Issue \/ Execute
  <2>1. /\ UNCHANGED <<renameVars, robRing, decUop, redirect>>
        /\ (stage = "issue" /\ stage' = "execute") \/ (stage = "execute" /\ stage' = "rob_commit")
    BY <1>9 DEF Issue, Execute, At, branchVars
  <2> QED
    BY <1>5, <2>1 DEF MapReset, robRing
<1>10. CASE CommitNothing \/ CommitTrap
  <2>1. \A i \in Slots : /\ entries'[i].valid = entries[i].valid
                         /\ entries'[i].uop = entries[i].uop
    BY <1>10, WithResultMarks DEF BaseInv, OnlyMarked, CommitNothing, CommitTrap
  <2>2. /\ UNCHANGED <<renameVars, robHead, decUop, redirect>> /\ ~redirect
        /\ stage = "rob_commit" /\ stage' = "branch"
    BY <1>10 DEF CommitNothing, CommitTrap, CommitFrame, At, pipeVars, renameVars, branchVars
  <2> QED
    BY <1>5, <2>1, <2>2 DEF MapReset
<1>11. CASE Memory
  <2>1. UNCHANGED <<renameVars, robRing, decUop, redirect, stage>> /\ stage = "branch"
    BY <1>11 DEF Memory, pipeVars, branchVars
  <2> QED
    BY <1>5, <2>1 DEF MapReset, robRing
<1>12. CASE UNCHANGED vars
  <2>1. UNCHANGED <<renameVars, robRing, decUop, redirect, stage>>
    BY <1>12 DEF vars, pipeVars, branchVars
  <2>2. (Pending' <=> Pending) /\ (MapReset' <=> MapReset)
    BY <2>1 DEF Pending, MapReset, renameVars
  <2> QED
    BY <2>1, <2>2, RegsSame DEF renameVars, robRing, RegsInv, DstInv
<1> QED
  BY <1>1, <1>2, <1>3, <1>4, <1>6, <1>7, <1>8, <1>9, <1>10, <1>11, <1>12 DEF Next, Cycle

-----------------------------------------------------------------------------
(* What the properties say.                                                *)

\* The entries of the window, the oldest first, are at distance 0, 1, ... from the
\* head, and there are no others.
LEMMA WindowByPos ==
    ASSUME RingInv
    PROVE  /\ RobLength \in 0 .. RobSlots
           /\ \A k \in 1 .. RobLength :
                 /\ SlotFromHead(k - 1) \in Slots /\ Pos(SlotFromHead(k - 1)) = k - 1
                 /\ entries[SlotFromHead(k - 1)].valid
                 /\ RobQueue[k] = entries[SlotFromHead(k - 1)].uop
           /\ \A i \in Slots : entries[i].valid => Pos(i) < RobLength
<1>1. /\ RobSlots \in Nat \ {0} /\ robHead \in 0 .. RobSlots - 1
      /\ robTail \in 0 .. RobSlots - 1 /\ robHead \in Slots /\ maybeFull \in BOOLEAN
  BY RobSlotsAssumption DEF RingInv, RobTypeOK, Slots
<1>2. \A i \in Slots : entries[i].valid <=> InWindow(i)
  BY DEF RingInv, RobWindow
<1>3. /\ RobLength \in 0 .. RobSlots
      /\ RobLength = IF maybeFull THEN RobSlots
                     ELSE IF robHead <= robTail THEN robTail - robHead
                     ELSE robTail + RobSlots - robHead
      /\ maybeFull => robHead = robTail
  BY <1>1 DEF RobLength, RingInv, RobWindow
<1>4. ASSUME NEW i \in Slots
      PROVE  InWindow(i) <=> Pos(i) < RobLength
  <2>1. i \in 0 .. RobSlots - 1
    BY DEF Slots
  <2>2. InWindow(i) <=> \/ maybeFull
                        \/ robHead <= i /\ i < robTail
                        \/ robTail < robHead /\ (robHead <= i \/ i < robTail)
    BY DEF InWindow
  <2>3. Pos(i) = IF i >= robHead THEN i - robHead ELSE i + RobSlots - robHead
    BY DEF Pos
  <2> QED
    BY <1>1, <1>3, <2>1, <2>2, <2>3
<1>5. ASSUME NEW k \in 1 .. RobLength
      PROVE  /\ SlotFromHead(k - 1) \in Slots /\ Pos(SlotFromHead(k - 1)) = k - 1
             /\ entries[SlotFromHead(k - 1)].valid
             /\ RobQueue[k] = entries[SlotFromHead(k - 1)].uop
  <2>1. k - 1 \in Slots /\ k - 1 < RobLength
    BY <1>1, <1>3 DEF Slots
  <2>2. SlotFromHead(k - 1) \in Slots /\ Pos(SlotFromHead(k - 1)) = k - 1
    BY <1>1, <2>1, PosIs, Ring!SlotAfter, RingAssumptions DEF SlotFromHead, Slots, Ring!Slots
  <2>3. RobQueue[k] = entries[SlotFromHead(k - 1)].uop
    BY DEF RobQueue, SlotFromHead
  <2> QED
    BY <1>2, <1>4, <2>1, <2>2, <2>3
<1>6. \A i \in Slots : entries[i].valid => Pos(i) < RobLength
  BY <1>2, <1>4, Zenon
<1>7. RobLength \in 0 .. RobSlots
  BY <1>3
<1> QED
  BY <1>5, <1>6, <1>7, Zenon

\* What a register is mapped to behind one more uop.
LEMMA MapsToNext ==
    ASSUME RingInv, NEW k \in Nat, k + 1 <= RobLength, NEW l \in Reg, NEW p \in Preg,
           MapsTo(k, l, p)
    PROVE  LET u == RobQueue[k + 1]
           IN  /\ u.pdst \in Preg /\ u.ldst \in Reg
               /\ MapsTo(k + 1, l, IF u.pdst # 0 /\ u.ldst = l THEN u.pdst ELSE p)
<1> DEFINE i == SlotFromHead(k)
           u == entries[i].uop
<1>1. /\ RobLength \in Nat
      /\ \A j \in Slots : Pos(j) \in Nat /\ SlotFromHead(Pos(j)) = j
  <2>1. robHead \in Slots /\ Slots \subseteq Nat /\ RobSlots \in Nat
    BY RobSlotsAssumption DEF RingInv, RobTypeOK, Slots
  <2>2. RobLength \in 0 .. RobSlots
    BY WindowByPos
  <2>3. \A j \in Slots : Pos(j) \in Slots /\ SlotFromHead(Pos(j)) = j
    BY <2>1, PosIs
  <2>4. RobLength \in Nat
    BY <2>1, <2>2
  <2> QED
    BY <2>1, <2>3, <2>4, Zenon
<1>2. i \in Slots /\ Pos(i) = k /\ entries[i].valid /\ RobQueue[k + 1] = u
  <2>1. k + 1 \in 1 .. RobLength /\ (k + 1) - 1 = k
    BY <1>1
  <2>2. \A n \in 1 .. RobLength :
           /\ SlotFromHead(n - 1) \in Slots /\ Pos(SlotFromHead(n - 1)) = n - 1
           /\ entries[SlotFromHead(n - 1)].valid
           /\ RobQueue[n] = entries[SlotFromHead(n - 1)].uop
    BY WindowByPos
  <2> QED
    BY <2>1, <2>2
<1> HIDE DEF Pos
<1>3. u.pdst \in Preg /\ u.ldst \in Reg
  BY <1>2 DEF RingInv, MicroOp
<1> HIDE DEF i
<1>4. \A j \in Slots : /\ Pos(j) < k + 1 <=> Pos(j) < k \/ j = i
                       /\ Pos(j) >= k + 1 <=> Pos(j) >= k /\ j # i
  <2> TAKE j \in Slots
  <2>1. Pos(j) = k => j = i
    BY <1>1, <1>2
  <2> QED
    BY <1>1, <1>2, <2>1
<1>5. CASE u.pdst # 0 /\ u.ldst = l
  <2>1. Writes(i, l)
    BY <1>2, <1>5 DEF Writes, Claims
  <2>2. \A j \in Slots : Pos(j) < k + 1 => Pos(j) <= Pos(i)
    BY <1>1, <1>2
  <2>3. MapsTo(k + 1, l, u.pdst)
    BY <1>1, <1>2, <1>4, <2>1, <2>2 DEF MapsTo
  <2> QED
    BY <1>2, <1>3, <1>5, <2>3
<1>6. CASE ~(u.pdst # 0 /\ u.ldst = l)
  <2>1. ~Writes(i, l)
    BY <1>6 DEF Writes, Claims
  <2>2. MapsTo(k + 1, l, p)
    BY <1>4, <2>1 DEF MapsTo
  <2> QED
    BY <1>2, <1>3, <1>6, <2>2
<1> QED
  BY <1>5, <1>6

LEMMA MapsToFirst ==
    ASSUME RingInv, NEW l \in Reg
    PROVE  MapsTo(0, l, committedMap[l])
<1>1. \A i \in Slots : Pos(i) >= 0
  BY PosIs, RobSlotsAssumption DEF RingInv, RobTypeOK, Slots
<1> QED
  BY <1>1 DEF MapsTo

\* Every register is mapped to one.
LEMMA MapsToSome ==
    ASSUME RingInv, RenameTypeOK, NEW n \in 0 .. RobLength, NEW l \in Reg
    PROVE  \E p \in Preg : MapsTo(n, l, p)
<1> DEFINE T == {k \in Nat : k <= RobLength => \E p \in Preg : MapsTo(k, l, p)}
<1>1. RobLength \in Nat /\ committedMap[l] \in Preg
  BY WindowByPos, RobSlotsAssumption DEF RenameTypeOK
<1>2. 0 \in T
  BY <1>1, MapsToFirst
<1>3. ASSUME NEW k \in Nat, k \in T
      PROVE  k + 1 \in T
  <2> SUFFICES ASSUME k + 1 <= RobLength
               PROVE  \E p \in Preg : MapsTo(k + 1, l, p)
    OBVIOUS
  <2>1. PICK p \in Preg : MapsTo(k, l, p)
    BY <1>1, <1>3
  <2> DEFINE u == RobQueue[k + 1]
  <2>2. /\ u.pdst \in Preg
        /\ MapsTo(k + 1, l, IF u.pdst # 0 /\ u.ldst = l THEN u.pdst ELSE p)
    BY <2>1, MapsToNext
  <2> QED
    BY <2>1, <2>2
<1>4. n \in T
  <2> HIDE DEF T
  <2> QED
    BY <1>1, <1>2, <1>3, InductionOnNat
<1> QED
  BY <1>1, <1>4

\* The recursive function of MapsAgree: what its value at n is made of, and that it
\* is what the registers are mapped to behind n uops.
MappedFrom(f, n) ==
    IF n = 0 THEN committedMap
    ELSE IF RobQueue[n].pdst = 0 THEN f[n - 1]
    ELSE [f[n - 1] EXCEPT ![RobQueue[n].ldst] = RobQueue[n].pdst]

LEMMA MappedMapsTo ==
    ASSUME RingInv, RenameTypeOK, NEW f,
           \A n \in 0 .. RobLength : f[n] = MappedFrom(f, n), NEW n \in 0 .. RobLength
    PROVE  f[n] \in [Reg -> Preg] /\ \A l \in Reg : MapsTo(n, l, f[n][l])
<1> DEFINE T == {k \in Nat : k <= RobLength =>
                    f[k] \in [Reg -> Preg] /\ \A l \in Reg : MapsTo(k, l, f[k][l])}
<1>1. RobLength \in Nat /\ committedMap \in [Reg -> Preg]
  BY WindowByPos, RobSlotsAssumption DEF RenameTypeOK
<1>2. 0 \in T
  <2>1. 0 \in 0 .. RobLength
    BY <1>1
  <2>2. f[0] = committedMap
    BY <2>1 DEF MappedFrom
  <2> QED
    BY <1>1, <2>2, MapsToFirst
<1>3. ASSUME NEW k \in Nat, k \in T
      PROVE  k + 1 \in T
  <2> SUFFICES ASSUME k + 1 <= RobLength
               PROVE  /\ f[k + 1] \in [Reg -> Preg]
                      /\ \A l \in Reg : MapsTo(k + 1, l, f[k + 1][l])
    OBVIOUS
  <2> DEFINE u == RobQueue[k + 1]
  <2>1. /\ k + 1 \in 0 .. RobLength /\ (k + 1) - 1 = k /\ k + 1 # 0
        /\ f[k] \in [Reg -> Preg] /\ \A l \in Reg : MapsTo(k, l, f[k][l])
    BY <1>1, <1>3
  <2>2. f[k + 1] = IF u.pdst = 0 THEN f[k] ELSE [f[k] EXCEPT ![u.ldst] = u.pdst]
    BY <2>1 DEF MappedFrom
  <2>3. ASSUME NEW l \in Reg
        PROVE  /\ u.pdst \in Preg /\ u.ldst \in Reg
               /\ MapsTo(k + 1, l, IF u.pdst # 0 /\ u.ldst = l THEN u.pdst ELSE f[k][l])
    <3>1. f[k][l] \in Preg /\ MapsTo(k, l, f[k][l])
      BY <2>1
    <3> QED
      BY <3>1, MapsToNext
  <2> HIDE DEF u
  <2>4. u.pdst \in Preg /\ u.ldst \in Reg
    BY <2>3, Zeros
  <2>5. /\ f[k + 1] \in [Reg -> Preg]
        /\ \A l \in Reg : f[k + 1][l] = IF u.pdst # 0 /\ u.ldst = l THEN u.pdst ELSE f[k][l]
    BY <2>1, <2>2, <2>4
  <2> QED
    BY <2>3, <2>5
<1>4. n \in T
  <2> HIDE DEF T
  <2> QED
    BY <1>1, <1>2, <1>3, InductionOnNat
<1> QED
  BY <1>1, <1>4

\* There is such a function.
LEMMA MappedExists ==
    ASSUME RingInv, RenameTypeOK
    PROVE  \E f : f = [n \in 0 .. RobLength |-> MappedFrom(f, n)]
<1> DEFINE e == [n \in 0 .. RobLength |-> [l \in Reg |-> CHOOSE p \in Preg : MapsTo(n, l, p)]]
<1>1. RobLength \in Nat /\ committedMap \in [Reg -> Preg] /\ robHead \in Slots
  BY WindowByPos, RobSlotsAssumption DEF RenameTypeOK, RingInv, RobTypeOK
<1>2. ASSUME NEW n \in 0 .. RobLength, NEW l \in Reg
      PROVE  e[n][l] \in Preg /\ MapsTo(n, l, e[n][l])
  BY MapsToSome
<1>3. ASSUME NEW n \in 0 .. RobLength, NEW l \in Reg, NEW p, MapsTo(n, l, p)
      PROVE  e[n][l] = p
  <2>1. n \in Int
    OBVIOUS
  <2> HIDE DEF e
  <2> QED
    BY <1>1, <1>2, <1>3, <2>1, MapsToOne
<1>4. \A n \in 0 .. RobLength : e[n] \in [Reg -> Preg]
  BY <1>2
<1>5. e = [n \in 0 .. RobLength |-> e[n]]
  OBVIOUS
<1> HIDE DEF e
<1>6. ASSUME NEW n \in 0 .. RobLength
      PROVE  e[n] = MappedFrom(e, n)
  <2>1. CASE n = 0
    BY <1>1, <1>3, <1>4, <2>1, MapsToFirst DEF MappedFrom
  <2>2. CASE n # 0
    <3> DEFINE k == n - 1
               u == RobQueue[n]
    <3>1. k \in Nat /\ k \in 0 .. RobLength /\ k + 1 = n /\ k + 1 <= RobLength
      BY <1>1, <2>2
    <3>2. ASSUME NEW l \in Reg
          PROVE  /\ u.pdst \in Preg /\ u.ldst \in Reg
                 /\ e[n][l] = IF u.pdst # 0 /\ u.ldst = l THEN u.pdst ELSE e[k][l]
      <4>1. e[k][l] \in Preg /\ MapsTo(k, l, e[k][l])
        BY <1>2, <3>1
      <4>2. /\ u.pdst \in Preg /\ u.ldst \in Reg
            /\ MapsTo(n, l, IF u.pdst # 0 /\ u.ldst = l THEN u.pdst ELSE e[k][l])
        BY <3>1, <4>1, MapsToNext
      <4> QED
        BY <1>3, <4>2
    <3> HIDE DEF u
    <3>3. u.pdst \in Preg /\ u.ldst \in Reg
      BY <3>2, Zeros
    <3>4. e[n] = IF u.pdst = 0 THEN e[k] ELSE [e[k] EXCEPT ![u.ldst] = u.pdst]
      BY <1>4, <3>1, <3>2, <3>3
    <3> QED
      BY <2>2, <3>4 DEF MappedFrom, u
  <2> QED
    BY <2>1, <2>2
<1>7. e = [n \in 0 .. RobLength |-> MappedFrom(e, n)]
  BY <1>5, <1>6
<1> QED
  BY <1>7

LEMMA RegsInvMaps ==
    ASSUME BaseInv, RegsInv
    PROVE  MapsAgree
<1> SUFFICES ASSUME stage = "branch"
             PROVE  MapsAgree
  BY DEF MapsAgree
<1> DEFINE Rule(f) == [n \in 0 .. RobLength |->
                          IF n = 0 THEN committedMap
                          ELSE IF RobQueue[n].pdst = 0 THEN f[n - 1]
                          ELSE [f[n - 1] EXCEPT ![RobQueue[n].ldst] = RobQueue[n].pdst]]
           g == CHOOSE f : f = Rule(f)
<1>1. RingInv /\ RenameTypeOK /\ robHead \in Slots /\ RobLength \in 0 .. RobSlots
  BY WindowByPos DEF BaseInv, RingInv, RobTypeOK
<1>2. \A f : Rule(f) = [n \in 0 .. RobLength |-> MappedFrom(f, n)]
  BY DEF MappedFrom
<1>3. g = Rule(g)
  <2>1. \E f : f = Rule(f)
    BY <1>1, <1>2, MappedExists
  <2> HIDE DEF Rule
  <2> QED
    BY <2>1
<1>4. MapsAgree <=> mapTable = g[RobLength]
  BY DEF MapsAgree
<1> HIDE DEF g
<1>5. \A n \in 0 .. RobLength : g[n] = MappedFrom(g, n)
  <2> HIDE DEF Rule
  <2>1. g = [n \in 0 .. RobLength |-> MappedFrom(g, n)]
    BY <1>2, <1>3
  <2>2. \A n \in 0 .. RobLength :
            [m \in 0 .. RobLength |-> MappedFrom(g, m)][n] = MappedFrom(g, n)
    OBVIOUS
  <2> QED
    BY <2>1, <2>2, Zenon
<1>6. /\ g[RobLength] \in [Reg -> Preg]
      /\ \A l \in Reg : MapsTo(RobLength, l, g[RobLength][l])
  <2>1. RobLength \in 0 .. RobLength
    BY <1>1, RobSlotsAssumption
  <2> QED
    BY <1>1, <1>5, <2>1, MappedMapsTo
<1>7. ASSUME NEW l \in Reg
      PROVE  mapTable[l] = g[RobLength][l]
  <2>1. MapsTo(RobSlots, l, mapTable[l])
    BY DEF RegsInv, MapsInv, MapReset, MapBefore, Pending
  <2>2. \A i \in Slots : /\ Pos(i) < RobSlots /\ ~(Pos(i) >= RobSlots)
                         /\ Writes(i, l) => Pos(i) < RobLength /\ ~(Pos(i) >= RobLength)
    <3>1. \A i \in Slots : Pos(i) \in 0 .. RobSlots - 1
      BY <1>1, PosIs DEF Slots
    <3>2. \A i \in Slots : Writes(i, l) => Pos(i) < RobLength
      BY <1>1, WindowByPos DEF Writes, Claims
    <3> QED
      BY <1>1, <3>1, <3>2, RobSlotsAssumption
  <2>3. MapsTo(RobSlots, l, g[RobLength][l])
    BY <1>6, <2>2 DEF MapsTo
  <2> QED
    BY <1>1, <2>1, <2>3, MapsToOne, RobSlotsAssumption
<1>8. mapTable \in [Reg -> Preg]
  BY <1>1 DEF RenameTypeOK
<1> QED
  BY <1>4, <1>6, <1>7, <1>8

LEMMA RegsInvConserves ==
    ASSUME BaseInv, RegsInv, NoneLost
    PROVE  RegistersConserved
<1> SUFFICES ASSUME stage = "branch"
             PROVE  /\ FreeRegs \cap (HeldRegs \cup {0}) = {}
                    /\ Cardinality(FreeRegs) = freeCount - 1
                    /\ Cardinality(FreeRegs) + Cardinality(HeldRegs) = IntPhysRegs - 2
  BY DEF RegistersConserved
<1>1. IntPhysRegs \in Nat /\ IntPhysRegs > 1 /\ 0 \notin Handed
  BY IntPhysRegsAssumption DEF Handed
<1>2. \A p : p \in HeldRegs <=> p # 0 /\ InUse(p)
  BY DEF HeldRegs, InUse, Claims, Pending
<1>3. HeldRegs \subseteq Handed /\ FreeRegs \subseteq Handed /\ FreeRegs \cap HeldRegs = {}
  BY <1>2 DEF RegsInv, Apart, FreeListInv
<1>4. FreeRegs \cup HeldRegs = Handed
  BY <1>1, <1>2, <1>3 DEF NoneLost
<1>5. Cardinality(FreeRegs) = freeCount - 1
  BY FreeRegsCounted DEF RegsInv
<1>6. IsFiniteSet(Handed) /\ Cardinality(Handed) = IntPhysRegs - 2
  BY <1>1, FS_Interval DEF Handed
<1>7. IsFiniteSet(FreeRegs) /\ IsFiniteSet(HeldRegs)
  BY <1>3, <1>6, FS_Subset
<1>8. Cardinality(FreeRegs) \in Nat /\ Cardinality(HeldRegs) \in Nat
  BY <1>7, FS_CardinalityType
<1>9. Cardinality(FreeRegs \cup HeldRegs)
         = Cardinality(FreeRegs) + Cardinality(HeldRegs) - Cardinality(FreeRegs \cap HeldRegs)
  BY <1>7, FS_Union
<1>10. Cardinality(FreeRegs \cap HeldRegs) = 0
  BY <1>3, FS_EmptySet
<1> QED
  BY <1>1, <1>3, <1>4, <1>5, <1>6, <1>8, <1>9, <1>10

\* The next step keeps the placement of the registers, as long as the two things the
\* code does not look at happen: the queue has room for a renamed uop, and the list a
\* register for a uop that wants one.
LEMMA RegsInvAlways == Spec /\ []RoomForUop /\ []RegisterLeft => []RegsInv
<1>1. CoreInv /\ RegsInv /\ RoomForUop /\ RegisterLeft /\ [Next]_vars => RegsInv'
  BY RegsInvStep
<1> QED
  BY <1>1, RegsInvInit, CoreInvAlways, PTL DEF Spec

LEMMA NoneLostAlways == Spec /\ []NothingLost => [](RegsInv /\ NoneLost)
<1>1. CoreInv /\ RegsInv /\ NoneLost /\ NothingLost /\ [Next]_vars => RegsInv' /\ NoneLost'
  BY RegsInvStep DEF NothingLost
<1> QED
  BY <1>1, RegsInvInit, CoreInvAlways, PTL DEF Spec

\* Where the stages meet, the map table is the committed map with the destinations of
\* the uops in the queue applied in order, for every ROB depth and every program: what
\* rename.cpp writes at rename, and what it restores after a flush, are the same map.
THEOREM CoreMapsAgree == Spec /\ []RoomForUop /\ []RegisterLeft => []MapsAgree
<1>1. CoreInv /\ RegsInv => MapsAgree
  BY RegsInvMaps DEF CoreInv
<1> QED
  BY <1>1, RegsInvAlways, CoreInvAlways, PTL

\* No physical register is lost or held twice, for every number of registers and every
\* ROB depth: what rename.cpp takes from the free list, commit_rename gives back once,
\* as long as nothing is dropped that the code does not look at.
THEOREM CoreRegistersConserved == Spec /\ []NothingLost => []RegistersConserved
<1>1. CoreInv /\ RegsInv /\ NoneLost => RegistersConserved
  BY RegsInvConserves DEF CoreInv
<1> QED
  BY <1>1, NoneLostAlways, CoreInvAlways, PTL

=============================================================================
