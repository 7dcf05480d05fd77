-------------------------------- MODULE Lsu --------------------------------
(***************************************************************************)
(* The load/store unit (lsu.cpp) with the data streams and the memory      *)
(* behind them.  It keeps no order of its own: a load waits in its ROB     *)
(* entry until no older store is in the ROB and no other load is in        *)
(* flight.  Stores go out of rob_commit_module.                            *)
(*                                                                         *)
(* The LDQ and STQ arrays are written and never read, and their counts     *)
(* guard only themselves: they are not kept.                               *)
(***************************************************************************)
EXTENDS BoomTypes

CONSTANTS TxIds,            \* transaction ids are counted modulo this (2^32)
          DmemDepth,        \* requests dmem_req holds (1024, see README)
          FaultAddrs        \* addresses whose loads the memory answers with a fault

ASSUME TxIdsAssumption == TxIds \in Nat \ {0, 1}
ASSUME DmemDepthAssumption == DmemDepth \in Nat \ {0}
ASSUME FaultAddrsAssumption == FaultAddrs \subseteq Word

VARIABLES entries, robHead, robTail, maybeFull, robState,
          loadPending,      \* lsu.load_response_pending
          pendingTx,        \* lsu.pending_load_transaction_id
          pendingRob,       \* lsu.pending_load_rob_idx
          nextTx,           \* lsu.next_transaction_id
          dmemReq,          \* requests, the oldest first
          dmemResp,         \* responses, the oldest first
          memory,           \* the data memory behind the streams
          intRf             \* int_rf

INSTANCE Rob WITH RobDepth <- RobSlots, Uops <- MicroOp, MemInfos <- MemInfo

lsuVars == <<loadPending, pendingTx, pendingRob, nextTx>>
memoryVars == <<dmemReq, dmemResp, memory>>

Tx == 0 .. TxIds - 1

DmemRequest == [isStore : BOOLEAN, addr : Word, data : Word, tx : Tx]
DmemResponse == [tx : Tx, data : Word, fault : BOOLEAN]

LsuInit ==
    /\ loadPending = FALSE
    /\ pendingTx = 0
    /\ pendingRob = 0
    /\ nextTx = 1
    /\ dmemReq = <<>>
    /\ dmemResp = <<>>
    /\ memory = [a \in Word |-> 0]
    /\ intRf = [p \in Preg |-> 0]

DmemFull == Len(dmemReq) >= DmemDepth
NextTx == (nextTx + 1) % TxIds

-----------------------------------------------------------------------------
(* Reading a response.                                                     *)

\* Mutant of Answered: the transaction id is not looked at.
AnsweredByAnything == dmemResp # <<>> /\ loadPending

\* The response at the front of dmem_resp is the one waited for.
Answered ==
    /\ dmemResp # <<>>
    /\ loadPending
    /\ Head(dmemResp).tx = pendingTx

\* The entry that waits for it is still that load.
Completes ==
    /\ Answered
    /\ entries[pendingRob].valid
    /\ entries[pendingRob].mem.isLoad
    /\ entries[pendingRob].mem.sent

\* Mutant of WithResponse: the entry stays busy.
WithResponseStillBusy ==
    IF ~Completes THEN entries
    ELSE LET resp == Head(dmemResp) IN
         [entries EXCEPT ![pendingRob] =
             [@ EXCEPT !.exception = @ \/ resp.fault,
                       !.mem.completed = TRUE,
                       !.mem.data = IF resp.fault THEN @ ELSE resp.data]]

\* A completed load is done; a fault marks the entry, data is kept in it.
Returned(e, resp) ==
    [e EXCEPT !.busy = FALSE,
              !.exception = @ \/ resp.fault,
              !.mem.completed = TRUE,
              !.mem.data = IF resp.fault THEN @ ELSE resp.data]

WithResponse ==
    IF ~Completes THEN entries
    ELSE [entries EXCEPT ![pendingRob] = Returned(@, Head(dmemResp))]

\* The load's value goes to its destination.
RfWithResponse ==
    LET p == entries[pendingRob].uop.pdst
    IN  IF Completes /\ ~Head(dmemResp).fault /\ p # 0
        THEN [intRf EXCEPT ![p] = Head(dmemResp).data]
        ELSE intRf

-----------------------------------------------------------------------------
(* Taking the address that execute computed in the previous cycle.         *)

\* enqueue_store, or enqueue_load: a store is done, since commit sends it.
Addressed(e, result) ==
    [e EXCEPT !.busy = @ /\ ~result.isStore,
              !.mem = [e.mem EXCEPT !.valid = TRUE,
                                    !.isLoad = result.isLoad,
                                    !.isStore = result.isStore,
                                    !.completed = @ \/ result.isStore,
                                    !.addr = result.addr,
                                    !.data = IF result.isStore THEN result.data ELSE @]]

WithAddress(es, result) ==
    LET i == result.uop.rob
    IN  IF result.valid /\ (result.isLoad \/ result.isStore) /\ es[i].valid
        THEN [es EXCEPT ![i] = Addressed(@, result)]
        ELSE es

-----------------------------------------------------------------------------
(* Sending a load.                                                         *)

\* The k-th slot from the head.
SlotFromHead(k) == (robHead + k) % RobSlots

\* A store sits between the head and the k-th slot.
OlderStore(es, k) ==
    \E j \in 0 .. k - 1 : /\ es[SlotFromHead(j)].valid
                          /\ CtrlIsSta(es[SlotFromHead(j)].uop.inst)

\* Mutant of MaySend: older stores are not looked for.
MaySendPastStores(es, k) ==
    LET e == es[SlotFromHead(k)]
    IN  e.valid /\ e.mem.isLoad /\ e.mem.valid /\ ~e.mem.sent /\ ~DmemFull

MaySend(es, k) ==
    LET e == es[SlotFromHead(k)]
    IN  /\ e.valid /\ e.mem.isLoad /\ e.mem.valid /\ ~e.mem.sent
        /\ ~OlderStore(es, k)
        /\ ~DmemFull

\* At most one load goes out, the one nearest to the head that may, and only
\* when no other load is in flight after this call's response.
SendLoad(es, stillPending) ==
    LET candidates == {k \in Slots : ~stillPending /\ MaySend(es, k)}
    IN  \/ /\ candidates = {}
           /\ entries' = es
           /\ loadPending' = stillPending
           /\ pendingTx' = IF Answered THEN 0 ELSE pendingTx
           /\ UNCHANGED <<pendingRob, nextTx, dmemReq>>
        \/ \E k \in candidates :
              LET i == SlotFromHead(k) IN
              /\ \A other \in candidates : k <= other
              /\ entries' = [es EXCEPT ![i].mem.sent = TRUE]
              /\ loadPending' = TRUE
              /\ pendingTx' = nextTx
              /\ pendingRob' = i
              /\ nextTx' = NextTx
              /\ dmemReq' = Append(dmemReq, [isStore |-> FALSE, addr |-> es[i].mem.addr,
                                             data |-> 0, tx |-> nextTx])

-----------------------------------------------------------------------------

\* lsu_module, given the result of the previous cycle's execute.
LsuModule(result) ==
    /\ dmemResp' = IF dmemResp = <<>> THEN <<>> ELSE Tail(dmemResp)
    /\ intRf' = RfWithResponse
    /\ SendLoad(WithAddress(WithResponse, result), loadPending /\ ~Answered)
    /\ UNCHANGED <<robHead, robTail, maybeFull, robState, memory>>

\* The memory behind the streams performs the oldest request.  A store needs no
\* answer; a load is answered with the word or with a fault.
MemoryServes ==
    /\ dmemReq # <<>>
    /\ Len(dmemResp) < DmemDepth
    /\ dmemReq' = Tail(dmemReq)
    /\ LET req == Head(dmemReq)
       IN  \/ /\ req.isStore
              /\ memory' = [memory EXCEPT ![req.addr] = req.data]
              /\ UNCHANGED dmemResp
           \/ /\ ~req.isStore
              /\ dmemResp' = Append(dmemResp, [tx |-> req.tx, data |-> memory[req.addr],
                                               fault |-> req.addr \in FaultAddrs])
              /\ UNCHANGED memory

-----------------------------------------------------------------------------
(* Properties.                                                             *)

LsuTypeOK ==
    /\ loadPending \in BOOLEAN
    /\ pendingTx \in Tx
    /\ pendingRob \in Slots
    /\ nextTx \in Tx
    /\ dmemReq \in Seq(DmemRequest) /\ Len(dmemReq) <= DmemDepth
    /\ dmemResp \in Seq(DmemResponse) /\ Len(dmemResp) <= DmemDepth
    /\ memory \in [Word -> Word]
    /\ intRf \in [Preg -> Word]

=============================================================================
