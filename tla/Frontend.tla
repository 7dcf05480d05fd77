------------------------------ MODULE Frontend ------------------------------
(***************************************************************************)
(* The front end (frontend.cpp): one fetch at a time.  It sends a request  *)
(* tagged with a fetch id, accepts the one response with that id and drops *)
(* every other.  A redirect abandons the request in flight, whose response *)
(* still arrives.                                                          *)
(*                                                                         *)
(* The request stream, the instruction memory behind it and the response   *)
(* stream are one queue, fetches: memory answers in order, at any later    *)
(* cycle.  A request is never answered in the call that sends it.          *)
(***************************************************************************)
EXTENDS BoomTypes

CONSTANTS FetchIds,     \* fetch ids are counted modulo this (2^32 in the code)
          MaxFetches,   \* requests in flight before imem_req is full
          ResetVector,
          Programs      \* instruction memories: functions from Word to Instr

ASSUME FetchIdsAssumption == FetchIds \in Nat /\ MaxFetches \in Nat
                             /\ 0 < MaxFetches /\ MaxFetches < FetchIds
ASSUME ResetVectorAssumption == ResetVector \in Word
ASSUME ProgramsAssumption == \A p \in Programs : p \in [Word -> Instr]

VARIABLES pc,               \* fe.pc
          requestSent,      \* fe.request_sent
          fetchId,          \* fe.fetch_id
          pendingFetchId,   \* fe.pending_fetch_id
          fetchUop,         \* fe.fetch_uop when fe.fetch_packet_valid, else NoUop
          fetches           \* requests not yet answered or not yet read

frontendVars == <<pc, requestSent, fetchId, pendingFetchId, fetchUop, fetches>>

FetchRequest == [address : Word, id : 0 .. FetchIds - 1]

FrontendInit ==
    /\ pc = ResetVector
    /\ requestSent = FALSE
    /\ fetchId = 0
    /\ pendingFetchId = 0
    /\ fetchUop = NoUop
    /\ fetches = <<>>

-----------------------------------------------------------------------------

\* A redirect moves pc and forgets the request in flight.
PcAfter(redirect, target) == IF redirect THEN target ELSE pc
SentAfter(redirect) == requestSent /\ ~redirect

\* In ROB_EXCEPTION the call returns before it touches the streams.
FrontendStopped(redirect, target) ==
    /\ pc' = PcAfter(redirect, target)
    /\ requestSent' = SentAfter(redirect)
    /\ fetchUop' = NoUop
    /\ UNCHANGED <<fetchId, pendingFetchId, fetches>>

\* Mutant of Sends: imem_req.full() is not asked.
SendsWithoutRoom(redirect) == ~SentAfter(redirect) /\ Len(fetches) <= MaxFetches

\* Whether this call sends a request.
Sends(redirect) == ~SentAfter(redirect) /\ Len(fetches) < MaxFetches

\* Mutant of SendFetch: fetch_id is not incremented.
SendFetchSameId(redirect) ==
    /\ pendingFetchId' = IF Sends(redirect) THEN fetchId ELSE pendingFetchId
    /\ UNCHANGED fetchId

\* The ids after the request of this call, if there is one.
SendFetch(redirect) ==
    IF Sends(redirect)
    THEN /\ pendingFetchId' = fetchId
         /\ fetchId' = (fetchId + 1) % FetchIds
    ELSE UNCHANGED <<pendingFetchId, fetchId>>

\* Mutant of SentNow: the request carries the pc from before the redirect.
SentNowOldPc(redirect, target) ==
    IF Sends(redirect) THEN <<[address |-> pc, id |-> fetchId]>> ELSE <<>>

SentNow(redirect, target) ==
    IF Sends(redirect)
    THEN <<[address |-> PcAfter(redirect, target), id |-> fetchId]>>
    ELSE <<>>

\* No response this cycle.
FrontendWaits(redirect, target) ==
    /\ SendFetch(redirect)
    /\ fetches' = fetches \o SentNow(redirect, target)
    /\ requestSent' = (SentAfter(redirect) \/ Sends(redirect))
    /\ pc' = PcAfter(redirect, target)
    /\ fetchUop' = NoUop

\* Mutant of Matches: any response is taken for the one waited for.
MatchesAny(response) == response.address \in Word

\* The response is the one waited for, after this call's own request.
Matches(response) == response.id = pendingFetchId'

\* A response is read: accepted when it carries the pending id, else dropped.
FrontendReads(redirect, target, program) ==
    /\ fetches # <<>>
    /\ SendFetch(redirect)
    /\ fetches' = Tail(fetches) \o SentNow(redirect, target)
    /\ LET response == Head(fetches)
           waiting == SentAfter(redirect) \/ Sends(redirect)
       IN  \/ /\ waiting /\ Matches(response)
              /\ requestSent' = FALSE
              /\ fetchUop' = [pc |-> response.address,
                              inst |-> program[response.address]]
              /\ pc' = Plus(response.address, 1)
           \/ /\ ~(waiting /\ Matches(response))
              /\ requestSent' = waiting
              /\ fetchUop' = NoUop
              /\ pc' = PcAfter(redirect, target)

-----------------------------------------------------------------------------
(* The front end on its own, under any redirects and any program.          *)

FrontendNext ==
    \E redirect \in BOOLEAN, target \in Word :
        \/ FrontendStopped(redirect, target)
        \/ FrontendWaits(redirect, target)
        \/ \E program \in Programs : FrontendReads(redirect, target, program)

FrontendSpec == FrontendInit /\ [][FrontendNext]_frontendVars

-----------------------------------------------------------------------------
(* Properties.                                                             *)

\* Every component of the front end has its type.
FrontendTypeOK ==
    /\ pc \in Word
    /\ requestSent \in BOOLEAN
    /\ fetchId \in 0 .. FetchIds - 1
    /\ pendingFetchId \in 0 .. FetchIds - 1
    /\ fetchUop \in [pc : Word, inst : Instr] \cup {NoUop}
    /\ fetches \in Seq(FetchRequest)
    /\ Len(fetches) <= MaxFetches

\* While the front end waits, the answer it waits for is on its way, and is the
\* newest of the requests in flight.  Were it lost, nothing would ever be
\* fetched again: request_sent is cleared only by that answer or by a redirect.
FetchAnswerComing ==
    requestSent => /\ fetches # <<>>
                   /\ fetches[Len(fetches)] = [address |-> pc, id |-> pendingFetchId]

\* No two requests in flight carry the same id, so an abandoned one can never
\* be taken for the one waited for.
FetchIdsDistinct ==
    \A i, j \in 1 .. Len(fetches) : fetches[i].id = fetches[j].id => i = j

\* What the front end hands to decode was fetched from the current pc: no answer
\* to an abandoned request is ever executed.
FetchedFromPc ==
    [][fetchUop' # NoUop => fetchUop'.pc = pc]_frontendVars

=============================================================================
