----------------------------- MODULE CoreProofs -----------------------------
(***************************************************************************)
(* Theorems about the composed core, for every width of its words, number  *)
(* of registers, depth of its queues and set of programs, and under any    *)
(* delay of its memories: the types, the ring's window and the front end's *)
(* promises inside the core, and that nothing enters the ROB behind a      *)
(* jump.                                                                   *)
(*                                                                         *)
(* Lemmas are stated for one action at a time, so that a module that       *)
(* composes the core with something else can use them too.                 *)
(***************************************************************************)
EXTENDS BoomCore, SequenceTheorems, TLAPS

-----------------------------------------------------------------------------
(* The front end on its own.  That the ids in flight differ is not         *)
(* inductive: the next id must differ from all of them.  They do because   *)
(* they are the last ones handed out, and fewer than there are ids.        *)

\* The id handed out d requests before id n, for d up to FetchIds.
Ago(n, d) == IF n >= d THEN n - d ELSE n - d + FetchIds

\* The requests of q carry the last ids before n, in order.
Recent(q, n) == \A i \in 1 .. Len(q) : q[i].id = Ago(n, Len(q) - i + 1)

FrontendInv == FrontendTypeOK /\ FetchAnswerComing /\ Recent(fetches, fetchId)

-----------------------------------------------------------------------------
(* Lemmas about ids and queues of requests.                                *)

Ids == 0 .. FetchIds - 1

\* The next id, without the modulus.
LEMMA NextIdIs ==
    ASSUME NEW n \in Ids
    PROVE  /\ (n + 1) % FetchIds \in Ids
           /\ (n + 1) % FetchIds = IF n = FetchIds - 1 THEN 0 ELSE n + 1
<1>1. CASE n = FetchIds - 1
  <2>1. n + 1 = FetchIds
    BY <1>1, FetchIdsAssumption DEF Ids
  <2>2. FetchIds % FetchIds = 0
    BY FetchIdsAssumption
  <2> QED
    BY <1>1, <2>1, <2>2, FetchIdsAssumption DEF Ids
<1>2. CASE n # FetchIds - 1
  <2>1. n + 1 \in 0 .. FetchIds - 1
    BY <1>2, FetchIdsAssumption DEF Ids
  <2>2. (n + 1) % FetchIds = n + 1
    BY <2>1, FetchIdsAssumption
  <2> QED
    BY <1>2, <2>1, <2>2 DEF Ids
<1> QED
  BY <1>1, <1>2

\* Handing out one more id makes every earlier one older by one.
LEMMA AgoOfNext ==
    ASSUME NEW n \in Ids, NEW d \in 1 .. FetchIds - 1
    PROVE  /\ Ago((n + 1) % FetchIds, d + 1) = Ago(n, d)
           /\ Ago((n + 1) % FetchIds, 1) = n
  BY NextIdIs, FetchIdsAssumption DEF Ago, Ids

\* Fewer than FetchIds steps back, ids do not repeat, nor does n come again.
LEMMA AgoDistinct ==
    ASSUME NEW n \in Ids, NEW d \in 1 .. FetchIds - 1, NEW e \in 1 .. FetchIds - 1
    PROVE  /\ Ago(n, d) = Ago(n, e) => d = e
           /\ Ago(n, d) # n
  BY FetchIdsAssumption DEF Ago, Ids

\* Reading the oldest request leaves the others in order.
LEMMA TailRecent ==
    ASSUME NEW q \in Seq(FetchRequest), q # <<>>, NEW n \in Ids, Recent(q, n)
    PROVE  /\ Tail(q) \in Seq(FetchRequest)
           /\ Len(Tail(q)) = Len(q) - 1
           /\ \A i \in 1 .. Len(Tail(q)) : Tail(q)[i] = q[i + 1]
           /\ Recent(Tail(q), n)
<1>1. /\ Tail(q) \in Seq(FetchRequest)
      /\ Len(Tail(q)) = Len(q) - 1
      /\ \A i \in 1 .. Len(Tail(q)) : Tail(q)[i] = q[i + 1]
  BY HeadTailProperties
<1>2. Len(q) \in Nat
  BY LenProperties
<1>3. ASSUME NEW i \in 1 .. Len(Tail(q))
      PROVE  Tail(q)[i].id = Ago(n, Len(Tail(q)) - i + 1)
  <2>1. /\ i + 1 \in 1 .. Len(q)
        /\ Len(q) - (i + 1) + 1 = Len(Tail(q)) - i + 1
    BY <1>1, <1>2
  <2> QED
    BY <1>1, <2>1 DEF Recent
<1> QED
  BY <1>1, <1>3 DEF Recent

\* A request with the next id keeps the queue in order.
LEMMA SentRecent ==
    ASSUME NEW q \in Seq(FetchRequest), NEW n \in Ids, Recent(q, n),
           Len(q) < MaxFetches, NEW r \in FetchRequest, r.id = n
    PROVE  /\ q \o <<r>> \in Seq(FetchRequest)
           /\ Len(q \o <<r>>) = Len(q) + 1
           /\ (q \o <<r>>)[Len(q) + 1] = r
           /\ Recent(q \o <<r>>, (n + 1) % FetchIds)
<1> DEFINE qr == q \o <<r>>
<1>1. /\ <<r>> \in Seq(FetchRequest)
      /\ Len(<<r>>) = 1
      /\ <<r>>[1] = r
  OBVIOUS
<1>2. Len(q) \in Nat
  BY LenProperties
<1>3. /\ qr \in Seq(FetchRequest)
      /\ Len(qr) = Len(q) + 1
      /\ \A i \in 1 .. Len(q) + 1 :
            qr[i] = IF i <= Len(q) THEN q[i] ELSE <<r>>[i - Len(q)]
  <2> HIDE DEF qr
  <2> QED
    BY <1>1, ConcatProperties, Zenon DEF qr
<1> HIDE DEF qr
<1>4. qr[Len(q) + 1] = r
  <2>1. /\ Len(q) + 1 \in 1 .. Len(q) + 1
        /\ ~(Len(q) + 1 <= Len(q))
        /\ Len(q) + 1 - Len(q) = 1
    BY <1>2
  <2> QED
    BY <1>1, <1>3, <2>1
<1>5. ASSUME NEW i \in 1 .. Len(qr)
      PROVE  qr[i].id = Ago((n + 1) % FetchIds, Len(qr) - i + 1)
  <2>1. CASE i = Len(q) + 1
    <3>1. Len(qr) - i + 1 = 1
      BY <1>2, <1>3, <2>1
    <3>2. 1 \in 1 .. FetchIds - 1
      BY FetchIdsAssumption
    <3> QED
      BY <1>4, <2>1, <3>1, <3>2, AgoOfNext
  <2>2. CASE i # Len(q) + 1
    <3>1. /\ i \in 1 .. Len(q)
          /\ Len(q) - i + 1 \in 1 .. FetchIds - 1
          /\ Len(qr) - i + 1 = (Len(q) - i + 1) + 1
      BY <1>2, <1>3, <2>2, FetchIdsAssumption
    <3>2. qr[i].id = Ago(n, Len(q) - i + 1)
      <4>1. qr[i] = q[i]
        BY <1>2, <1>3, <3>1
      <4> QED
        BY <3>1, <4>1 DEF Recent
    <3> QED
      BY <3>1, <3>2, AgoOfNext
  <2> QED
    BY <2>1, <2>2
<1> QED
  BY <1>3, <1>4, <1>5 DEF Recent, qr

-----------------------------------------------------------------------------
(* What a call does to the queue, of which it keeps q: all of it, or all   *)
(* but the request whose response is read.                                 *)

LEMMA QueueStep ==
    ASSUME FrontendInv, NEW turns \in BOOLEAN, NEW to \in Word,
           NEW q \in Seq(FetchRequest), Len(q) <= Len(fetches), Recent(q, fetchId),
           SendFetch(turns), fetches' = q \o SentNow(turns, to)
    PROVE  /\ fetches' \in Seq(FetchRequest) /\ Len(fetches') <= MaxFetches
           /\ fetchId' \in Ids /\ pendingFetchId' \in Ids
           /\ Recent(fetches', fetchId')
           /\ Sends(turns) =>
                 /\ pendingFetchId' = fetchId
                 /\ fetches' # <<>>
                 /\ fetches'[Len(fetches')] = [address |-> PcAfter(turns, to),
                                               id |-> pendingFetchId']
           /\ ~Sends(turns) => fetches' = q /\ pendingFetchId' = pendingFetchId
<1>1. /\ fetches \in Seq(FetchRequest) /\ Len(fetches) <= MaxFetches
      /\ fetchId \in Ids /\ pendingFetchId \in Ids /\ pc \in Word
  BY DEF FrontendInv, FrontendTypeOK, Ids
<1>2. Len(q) \in Nat /\ Len(fetches) \in Nat /\ MaxFetches \in Nat
  BY <1>1, LenProperties, FetchIdsAssumption
<1>3. CASE Sends(turns)
  <2> DEFINE r == [address |-> PcAfter(turns, to), id |-> fetchId]
  <2>1. /\ r \in FetchRequest
        /\ r.id = fetchId
    BY <1>1 DEF FetchRequest, PcAfter, Ids
  <2>2. Len(q) < MaxFetches
    BY <1>2, <1>3 DEF Sends
  <2>3. /\ pendingFetchId' = fetchId
        /\ fetchId' = (fetchId + 1) % FetchIds
        /\ fetches' = q \o <<r>>
    BY <1>3 DEF SendFetch, SentNow
  <2> HIDE DEF r
  <2>4. /\ fetches' \in Seq(FetchRequest)
        /\ Len(fetches') = Len(q) + 1
        /\ fetches'[Len(q) + 1] = r
        /\ Recent(fetches', fetchId')
    BY <1>1, <2>1, <2>2, <2>3, SentRecent
  <2>5. fetches' # <<>>
    BY <1>2, <2>4
  <2>6. Len(fetches') <= MaxFetches
    BY <1>2, <2>2, <2>4
  <2> QED
    BY <1>1, <1>3, <2>3, <2>4, <2>5, <2>6, NextIdIs DEF r
<1>4. CASE ~Sends(turns)
  <2>1. fetches' = q
    BY <1>4, ConcatEmptySeq DEF SentNow
  <2> QED
    BY <1>1, <1>2, <1>4, <2>1 DEF SendFetch
<1> QED
  BY <1>3, <1>4

-----------------------------------------------------------------------------
(* The invariant.                                                          *)

LEMMA FrontendInvInit == FrontendInit => FrontendInv
<1> SUFFICES ASSUME FrontendInit PROVE FrontendInv
  OBVIOUS
<1>1. FrontendTypeOK
  <2>1. <<>> \in Seq(FetchRequest) /\ Len(<<>>) = 0
    BY EmptySeq
  <2>2. 0 \in 0 .. FetchIds - 1 /\ 0 <= MaxFetches
    BY FetchIdsAssumption
  <2> QED
    BY <2>1, <2>2, ResetVectorAssumption DEF FrontendInit, FrontendTypeOK
<1>2. FetchAnswerComing /\ Recent(fetches, fetchId)
  BY DEF FrontendInit, FetchAnswerComing, Recent
<1> QED
  BY <1>1, <1>2 DEF FrontendInv

LEMMA StoppedKeepsInv ==
    ASSUME FrontendInv, NEW turns \in BOOLEAN, NEW to \in Word,
           FrontendStopped(turns, to)
    PROVE  FrontendInv'
<1>1. FrontendTypeOK'
  BY DEF FrontendInv, FrontendTypeOK, FrontendStopped, PcAfter, SentAfter
<1>2. FetchAnswerComing'
  BY DEF FrontendInv, FetchAnswerComing, FrontendStopped, PcAfter, SentAfter
<1>3. Recent(fetches, fetchId)'
  BY DEF FrontendInv, FrontendStopped, Recent
<1> QED
  BY <1>1, <1>2, <1>3 DEF FrontendInv

LEMMA WaitsKeepsInv ==
    ASSUME FrontendInv, NEW turns \in BOOLEAN, NEW to \in Word,
           FrontendWaits(turns, to)
    PROVE  FrontendInv'
<1>1. /\ fetches \in Seq(FetchRequest) /\ Recent(fetches, fetchId)
      /\ Len(fetches) <= Len(fetches)
      /\ SendFetch(turns) /\ fetches' = fetches \o SentNow(turns, to)
  BY LenProperties DEF FrontendInv, FrontendTypeOK, FrontendWaits
<1>2. FrontendTypeOK' /\ Recent(fetches', fetchId')
  BY <1>1, QueueStep DEF FrontendInv, FrontendTypeOK, FrontendWaits, PcAfter, SentAfter,
                         Sends, Ids
<1>3. FetchAnswerComing'
  <2>1. CASE Sends(turns)
    BY <1>1, <2>1, QueueStep DEF FetchAnswerComing, FrontendWaits
  <2>2. CASE ~Sends(turns)
    <3>1. fetches' = fetches /\ pendingFetchId' = pendingFetchId
      BY <1>1, <2>2, QueueStep
    <3> QED
      BY <2>2, <3>1 DEF FetchAnswerComing, FrontendInv, FrontendWaits, SentAfter, PcAfter
  <2> QED
    BY <2>1, <2>2
<1> QED
  BY <1>2, <1>3 DEF FrontendInv

\* Reading a response takes the oldest request out of the queue.
LEMMA ReadsQueue ==
    ASSUME FrontendInv, NEW turns \in BOOLEAN, NEW to \in Word, NEW p \in Programs,
           FrontendReads(turns, to, p)
    PROVE  /\ Head(fetches) = fetches[1] /\ fetches[1] \in FetchRequest
           /\ Len(fetches) \in Nat \ {0}
           /\ Tail(fetches) \in Seq(FetchRequest)
           /\ Len(Tail(fetches)) = Len(fetches) - 1
           /\ \A i \in 1 .. Len(Tail(fetches)) : Tail(fetches)[i] = fetches[i + 1]
           /\ Recent(Tail(fetches), fetchId)
           /\ SendFetch(turns) /\ fetches' = Tail(fetches) \o SentNow(turns, to)
<1>1. /\ fetches \in Seq(FetchRequest) /\ fetches # <<>>
      /\ Recent(fetches, fetchId) /\ fetchId \in Ids
  BY DEF FrontendInv, FrontendTypeOK, FrontendReads, Ids
<1> QED
  BY <1>1, TailRecent DEF FrontendReads

\* An accepted answer was asked for at the current pc: after this call's own
\* request, none in the queue carries the pending id; without one, only the
\* newest does.
LEMMA AcceptedFromPc ==
    ASSUME FrontendInv, NEW turns \in BOOLEAN, NEW to \in Word, NEW p \in Programs,
           FrontendReads(turns, to, p),
           SentAfter(turns) \/ Sends(turns), Matches(Head(fetches))
    PROVE  Head(fetches).address = pc
<1>1. /\ Head(fetches) = fetches[1] /\ Len(fetches) \in Nat \ {0}
      /\ Len(fetches) <= MaxFetches /\ fetchId \in Ids
      /\ Recent(fetches, fetchId)
  BY ReadsQueue DEF FrontendInv, FrontendTypeOK, Ids
<1>2. Len(fetches) \in 1 .. FetchIds - 1 /\ 1 \in 1 .. FetchIds - 1
  BY <1>1, FetchIdsAssumption
<1>3. /\ fetches[1].id = Ago(fetchId, Len(fetches))
      /\ fetches[Len(fetches)].id = Ago(fetchId, 1)
  <2>1. /\ 1 \in 1 .. Len(fetches) /\ Len(fetches) \in 1 .. Len(fetches)
        /\ Len(fetches) - 1 + 1 = Len(fetches)
        /\ Len(fetches) - Len(fetches) + 1 = 1
    BY <1>1
  <2> QED
    BY <1>1, <2>1 DEF Recent
<1>4. CASE Sends(turns)
  <2>1. pendingFetchId' = fetchId
    BY <1>4, ReadsQueue DEF SendFetch
  <2> QED
    BY <1>1, <1>2, <1>3, <2>1, AgoDistinct DEF Matches
<1>5. CASE ~Sends(turns)
  <2>1. requestSent /\ pendingFetchId' = pendingFetchId
    BY <1>5, ReadsQueue DEF SendFetch, SentAfter
  <2>2. fetches[Len(fetches)] = [address |-> pc, id |-> pendingFetchId]
    BY <2>1 DEF FrontendInv, FetchAnswerComing
  <2>3. Ago(fetchId, Len(fetches)) = Ago(fetchId, 1)
    <3>1. fetches[Len(fetches)].id = pendingFetchId
      BY <2>2
    <3>2. fetches[1].id = pendingFetchId
      BY <1>1, <2>1 DEF Matches
    <3> QED
      BY <1>3, <3>1, <3>2
  <2>4. Len(fetches) = 1
    BY <1>1, <1>2, <2>3, AgoDistinct
  <2> QED
    BY <1>1, <2>2, <2>4
<1> QED
  BY <1>4, <1>5

LEMMA ReadsKeepsInv ==
    ASSUME FrontendInv, NEW turns \in BOOLEAN, NEW to \in Word, NEW p \in Programs,
           FrontendReads(turns, to, p)
    PROVE  FrontendInv'
<1> DEFINE waiting == SentAfter(turns) \/ Sends(turns)
<1>1. /\ Tail(fetches) \in Seq(FetchRequest) /\ Recent(Tail(fetches), fetchId)
      /\ Len(Tail(fetches)) = Len(fetches) - 1 /\ Len(fetches) \in Nat \ {0}
      /\ Len(Tail(fetches)) <= Len(fetches)
      /\ SendFetch(turns) /\ fetches' = Tail(fetches) \o SentNow(turns, to)
  BY ReadsQueue
<1>2. /\ fetches' \in Seq(FetchRequest) /\ Len(fetches') <= MaxFetches
      /\ fetchId' \in Ids /\ pendingFetchId' \in Ids
      /\ Recent(fetches', fetchId')
  BY <1>1, QueueStep
<1>3. /\ Head(fetches) = fetches[1] /\ fetches[1].address \in Word
      /\ pc \in Word /\ requestSent \in BOOLEAN
  BY ReadsQueue DEF FrontendInv, FrontendTypeOK, FetchRequest
<1>4. CASE waiting /\ Matches(Head(fetches))
  <2>1. /\ requestSent' = FALSE
        /\ fetchUop' = [pc |-> fetches[1].address, inst |-> p[fetches[1].address]]
        /\ pc' = Plus(fetches[1].address, 1)
    BY <1>3, <1>4 DEF FrontendReads
  <2>2. p[fetches[1].address] \in Instr /\ Plus(fetches[1].address, 1) \in Word
    <3>1. p \in [Word -> Instr]
      BY ProgramsAssumption
    <3>2. Plus(fetches[1].address, 1) \in Word
      BY <1>3, WordCountAssumption DEF Plus, Word
    <3> QED
      BY <1>3, <3>1, <3>2
  <2>3. fetchUop' \in [pc : Word, inst : Instr]
    BY <1>3, <2>1, <2>2
  <2>4. FrontendTypeOK'
    BY <1>2, <2>1, <2>2, <2>3 DEF FrontendTypeOK, Ids
  <2>5. FetchAnswerComing'
    BY <2>1 DEF FetchAnswerComing
  <2> QED
    BY <1>2, <2>4, <2>5 DEF FrontendInv
<1>5. CASE ~(waiting /\ Matches(Head(fetches)))
  <2>1. /\ requestSent' = waiting
        /\ fetchUop' = NoUop
        /\ pc' = PcAfter(turns, to)
    BY <1>5 DEF FrontendReads
  <2>2. FrontendTypeOK'
    BY <1>2, <1>3, <2>1 DEF FrontendTypeOK, PcAfter, SentAfter, Sends, Ids
  <2>3. FetchAnswerComing'
    <3>1. CASE Sends(turns)
      BY <1>1, <2>1, <3>1, QueueStep DEF FetchAnswerComing
    <3>2. CASE ~Sends(turns) /\ ~SentAfter(turns)
      BY <2>1, <3>2 DEF FetchAnswerComing
    <3>3. CASE ~Sends(turns) /\ SentAfter(turns)
      <4>1. /\ fetches' = Tail(fetches) /\ pendingFetchId' = pendingFetchId
        BY <1>1, <3>3, QueueStep
      <4>2. /\ fetches[Len(fetches)] = [address |-> pc, id |-> pendingFetchId]
            /\ pc' = pc
        BY <2>1, <3>3 DEF FrontendInv, FetchAnswerComing, SentAfter, PcAfter
      <4>3. Len(fetches) # 1
        <5>1. ~Matches(Head(fetches))
          BY <1>5, <3>3
        <5> QED
          BY <1>3, <4>1, <4>2, <5>1 DEF Matches
      <4>4. /\ Tail(fetches) # <<>>
            /\ Tail(fetches)[Len(Tail(fetches))] = fetches[Len(fetches)]
        <5>1. /\ Len(Tail(fetches)) \in 1 .. Len(Tail(fetches))
              /\ Len(Tail(fetches)) + 1 = Len(fetches)
          BY <1>1, <4>3
        <5> QED
          BY <5>1, ReadsQueue
      <4> QED
        BY <4>1, <4>2, <4>4 DEF FetchAnswerComing
    <3> QED
      BY <3>1, <3>2, <3>3
  <2> QED
    BY <1>2, <2>2, <2>3 DEF FrontendInv
<1> QED
  BY <1>4, <1>5

LEMMA FrontendInvStep == FrontendInv /\ [FrontendNext]_frontendVars => FrontendInv'
<1> SUFFICES ASSUME FrontendInv, [FrontendNext]_frontendVars
             PROVE  FrontendInv'
  OBVIOUS
<1>1. CASE UNCHANGED frontendVars
  BY <1>1 DEF frontendVars, FrontendInv, FrontendTypeOK, FetchAnswerComing, Recent
<1>2. CASE FrontendNext
  BY <1>2, StoppedKeepsInv, WaitsKeepsInv, ReadsKeepsInv DEF FrontendNext
<1> QED
  BY <1>1, <1>2

LEMMA FrontendInvAlways == FrontendSpec => []FrontendInv
  BY FrontendInvInit, FrontendInvStep, PTL DEF FrontendSpec

-----------------------------------------------------------------------------
(* The theorems.                                                           *)

LEMMA InvImpliesDistinct == FrontendInv => FetchIdsDistinct
<1> SUFFICES ASSUME FrontendInv, NEW i \in 1 .. Len(fetches), NEW j \in 1 .. Len(fetches),
                    fetches[i].id = fetches[j].id
             PROVE  i = j
  BY DEF FetchIdsDistinct
<1>1. /\ Len(fetches) \in Nat /\ Len(fetches) <= MaxFetches
      /\ fetchId \in Ids /\ Recent(fetches, fetchId)
  BY LenProperties DEF FrontendInv, FrontendTypeOK, Ids
<1>2. /\ Len(fetches) - i + 1 \in 1 .. FetchIds - 1
      /\ Len(fetches) - j + 1 \in 1 .. FetchIds - 1
  BY <1>1, FetchIdsAssumption
<1>3. Ago(fetchId, Len(fetches) - i + 1) = Ago(fetchId, Len(fetches) - j + 1)
  BY <1>1 DEF Recent
<1>4. Len(fetches) - i + 1 = Len(fetches) - j + 1
  BY <1>1, <1>2, <1>3, AgoDistinct
<1> QED
  BY <1>1, <1>4

\* The front end (frontend_module) never stops for want of an answer, and no
\* abandoned request can be taken for the one it waits for: the answer is the
\* newest request in flight, and all ids in flight differ although they wrap.
THEOREM FrontendSafe ==
    FrontendSpec => [](FrontendTypeOK /\ FetchAnswerComing /\ FetchIdsDistinct)
<1>1. FrontendInv => FrontendTypeOK /\ FetchAnswerComing /\ FetchIdsDistinct
  BY InvImpliesDistinct DEF FrontendInv
<1> QED
  BY <1>1, FrontendInvAlways, PTL

\* Every instruction the front end hands to decode was fetched from the pc it
\* stands at, whatever redirects abandoned requests before.
THEOREM FrontendFetchesFromPc == FrontendSpec => FetchedFromPc
<1>1. ASSUME FrontendInv, [FrontendNext]_frontendVars
      PROVE  [fetchUop' # NoUop => fetchUop'.pc = pc]_frontendVars
  <2>1. CASE UNCHANGED frontendVars
    BY <2>1
  <2>2. ASSUME NEW turns \in BOOLEAN, NEW to \in Word,
               \/ FrontendStopped(turns, to)
               \/ FrontendWaits(turns, to)
        PROVE  fetchUop' = NoUop
    BY <2>2 DEF FrontendStopped, FrontendWaits
  <2>3. ASSUME NEW turns \in BOOLEAN, NEW to \in Word, NEW p \in Programs,
               FrontendReads(turns, to, p), fetchUop' # NoUop
        PROVE  fetchUop'.pc = pc
    <3>1. /\ SentAfter(turns) \/ Sends(turns)
          /\ Matches(Head(fetches))
          /\ fetchUop'.pc = Head(fetches).address
      BY <2>3 DEF FrontendReads
    <3> QED
      BY <1>1, <2>3, <3>1, AcceptedFromPc
  <2> QED
    BY <1>1, <2>1, <2>2, <2>3 DEF FrontendNext
<1> QED
  BY <1>1, FrontendInvAlways, PTL DEF FrontendSpec, FetchedFromPc

-----------------------------------------------------------------------------
(* The composed core.                                                      *)

\* The lemmas about the ring, for the ring of this core.
Ring == INSTANCE RobProofs WITH RobDepth <- RobSlots, Uops <- MicroOp, MemInfos <- MemInfo

-----------------------------------------------------------------------------
(* The inductive invariant.                                                *)

Stages == {"branch", "lsu", "frontend", "decode", "rename", "rob_allocate",
           "issue", "execute", "rob_commit"}

\* The types of what no other part of the invariant types.
PipeTypeOK ==
    /\ stage \in Stages
    /\ program \in Programs
    /\ redirect \in BOOLEAN /\ target \in Word
    /\ decUop \in MicroOp \cup {NoUop}
    /\ issuedUop \in MicroOp \cup {NoUop}
    /\ aluResult \in AluResult \cup {NoResult}
    /\ ioSuccess \in BOOLEAN /\ ioTrap \in BOOLEAN
    /\ intRf \in [Preg -> Word]

RingInv ==
    /\ RobTypeOK /\ RobWindow
    /\ \A i \in Slots : entries[i].valid => entries[i].uop \in MicroOp

\* In the cycle of a redirect no uop comes through the pipeline.
RedirectEmpties ==
    redirect => /\ stage = "decode" => fetchUop = NoUop
                /\ stage = "rename" => decUop = NoUop
                /\ stage \in {"rob_allocate", "issue", "execute"} => renamedUop = NoUop

\* The uop has its entry, which the LSU has not touched.
Fresh(u) == LET e == entries[u.rob] IN e.valid /\ e.uop = u /\ e.mem = NoMem

\* A uop is issued in the cycle that renames it, if at all, so that the queue is
\* empty between two calls; its two sources are one register if the instruction
\* names one.
OneUop ==
    /\ aluIq = <<>>
    /\ stage \in {"rob_allocate", "issue", "execute"} /\ renamedUop # NoUop
          /\ renamedUop.inst.rs1 = renamedUop.inst.rs2 =>
          renamedUop.prs1 = renamedUop.prs2
    /\ stage \in {"issue", "execute"} /\ renamedUop # NoUop => Fresh(renamedUop)
    /\ stage = "execute" => issuedUop \in {NoUop, renamedUop}

\* The result of the last cycle, up to the call that takes its address, belongs to
\* the uop that its slot holds, if the slot holds one.
ResultInv ==
    aluResult.valid =>
        /\ aluResult.isLoad <=> aluResult.uop.inst.op = "load"
        /\ aluResult.isStore <=> aluResult.uop.inst.op = "store"
        /\ AlwaysLeaves(aluResult.uop.inst) => aluResult.redirect
        /\ stage \in {"rob_commit", "branch", "lsu"} /\ entries[aluResult.uop.rob].valid =>
              Fresh(aluResult.uop)

\* The jump in slot i is about to flush the ROB: its uop is on its way to execute,
\* or its result or the redirect made of it is there.
Leaving(i) ==
    /\ stage = "issue" => redirect \/ renamedUop = entries[i].uop
    /\ stage = "execute" => redirect \/ issuedUop = entries[i].uop
    /\ stage = "rob_commit" => redirect \/ (aluResult.valid /\ aluResult.redirect)
    /\ stage = "branch" => aluResult.valid /\ aluResult.redirect
    /\ stage \in {"lsu", "frontend", "decode", "rename", "rob_allocate"} => redirect

\* Were the ROB to hold a jump and not be about to drop it, or to hold a uop behind
\* it, a wrong path would be executed.
JumpIsYoungest ==
    \A i \in Slots :
        entries[i].valid /\ AlwaysLeaves(entries[i].uop.inst)
            => NextSlot(i) = robTail /\ Leaving(i)

BaseInv ==
    /\ PipeTypeOK
    /\ FrontendInv
    /\ RenameTypeOK
    /\ RingInv
    /\ RedirectEmpties
    /\ OneUop
    /\ ResultInv
    /\ JumpIsYoungest

-----------------------------------------------------------------------------
(* Lemmas about the data.                                                  *)

\* What RobProofs assumes of its constants holds of this core's.
LEMMA RingAssumptions ==
    /\ RobSlots \in Nat \ {0}
    /\ \A u \in MicroOp : u.exception \in BOOLEAN
    /\ NoMem \in MemInfo
<1>1. 0 \in Word
  BY WordCountAssumption DEF Word
<1> QED
  BY <1>1, RobSlotsAssumption DEF MicroOp, NoMem, MemInfo

LEMMA PlusType ==
    ASSUME NEW a \in Word, NEW b \in Word
    PROVE  Plus(a, b) \in Word /\ Plus(a, 1) \in Word
  BY WordCountAssumption DEF Plus, Word

LEMMA Zeros == 0 \in Word /\ 0 \in Preg /\ 0 \in Reg /\ 0 \in Slots
  BY WordCountAssumption, IntPhysRegsAssumption, LogicalRegsAssumption, RobSlotsAssumption
  DEF Word, Preg, Reg, Slots

\* The ring's own names for what this core's ring calls the same.
LEMMA RingIs ==
    /\ Ring!RobTypeOK <=> RobTypeOK
    /\ Ring!RobWindow <=> RobWindow
    /\ Ring!RobInv <=> RobTypeOK /\ RobWindow
    /\ Ring!Slots = Slots
    /\ Ring!Entry = Entry
<1>1. Ring!RobTypeOK <=> RobTypeOK
  BY DEF RobTypeOK, Ring!RobTypeOK, Slots, Ring!Slots, Entry, Ring!Entry, RobStates,
         Ring!RobStates
<1>2. Ring!RobWindow <=> RobWindow
  BY DEF RobWindow, Ring!RobWindow, Slots, Ring!Slots, InWindow, Ring!InWindow
<1> QED
  BY <1>1, <1>2 DEF Slots, Ring!Slots, Entry, Ring!Entry, Ring!RobInv

LEMMA SourceType ==
    ASSUME intRf \in [Preg -> Word], NEW p \in Preg
    PROVE  Source(p) \in Word
  BY Zeros DEF Source

\* What execute makes of a uop.
LEMMA ExecutedType ==
    ASSUME intRf \in [Preg -> Word], NEW u \in MicroOp
    PROVE  /\ Executed(u) \in AluResult
           /\ Executed(u).uop = u
           /\ Executed(u).isLoad <=> u.inst.op = "load"
           /\ Executed(u).isStore <=> u.inst.op = "store"
           /\ AlwaysLeaves(u.inst) /\ (u.inst.rs1 = u.inst.rs2 => u.prs1 = u.prs2)
                 => Executed(u).redirect
<1> DEFINE a == Source(u.prs1)
           b == Source(u.prs2)
<1>1. /\ u.inst \in Instr /\ u.pc \in Word /\ u.exception \in BOOLEAN
      /\ u.prs1 \in Preg /\ u.prs2 \in Preg
  BY DEF MicroOp
<1>2. a \in Word /\ b \in Word /\ u.inst.imm \in Word
  BY <1>1, SourceType DEF Instr
<1> HIDE DEF a, b
<1>3. Redirects(u.inst, a, b) \in BOOLEAN
  BY DEF Redirects
<1>4. Target(u.inst, a, u.pc) \in Word
  BY <1>1, <1>2, PlusType DEF Target
<1>5. Address(u.inst, a) \in Word
  BY <1>1, <1>2, PlusType DEF Address
<1>6. Result(u.inst, a, b, u.pc) \in Word
  BY <1>1, <1>2, PlusType, Zeros DEF Result, Instr, Ops
<1>7. Executed(u) = [valid |-> TRUE, uop |-> u, redirect |-> Redirects(u.inst, a, b),
                     target |-> Target(u.inst, a, u.pc), exception |-> u.exception,
                     isLoad |-> u.inst.op = "load", isStore |-> u.inst.op = "store",
                     addr |-> Address(u.inst, a), data |-> b,
                     result |-> Result(u.inst, a, b, u.pc)]
  BY DEF Executed, a, b
<1>8. AlwaysLeaves(u.inst) /\ (u.inst.rs1 = u.inst.rs2 => u.prs1 = u.prs2)
         => Redirects(u.inst, a, b)
  BY DEF AlwaysLeaves, Redirects, a, b
<1>9. Executed(u) \in AluResult
  BY <1>1, <1>2, <1>3, <1>4, <1>5, <1>6, <1>7 DEF AluResult
<1>10. /\ Executed(u).uop = u
       /\ Executed(u).isLoad = (u.inst.op = "load")
       /\ Executed(u).isStore = (u.inst.op = "store")
       /\ Executed(u).redirect = Redirects(u.inst, a, b)
  BY <1>7
<1> QED
  BY <1>8, <1>9, <1>10

\* The uop that decode makes has a type, and its sources are not looked up yet.
LEMMA DecodedType ==
    ASSUME NEW f \in [pc : Word, inst : Instr]
    PROVE  Decoded(f) \in MicroOp
<1>1. f.pc \in Word /\ f.inst \in Instr /\ f.inst.rd \in Reg
  BY DEF Instr
<1>2. Faults(f.inst) \in BOOLEAN
  BY DEF Faults
<1>3. 0 \in Preg /\ 0 \in 0 .. RobSlots - 1
  BY Zeros DEF Slots
<1> QED
  BY <1>1, <1>2, <1>3 DEF Decoded, MicroOp

\* No record of uops is the value that stands for none.
LEMMA NoUopIsNone == NoUop \notin MicroOp
  BY DEF NoUop, MicroOp

\* The next place of the free list.
LEMMA NextPlace ==
    ASSUME NEW p \in Preg
    PROVE  (p + 1) % IntPhysRegs \in Preg
  BY IntPhysRegsAssumption DEF Preg

-----------------------------------------------------------------------------
(* What no action but its own touches.                                     *)

LEMMA FrontendSame ==
    ASSUME FrontendInv, UNCHANGED frontendVars
    PROVE  FrontendInv'
  BY DEF frontendVars, FrontendInv, FrontendTypeOK, FetchAnswerComing, Recent

LEMMA RenameSame ==
    ASSUME RenameTypeOK, UNCHANGED renameVars
    PROVE  RenameTypeOK'
  BY DEF renameVars, freeListVars, RenameTypeOK

LEMMA RingSame ==
    ASSUME RingInv, UNCHANGED robRing
    PROVE  RingInv'
  BY DEF robRing, RingInv, RobTypeOK, RobWindow, InWindow

\* The ring after a step that keeps its indices, and of its entries the uops.
LEMMA RingKept ==
    ASSUME RingInv, UNCHANGED <<robHead, robTail, maybeFull>>, robState' \in RobStates,
           entries' \in [Slots -> Entry],
           \A i \in Slots : /\ entries'[i].valid = entries[i].valid
                            /\ entries'[i].uop = entries[i].uop
    PROVE  RingInv'
  BY DEF RingInv, RobTypeOK, RobWindow, InWindow

-----------------------------------------------------------------------------
(* The first half of a cycle.                                              *)

LEMMA BaseInvInit == Init => BaseInv
<1> SUFFICES ASSUME Init PROVE BaseInv
  OBVIOUS
<1> USE DEF Init
<1>1. PipeTypeOK
  BY Zeros DEF PipeTypeOK, Stages, LsuInit
<1>2. FrontendInv
  BY FrontendInvInit
<1>3. RenameTypeOK
  BY Zeros, IntPhysRegsAssumption DEF RenameInit, RenameTypeOK, Preg
<1>4. RingInv
  <2>1. Ring!RobInit
    BY DEF RobInit, Ring!RobInit, Slots, Ring!Slots, EmptyEntry, Ring!EmptyEntry
  <2>2. RobTypeOK /\ RobWindow
    BY <2>1, Ring!RobInvInit, RingAssumptions, RingIs
  <2>3. \A i \in Slots : ~entries[i].valid
    BY DEF RobInit, EmptyEntry
  <2> QED
    BY <2>2, <2>3 DEF RingInv
<1>5. RedirectEmpties /\ OneUop /\ ResultInv
  BY DEF RedirectEmpties, OneUop, ResultInv, NoResult
<1>6. JumpIsYoungest
  BY DEF JumpIsYoungest, RobInit, EmptyEntry
<1> QED
  BY <1>1, <1>2, <1>3, <1>4, <1>5, <1>6 DEF BaseInv

LEMMA BranchKeepsBase ==
    ASSUME BaseInv, Branch
    PROVE  BaseInv'
<1> USE DEF BaseInv, Branch, At
<1>1. PipeTypeOK'
  <2>1. redirect' \in BOOLEAN
    OBVIOUS
  <2>2. target' \in Word
    <3>1. aluResult.valid => aluResult.target \in Word
      <4>1. aluResult \in AluResult \cup {NoResult}
        BY DEF PipeTypeOK
      <4>2. aluResult.valid => aluResult \in AluResult
        BY <4>1 DEF NoResult
      <4> QED
        BY <4>2 DEF AluResult
    <3>2. redirect' => aluResult.valid
      OBVIOUS
    <3> QED
      BY <3>1, <3>2 DEF PipeTypeOK
  <2> QED
    BY <2>1, <2>2 DEF PipeTypeOK, Stages, pipeVars
<1>2. FrontendInv' /\ RenameTypeOK' /\ RingInv'
  BY FrontendSame, RenameSame, RingSame
<1>3. RedirectEmpties' /\ OneUop'
  BY DEF RedirectEmpties, OneUop, pipeVars, renameVars
<1>4. ResultInv'
  BY DEF ResultInv, pipeVars, robRing, Fresh
<1>5. JumpIsYoungest'
  BY DEF JumpIsYoungest, Leaving, robRing
<1> QED
  BY <1>1, <1>2, <1>3, <1>4, <1>5 DEF BaseInv

\* The answer that the LSU waits for is a word or a fault, whoever gives it.
AnswerIsWord == Answered => /\ Head(dmemResp).data \in Word
                            /\ Head(dmemResp).fault \in BOOLEAN

\* An entry remains one, with its uop, when its load returns and when it gets an
\* address.
LEMMA ReturnedType ==
    ASSUME NEW e \in Entry, NEW d \in Word, NEW resp, resp.data = d, resp.fault \in BOOLEAN
    PROVE  /\ Returned(e, resp) \in Entry
           /\ Returned(e, resp).valid = e.valid
           /\ Returned(e, resp).uop = e.uop
           /\ Returned(e, resp).busy = FALSE
           /\ Returned(e, resp).exception = (e.exception \/ resp.fault)
           /\ Returned(e, resp).mem =
                 [e.mem EXCEPT !.completed = TRUE,
                               !.data = IF resp.fault THEN e.mem.data ELSE d]
           /\ Returned(e, resp).mem \in MemInfo
<1> DEFINE m == [e.mem EXCEPT !.completed = TRUE,
                              !.data = IF resp.fault THEN e.mem.data ELSE d]
<1>1. e.mem \in MemInfo /\ e.exception \in BOOLEAN
  BY DEF Entry
<1>2. m \in MemInfo
  BY <1>1 DEF MemInfo
<1>3. (e.exception \/ resp.fault) \in BOOLEAN
  OBVIOUS
<1>4. Returned(e, resp) = [e EXCEPT !.busy = FALSE, !.exception = e.exception \/ resp.fault,
                                    !.mem = m]
  BY <1>1 DEF Returned, Entry, MemInfo
<1> HIDE DEF m
<1>5. /\ Returned(e, resp) \in Entry
      /\ Returned(e, resp).valid = e.valid
      /\ Returned(e, resp).uop = e.uop
      /\ Returned(e, resp).busy = FALSE
      /\ Returned(e, resp).exception = (e.exception \/ resp.fault)
      /\ Returned(e, resp).mem = m
  BY <1>1, <1>2, <1>3, <1>4 DEF Entry
<1> QED
  BY <1>2, <1>5 DEF m

LEMMA AddressedType ==
    ASSUME NEW e \in Entry, NEW r \in AluResult
    PROVE  /\ Addressed(e, r) \in Entry
           /\ Addressed(e, r).valid = e.valid
           /\ Addressed(e, r).uop = e.uop
           /\ Addressed(e, r).busy = (e.busy /\ ~r.isStore)
           /\ Addressed(e, r).exception = e.exception
           /\ Addressed(e, r).mem \in MemInfo
           /\ Addressed(e, r).mem.valid = TRUE
           /\ Addressed(e, r).mem.isLoad = r.isLoad
           /\ Addressed(e, r).mem.isStore = r.isStore
           /\ Addressed(e, r).mem.sent = e.mem.sent
           /\ Addressed(e, r).mem.completed = (e.mem.completed \/ r.isStore)
<1> DEFINE m == [e.mem EXCEPT !.valid = TRUE,
                              !.isLoad = r.isLoad,
                              !.isStore = r.isStore,
                              !.completed = @ \/ r.isStore,
                              !.addr = r.addr,
                              !.data = IF r.isStore THEN r.data ELSE @]
<1>1. e.mem \in MemInfo /\ e.busy \in BOOLEAN
  BY DEF Entry
<1>2. /\ r.isLoad \in BOOLEAN /\ r.isStore \in BOOLEAN
      /\ r.addr \in Word /\ r.data \in Word
  BY DEF AluResult
<1>3. (e.mem.completed \/ r.isStore) \in BOOLEAN /\ (e.busy /\ ~r.isStore) \in BOOLEAN
  OBVIOUS
<1>4. /\ m \in MemInfo /\ m.valid = TRUE /\ m.isLoad = r.isLoad /\ m.isStore = r.isStore
      /\ m.sent = e.mem.sent /\ m.completed = (e.mem.completed \/ r.isStore)
  BY <1>1, <1>2, <1>3 DEF MemInfo
<1>5. Addressed(e, r) = [e EXCEPT !.busy = @ /\ ~r.isStore, !.mem = m]
  BY DEF Addressed
<1> HIDE DEF m
<1>6. /\ Addressed(e, r) \in Entry
      /\ Addressed(e, r).valid = e.valid
      /\ Addressed(e, r).uop = e.uop
      /\ Addressed(e, r).busy = (e.busy /\ ~r.isStore)
      /\ Addressed(e, r).exception = e.exception
      /\ Addressed(e, r).mem = m
  BY <1>1, <1>3, <1>4, <1>5 DEF Entry
<1> QED
  BY <1>4, <1>6

\* What the LSU makes of the entries: no entry appears, goes or changes its uop.
LEMMA ResponseKeepsEntries ==
    ASSUME entries \in [Slots -> Entry], AnswerIsWord
    PROVE  /\ WithResponse \in [Slots -> Entry]
           /\ \A i \in Slots : /\ WithResponse[i].valid = entries[i].valid
                               /\ WithResponse[i].uop = entries[i].uop
<1>1. CASE ~Completes
  BY <1>1 DEF WithResponse
<1>2. CASE Completes
  <2> DEFINE f == Returned(entries[pendingRob], Head(dmemResp))
  <2>1. WithResponse = [entries EXCEPT ![pendingRob] = f]
    BY <1>2 DEF WithResponse
  <2>2. pendingRob \in Slots => /\ f \in Entry
                                /\ f.valid = entries[pendingRob].valid
                                /\ f.uop = entries[pendingRob].uop
    <3>1. Head(dmemResp).data \in Word /\ Head(dmemResp).fault \in BOOLEAN
      BY <1>2 DEF Completes, AnswerIsWord
    <3>2. pendingRob \in Slots => entries[pendingRob] \in Entry
      OBVIOUS
    <3> QED
      BY <3>1, <3>2, ReturnedType
  <2> HIDE DEF f
  <2> QED
    BY <2>1, <2>2
<1> QED
  BY <1>1, <1>2

\* The slot that takes the address execute computed, if one does.
TakesAddress(es) ==
    aluResult.valid /\ (aluResult.isLoad \/ aluResult.isStore) /\ es[aluResult.uop.rob].valid

LEMMA AddressIs ==
    ASSUME NEW es \in [Slots -> Entry], aluResult \in AluResult \cup {NoResult}
    PROVE  /\ ~TakesAddress(es) => WithAddress(es, aluResult) = es
           /\ TakesAddress(es) =>
                 /\ aluResult \in AluResult /\ aluResult.uop.rob \in Slots
                 /\ WithAddress(es, aluResult) =
                       [es EXCEPT ![aluResult.uop.rob] =
                                      Addressed(es[aluResult.uop.rob], aluResult)]
<1>1. aluResult.valid => aluResult \in AluResult
  BY DEF NoResult
<1>2. aluResult \in AluResult => aluResult.uop.rob \in Slots
  BY DEF AluResult, MicroOp, Slots
<1> QED
  BY <1>1, <1>2 DEF WithAddress, TakesAddress

LEMMA AddressKeepsEntries ==
    ASSUME NEW es \in [Slots -> Entry], aluResult \in AluResult \cup {NoResult}
    PROVE  /\ WithAddress(es, aluResult) \in [Slots -> Entry]
           /\ \A i \in Slots : /\ WithAddress(es, aluResult)[i].valid = es[i].valid
                               /\ WithAddress(es, aluResult)[i].uop = es[i].uop
<1>1. CASE TakesAddress(es)
  <2> DEFINE s == aluResult.uop.rob
             f == Addressed(es[s], aluResult)
  <2>1. /\ aluResult \in AluResult /\ s \in Slots
        /\ WithAddress(es, aluResult) = [es EXCEPT ![s] = f]
    BY <1>1, AddressIs
  <2>2. f \in Entry /\ f.valid = es[s].valid /\ f.uop = es[s].uop
    BY <2>1, AddressedType
  <2> HIDE DEF f, s
  <2> QED
    BY <2>1, <2>2
<1>2. CASE ~TakesAddress(es)
  BY <1>2, AddressIs
<1> QED
  BY <1>1, <1>2

\* Which slot the LSU sends a load from.
LEMMA SentSlot ==
    ASSUME robHead \in Slots, NEW k \in Slots
    PROVE  SlotFromHead(k) \in Slots
  BY Ring!SlotAfter, RingAssumptions DEF SlotFromHead, Slots, Ring!Slots

\* What the LSU does to the core's other parts, whoever answers it.
LEMMA LsuKeepsEntries ==
    ASSUME PipeTypeOK, RingInv, AnswerIsWord, LsuModule(aluResult)
    PROVE  /\ entries' \in [Slots -> Entry]
           /\ \A i \in Slots : /\ entries'[i].valid = entries[i].valid
                               /\ entries'[i].uop = entries[i].uop
<1> DEFINE es == WithAddress(WithResponse, aluResult)
<1>1. /\ es \in [Slots -> Entry]
      /\ \A i \in Slots : es[i].valid = entries[i].valid /\ es[i].uop = entries[i].uop
  BY ResponseKeepsEntries, AddressKeepsEntries DEF PipeTypeOK, RingInv, RobTypeOK
<1>2. SendLoad(es, loadPending /\ ~Answered)
  BY DEF LsuModule
<1> HIDE DEF es
<1>3. CASE entries' = es
  BY <1>1, <1>3
<1>4. CASE \E k \in Slots : entries' = [es EXCEPT ![SlotFromHead(k)].mem.sent = TRUE]
  <2> PICK k \in Slots : entries' = [es EXCEPT ![SlotFromHead(k)].mem.sent = TRUE]
    BY <1>4
  <2> DEFINE i == SlotFromHead(k)
  <2>1. i \in Slots
    BY SentSlot DEF RingInv, RobTypeOK
  <2> HIDE DEF i
  <2>2. entries' = [es EXCEPT ![i].mem.sent = TRUE]
    BY DEF i
  <2>3. es[i] \in Entry /\ es[i].mem \in MemInfo
    BY <1>1, <2>1 DEF Entry
  <2>4. [es[i].mem EXCEPT !.sent = TRUE] \in MemInfo
    BY <2>3 DEF MemInfo
  <2>5. entries' = [es EXCEPT ![i] = [es[i] EXCEPT !.mem = [es[i].mem EXCEPT !.sent = TRUE]]]
    BY <1>1, <2>1, <2>2, <2>3
  <2>6. [es[i] EXCEPT !.mem = [es[i].mem EXCEPT !.sent = TRUE]] \in Entry
    BY <2>3, <2>4 DEF Entry
  <2> QED
    BY <1>1, <2>1, <2>3, <2>5, <2>6 DEF Entry
<1> QED
  BY <1>2, <1>3, <1>4 DEF SendLoad

LEMMA LsuKeepsBase ==
    ASSUME BaseInv, AnswerIsWord, LsuStage
    PROVE  BaseInv'
<1> USE DEF BaseInv, LsuStage, At
<1>1. PipeTypeOK'
  <2>1. intRf' \in [Preg -> Word]
    <3>1. Completes => Head(dmemResp).data \in Word
      BY DEF Completes, AnswerIsWord
    <3> QED
      BY <3>1 DEF LsuModule, RfWithResponse, PipeTypeOK
  <2> QED
    BY <2>1 DEF PipeTypeOK, Stages, pipeVars, branchVars, ioVars
<1>2. FrontendInv' /\ RenameTypeOK'
  BY FrontendSame, RenameSame
<1>3. RingInv'
  BY LsuKeepsEntries, RingKept DEF LsuModule, RingInv, RobTypeOK
<1>4. RedirectEmpties' /\ OneUop'
  BY DEF RedirectEmpties, OneUop, pipeVars
<1>5. ResultInv'
  BY DEF ResultInv, pipeVars
<1>6. JumpIsYoungest'
  BY LsuKeepsEntries DEF JumpIsYoungest, Leaving, LsuModule, branchVars
<1> QED
  BY <1>1, <1>2, <1>3, <1>4, <1>5, <1>6 DEF BaseInv

\* A redirect finds nothing to read: the answer is to an abandoned request, since
\* this call's own request has not been answered.
LEMMA RedirectReadsNothing ==
    ASSUME FrontendInv, NEW t \in Word, NEW p \in Programs, FrontendReads(TRUE, t, p)
    PROVE  fetchUop' = NoUop
<1>1. /\ Head(fetches) = fetches[1] /\ Len(fetches) \in Nat \ {0}
      /\ Len(fetches) <= MaxFetches /\ fetchId \in Ids
      /\ Recent(fetches, fetchId) /\ SendFetch(TRUE)
  BY ReadsQueue DEF FrontendInv, FrontendTypeOK, Ids
<1>2. fetches[1].id = Ago(fetchId, Len(fetches))
  <2>1. 1 \in 1 .. Len(fetches) /\ Len(fetches) - 1 + 1 = Len(fetches)
    BY <1>1
  <2> QED
    BY <1>1, <2>1 DEF Recent
<1>3. fetches[1].id # fetchId
  BY <1>1, <1>2, AgoDistinct, FetchIdsAssumption
<1>4. ~((SentAfter(TRUE) \/ Sends(TRUE)) /\ Matches(Head(fetches)))
  BY <1>1, <1>3 DEF SentAfter, Matches, SendFetch
<1> QED
  BY <1>4 DEF FrontendReads

LEMMA FetchKeepsBase ==
    ASSUME BaseInv, FetchStopped \/ FetchWaits \/ FetchReads
    PROVE  BaseInv'
<1>1. FetchFrame /\ stage = "frontend" /\ stage' = "decode"
  BY DEF FetchStopped, FetchWaits, FetchReads, FetchFrame, At
<1>2. redirect \in BOOLEAN /\ target \in Word /\ program \in Programs /\ FrontendInv
  BY DEF BaseInv, PipeTypeOK
<1>3. \/ FrontendStopped(redirect, target)
      \/ FrontendWaits(redirect, target)
      \/ FrontendReads(redirect, target, program)
  BY DEF FetchStopped, FetchWaits, FetchReads
<1>4. PipeTypeOK'
  BY <1>1 DEF BaseInv, FetchFrame, PipeTypeOK, Stages, branchVars, pipeVars, ioVars
<1>5. FrontendInv'
  BY <1>2, <1>3, StoppedKeepsInv, WaitsKeepsInv, ReadsKeepsInv
<1>6. RenameTypeOK' /\ RingInv'
  BY <1>1, RenameSame, RingSame DEF BaseInv, FetchFrame
<1>7. RedirectEmpties'
  <2>1. redirect => fetchUop' = NoUop
    BY <1>2, <1>3, RedirectReadsNothing DEF FrontendStopped, FrontendWaits
  <2> QED
    BY <1>1, <2>1 DEF RedirectEmpties, FetchFrame, branchVars
<1>8. OneUop' /\ ResultInv'
  BY <1>1 DEF BaseInv, FetchFrame, OneUop, ResultInv, pipeVars
<1>9. JumpIsYoungest'
  BY <1>1 DEF BaseInv, FetchFrame, JumpIsYoungest, Leaving, branchVars, robRing
<1> QED
  BY <1>4, <1>5, <1>6, <1>7, <1>8, <1>9 DEF BaseInv

LEMMA DecodeKeepsBase ==
    ASSUME BaseInv, Decode
    PROVE  BaseInv'
<1> USE DEF BaseInv, Decode, At
<1>1. PipeTypeOK'
  <2>1. decUop' \in MicroOp \cup {NoUop}
    BY DecodedType DEF FrontendInv, FrontendTypeOK
  <2> QED
    BY <2>1 DEF PipeTypeOK, Stages, branchVars, ioVars
<1>2. FrontendInv' /\ RenameTypeOK' /\ RingInv'
  BY FrontendSame, RenameSame, RingSame
<1>3. RedirectEmpties' /\ OneUop' /\ ResultInv'
  BY DEF RedirectEmpties, OneUop, ResultInv, branchVars
<1>4. JumpIsYoungest'
  BY DEF JumpIsYoungest, Leaving, branchVars, robRing
<1> QED
  BY <1>1, <1>2, <1>3, <1>4 DEF BaseInv

\* What rename makes of a uop.
LEMMA RenamedType ==
    ASSUME NEW u \in MicroOp, NEW map \in [Reg -> Preg], NEW p \in Preg, NEW l \in Reg
    PROVE  /\ Renamed(u, map, p, l) \in MicroOp
           /\ Renamed(u, map, p, l).inst = u.inst
           /\ u.inst.rs1 = u.inst.rs2
                 => Renamed(u, map, p, l).prs1 = Renamed(u, map, p, l).prs2
<1>1. u.inst.rs1 \in Reg /\ u.inst.rs2 \in Reg /\ u.ldst \in Reg
  BY DEF MicroOp, Instr
<1>2. map[u.inst.rs1] \in Preg /\ map[u.inst.rs2] \in Preg /\ map[u.ldst] \in Preg
  BY <1>1
<1> QED
  BY <1>2 DEF Renamed, MicroOp

LEMMA RenameUopType ==
    ASSUME RenameTypeOK, NEW u \in MicroOp, NEW r \in BOOLEAN, RenameUop(u, r)
    PROVE  /\ RenameTypeOK'
           /\ renamedUop' \in MicroOp /\ renamedUop'.inst = u.inst
           /\ u.inst.rs1 = u.inst.rs2 => renamedUop'.prs1 = renamedUop'.prs2
<1>1. CurrentMap(r) \in [Reg -> Preg] /\ u.ldst \in Reg /\ freeList[freeHead] \in Preg
  BY DEF RenameTypeOK, CurrentMap, MicroOp
<1>2. 0 \in Preg /\ 0 \in Reg /\ (freeHead + 1) % IntPhysRegs \in Preg
  BY Zeros, NextPlace DEF RenameTypeOK
<1>3. CASE RenameTakes(u, r)
  <2>1. /\ renamedUop' = Renamed(u, CurrentMap(r), freeList[freeHead], u.ldst)
        /\ mapTable' \in [Reg -> Preg] /\ freeHead' \in Preg
        /\ freeCount' \in 0 .. IntPhysRegs
        /\ UNCHANGED <<committedMap, freeList, freeTail>>
    BY <1>1, <1>2, <1>3, IntPhysRegsAssumption DEF RenameTakes, RenameTypeOK
  <2>2. /\ renamedUop' \in MicroOp /\ renamedUop'.inst = u.inst
        /\ u.inst.rs1 = u.inst.rs2 => renamedUop'.prs1 = renamedUop'.prs2
    BY <1>1, <2>1, RenamedType, Zenon
  <2> QED
    BY <2>1, <2>2 DEF RenameTypeOK
<1>4. CASE RenameStarves(u, r)
  <2>1. /\ renamedUop' = Renamed(u, CurrentMap(r), 0, u.ldst)
        /\ mapTable' \in [Reg -> Preg] /\ UNCHANGED <<committedMap, freeListVars>>
    BY <1>1, <1>4 DEF RenameStarves
  <2>2. /\ renamedUop' \in MicroOp /\ renamedUop'.inst = u.inst
        /\ u.inst.rs1 = u.inst.rs2 => renamedUop'.prs1 = renamedUop'.prs2
    BY <1>1, <1>2, <2>1, RenamedType, Zenon
  <2> QED
    BY <2>1, <2>2 DEF RenameTypeOK, freeListVars
<1>5. CASE RenameWithoutDst(u, r)
  <2>1. /\ renamedUop' = Renamed(u, CurrentMap(r), 0, 0)
        /\ mapTable' \in [Reg -> Preg] /\ UNCHANGED <<committedMap, freeListVars>>
    BY <1>1, <1>5 DEF RenameWithoutDst
  <2>2. /\ renamedUop' \in MicroOp /\ renamedUop'.inst = u.inst
        /\ u.inst.rs1 = u.inst.rs2 => renamedUop'.prs1 = renamedUop'.prs2
    BY <1>1, <1>2, <2>1, RenamedType, Zenon
  <2> QED
    BY <2>1, <2>2 DEF RenameTypeOK, freeListVars
<1> QED
  BY <1>3, <1>4, <1>5 DEF RenameUop

LEMMA RenameKeepsBase ==
    ASSUME BaseInv, RenameStage
    PROVE  BaseInv'
<1> USE DEF BaseInv, RenameStage, At
<1>1. PipeTypeOK'
  BY DEF PipeTypeOK, Stages, branchVars, pipeVars, ioVars
<1>2. FrontendInv' /\ RingInv'
  BY FrontendSame, RingSame
<1>3. /\ RenameTypeOK'
      /\ decUop = NoUop => renamedUop' = NoUop
      /\ renamedUop' # NoUop /\ renamedUop'.inst.rs1 = renamedUop'.inst.rs2
            => renamedUop'.prs1 = renamedUop'.prs2
  <2>1. CASE decUop = NoUop
    BY <2>1 DEF RenameNothing, RenameTypeOK, CurrentMap, freeListVars
  <2>2. CASE decUop # NoUop
    <3>1. decUop \in MicroOp /\ redirect \in BOOLEAN /\ RenameUop(decUop, redirect)
      BY <2>2 DEF PipeTypeOK
    <3> QED
      BY <2>2, <3>1, RenameUopType
  <2> QED
    BY <2>1, <2>2
<1>4. RedirectEmpties'
  BY <1>3 DEF RedirectEmpties, branchVars
<1>5. OneUop' /\ ResultInv'
  BY <1>3 DEF OneUop, ResultInv, pipeVars
<1>6. JumpIsYoungest'
  BY DEF JumpIsYoungest, Leaving, branchVars, robRing
<1> QED
  BY <1>1, <1>2, <1>3, <1>4, <1>5, <1>6 DEF BaseInv

-----------------------------------------------------------------------------
(* The second half of a cycle.                                             *)

LEMMA NextSlotType ==
    ASSUME NEW i \in Slots
    PROVE  NextSlot(i) \in Slots
  BY Ring!NextSlotIs, RingAssumptions DEF Slots, Ring!Slots, NextSlot, Ring!NextSlot

LEMMA AllocateKeepsRing ==
    ASSUME RingInv, NEW u \in MicroOp, Allocate(u)
    PROVE  RingInv'
<1>1. Ring!RobInv /\ Ring!Allocate(u)
  BY RingIs DEF RingInv, Allocate, Ring!Allocate, WakeRob, Ring!WakeRob, RobFull,
                Ring!RobFull, FreshEntry, Ring!FreshEntry, NextSlot, Ring!NextSlot
<1>2. Ring!RobInv'
  BY <1>1, Ring!AllocateKeepsInv, RingAssumptions
<1>3. (RobTypeOK /\ RobWindow)'
  <2>1. Ring!RobTypeOK' <=> RobTypeOK'
    BY DEF RobTypeOK, Ring!RobTypeOK, Slots, Ring!Slots, Entry, Ring!Entry, RobStates,
           Ring!RobStates
  <2>2. Ring!RobWindow' <=> RobWindow'
    BY DEF RobWindow, Ring!RobWindow, Slots, Ring!Slots, InWindow, Ring!InWindow
  <2> QED
    BY <1>2, <2>1, <2>2 DEF Ring!RobInv
<1>4. \A i \in Slots : entries'[i].valid => entries'[i].uop \in MicroOp
  BY DEF RingInv, RobTypeOK, Allocate, FreshEntry
<1> QED
  BY <1>3, <1>4 DEF RingInv

LEMMA RobAllocateKeepsBase ==
    ASSUME BaseInv, RobAllocate
    PROVE  BaseInv'
<1> USE DEF BaseInv, At
<1>1. /\ stage = "rob_allocate" /\ stage' = "issue"
      /\ UNCHANGED <<program, branchVars, frontendVars, pipeVars, mapTable,
                     committedMap, freeListVars, intRf, ioVars>>
  BY DEF RobAllocate
<1>2. PipeTypeOK' /\ FrontendInv'
  BY <1>1, FrontendSame DEF PipeTypeOK, Stages, branchVars, pipeVars, ioVars
<1>3. CASE renamedUop = NoUop
  <2>1. renamedUop' = NoUop /\ WakeRob /\ UNCHANGED <<entries, robHead, robTail, maybeFull>>
    BY <1>3 DEF RobAllocate
  <2>2. RenameTypeOK'
    BY <1>1, <2>1 DEF RenameTypeOK, freeListVars
  <2>3. RingInv'
    BY <2>1, RingKept DEF RingInv, RobTypeOK, WakeRob, RobStates
  <2>4. RedirectEmpties' /\ OneUop' /\ ResultInv'
    BY <1>1, <2>1 DEF RedirectEmpties, OneUop, ResultInv, pipeVars
  <2>5. JumpIsYoungest'
    BY <1>1, <2>1 DEF JumpIsYoungest, Leaving, branchVars
  <2> QED
    BY <1>2, <2>2, <2>3, <2>4, <2>5
<1>4. CASE renamedUop # NoUop
  <2> DEFINE u == [renamedUop EXCEPT !.rob = robTail]
  <2>1. Allocate(u) /\ renamedUop' = IF RobFull THEN NoUop ELSE u
    BY <1>4 DEF RobAllocate
  <2>2. renamedUop \in MicroOp /\ robTail \in Slots
    BY <1>4 DEF RenameTypeOK, RingInv, RobTypeOK
  <2>3. /\ u \in MicroOp /\ u.rob = robTail /\ u.inst = renamedUop.inst
        /\ u.prs1 = renamedUop.prs1 /\ u.prs2 = renamedUop.prs2
    BY <2>2 DEF MicroOp, Slots
  <2> HIDE DEF u
  <2>4. ~redirect
    BY <1>1, <1>4 DEF RedirectEmpties
  <2>5. \A i \in Slots : entries[i].valid => ~AlwaysLeaves(entries[i].uop.inst)
    BY <1>1, <2>4 DEF JumpIsYoungest, Leaving
  <2>6. RenameTypeOK'
    BY <1>1, <2>1, <2>3 DEF RenameTypeOK, freeListVars
  <2>7. RingInv'
    BY <2>1, <2>3, AllocateKeepsRing
  <2>8. RedirectEmpties' /\ ResultInv'
    BY <1>1, <2>4 DEF RedirectEmpties, ResultInv, pipeVars, branchVars
  <2>9. CASE RobFull
    <3>1. renamedUop' = NoUop /\ UNCHANGED <<entries, robTail>>
      BY <2>1, <2>9 DEF Allocate
    <3>2. OneUop'
      BY <1>1, <3>1 DEF OneUop, pipeVars
    <3>3. JumpIsYoungest'
      BY <2>5, <3>1 DEF JumpIsYoungest
    <3> QED
      BY <1>2, <2>6, <2>7, <2>8, <3>2, <3>3
  <2>10. CASE ~RobFull
    <3>1. /\ renamedUop' = u /\ entries' = [entries EXCEPT ![robTail] = FreshEntry(u)]
          /\ robTail' = NextSlot(robTail) /\ entries \in [Slots -> Entry]
      BY <2>1, <2>10 DEF Allocate, RingInv, RobTypeOK
    <3>2. /\ entries'[robTail].valid /\ entries'[robTail].uop = u
          /\ entries'[robTail].mem = NoMem
      BY <2>2, <3>1 DEF FreshEntry
    <3>3. OneUop'
      BY <1>1, <1>4, <2>3, <3>1, <3>2 DEF OneUop, Fresh, pipeVars
    <3>4. ASSUME NEW i \in Slots, entries'[i].valid, AlwaysLeaves(entries'[i].uop.inst)
          PROVE  NextSlot(i) = robTail' /\ Leaving(i)'
      <4>1. i = robTail
        BY <2>5, <3>1, <3>4
      <4> QED
        BY <1>1, <3>1, <3>2, <4>1 DEF Leaving
    <3>5. JumpIsYoungest'
      BY <3>4 DEF JumpIsYoungest, Slots, NextSlot, AlwaysLeaves
    <3> QED
      BY <1>2, <2>6, <2>7, <2>8, <3>3, <3>5
  <2> QED
    BY <2>9, <2>10
<1> QED
  BY <1>3, <1>4

\* What issue does to the queue and to what it grants; a core may keep some uops
\* from it (MergedCore does), but no transfer.
LEMMA IssuedKeepsBase ==
    ASSUME BaseInv, At("issue", "execute"), aluIq' = <<>>,
           issuedUop' \in {NoUop, renamedUop},
           renamedUop # NoUop /\ AlwaysLeaves(renamedUop.inst) => issuedUop' = renamedUop,
           UNCHANGED <<program, branchVars, frontendVars, decUop, aluResult, renameVars,
                       robRing, intRf, ioVars>>
    PROVE  BaseInv'
<1> USE DEF BaseInv, At
<1>1. PipeTypeOK'
  BY DEF PipeTypeOK, Stages, branchVars, ioVars, renameVars, RenameTypeOK
<1>2. FrontendInv' /\ RenameTypeOK' /\ RingInv'
  BY FrontendSame, RenameSame, RingSame
<1>3. RedirectEmpties' /\ OneUop' /\ ResultInv'
  BY DEF RedirectEmpties, OneUop, ResultInv, Fresh, renameVars, robRing, branchVars
<1>4. JumpIsYoungest'
  <2> SUFFICES ASSUME NEW i \in Slots, entries[i].valid, AlwaysLeaves(entries[i].uop.inst)
               PROVE  NextSlot(i) = robTail /\ Leaving(i)'
    BY DEF JumpIsYoungest, robRing
  <2>1. NextSlot(i) = robTail /\ Leaving(i)
    BY DEF JumpIsYoungest
  <2>2. entries[i].uop # NoUop
    BY NoUopIsNone DEF RingInv
  <2> QED
    BY <2>1, <2>2 DEF Leaving, robRing, branchVars
<1> QED
  BY <1>1, <1>2, <1>3, <1>4

LEMMA IssueKeepsBase ==
    ASSUME BaseInv, Issue
    PROVE  BaseInv'
<1>1. aluIq' = <<>> /\ issuedUop' = renamedUop
  <2>1. aluIq = <<>> /\ Len(aluIq) < IqDepth
    BY IqDepthAssumption DEF BaseInv, OneUop
  <2>2. CASE renamedUop = NoUop
    BY <2>1, <2>2 DEF Issue
  <2>3. CASE renamedUop # NoUop
    <3>1. Append(aluIq, renamedUop) = <<renamedUop>>
      BY <2>1
    <3>2. <<renamedUop>> # <<>> /\ Head(<<renamedUop>>) = renamedUop
          /\ Tail(<<renamedUop>>) = <<>>
      OBVIOUS
    <3> QED
      BY <2>1, <2>3, <3>1, <3>2 DEF Issue
  <2> QED
    BY <2>2, <2>3
<1> QED
  BY <1>1, IssuedKeepsBase DEF Issue

LEMMA ExecuteKeepsBase ==
    ASSUME BaseInv, Execute
    PROVE  BaseInv'
<1> USE DEF BaseInv, At
<1>1. /\ stage = "execute" /\ stage' = "rob_commit"
      /\ UNCHANGED <<program, branchVars, frontendVars, decUop, aluIq, issuedUop,
                     renameVars, robRing, ioVars>>
  BY DEF Execute
<1>2. FrontendInv' /\ RenameTypeOK' /\ RingInv'
  BY <1>1, FrontendSame, RenameSame, RingSame
<1>3. RedirectEmpties' /\ OneUop'
  BY <1>1 DEF RedirectEmpties, OneUop
<1>4. CASE issuedUop = NoUop
  <2>1. aluResult' = NoResult /\ intRf' = intRf
    BY <1>4 DEF Execute
  <2>2. PipeTypeOK'
    BY <1>1, <2>1 DEF PipeTypeOK, Stages, branchVars, ioVars
  <2>3. ResultInv'
    BY <2>1 DEF ResultInv, NoResult
  <2>4. JumpIsYoungest'
    <3> SUFFICES ASSUME NEW i \in Slots, entries[i].valid,
                        AlwaysLeaves(entries[i].uop.inst)
                 PROVE  NextSlot(i) = robTail /\ Leaving(i)'
      BY <1>1 DEF JumpIsYoungest, robRing
    <3>1. entries[i].uop # NoUop
      BY NoUopIsNone DEF RingInv
    <3> QED
      BY <1>1, <1>4, <3>1 DEF JumpIsYoungest, Leaving, branchVars
  <2> QED
    BY <1>2, <1>3, <2>2, <2>3, <2>4
<1>5. CASE issuedUop # NoUop
  <2> DEFINE r == Executed(issuedUop)
  <2>1. issuedUop \in MicroOp /\ intRf \in [Preg -> Word]
    BY <1>5 DEF PipeTypeOK
  <2>2. /\ r \in AluResult /\ r.uop = issuedUop
        /\ r.isLoad <=> issuedUop.inst.op = "load"
        /\ r.isStore <=> issuedUop.inst.op = "store"
        /\ AlwaysLeaves(issuedUop.inst)
              /\ (issuedUop.inst.rs1 = issuedUop.inst.rs2 => issuedUop.prs1 = issuedUop.prs2)
                 => r.redirect
    BY <2>1, ExecutedType
  <2>3. /\ aluResult' = r
        /\ \/ intRf' = intRf
           \/ intRf' = [intRf EXCEPT ![issuedUop.pdst] = r.result]
    BY <1>5 DEF Execute
  <2> HIDE DEF r
  <2>4. issuedUop = renamedUop
    BY <1>1, <1>5 DEF OneUop
  <2>5. AlwaysLeaves(issuedUop.inst) => r.redirect
    BY <1>1, <1>5, <2>2, <2>4 DEF OneUop
  <2>6. PipeTypeOK'
    <3>1. issuedUop.pdst \in Preg /\ r.result \in Word
      BY <2>1, <2>2 DEF MicroOp, AluResult
    <3>2. intRf' \in [Preg -> Word]
      BY <2>1, <2>3, <3>1
    <3> QED
      BY <1>1, <2>2, <2>3, <3>2 DEF PipeTypeOK, Stages, branchVars, ioVars
  <2>7. ResultInv'
    <3>1. /\ entries'[issuedUop.rob].valid /\ entries'[issuedUop.rob].uop = issuedUop
          /\ entries'[issuedUop.rob].mem = NoMem
      BY <1>1, <1>5, <2>4 DEF OneUop, Fresh, robRing
    <3>2. /\ aluResult'.uop = issuedUop /\ aluResult'.isLoad = r.isLoad
          /\ aluResult'.isStore = r.isStore /\ aluResult'.redirect = r.redirect
      BY <2>2, <2>3
    <3> QED
      BY <2>2, <2>5, <3>1, <3>2 DEF ResultInv, Fresh
  <2>8. JumpIsYoungest'
    <3> SUFFICES ASSUME NEW i \in Slots, entries[i].valid,
                        AlwaysLeaves(entries[i].uop.inst)
                 PROVE  NextSlot(i) = robTail /\ Leaving(i)'
      BY <1>1 DEF JumpIsYoungest, robRing
    <3>1. r.valid
      BY <2>2 DEF AluResult
    <3> QED
      BY <1>1, <2>3, <2>5, <3>1 DEF JumpIsYoungest, Leaving, branchVars
  <2> QED
    BY <1>2, <1>3, <2>6, <2>7, <2>8
<1> QED
  BY <1>4, <1>5

\* Marking a result done in the ring keeps everything but two bits of an entry.
LEMMA MarkDoneIs ==
    ASSUME NEW es \in [Slots -> Entry], NEW i \in Slots, NEW exc \in BOOLEAN
    PROVE  /\ MarkDone(es, i, exc) \in [Slots -> Entry]
           /\ \A j \in Slots : /\ MarkDone(es, i, exc)[j].valid = es[j].valid
                               /\ MarkDone(es, i, exc)[j].uop = es[j].uop
                               /\ MarkDone(es, i, exc)[j].mem = es[j].mem
                               /\ j # i => MarkDone(es, i, exc)[j] = es[j]
  BY DEF MarkDone, Entry

\* The entries es differ from the ring's in no more than busy and exception bits.
OnlyMarked(es) ==
    /\ es \in [Slots -> Entry]
    /\ \A j \in Slots : /\ es[j].valid = entries[j].valid
                        /\ es[j].uop = entries[j].uop
                        /\ es[j].mem = entries[j].mem

LEMMA ResultMarks ==
    ASSUME PipeTypeOK, RingInv, aluResult.valid
    PROVE  OnlyMarked(MarkDone(entries, aluResult.uop.rob, aluResult.exception))
<1>1. aluResult \in AluResult
  BY DEF PipeTypeOK, NoResult
<1>2. aluResult.uop.rob \in Slots /\ aluResult.exception \in BOOLEAN
  BY <1>1 DEF AluResult, MicroOp, Slots
<1> QED
  BY <1>2, MarkDoneIs DEF OnlyMarked, RingInv, RobTypeOK

LEMMA WithResultMarks ==
    ASSUME PipeTypeOK, RingInv
    PROVE  OnlyMarked(WithResult)
<1>1. OnlyMarked(entries)
  BY DEF OnlyMarked, RingInv, RobTypeOK
<1> QED
  BY <1>1, ResultMarks DEF WithResult

LEMMA PopHeadKeepsRing ==
    ASSUME RingInv, ~RobEmpty, robState' \in RobStates,
           NEW es, OnlyMarked(es), PopHead(es)
    PROVE  RingInv'
<1>1. Ring!RobInv /\ ~Ring!RobEmpty /\ Ring!PopHead(es) /\ robState' \in Ring!RobStates
      /\ es \in [Ring!Slots -> Ring!Entry]
      /\ \A i \in Ring!Slots : es[i].valid = entries[i].valid
  BY RingIs DEF RingInv, OnlyMarked, RobEmpty, Ring!RobEmpty, PopHead, Ring!PopHead,
                NextSlot, Ring!NextSlot, EmptyEntry, Ring!EmptyEntry, RobStates,
                Ring!RobStates
<1>2. Ring!RobInv'
  BY <1>1, Ring!PopHeadKeepsInv, RingAssumptions
<1>3. (RobTypeOK /\ RobWindow)'
  <2>1. Ring!RobTypeOK' <=> RobTypeOK'
    BY DEF RobTypeOK, Ring!RobTypeOK, Slots, Ring!Slots, Entry, Ring!Entry, RobStates,
           Ring!RobStates
  <2>2. Ring!RobWindow' <=> RobWindow'
    BY DEF RobWindow, Ring!RobWindow, Slots, Ring!Slots, InWindow, Ring!InWindow
  <2> QED
    BY <1>2, <2>1, <2>2 DEF Ring!RobInv
<1>4. \A i \in Slots : entries'[i].valid => entries'[i].uop \in MicroOp
  BY DEF RingInv, OnlyMarked, PopHead, EmptyEntry
<1> QED
  BY <1>3, <1>4 DEF RingInv

LEMMA SquashKeepsRing ==
    ASSUME SquashAll
    PROVE  RingInv' /\ \A i \in Slots : ~entries'[i].valid
<1>1. Ring!SquashAll
  BY DEF SquashAll, Ring!SquashAll, Slots, Ring!Slots, EmptyEntry, Ring!EmptyEntry
<1>2. Ring!RobInv'
  BY <1>1, Ring!SquashKeepsInv, RingAssumptions
<1>3. (RobTypeOK /\ RobWindow)'
  <2>1. Ring!RobTypeOK' <=> RobTypeOK'
    BY DEF RobTypeOK, Ring!RobTypeOK, Slots, Ring!Slots, Entry, Ring!Entry, RobStates,
           Ring!RobStates
  <2>2. Ring!RobWindow' <=> RobWindow'
    BY DEF RobWindow, Ring!RobWindow, Slots, Ring!Slots, InWindow, Ring!InWindow
  <2> QED
    BY <1>2, <2>1, <2>2 DEF Ring!RobInv
<1>4. \A i \in Slots : ~entries'[i].valid
  BY DEF SquashAll, EmptyEntry
<1> QED
  BY <1>3, <1>4 DEF RingInv

\* The end of a cycle, whatever leaves: no entry appears, none changes its uop or
\* its memory part.
LEMMA CommitKeepsBase ==
    ASSUME BaseInv, At("rob_commit", "branch"),
           UNCHANGED <<program, branchVars, frontendVars, pipeVars, intRf>>,
           RingInv', RenameTypeOK', ioSuccess' \in BOOLEAN, ioTrap' \in BOOLEAN,
           \A i \in Slots : entries'[i].valid =>
               /\ ~redirect
               /\ robTail' = robTail
               /\ entries[i].valid
               /\ entries'[i].uop = entries[i].uop
               /\ entries'[i].mem = entries[i].mem
    PROVE  BaseInv'
<1> USE DEF BaseInv, At
<1>1. PipeTypeOK'
  BY DEF PipeTypeOK, Stages, branchVars, pipeVars
<1>2. FrontendInv'
  BY FrontendSame
<1>3. RedirectEmpties' /\ OneUop'
  BY DEF RedirectEmpties, OneUop, pipeVars, branchVars
<1>4. ResultInv'
  <2>1. aluResult.valid => aluResult.uop.rob \in Slots
    <3>1. aluResult.valid => aluResult \in AluResult
      BY DEF PipeTypeOK, NoResult
    <3> QED
      BY <3>1 DEF AluResult, MicroOp, Slots
  <2> QED
    BY <2>1 DEF ResultInv, Fresh, pipeVars
<1>5. JumpIsYoungest'
  <2> SUFFICES ASSUME NEW i \in Slots, entries'[i].valid,
                      AlwaysLeaves(entries'[i].uop.inst)
               PROVE  NextSlot(i) = robTail' /\ Leaving(i)'
    BY DEF JumpIsYoungest, Slots, NextSlot, AlwaysLeaves
  <2>1. /\ ~redirect /\ robTail' = robTail /\ entries[i].valid
        /\ AlwaysLeaves(entries[i].uop.inst)
    OBVIOUS
  <2>2. NextSlot(i) = robTail /\ Leaving(i)
    BY <2>1 DEF JumpIsYoungest
  <2> QED
    BY <2>1, <2>2 DEF Leaving, pipeVars
<1> QED
  BY <1>1, <1>2, <1>3, <1>4, <1>5

\* The head leaves: what remains is as CommitKeepsBase wants it.
LEMMA PopKeepsRest ==
    ASSUME RingInv, ~redirect, NEW es, OnlyMarked(es), PopHead(es)
    PROVE  \A i \in Slots : entries'[i].valid =>
               /\ ~redirect
               /\ robTail' = robTail
               /\ entries[i].valid
               /\ entries'[i].uop = entries[i].uop
               /\ entries'[i].mem = entries[i].mem
  BY DEF OnlyMarked, PopHead, EmptyEntry

LEMMA CommitMappingType ==
    ASSUME RenameTypeOK, NEW u \in MicroOp, CommitMapping(u),
           UNCHANGED <<mapTable, renamedUop>>
    PROVE  RenameTypeOK'
<1>1. u.pdst \in Preg /\ u.ldst \in Reg /\ u.stale \in Preg
  BY DEF MicroOp
<1>2. committedMap' \in [Reg -> Preg]
  BY <1>1 DEF CommitMapping, RenameTypeOK
<1>3. \/ UNCHANGED freeListVars
      \/ Release(u.stale)
  BY DEF CommitMapping
<1>4. CASE UNCHANGED freeListVars
  BY <1>2, <1>4 DEF RenameTypeOK, freeListVars
<1>5. CASE Release(u.stale)
  <2>1. CASE freeCount < IntPhysRegs
    <3>1. /\ freeList' = [freeList EXCEPT ![freeTail] = u.stale]
          /\ freeTail' = (freeTail + 1) % IntPhysRegs
          /\ freeCount' = freeCount + 1 /\ freeHead' = freeHead
      BY <1>5, <2>1 DEF Release
    <3>2. freeTail' \in Preg
      BY <3>1, NextPlace DEF RenameTypeOK
    <3>3. freeCount' \in 0 .. IntPhysRegs
      BY <2>1, <3>1, IntPhysRegsAssumption DEF RenameTypeOK
    <3>4. freeList' \in [Preg -> Preg]
      BY <1>1, <3>1 DEF RenameTypeOK
    <3> QED
      BY <1>2, <3>1, <3>2, <3>3, <3>4 DEF RenameTypeOK
  <2>2. CASE ~(freeCount < IntPhysRegs)
    BY <1>2, <1>5, <2>2 DEF Release, RenameTypeOK, freeListVars
  <2> QED
    BY <2>1, <2>2
<1> QED
  BY <1>3, <1>4, <1>5

LEMMA CommitFlushKeepsBase ==
    ASSUME BaseInv, CommitFlush
    PROVE  BaseInv'
<1>1. /\ At("rob_commit", "branch") /\ SquashAll
      /\ UNCHANGED <<program, branchVars, frontendVars, pipeVars, intRf, ioVars>>
      /\ UNCHANGED renameVars
  BY DEF CommitFlush, CommitFrame, renameVars
<1>2. RingInv' /\ \A i \in Slots : ~entries'[i].valid
  BY <1>1, SquashKeepsRing
<1>3. RenameTypeOK' /\ ioSuccess' \in BOOLEAN /\ ioTrap' \in BOOLEAN
  BY <1>1, RenameSame DEF BaseInv, PipeTypeOK, ioVars
<1> QED
  BY <1>1, <1>2, <1>3, CommitKeepsBase

LEMMA MarkKeepsBase ==
    ASSUME BaseInv, At("rob_commit", "branch"), ~redirect,
           UNCHANGED <<program, branchVars, frontendVars, pipeVars, intRf, renameVars>>,
           NEW es, OnlyMarked(es), entries' = es,
           UNCHANGED <<robHead, robTail, maybeFull>>, robState' \in RobStates,
           ioSuccess' \in BOOLEAN, ioTrap' \in BOOLEAN
    PROVE  BaseInv'
<1>1. RenameTypeOK'
  BY RenameSame DEF BaseInv
<1>2. RingInv'
  BY RingKept DEF BaseInv, OnlyMarked
<1>3. \A i \in Slots : entries'[i].valid =>
               /\ ~redirect
               /\ robTail' = robTail
               /\ entries[i].valid
               /\ entries'[i].uop = entries[i].uop
               /\ entries'[i].mem = entries[i].mem
  BY DEF OnlyMarked
<1> QED
  BY <1>1, <1>2, <1>3, CommitKeepsBase

LEMMA CommitNothingKeepsBase ==
    ASSUME BaseInv, CommitNothing
    PROVE  BaseInv'
<1>1. OnlyMarked(WithResult)
  BY WithResultMarks DEF BaseInv
<1>2. /\ At("rob_commit", "branch") /\ ~redirect /\ entries' = WithResult
      /\ UNCHANGED <<program, branchVars, frontendVars, pipeVars, intRf, renameVars>>
      /\ UNCHANGED <<robHead, robTail, maybeFull>>
      /\ robState' \in RobStates /\ ioSuccess' \in BOOLEAN /\ ioTrap' \in BOOLEAN
  BY DEF CommitNothing, CommitFrame, BaseInv, PipeTypeOK, RingInv, RobTypeOK, renameVars,
         ioVars
<1> QED
  BY <1>1, <1>2, MarkKeepsBase

LEMMA CommitTrapKeepsBase ==
    ASSUME BaseInv, CommitTrap
    PROVE  BaseInv'
<1>1. OnlyMarked(WithResult)
  BY WithResultMarks DEF BaseInv
<1>2. /\ At("rob_commit", "branch") /\ ~redirect /\ entries' = WithResult
      /\ UNCHANGED <<program, branchVars, frontendVars, pipeVars, intRf, renameVars>>
      /\ UNCHANGED <<robHead, robTail, maybeFull>>
      /\ robState' \in RobStates /\ ioSuccess' \in BOOLEAN /\ ioTrap' \in BOOLEAN
  BY DEF CommitTrap, CommitFrame, BaseInv, PipeTypeOK, RobStates, renameVars, ioVars
<1> QED
  BY <1>1, <1>2, MarkKeepsBase

\* The head leaves with its mapping, or without one.
LEMMA PopKeepsBase ==
    ASSUME BaseInv, At("rob_commit", "branch"), ~redirect,
           UNCHANGED <<program, branchVars, frontendVars, pipeVars, intRf>>,
           NEW es, OnlyMarked(es), HeadReady(es), PopHead(es),
           UNCHANGED <<mapTable, renamedUop>>,
           CommitMapping(es[robHead].uop) \/ UNCHANGED <<committedMap, freeListVars>>,
           robState' \in RobStates, ioSuccess' \in BOOLEAN, ioTrap' \in BOOLEAN
    PROVE  BaseInv'
<1>1. RingInv'
  BY PopHeadKeepsRing DEF BaseInv, HeadReady
<1>2. es[robHead].uop \in MicroOp
  BY DEF BaseInv, OnlyMarked, HeadReady, RingInv, RobTypeOK
<1>3. RenameTypeOK'
  BY <1>2, CommitMappingType, RenameSame DEF BaseInv, renameVars
<1>4. \A i \in Slots : entries'[i].valid =>
               /\ ~redirect
               /\ robTail' = robTail
               /\ entries[i].valid
               /\ entries'[i].uop = entries[i].uop
               /\ entries'[i].mem = entries[i].mem
  BY PopKeepsRest DEF BaseInv
<1> QED
  BY <1>1, <1>3, <1>4, CommitKeepsBase

LEMMA CommitHeadKeepsBase ==
    ASSUME BaseInv, CommitHead
    PROVE  BaseInv'
<1>1. OnlyMarked(WithResult)
  BY WithResultMarks DEF BaseInv
<1>2. /\ At("rob_commit", "branch") /\ ~redirect /\ PopHead(WithResult)
      /\ HeadReady(WithResult)
      /\ CommitMapping(WithResult[robHead].uop)
      /\ UNCHANGED <<program, branchVars, frontendVars, pipeVars, intRf>>
      /\ UNCHANGED <<mapTable, renamedUop>>
      /\ robState' \in RobStates /\ ioSuccess' \in BOOLEAN /\ ioTrap' \in BOOLEAN
  BY DEF CommitHead, CommitFrame, HeadWaits, BaseInv, PipeTypeOK, RingInv, RobTypeOK,
         ioVars
<1> QED
  BY <1>1, <1>2, PopKeepsBase

LEMMA CommitEcallKeepsBase ==
    ASSUME BaseInv, CommitEcall
    PROVE  BaseInv'
<1>1. OnlyMarked(WithResult)
  BY WithResultMarks DEF BaseInv
<1>2. /\ At("rob_commit", "branch") /\ ~redirect /\ PopHead(WithResult)
      /\ HeadReady(WithResult)
      /\ UNCHANGED <<committedMap, freeListVars>>
      /\ UNCHANGED <<program, branchVars, frontendVars, pipeVars, intRf>>
      /\ UNCHANGED <<mapTable, renamedUop>>
      /\ robState' \in RobStates /\ ioSuccess' \in BOOLEAN /\ ioTrap' \in BOOLEAN
  BY DEF CommitEcall, CommitFrame, BaseInv, RingInv, RobTypeOK
<1> QED
  BY <1>1, <1>2, PopKeepsBase

\* All calls of a cycle, whatever memory is behind the LSU.
LEMMA CycleKeepsBase ==
    ASSUME BaseInv, AnswerIsWord, Cycle
    PROVE  BaseInv'
  BY BranchKeepsBase, LsuKeepsBase, FetchKeepsBase, DecodeKeepsBase, RenameKeepsBase,
     RobAllocateKeepsBase, IssueKeepsBase, ExecuteKeepsBase, CommitFlushKeepsBase,
     CommitNothingKeepsBase, CommitHeadKeepsBase, CommitEcallKeepsBase, CommitTrapKeepsBase
  DEF Cycle

\* A step that leaves the core alone: the memory's, or one of what is around it.
LEMMA OutsideKeepsBase ==
    ASSUME BaseInv, UNCHANGED <<stage, program, branchVars, frontendVars, pipeVars,
                                renameVars, robRing, intRf, ioVars>>
    PROVE  BaseInv'
<1> USE DEF BaseInv
<1>1. PipeTypeOK'
  BY DEF PipeTypeOK, branchVars, pipeVars, ioVars
<1>2. FrontendInv' /\ RenameTypeOK' /\ RingInv'
  BY FrontendSame, RenameSame, RingSame
<1>3. RedirectEmpties' /\ OneUop' /\ ResultInv' /\ JumpIsYoungest'
  BY DEF RedirectEmpties, OneUop, ResultInv, JumpIsYoungest, Leaving, Fresh, branchVars,
         frontendVars, pipeVars, renameVars, robRing
<1> QED
  BY <1>1, <1>2, <1>3

-----------------------------------------------------------------------------
(* The LSU's registers and the data streams.                               *)

CoreInv == BaseInv /\ LsuTypeOK

LEMMA LsuTypeInit == LsuInit => LsuTypeOK
<1> SUFFICES ASSUME LsuInit PROVE LsuTypeOK
  OBVIOUS
<1>1. 0 \in Tx /\ 1 \in Tx /\ 0 <= DmemDepth
  BY TxIdsAssumption, DmemDepthAssumption DEF Tx
<1>2. <<>> \in Seq(DmemRequest) /\ <<>> \in Seq(DmemResponse) /\ Len(<<>>) = 0
  BY EmptySeq
<1> QED
  BY <1>1, <1>2, Zeros DEF LsuInit, LsuTypeOK

LEMMA LsuTypeSame ==
    ASSUME LsuTypeOK, UNCHANGED <<lsuVars, memoryVars, intRf>>
    PROVE  LsuTypeOK'
  BY DEF LsuTypeOK, lsuVars, memoryVars

\* The core's own memory answers with words.
LEMMA TypedAnswer == LsuTypeOK => AnswerIsWord
<1> SUFFICES ASSUME LsuTypeOK, dmemResp # <<>>
             PROVE  Head(dmemResp).data \in Word /\ Head(dmemResp).fault \in BOOLEAN
  BY DEF AnswerIsWord, Answered
<1>1. Head(dmemResp) \in DmemResponse
  BY DEF LsuTypeOK
<1> QED
  BY <1>1 DEF DmemResponse

\* A request at the end of dmem_req, when there is room.
LEMMA RequestType ==
    ASSUME LsuTypeOK, NEW r \in DmemRequest, ~DmemFull
    PROVE  /\ Append(dmemReq, r) \in Seq(DmemRequest)
           /\ Len(Append(dmemReq, r)) = Len(dmemReq) + 1
           /\ Len(Append(dmemReq, r)) <= DmemDepth
           /\ \A n \in 1 .. Len(dmemReq) : Append(dmemReq, r)[n] = dmemReq[n]
           /\ Append(dmemReq, r)[Len(dmemReq) + 1] = r
<1>1. dmemReq \in Seq(DmemRequest) /\ Len(dmemReq) \in Nat /\ DmemDepth \in Nat
  BY LenProperties, DmemDepthAssumption DEF LsuTypeOK
<1>2. Len(dmemReq) < DmemDepth
  BY <1>1 DEF DmemFull
<1> QED
  BY <1>1, <1>2, AppendProperties

LEMMA LsuKeepsType ==
    ASSUME PipeTypeOK, PipeTypeOK', RobTypeOK, LsuTypeOK, LsuModule(aluResult)
    PROVE  LsuTypeOK'
<1> DEFINE es == WithAddress(WithResponse, aluResult)
<1>1. AnswerIsWord
  BY TypedAnswer
<1>2. es \in [Slots -> Entry]
  BY <1>1, ResponseKeepsEntries, AddressKeepsEntries DEF PipeTypeOK, RobTypeOK
<1>3. SendLoad(es, loadPending /\ ~Answered) /\ memory' = memory
  BY DEF LsuModule
<1>4. dmemResp' \in Seq(DmemResponse) /\ Len(dmemResp') <= DmemDepth
  <2>1. CASE dmemResp = <<>>
    BY <1>1, <2>1 DEF LsuModule, LsuTypeOK
  <2>2. CASE dmemResp # <<>>
    <3>1. dmemResp' = Tail(dmemResp)
      BY <1>1, <2>2 DEF LsuModule
    <3>2. Tail(dmemResp) \in Seq(DmemResponse) /\ Len(Tail(dmemResp)) = Len(dmemResp) - 1
      BY <1>1, <2>2, HeadTailProperties DEF LsuTypeOK
    <3> QED
      BY <1>1, <3>1, <3>2, LenProperties, DmemDepthAssumption DEF LsuTypeOK
  <2> QED
    BY <2>1, <2>2
<1>5. intRf' \in [Preg -> Word]
  BY DEF PipeTypeOK
<1>6. CASE /\ loadPending' = (loadPending /\ ~Answered)
           /\ pendingTx' = IF Answered THEN 0 ELSE pendingTx
           /\ UNCHANGED <<pendingRob, nextTx, dmemReq>>
  <2>1. 0 \in Tx
    BY TxIdsAssumption DEF Tx
  <2> QED
    BY <1>1, <1>3, <1>4, <1>5, <1>6, <2>1 DEF LsuTypeOK
<1>7. CASE \E k \in Slots :
              /\ MaySend(es, k)
              /\ loadPending' = TRUE /\ pendingTx' = nextTx /\ nextTx' = NextTx
              /\ pendingRob' = SlotFromHead(k)
              /\ dmemReq' = Append(dmemReq, [isStore |-> FALSE,
                                             addr |-> es[SlotFromHead(k)].mem.addr,
                                             data |-> 0, tx |-> nextTx])
  <2> PICK k \in Slots :
              /\ MaySend(es, k)
              /\ loadPending' = TRUE /\ pendingTx' = nextTx /\ nextTx' = NextTx
              /\ pendingRob' = SlotFromHead(k)
              /\ dmemReq' = Append(dmemReq, [isStore |-> FALSE,
                                             addr |-> es[SlotFromHead(k)].mem.addr,
                                             data |-> 0, tx |-> nextTx])
    BY <1>7
  <2> DEFINE i == SlotFromHead(k)
             r == [isStore |-> FALSE, addr |-> es[i].mem.addr, data |-> 0, tx |-> nextTx]
  <2>1. i \in Slots
    BY SentSlot DEF RobTypeOK
  <2>2. es[i].mem.addr \in Word
    <3> HIDE DEF i, es
    <3>1. es[i] \in Entry
      BY <1>2, <2>1
    <3> QED
      BY <3>1 DEF Entry, MemInfo
  <2>3. nextTx \in Tx /\ NextTx \in Tx
    BY <1>1, TxIdsAssumption DEF LsuTypeOK, NextTx, Tx
  <2>4. r \in DmemRequest /\ ~DmemFull
    BY <2>2, <2>3, Zeros DEF DmemRequest, MaySend
  <2>5. dmemReq' = Append(dmemReq, r)
    OBVIOUS
  <2> HIDE DEF r, es, i
  <2>6. dmemReq' \in Seq(DmemRequest) /\ Len(dmemReq') <= DmemDepth
    BY <1>1, <2>4, <2>5, RequestType
  <2> QED
    BY <1>1, <1>3, <1>4, <1>5, <2>1, <2>3, <2>6 DEF LsuTypeOK, i
<1> HIDE DEF es
<1> QED
  BY <1>3, <1>6, <1>7 DEF SendLoad

\* Committing a store sends it.
LEMMA CommitHeadKeepsType ==
    ASSUME CoreInv, CommitHead
    PROVE  LsuTypeOK'
<1> DEFINE h == WithResult[robHead]
<1>1. /\ LsuTypeOK /\ OnlyMarked(WithResult)
      /\ UNCHANGED <<loadPending, pendingTx, pendingRob, dmemResp, memory, intRf>>
  BY WithResultMarks DEF CoreInv, BaseInv, CommitHead, CommitFrame
<1>2. robHead \in Slots /\ h \in Entry
  BY <1>1 DEF OnlyMarked, CoreInv, BaseInv, RingInv, RobTypeOK
<1>3. CASE h.mem.isStore
  <2> DEFINE r == [isStore |-> TRUE, addr |-> h.mem.addr, data |-> h.mem.data, tx |-> nextTx]
  <2>1. dmemReq' = Append(dmemReq, r) /\ nextTx' = NextTx
    BY <1>3 DEF CommitHead
  <2>2. ~DmemFull
    BY <1>3 DEF CommitHead, HeadWaits
  <2>3. h.mem.addr \in Word /\ h.mem.data \in Word
    BY <1>2 DEF Entry, MemInfo
  <2>4. nextTx \in Tx /\ NextTx \in Tx
    BY <1>1, TxIdsAssumption DEF LsuTypeOK, NextTx, Tx
  <2>5. r \in DmemRequest
    BY <2>3, <2>4 DEF DmemRequest
  <2> HIDE DEF r
  <2>6. dmemReq' \in Seq(DmemRequest) /\ Len(dmemReq') <= DmemDepth
    BY <1>1, <2>1, <2>2, <2>5, RequestType
  <2> QED
    BY <1>1, <2>1, <2>4, <2>6 DEF LsuTypeOK
<1>4. CASE ~h.mem.isStore
  BY <1>1, <1>4, LsuTypeSame DEF CommitHead, lsuVars, memoryVars
<1> QED
  BY <1>3, <1>4

\* The oldest request leaves dmem_req.
LEMMA OldestRequest ==
    ASSUME LsuTypeOK, dmemReq # <<>>
    PROVE  /\ Head(dmemReq) \in DmemRequest /\ Head(dmemReq) = dmemReq[1]
           /\ Tail(dmemReq) \in Seq(DmemRequest) /\ Len(Tail(dmemReq)) = Len(dmemReq) - 1
           /\ Len(dmemReq) \in Nat \ {0}
           /\ \A n \in 1 .. Len(Tail(dmemReq)) : Tail(dmemReq)[n] = dmemReq[n + 1]
<1>1. dmemReq \in Seq(DmemRequest)
  BY DEF LsuTypeOK
<1> QED
  BY <1>1, HeadTailProperties, LenProperties

\* The memory takes the oldest request, and answers a load.
LEMMA MemoryKeepsType ==
    ASSUME LsuTypeOK, MemoryServes, UNCHANGED <<lsuVars, intRf>>
    PROVE  LsuTypeOK'
<1>1. /\ dmemReq # <<>> /\ dmemResp \in Seq(DmemResponse) /\ memory \in [Word -> Word]
  BY DEF LsuTypeOK, MemoryServes
<1>2. /\ Head(dmemReq) \in DmemRequest
      /\ Tail(dmemReq) \in Seq(DmemRequest) /\ Len(Tail(dmemReq)) = Len(dmemReq) - 1
      /\ Len(dmemReq) \in Nat \ {0}
  BY <1>1, OldestRequest
<1>3. dmemReq' = Tail(dmemReq) /\ Len(dmemReq') <= DmemDepth
  BY <1>2, DmemDepthAssumption DEF MemoryServes, LsuTypeOK
<1>4. memory' \in [Word -> Word] /\ dmemResp' \in Seq(DmemResponse) /\ Len(dmemResp') <= DmemDepth
  <2> DEFINE req == Head(dmemReq)
             a == [tx |-> req.tx, data |-> memory[req.addr], fault |-> req.addr \in FaultAddrs]
  <2>1. req.addr \in Word /\ req.data \in Word /\ req.tx \in Tx
    BY <1>2 DEF DmemRequest
  <2>2. CASE req.isStore
    BY <1>1, <2>1, <2>2 DEF MemoryServes, LsuTypeOK
  <2>3. CASE ~req.isStore
    <3>1. dmemResp' = Append(dmemResp, a) /\ memory' = memory
          /\ Len(dmemResp) < DmemDepth
      BY <2>3 DEF MemoryServes
    <3>2. a \in DmemResponse
      <4>1. (req.addr \in FaultAddrs) \in BOOLEAN /\ memory[req.addr] \in Word
        BY <1>1, <2>1
      <4> QED
        BY <2>1, <4>1 DEF DmemResponse
    <3> HIDE DEF a
    <3>3. dmemResp' \in Seq(DmemResponse) /\ Len(dmemResp') = Len(dmemResp) + 1
      BY <1>1, <3>1, <3>2, AppendProperties
    <3>4. Len(dmemResp) \in Nat /\ DmemDepth \in Nat
      BY <1>1, LenProperties, DmemDepthAssumption
    <3> QED
      BY <1>1, <3>1, <3>3, <3>4
  <2> QED
    BY <2>2, <2>3
<1> QED
  BY <1>2, <1>3, <1>4 DEF LsuTypeOK, lsuVars

LEMMA CoreInvInit == Init => CoreInv
  BY BaseInvInit, LsuTypeInit DEF Init, CoreInv

LEMMA CycleKeepsLsuType ==
    ASSUME CoreInv, BaseInv', Cycle
    PROVE  LsuTypeOK'
<1> USE DEF CoreInv
<1>1. CASE LsuStage
  BY <1>1, LsuKeepsType DEF LsuStage, BaseInv, RingInv
<1>2. CASE CommitHead
  BY <1>2, CommitHeadKeepsType
<1>3. CASE Execute
  <2>1. UNCHANGED <<lsuVars, memoryVars>> /\ intRf' \in [Preg -> Word]
    BY <1>3 DEF Execute, BaseInv, PipeTypeOK
  <2> QED
    BY <2>1 DEF LsuTypeOK, lsuVars, memoryVars
<1>4. CASE \/ Branch \/ FetchStopped \/ FetchWaits \/ FetchReads \/ Decode \/ RenameStage
           \/ RobAllocate \/ Issue
  BY <1>4, LsuTypeSame
  DEF Branch, FetchStopped, FetchWaits, FetchReads, FetchFrame, Decode, RenameStage,
      RobAllocate, Issue
<1>5. CASE CommitFlush \/ CommitNothing \/ CommitEcall \/ CommitTrap
  BY <1>5, LsuTypeSame
  DEF CommitFlush, CommitNothing, CommitEcall, CommitTrap, CommitFrame, lsuVars, memoryVars
<1> QED
  BY <1>1, <1>2, <1>3, <1>4, <1>5 DEF Cycle

LEMMA CoreInvStep == CoreInv /\ [Next]_vars => CoreInv'
<1> SUFFICES ASSUME CoreInv, [Next]_vars
             PROVE  CoreInv'
  OBVIOUS
<1> USE DEF CoreInv
<1>1. CASE Cycle
  BY <1>1, CycleKeepsBase, CycleKeepsLsuType, TypedAnswer
<1>2. CASE Memory
  BY <1>2, OutsideKeepsBase, MemoryKeepsType DEF Memory
<1>3. CASE UNCHANGED vars
  BY <1>3, OutsideKeepsBase, LsuTypeSame DEF vars
<1> QED
  BY <1>1, <1>2, <1>3 DEF Next

LEMMA CoreInvAlways == Spec => []CoreInv
  BY CoreInvInit, CoreInvStep, PTL DEF Spec

-----------------------------------------------------------------------------
(* The theorems.                                                           *)

LEMMA CoreInvTypes == CoreInv => CoreTypeOK
<1> SUFFICES ASSUME CoreInv PROVE CoreTypeOK
  OBVIOUS
<1>1. aluIq \in Seq(MicroOp) /\ Len(aluIq) <= IqDepth
  BY IqDepthAssumption, EmptySeq DEF CoreInv, BaseInv, OneUop
<1> QED
  BY <1>1 DEF CoreInv, BaseInv, PipeTypeOK, Stages, FrontendInv, RingInv, CoreTypeOK

\* Every component of the core keeps its type; so the free list's and the ring's
\* indices never leave their arrays, and dmem_req and dmem_resp never hold more
\* than they can.
THEOREM CoreTypes == Spec => []CoreTypeOK
  BY CoreInvTypes, CoreInvAlways, PTL

\* The valid entries of rob.entries are those from head to tail in the core too,
\* where one call of rob_commit_module marks an entry done and removes another.
THEOREM CoreRobWindow == Spec => []RobWindow
<1>1. CoreInv => RobWindow
  BY DEF CoreInv, BaseInv, RingInv
<1> QED
  BY <1>1, CoreInvAlways, PTL

LEMMA BaseNoWrongPath == BaseInv => NoWrongPath
<1> SUFFICES ASSUME BaseInv, NEW k \in 1 .. RobLength - 1,
                    AlwaysLeaves(RobQueue[k].inst)
             PROVE  FALSE
  BY DEF NoWrongPath
<1>1. Ring!RobInv
  BY RingIs DEF BaseInv, RingInv
<1>2. Ring!RobLength = RobLength /\ Ring!RobQueue = RobQueue /\ RobLength \in Nat
  <2>1. Ring!RobLength = RobLength
    BY DEF Ring!RobLength, RobLength
  <2>2. Ring!RobQueue = RobQueue
    BY <2>1 DEF Ring!RobQueue, RobQueue
  <2>3. Ring!RobLength \in Nat
    BY <1>1, Ring!RobQueueIs, RingAssumptions DEF Ring!QueueInRing
  <2> QED
    BY <2>1, <2>2, <2>3
<1>3. k \in 1 .. Ring!RobLength /\ k # Ring!RobLength
  BY <1>2
<1> DEFINE i == Ring!SlotOf(k)
<1>4. i \in Slots /\ entries[i].valid /\ NextSlot(i) # robTail
  BY <1>1, <1>3, Ring!QueueSlots, RingAssumptions, RingIs DEF NextSlot, Ring!NextSlot
<1>5. RobQueue[k] = entries[i].uop
  BY <1>1, <1>2, <1>3, Ring!RobQueueIs, RingAssumptions DEF Ring!QueueInRing
<1> HIDE DEF i
<1> QED
  BY <1>4, <1>5 DEF BaseInv, JumpIsYoungest

\* No wrong path: of the uops in the ROB, only the youngest can be a jump
\* (branch_module redirects frontend_module before it reads the next answer).
THEOREM CoreNoWrongPath == Spec => []NoWrongPath
<1>1. CoreInv => NoWrongPath
  BY BaseNoWrongPath DEF CoreInv
<1> QED
  BY <1>1, CoreInvAlways, PTL

\* In the core, frontend_module behaves as Frontend says of it under any redirects:
\* branch_module and rob_commit_module give it no other inputs.
THEOREM CoreFrontend == Spec => FrontendSpec
<1>1. Init => FrontendInit
  BY DEF Init
<1>2. CoreInv /\ [Next]_vars => [FrontendNext]_frontendVars
  <2> SUFFICES ASSUME CoreInv, [Next]_vars, ~(UNCHANGED frontendVars)
               PROVE  FrontendNext
    OBVIOUS
  <2>1. FetchStopped \/ FetchWaits \/ FetchReads
    BY DEF Next, Cycle, vars, Branch, LsuStage, Decode, RenameStage, RobAllocate, Issue,
           Execute, CommitFlush, CommitNothing, CommitHead, CommitEcall, CommitTrap,
           CommitFrame, Memory
  <2>2. redirect \in BOOLEAN /\ target \in Word /\ program \in Programs
    BY DEF CoreInv, BaseInv, PipeTypeOK
  <2> QED
    BY <2>1, <2>2 DEF FetchStopped, FetchWaits, FetchReads, FrontendNext
<1> QED
  BY <1>1, <1>2, CoreInvAlways, PTL DEF Spec, FrontendSpec

\* In the core too, the answer the front end waits for is on its way, no two
\* requests share an id, and what is decoded was fetched from the current pc.
THEOREM CoreFetchesFromPc ==
    Spec => [](FetchAnswerComing /\ FetchIdsDistinct) /\ FetchedFromPc
  BY CoreFrontend, FrontendSafe, FrontendFetchesFromPc, PTL

\* A step on the ring of the core is a step of the bounded queue in program order.
LEMMA CoreStepIsWindowStep ==
    ASSUME CoreInv, CoreInv', [Next]_vars
    PROVE  Window!Next \/ RobQueue' = RobQueue
<1>1. Ring!RobInv /\ Ring!RobInv'
  <2>1. Ring!RobTypeOK' <=> RobTypeOK'
    BY DEF RobTypeOK, Ring!RobTypeOK, Slots, Ring!Slots, Entry, Ring!Entry, RobStates,
           Ring!RobStates
  <2>2. Ring!RobWindow' <=> RobWindow'
    BY DEF RobWindow, Ring!RobWindow, Slots, Ring!Slots, InWindow, Ring!InWindow
  <2> QED
    BY <2>1, <2>2, RingIs DEF CoreInv, BaseInv, RingInv, Ring!RobInv
<1>2. Ring!RobQueue = RobQueue /\ Ring!RobQueue' = RobQueue' /\ Ring!RobLength = RobLength
      /\ Ring!RobLength' = RobLength'
  BY DEF Ring!RobQueue, RobQueue, Ring!RobLength, RobLength
<1>3. ASSUME UNCHANGED <<robHead, robTail, maybeFull>>,
             \A i \in Slots : entries'[i].uop = entries[i].uop
      PROVE  RobQueue' = RobQueue
  BY <1>1, <1>2, <1>3, Ring!SameUopsStutter, RingAssumptions, RingIs
<1>4. CASE LsuStage
  BY <1>3, <1>4, LsuKeepsEntries, TypedAnswer DEF CoreInv, BaseInv, LsuStage, LsuModule
<1>5. CASE RobAllocate
  <2>1. CASE renamedUop = NoUop
    BY <1>3, <1>5, <2>1 DEF RobAllocate
  <2>2. CASE renamedUop # NoUop
    <3> DEFINE u == [renamedUop EXCEPT !.rob = robTail]
    <3>1. Allocate(u) /\ renamedUop \in MicroOp /\ robTail \in Slots
      BY <1>5, <2>2 DEF RobAllocate, CoreInv, BaseInv, RenameTypeOK, RingInv, RobTypeOK
    <3>2. u \in MicroOp
      BY <3>1 DEF MicroOp, Slots
    <3> HIDE DEF u
    <3>3. CASE RobFull
      BY <1>3, <3>1, <3>3 DEF Allocate
    <3>4. CASE ~RobFull
      <4>1. Ring!Allocate(u) /\ ~Ring!RobFull
        BY <3>1, <3>4 DEF Allocate, Ring!Allocate, WakeRob, Ring!WakeRob, RobFull,
              Ring!RobFull, FreshEntry, Ring!FreshEntry, NextSlot, Ring!NextSlot
      <4>2. RobQueue' = Append(RobQueue, u)
        BY <1>1, <1>2, <3>2, <4>1, Ring!AllocateEnters, RingAssumptions
      <4>3. Len(RobQueue) < RobSlots
        BY <1>1, <1>2, <4>1, Ring!TailSlot, Ring!RobQueueIs, RingAssumptions
        DEF Ring!QueueInRing
      <4> QED
        BY <3>2, <4>2, <4>3 DEF Window!Next, Window!Enter
    <3> QED
      BY <3>3, <3>4
  <2> QED
    BY <2>1, <2>2
<1>6. CASE CommitFlush
  <2>1. robHead' = 0 /\ robTail' = 0 /\ maybeFull' = FALSE
    BY <1>6 DEF CommitFlush, SquashAll
  <2>2. RobLength' = 0
    BY <2>1 DEF RobLength
  <2>3. Ring!QueueInRing'
    BY <1>1, Ring!RobQueueIsNext, RingAssumptions
  <2>4. RobQueue' = <<>>
    BY <1>2, <2>2, <2>3 DEF Ring!QueueInRing
  <2> QED
    BY <2>4 DEF Window!Next, Window!Squash
<1>7. CASE CommitHead \/ CommitEcall
  <2>1. OnlyMarked(WithResult) /\ ~RobEmpty /\ PopHead(WithResult)
    BY <1>7, WithResultMarks
    DEF CoreInv, BaseInv, CommitHead, CommitEcall, HeadWaits, HeadReady
  <2>2. /\ Ring!PopHead(WithResult) /\ ~Ring!RobEmpty
        /\ WithResult \in [Ring!Slots -> Ring!Entry]
        /\ \A i \in Ring!Slots : WithResult[i].uop = entries[i].uop
    BY <2>1, RingIs DEF PopHead, Ring!PopHead, NextSlot, Ring!NextSlot, EmptyEntry,
          Ring!EmptyEntry, RobEmpty, Ring!RobEmpty, OnlyMarked
  <2>3. RobQueue # <<>> /\ RobQueue' = Tail(RobQueue)
    BY <1>1, <1>2, <2>2, Ring!PopHeadLeaves, RingAssumptions
  <2> QED
    BY <2>3 DEF Window!Next, Window!LeaveOldest
<1>8. CASE CommitNothing \/ CommitTrap
  <2>1. OnlyMarked(WithResult)
    BY WithResultMarks DEF CoreInv, BaseInv
  <2> QED
    BY <1>3, <1>8, <2>1 DEF CommitNothing, CommitTrap, OnlyMarked
<1>9. CASE UNCHANGED robRing
  BY <1>3, <1>9 DEF robRing
<1> QED
  BY <1>4, <1>5, <1>6, <1>7, <1>8, <1>9 DEF Next, Cycle, vars, Branch, FetchStopped,
     FetchWaits, FetchReads, FetchFrame, Decode, RenameStage, Issue, Execute, Memory

\* The core's ROB implements the bounded queue in program order: uops leave it in
\* the order in which they were renamed, each once, unless a misprediction drops
\* them all.
THEOREM CoreRobIsInOrder == Spec => RobIsInOrder
<1>1. Init => Window!Init
  <2> SUFFICES ASSUME Init PROVE RobQueue = <<>>
    BY DEF Window!Init
  <2>1. RobLength = 0
    BY DEF Init, RobInit, RobLength
  <2> QED
    BY <2>1 DEF RobQueue
<1>2. CoreInv /\ CoreInv' /\ [Next]_vars => [Window!Next]_RobQueue
  BY CoreStepIsWindowStep
<1> QED
  BY <1>1, <1>2, CoreInvAlways, PTL DEF Spec, RobIsInOrder, Window!Spec

=============================================================================
