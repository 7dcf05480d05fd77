----------------------------- MODULE RobProofs -----------------------------
(***************************************************************************)
(* Theorems about the reorder buffer, for every RobDepth, every set of     *)
(* uops and every set of memory descriptions.                              *)
(***************************************************************************)
EXTENDS Rob, SequenceTheorems, TLAPS

-----------------------------------------------------------------------------
(* Lemmas about the ring's operators.                                      *)

\* The successor of a slot, without the modulus.
LEMMA NextSlotIs ==
    ASSUME NEW i \in Slots
    PROVE  /\ NextSlot(i) \in Slots
           /\ NextSlot(i) = IF i = RobDepth - 1 THEN 0 ELSE i + 1
<1>1. CASE i = RobDepth - 1
  BY <1>1, RobDepthAssumption DEF NextSlot, Slots
<1>2. CASE i # RobDepth - 1
  <2>1. i + 1 \in 0 .. RobDepth - 1
    BY <1>2, RobDepthAssumption DEF Slots
  <2>2. (i + 1) % RobDepth = i + 1
    BY <2>1, RobDepthAssumption
  <2> QED
    BY <1>2, <2>1, <2>2 DEF NextSlot, Slots
<1> QED
  BY <1>1, <1>2

LEMMA ZeroIsSlot == 0 \in Slots
  BY RobDepthAssumption DEF Slots

LEMMA EmptyEntryType == EmptyEntry \in Entry
  BY NoMemAssumption DEF EmptyEntry, Entry

LEMMA FreshEntryType ==
    ASSUME NEW u \in Uops
    PROVE  FreshEntry(u) \in Entry
  BY NoMemAssumption, UopsAssumption DEF FreshEntry, Entry

\* Marking a result keeps every entry an entry, and no entry appears or goes.
LEMMA MarkDoneKeeps ==
    ASSUME NEW es \in [Slots -> Entry], NEW i \in Slots, NEW exc \in BOOLEAN
    PROVE  /\ MarkDone(es, i, exc) \in [Slots -> Entry]
           /\ \A j \in Slots : /\ MarkDone(es, i, exc)[j].valid = es[j].valid
                               /\ MarkDone(es, i, exc)[j].uop = es[j].uop
  BY DEF MarkDone, Entry

-----------------------------------------------------------------------------
(* The inductive invariant: the types and the window together.  Neither is *)
(* inductive alone: PopHead keeps the window only because a set maybe_full *)
(* means that head and tail meet.                                          *)

RobInv == RobTypeOK /\ RobWindow

LEMMA RobInvInit == RobInit => RobInv
<1> SUFFICES ASSUME RobInit PROVE RobInv
  OBVIOUS
<1>1. RobTypeOK
  BY ZeroIsSlot, EmptyEntryType DEF RobInit, RobTypeOK, RobStates
<1>2. RobWindow
  <2>1. ASSUME NEW i \in Slots
        PROVE  ~entries[i].valid /\ ~InWindow(i)
    BY DEF RobInit, EmptyEntry, InWindow, Slots
  <2> QED
    BY <2>1 DEF RobInit, RobWindow
<1> QED
  BY <1>1, <1>2 DEF RobInv

LEMMA AllocateKeepsInv ==
    ASSUME RobInv, NEW u \in Uops, Allocate(u)
    PROVE  RobInv'
<1> USE DEF RobInv, RobTypeOK
<1>1. robState' \in RobStates
  BY DEF Allocate, WakeRob, RobStates
<1>2. CASE RobFull /\ UNCHANGED <<entries, robHead, robTail, maybeFull>>
  BY <1>1, <1>2 DEF RobWindow, InWindow
<1>3. CASE /\ ~RobFull
           /\ entries' = [entries EXCEPT ![robTail] = FreshEntry(u)]
           /\ robTail' = NextSlot(robTail)
           /\ maybeFull' = (maybeFull \/ robTail' = robHead)
           /\ UNCHANGED robHead
  <2>1. RobTypeOK'
    BY <1>1, <1>3, NextSlotIs, FreshEntryType
  <2>2. ~maybeFull /\ (maybeFull' => robHead' = robTail')
    BY <1>3 DEF RobFull, RobWindow
  <2>3. ASSUME NEW i \in Slots
        PROVE  entries'[i].valid <=> InWindow(i)'
    <3>1. entries[i].valid <=> InWindow(i)
      BY DEF RobWindow
    <3>2. i = robTail => entries'[i].valid
      BY <1>3 DEF FreshEntry
    <3>3. i # robTail => entries'[i] = entries[i]
      BY <1>3
    <3>4. robTail' = IF robTail = RobDepth - 1 THEN 0 ELSE robTail + 1
      BY <1>3, NextSlotIs
    <3>5. InWindow(i)' <=> (i = robTail \/ InWindow(i))
      <4>1. ~maybeFull /\ robHead' = robHead
        BY <2>2, <1>3
      <4>2. maybeFull' <=> robTail' = robHead
        BY <4>1, <1>3
      <4> HIDE DEF RobInv
      <4>3. /\ robHead \in 0 .. RobDepth - 1
            /\ robTail \in 0 .. RobDepth - 1
            /\ i \in 0 .. RobDepth - 1
        BY DEF RobInv, Slots
      <4> QED
        BY <4>1, <4>2, <4>3, <3>4, RobDepthAssumption DEF InWindow
    <3> QED
      BY <3>1, <3>2, <3>3, <3>5
  <2> QED
    BY <2>1, <2>2, <2>3 DEF RobWindow
<1> QED
  BY <1>2, <1>3 DEF Allocate

LEMMA SquashKeepsInv ==
    ASSUME SquashAll
    PROVE  RobInv'
<1>1. RobTypeOK'
  BY ZeroIsSlot, EmptyEntryType DEF SquashAll, RobTypeOK, RobStates
<1>2. ASSUME NEW i \in Slots
      PROVE  ~entries'[i].valid /\ ~InWindow(i)'
  BY DEF SquashAll, EmptyEntry, InWindow, Slots
<1> QED
  BY <1>1, <1>2 DEF SquashAll, RobInv, RobWindow

\* PopHead on entries es with the same valid bits as the current ones.
LEMMA PopHeadKeepsInv ==
    ASSUME RobInv, ~RobEmpty, robState' \in RobStates,
           NEW es \in [Slots -> Entry],
           \A i \in Slots : es[i].valid = entries[i].valid,
           PopHead(es)
    PROVE  RobInv'
<1> USE DEF RobInv, RobTypeOK
<1>1. RobTypeOK'
  BY NextSlotIs, EmptyEntryType DEF PopHead
<1>2. ASSUME NEW i \in Slots
      PROVE  entries'[i].valid <=> InWindow(i)'
  <2>1. entries[i].valid <=> InWindow(i)
    BY DEF RobWindow
  <2>2. i = robHead => ~entries'[i].valid
    BY DEF PopHead, EmptyEntry
  <2>3. i # robHead => (entries'[i].valid <=> entries[i].valid)
    BY DEF PopHead
  <2>4. robHead' = IF robHead = RobDepth - 1 THEN 0 ELSE robHead + 1
    BY NextSlotIs DEF PopHead
  <2>5. maybeFull => robHead = robTail
    BY DEF RobWindow
  <2>6. InWindow(i)' <=> (InWindow(i) /\ i # robHead)
    BY <2>4, <2>5, RobDepthAssumption DEF InWindow, Slots, PopHead, RobEmpty
  <2> QED
    BY <2>1, <2>2, <2>3, <2>6
<1> QED
  BY <1>1, <1>2 DEF RobWindow, PopHead

\* Any step that keeps the indices and the valid bits keeps the invariant.
LEMMA SameValidKeepsInv ==
    ASSUME RobInv, entries' \in [Slots -> Entry], robState' \in RobStates,
           \A i \in Slots : entries'[i].valid = entries[i].valid,
           UNCHANGED <<robHead, robTail, maybeFull>>
    PROVE  RobInv'
  BY DEF RobInv, RobTypeOK, RobWindow, InWindow

LEMMA RobInvStep == RobInv /\ [RobNext]_robVars => RobInv'
<1> SUFFICES ASSUME RobInv, [RobNext]_robVars
             PROVE  RobInv'
  OBVIOUS
<1> USE DEF RobInv, RobTypeOK
<1>1. ASSUME NEW u \in Uops, Allocate(u)
      PROVE  RobInv'
  BY <1>1, AllocateKeepsInv
<1>2. ASSUME NEW i \in Slots, NEW exc \in BOOLEAN, Complete(i, exc)
      PROVE  RobInv'
  BY <1>2, MarkDoneKeeps, SameValidKeepsInv DEF Complete
<1>3. ASSUME NEW i \in Slots, NEW m \in MemInfos, NEW done \in BOOLEAN,
             NEW exc \in BOOLEAN, LsuUpdate(i, m, done, exc)
      PROVE  RobInv'
  <2>1. entries' \in [Slots -> Entry]
    <3>1. /\ (entries[i].busy /\ ~done) \in BOOLEAN
          /\ (entries[i].exception \/ exc) \in BOOLEAN
      OBVIOUS
    <3>2. entries[i] \in Entry
      OBVIOUS
    <3>3. [entries[i] EXCEPT !.mem = m,
                             !.busy = entries[i].busy /\ ~done,
                             !.exception = entries[i].exception \/ exc] \in Entry
      BY <3>1, <3>2 DEF Entry
    <3> QED
      BY <1>3, <3>3 DEF LsuUpdate
  <2>2. \A j \in Slots : entries'[j].valid = entries[j].valid
    BY <1>3 DEF LsuUpdate, Entry
  <2> QED
    BY <1>3, <2>1, <2>2, SameValidKeepsInv DEF LsuUpdate
<1>4. CASE Retire
  BY <1>4, PopHeadKeepsInv DEF Retire, HeadReady
<1>5. CASE Trap
  BY <1>5, SameValidKeepsInv DEF Trap, RobStates
<1>6. CASE SquashAll
  BY <1>6, SquashKeepsInv
<1>7. CASE UNCHANGED robVars
  BY <1>7 DEF robVars, RobWindow, InWindow
<1> QED
  BY <1>1, <1>2, <1>3, <1>4, <1>5, <1>6, <1>7 DEF RobNext

\* The types and the window hold in every reachable state of the ring.
THEOREM RobSafe == RobSpec => [](RobTypeOK /\ RobWindow)
<1>1. RobInit => RobInv
  BY RobInvInit
<1>2. RobInv /\ [RobNext]_robVars => RobInv'
  BY RobInvStep
<1>3. RobInv => RobTypeOK /\ RobWindow
  BY DEF RobInv
<1> QED
  BY <1>1, <1>2, <1>3, PTL DEF RobSpec

-----------------------------------------------------------------------------
(* The ring implements the bounded queue.                                  *)

\* The slot n places after h, without the modulus.
LEMMA SlotAfter ==
    ASSUME NEW h \in Slots, NEW n \in 0 .. RobDepth - 1
    PROVE  /\ (h + n) % RobDepth \in Slots
           /\ (h + n) % RobDepth = IF h + n < RobDepth THEN h + n ELSE h + n - RobDepth
<1> DEFINE k == h + n
<1>1. k \in Nat /\ k < 2 * RobDepth
  BY RobDepthAssumption DEF Slots
<1> HIDE DEF k
<1>2. CASE k < RobDepth
  <2>1. k % RobDepth = k
    BY <1>1, <1>2, RobDepthAssumption
  <2> QED
    BY <1>1, <1>2, <2>1, RobDepthAssumption DEF Slots, k
<1>3. CASE k >= RobDepth
  <2> DEFINE r == k - RobDepth
  <2>1. r \in 0 .. RobDepth - 1 /\ k = RobDepth + r
    BY <1>1, <1>3, RobDepthAssumption
  <2> HIDE DEF r
  <2>2. (RobDepth + r) % RobDepth = r
    BY <2>1, RobDepthAssumption
  <2>3. k % RobDepth = r
    BY <2>1, <2>2
  <2> QED
    BY <1>3, <2>1, <2>3, RobDepthAssumption DEF Slots, k, r
<1> QED
  BY <1>1, <1>2, <1>3, RobDepthAssumption

SlotOf(k) == (robHead + (k - 1)) % RobDepth

\* The queue the window stands for: its length, and its k-th uop.
QueueInRing ==
    /\ RobLength \in 0 .. RobDepth
    /\ RobQueue \in Seq(Uops \cup {NoUop})
    /\ Len(RobQueue) = RobLength
    /\ \A k \in 1 .. RobLength : /\ SlotOf(k) \in Slots
                                 /\ RobQueue[k] = entries[SlotOf(k)].uop

LEMMA RobQueueIs == RobInv => QueueInRing
<1> SUFFICES ASSUME RobInv PROVE QueueInRing
  OBVIOUS
<1>1. RobLength \in 0 .. RobDepth
  BY RobDepthAssumption DEF RobInv, RobTypeOK, RobLength, Slots
<1>2. ASSUME NEW k \in 1 .. RobLength
      PROVE  SlotOf(k) \in Slots /\ entries[SlotOf(k)].uop \in Uops \cup {NoUop}
  <2>1. robHead \in Slots /\ k - 1 \in 0 .. RobDepth - 1
    BY <1>1, RobDepthAssumption DEF RobInv, RobTypeOK
  <2>2. SlotOf(k) \in Slots
    BY <2>1, SlotAfter DEF SlotOf
  <2> QED
    BY <2>2 DEF RobInv, RobTypeOK, Entry
<1>3. RobQueue = [k \in 1 .. RobLength |-> entries[SlotOf(k)].uop]
  BY DEF RobQueue, SlotOf
<1> QED
  BY <1>1, <1>2, <1>3 DEF QueueInRing

\* Before the tail moves on, the tail is the slot after the last of the queue.
LEMMA TailSlot ==
    ASSUME RobInv, ~RobFull
    PROVE  /\ RobLength < RobDepth
           /\ SlotOf(RobLength + 1) = robTail
           /\ \A k \in 1 .. RobLength : SlotOf(k) # robTail
<1>1. /\ robHead \in 0 .. RobDepth - 1 /\ robTail \in 0 .. RobDepth - 1 /\ ~maybeFull
  BY DEF RobInv, RobTypeOK, RobWindow, RobFull, Slots
<1>2. RobLength = IF robHead <= robTail THEN robTail - robHead
                  ELSE robTail + RobDepth - robHead
  BY <1>1 DEF RobLength
<1>3. RobLength \in 0 .. RobDepth - 1
  BY <1>1, <1>2, RobDepthAssumption
<1>4. ASSUME NEW k \in 1 .. RobLength + 1
      PROVE  SlotOf(k) = IF robHead + (k - 1) < RobDepth THEN robHead + (k - 1)
                         ELSE robHead + (k - 1) - RobDepth
  <2>1. robHead \in Slots /\ k - 1 \in 0 .. RobDepth - 1
    BY <1>1, <1>3, RobDepthAssumption DEF Slots
  <2> QED
    BY <2>1, SlotAfter DEF SlotOf
<1>5. SlotOf(RobLength + 1) = robTail
  BY <1>1, <1>2, <1>3, <1>4, RobDepthAssumption
<1>6. ASSUME NEW k \in 1 .. RobLength
      PROVE  SlotOf(k) # robTail
  BY <1>1, <1>2, <1>3, <1>4, RobDepthAssumption
<1> QED
  BY <1>3, <1>5, <1>6, RobDepthAssumption

\* The slots of the queue hold valid entries, and only the last of them is followed
\* by the tail.
LEMMA QueueSlots ==
    ASSUME RobInv, NEW k \in 1 .. RobLength
    PROVE  /\ SlotOf(k) \in Slots /\ entries[SlotOf(k)].valid
           /\ NextSlot(SlotOf(k)) = robTail => k = RobLength
<1>1. /\ robHead \in 0 .. RobDepth - 1 /\ robTail \in 0 .. RobDepth - 1
      /\ maybeFull \in BOOLEAN /\ (maybeFull => robHead = robTail)
  BY DEF RobInv, RobTypeOK, RobWindow, Slots
<1>2. RobLength = IF maybeFull THEN RobDepth
                  ELSE IF robHead <= robTail THEN robTail - robHead
                  ELSE robTail + RobDepth - robHead
  BY DEF RobLength
<1>3. RobLength \in 0 .. RobDepth
  BY <1>1, <1>2, RobDepthAssumption
<1>4. /\ SlotOf(k) \in Slots
      /\ SlotOf(k) = IF robHead + (k - 1) < RobDepth THEN robHead + (k - 1)
                     ELSE robHead + (k - 1) - RobDepth
  <2>1. robHead \in Slots /\ k - 1 \in 0 .. RobDepth - 1
    BY <1>1, <1>3, RobDepthAssumption DEF Slots
  <2> QED
    BY <2>1, SlotAfter DEF SlotOf
<1>5. InWindow(SlotOf(k))
  BY <1>1, <1>2, <1>4, RobDepthAssumption DEF InWindow
<1>6. NextSlot(SlotOf(k)) = IF SlotOf(k) = RobDepth - 1 THEN 0 ELSE SlotOf(k) + 1
  BY <1>4, NextSlotIs
<1>7. NextSlot(SlotOf(k)) = robTail => k = RobLength
  BY <1>1, <1>2, <1>3, <1>4, <1>6, RobDepthAssumption
<1> QED
  BY <1>4, <1>5, <1>7 DEF RobInv, RobWindow

LEMMA RobQueueIsNext == RobInv' => QueueInRing'
  BY RobQueueIs, PTL

LEMMA AllocateEnters ==
    ASSUME RobInv, RobInv', ~RobFull, NEW u \in Uops, Allocate(u)
    PROVE  RobQueue' = Append(RobQueue, u)
<1> DEFINE S == Uops \cup {NoUop}
<1>1. /\ entries' = [entries EXCEPT ![robTail] = FreshEntry(u)]
      /\ robTail' = NextSlot(robTail) /\ robHead' = robHead
      /\ maybeFull' = (maybeFull \/ robTail' = robHead)
  BY DEF Allocate
<1>2. /\ entries \in [Slots -> Entry] /\ robTail \in Slots /\ robHead \in Slots
      /\ maybeFull = FALSE
  BY DEF RobInv, RobTypeOK, RobWindow, RobFull
<1>3. RobLength' = RobLength + 1
  <2>1. robTail' = IF robTail = RobDepth - 1 THEN 0 ELSE robTail + 1
    BY <1>1, <1>2, NextSlotIs
  <2>2. RobLength' = IF maybeFull' THEN RobDepth
                     ELSE IF robHead' <= robTail' THEN robTail' - robHead'
                     ELSE robTail' + RobDepth - robHead'
    BY DEF RobLength
  <2>3. RobLength = IF robHead <= robTail THEN robTail - robHead
                    ELSE robTail + RobDepth - robHead
    BY <1>2 DEF RobLength
  <2>4. maybeFull' <=> robTail' = robHead
    BY <1>1, <1>2
  <2> QED
    <3>1. robHead \in 0 .. RobDepth - 1 /\ robTail \in 0 .. RobDepth - 1
      BY <1>2 DEF Slots
    <3>2. robHead' = robHead
      BY <1>1
    <3> QED
      BY <3>2, <2>1, <2>2, <2>3, <2>4, <3>1, RobDepthAssumption
<1>4. /\ RobQueue \in Seq(S) /\ Len(RobQueue) = RobLength /\ RobLength \in Nat
      /\ u \in S
  BY RobQueueIs DEF QueueInRing
<1>5. /\ Append(RobQueue, u) \in Seq(S)
      /\ Len(Append(RobQueue, u)) = RobLength + 1
      /\ \A k \in 1 .. RobLength : Append(RobQueue, u)[k] = RobQueue[k]
      /\ Append(RobQueue, u)[RobLength + 1] = u
  BY <1>4
<1>6. ASSUME NEW k \in 1 .. RobLength'
      PROVE  RobQueue'[k] = Append(RobQueue, u)[k]
  <2>1. RobQueue'[k] = entries'[SlotOf(k)'].uop
    BY RobQueueIsNext DEF QueueInRing
  <2>2. SlotOf(k)' = SlotOf(k)
    BY <1>1 DEF SlotOf
  <2>3. CASE k = RobLength + 1
    <3>1. SlotOf(k) = robTail
      BY <2>3, TailSlot
    <3>2. entries'[robTail].uop = u
      BY <1>1, <1>2 DEF FreshEntry
    <3> QED
      BY <1>5, <2>1, <2>2, <2>3, <3>1, <3>2
  <2>4. CASE k \in 1 .. RobLength
    <3>1. SlotOf(k) \in Slots /\ RobQueue[k] = entries[SlotOf(k)].uop
      BY <2>4, RobQueueIs DEF QueueInRing
    <3>2. entries'[SlotOf(k)] = entries[SlotOf(k)]
      BY <1>1, <1>2, <2>4, <3>1, TailSlot
    <3> QED
      BY <1>5, <2>1, <2>2, <2>4, <3>1, <3>2
  <2> QED
    BY <1>3, <1>4, <2>3, <2>4
<1>7. RobQueue' \in Seq(S) /\ Len(RobQueue') = RobLength'
  BY RobQueueIsNext DEF QueueInRing
<1> QED
  BY <1>3, <1>5, <1>6, <1>7, SeqEqual

\* The head leaves, on entries es with the uops of the current ones.
LEMMA PopHeadLeaves ==
    ASSUME RobInv, RobInv', ~RobEmpty, NEW es \in [Slots -> Entry], PopHead(es),
           \A i \in Slots : es[i].uop = entries[i].uop
    PROVE  RobQueue # <<>> /\ RobQueue' = Tail(RobQueue)
<1> DEFINE S == Uops \cup {NoUop}
<1>1. /\ entries' = [es EXCEPT ![robHead] = EmptyEntry]
      /\ robHead' = NextSlot(robHead) /\ robTail' = robTail /\ maybeFull' = FALSE
  BY DEF PopHead
<1>2. /\ entries \in [Slots -> Entry] /\ robTail \in Slots /\ robHead \in Slots
      /\ maybeFull \in BOOLEAN /\ (maybeFull => robHead = robTail)
  BY DEF RobInv, RobTypeOK, RobWindow
<1>3. robHead' = IF robHead = RobDepth - 1 THEN 0 ELSE robHead + 1
  BY <1>1, <1>2, NextSlotIs
<1>4. RobLength' = RobLength - 1 /\ RobLength \in 1 .. RobDepth
  <2>1. RobLength' = IF robHead' <= robTail' THEN robTail' - robHead'
                     ELSE robTail' + RobDepth - robHead'
    BY <1>1 DEF RobLength
  <2>2. RobLength = IF maybeFull THEN RobDepth
                    ELSE IF robHead <= robTail THEN robTail - robHead
                    ELSE robTail + RobDepth - robHead
    BY DEF RobLength
  <2>3. ~maybeFull => robHead # robTail
    BY DEF RobEmpty
  <2> QED
    BY <1>1, <1>2, <1>3, <2>1, <2>2, <2>3, RobDepthAssumption DEF Slots
<1>5. RobQueue \in Seq(S) /\ Len(RobQueue) = RobLength
  BY RobQueueIs DEF QueueInRing
<1>6. RobQueue # <<>>
  BY <1>4, <1>5
<1>7. /\ Tail(RobQueue) \in Seq(S)
      /\ Len(Tail(RobQueue)) = RobLength - 1
      /\ \A k \in 1 .. RobLength - 1 : Tail(RobQueue)[k] = RobQueue[k + 1]
  BY <1>5, <1>6, HeadTailProperties
<1>8. ASSUME NEW k \in 1 .. RobLength'
      PROVE  RobQueue'[k] = Tail(RobQueue)[k]
  <2>1. k + 1 \in 1 .. RobLength /\ k \in 0 .. RobDepth - 1 /\ k - 1 \in 0 .. RobDepth - 1
    BY <1>4, RobDepthAssumption
  <2>2. SlotOf(k)' = SlotOf(k + 1) /\ SlotOf(k + 1) # robHead
    <3>1. SlotOf(k + 1) = IF robHead + k < RobDepth THEN robHead + k
                          ELSE robHead + k - RobDepth
      <4>1. k + 1 - 1 = k
        BY <2>1
      <4> QED
        BY <4>1, <2>1, <1>2, SlotAfter DEF SlotOf
    <3>2. SlotOf(k)' = IF robHead' + (k - 1) < RobDepth THEN robHead' + (k - 1)
                       ELSE robHead' + (k - 1) - RobDepth
      <4>1. robHead' \in Slots /\ SlotOf(k)' = (robHead' + (k - 1)) % RobDepth
        BY <1>1, <1>2, NextSlotIs DEF SlotOf
      <4> QED
        BY <4>1, <2>1, SlotAfter
    <3> QED
      BY <1>2, <1>3, <1>4, <2>1, <3>1, <3>2, RobDepthAssumption DEF Slots
  <2>3. RobQueue'[k] = entries'[SlotOf(k + 1)].uop
    BY <2>2, RobQueueIsNext DEF QueueInRing
  <2>4. /\ RobQueue[k + 1] = entries[SlotOf(k + 1)].uop
        /\ SlotOf(k + 1) \in Slots
    BY <2>1, RobQueueIs DEF QueueInRing
  <2>5. entries'[SlotOf(k + 1)].uop = entries[SlotOf(k + 1)].uop
    BY <1>1, <1>2, <2>2, <2>4
  <2> QED
    BY <1>4, <1>7, <2>3, <2>4, <2>5
<1>9. RobQueue' \in Seq(S) /\ Len(RobQueue') = RobLength'
  BY RobQueueIsNext DEF QueueInRing
<1> QED
  BY <1>4, <1>6, <1>7, <1>8, <1>9, SeqEqual

\* A step that keeps the indices and the uops of the entries keeps the queue.
LEMMA SameUopsStutter ==
    ASSUME RobInv, RobInv', UNCHANGED <<robHead, robTail, maybeFull>>,
           \A i \in Slots : entries'[i].uop = entries[i].uop
    PROVE  RobQueue' = RobQueue
<1>1. RobLength' = RobLength
  BY DEF RobLength
<1>2. ASSUME NEW k \in 1 .. RobLength
      PROVE  RobQueue'[k] = RobQueue[k]
  <2>1. SlotOf(k)' = SlotOf(k)
    BY DEF SlotOf
  <2> QED
    BY <1>1, <2>1, RobQueueIs, RobQueueIsNext DEF QueueInRing
<1> QED
  BY <1>1, <1>2, RobQueueIs, RobQueueIsNext, SeqEqual DEF QueueInRing

LEMMA RobStepIsWindowStep ==
    RobInv /\ RobInv' /\ [RobNext]_robVars => [Window!Next]_RobQueue
<1> SUFFICES ASSUME RobInv, RobInv', [RobNext]_robVars
             PROVE  Window!Next \/ RobQueue' = RobQueue
  OBVIOUS
<1>1. ASSUME NEW u \in Uops, Allocate(u)
      PROVE  Window!Next \/ RobQueue' = RobQueue
  <2>1. CASE RobFull
    BY <1>1, <2>1, SameUopsStutter DEF Allocate
  <2>2. CASE ~RobFull
    <3>1. RobQueue' = Append(RobQueue, u)
      BY <1>1, <2>2, AllocateEnters
    <3>2. Len(RobQueue) < RobDepth
      BY <2>2, TailSlot, RobQueueIs DEF QueueInRing
    <3> QED
      BY <3>1, <3>2 DEF Window!Next, Window!Enter
  <2> QED
    BY <2>1, <2>2
<1>2. ASSUME NEW i \in Slots, NEW exc \in BOOLEAN, Complete(i, exc)
      PROVE  RobQueue' = RobQueue
  <2>1. \A j \in Slots : entries'[j].uop = entries[j].uop
    BY <1>2, MarkDoneKeeps DEF Complete, RobInv, RobTypeOK
  <2> QED
    BY <1>2, <2>1, SameUopsStutter DEF Complete
<1>3. ASSUME NEW i \in Slots, NEW m \in MemInfos, NEW done \in BOOLEAN,
             NEW exc \in BOOLEAN, LsuUpdate(i, m, done, exc)
      PROVE  RobQueue' = RobQueue
  <2>1. \A j \in Slots : entries'[j].uop = entries[j].uop
    BY <1>3 DEF LsuUpdate, Entry, RobInv, RobTypeOK
  <2> QED
    BY <1>3, <2>1, SameUopsStutter DEF LsuUpdate
<1>4. CASE Retire
  <2>1. RobQueue # <<>> /\ RobQueue' = Tail(RobQueue)
    BY <1>4, PopHeadLeaves DEF Retire, HeadReady, RobInv, RobTypeOK
  <2> QED
    BY <2>1 DEF Window!Next, Window!LeaveOldest
<1>5. CASE Trap
  BY <1>5, SameUopsStutter DEF Trap
<1>6. CASE SquashAll
  <2>1. RobLength' = 0
    BY <1>6 DEF SquashAll, RobLength
  <2>2. RobQueue' = <<>>
    BY <2>1, RobQueueIsNext DEF QueueInRing
  <2> QED
    BY <2>2 DEF Window!Next, Window!Squash
<1>7. CASE UNCHANGED robVars
  BY <1>7, SameUopsStutter DEF robVars
<1> QED
  BY <1>1, <1>2, <1>3, <1>4, <1>5, <1>6, <1>7 DEF RobNext

\* The ring implements the bounded in-order queue: every step of rob_allocate,
\* rob_commit_module and lsu_module on the ring is a uop that enters at the back, the
\* oldest that leaves, a squash, or nothing at all.
THEOREM RobImplementsWindow == RobSpec => RobIsInOrder
<1>1. RobInit => Window!Init
  <2> SUFFICES ASSUME RobInit PROVE RobQueue = <<>>
    BY DEF Window!Init
  <2>1. RobLength = 0
    BY DEF RobInit, RobLength
  <2> QED
    BY <2>1, RobInvInit, RobQueueIs DEF QueueInRing
<1>2. RobSpec => []RobInv
  BY RobInvInit, RobInvStep, PTL DEF RobSpec
<1>3. RobInv /\ RobInv' /\ [RobNext]_robVars => [Window!Next]_RobQueue
  BY RobStepIsWindowStep
<1> QED
  BY <1>1, <1>2, <1>3, PTL DEF RobSpec, RobIsInOrder, Window!Spec

=============================================================================
