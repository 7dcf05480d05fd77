-------------------------------- MODULE Rob --------------------------------
(***************************************************************************)
(* The reorder buffer: the ring rob.entries[ROB_DEPTH] with its head, its  *)
(* tail and the bit that tells a full ring from an empty one.  The         *)
(* operators below are the pieces of rob_allocate, rob_commit_module and   *)
(* lsu_module that touch the ring; BoomCore composes them with the rest of *)
(* the cycle.  RobSpec lets them happen in any order their own guards      *)
(* allow, which is what the ring must survive on its own.                  *)
(*                                                                         *)
(* No code reads the contents of an entry that is not valid, so an invalid *)
(* entry is always EmptyEntry.                                             *)
(***************************************************************************)
EXTENDS Integers, Sequences

CONSTANTS RobDepth,     \* ROB_DEPTH, 32 in boom_config.hpp
          Uops,         \* the micro-ops: records with a field "exception"
          MemInfos,     \* what the LSU keeps in an entry: memory_valid, ...
          NoUop,        \* the uop of an empty entry
          NoMem         \* the memory part of RobEntry()

ASSUME RobDepthAssumption == RobDepth \in Nat \ {0}
ASSUME UopsAssumption == \A u \in Uops : u.exception \in BOOLEAN
ASSUME NoMemAssumption == NoMem \in MemInfos

VARIABLES entries,      \* rob.entries
          robHead,      \* rob.head
          robTail,      \* rob.tail
          maybeFull,    \* rob.maybe_full
          robState      \* rob.state

robVars == <<entries, robHead, robTail, maybeFull, robState>>

Slots == 0 .. RobDepth - 1

RobStates == {"INIT", "NORMAL", "EXCEPTION"}

Entry == [valid : BOOLEAN, busy : BOOLEAN, exception : BOOLEAN,
          uop : Uops \cup {NoUop}, mem : MemInfos]

EmptyEntry == [valid |-> FALSE, busy |-> FALSE, exception |-> FALSE,
               uop |-> NoUop, mem |-> NoMem]

FreshEntry(u) == [valid |-> TRUE, busy |-> TRUE, exception |-> u.exception,
                  uop |-> u, mem |-> NoMem]

\* Mutant of NextSlot: the wrap is one slot late.
NextSlotLateWrap(i) == (i + 1) % (RobDepth + 1)

NextSlot(i) == (i + 1) % RobDepth

RobFull  == robHead = robTail /\ maybeFull
RobEmpty == robHead = robTail /\ ~maybeFull

RobInit ==
    /\ entries = [i \in Slots |-> EmptyEntry]
    /\ robHead = 0
    /\ robTail = 0
    /\ maybeFull = FALSE
    /\ robState = "INIT"

-----------------------------------------------------------------------------

\* ROB_INIT becomes ROB_NORMAL on every call of rob_allocate.
WakeRob == robState' = IF robState = "INIT" THEN "NORMAL" ELSE robState

\* rob_allocate with a valid uop: it enters at the tail, or, when the ring is
\* full, it is not allocated.
Allocate(u) ==
    /\ WakeRob
    /\ \/ /\ RobFull
          /\ UNCHANGED <<entries, robHead, robTail, maybeFull>>
       \/ /\ ~RobFull
          /\ entries' = [entries EXCEPT ![robTail] = FreshEntry(u)]
          /\ robTail' = NextSlot(robTail)
          /\ maybeFull' = (maybeFull \/ robTail' = robHead)
          /\ UNCHANGED robHead

\* A mispredict drops every entry and restarts the ring at slot 0.
SquashAll ==
    /\ entries' = [i \in Slots |-> EmptyEntry]
    /\ robHead' = 0
    /\ robTail' = 0
    /\ maybeFull' = FALSE
    /\ robState' = "NORMAL"

\* Mutant of PopHead: maybe_full is left set.
PopHeadStillFull(es) ==
    /\ entries' = [es EXCEPT ![robHead] = EmptyEntry]
    /\ robHead' = NextSlot(robHead)
    /\ UNCHANGED <<robTail, maybeFull>>

\* Mutant of PopHead: the entry before the tail leaves instead of the head.
PopYoungest(es) ==
    /\ entries' = [es EXCEPT ![(robTail + RobDepth - 1) % RobDepth] = EmptyEntry]
    /\ robTail' = (robTail + RobDepth - 1) % RobDepth
    /\ maybeFull' = FALSE
    /\ UNCHANGED robHead

\* Head pop, on the entries "es" that the rest of the call has already updated.
PopHead(es) ==
    /\ entries' = [es EXCEPT ![robHead] = EmptyEntry]
    /\ robHead' = NextSlot(robHead)
    /\ maybeFull' = FALSE
    /\ UNCHANGED robTail

\* A result marks its entry done; a result whose entry is gone changes nothing.
MarkDone(es, i, exc) ==
    IF es[i].valid
    THEN [es EXCEPT ![i].busy = FALSE, ![i].exception = @ \/ exc]
    ELSE es

HeadReady(es) == ~RobEmpty /\ es[robHead].valid /\ ~es[robHead].busy

-----------------------------------------------------------------------------
(* The ring on its own.                                                    *)

Complete(i, exc) ==
    /\ entries' = MarkDone(entries, i, exc)
    /\ UNCHANGED <<robHead, robTail, maybeFull, robState>>

\* What lsu_module does to a valid entry: new memory fields, perhaps completion.
LsuUpdate(i, m, done, exc) ==
    /\ entries[i].valid
    /\ entries' = [entries EXCEPT ![i].mem = m,
                                  ![i].busy = @ /\ ~done,
                                  ![i].exception = @ \/ exc]
    /\ UNCHANGED <<robHead, robTail, maybeFull, robState>>

Retire ==
    /\ HeadReady(entries)
    /\ PopHead(entries)
    /\ UNCHANGED robState

Trap ==
    /\ HeadReady(entries)
    /\ entries[robHead].exception
    /\ robState' = "EXCEPTION"
    /\ UNCHANGED <<entries, robHead, robTail, maybeFull>>

RobNext ==
    \/ \E u \in Uops : Allocate(u)
    \/ \E i \in Slots, exc \in BOOLEAN : Complete(i, exc)
    \/ \E i \in Slots, m \in MemInfos, done, exc \in BOOLEAN :
          LsuUpdate(i, m, done, exc)
    \/ Retire
    \/ Trap
    \/ SquashAll

RobSpec == RobInit /\ [][RobNext]_robVars

-----------------------------------------------------------------------------
(* Properties.                                                             *)

\* Every component of the ring has its type.
RobTypeOK ==
    /\ entries \in [Slots -> Entry]
    /\ robHead \in Slots
    /\ robTail \in Slots
    /\ maybeFull \in BOOLEAN
    /\ robState \in RobStates

\* The slots from head up to tail, around the end of the array.
InWindow(i) ==
    \/ maybeFull
    \/ robHead <= i /\ i < robTail
    \/ robTail < robHead /\ (robHead <= i \/ i < robTail)

\* The valid entries are exactly those from head to tail: none is lost between
\* them, none survives outside, and maybe_full is only set when the indices meet.
\* rob_commit_module relies on it to find the oldest uop at rob.head, the LSU to
\* find every older store between rob.head and a load.
RobWindow ==
    /\ maybeFull => robHead = robTail
    /\ \A i \in Slots : entries[i].valid <=> InWindow(i)

RobLength ==
    IF maybeFull THEN RobDepth
    ELSE IF robHead <= robTail THEN robTail - robHead
    ELSE robTail + RobDepth - robHead

\* The uops of the window, the oldest first.
RobQueue == [k \in 1 .. RobLength |-> entries[(robHead + (k - 1)) % RobDepth].uop]

Window == INSTANCE InOrderWindow WITH Depth <- RobDepth, window <- RobQueue

\* The ring implements the bounded in-order queue: uops leave in the order they
\* were allocated, each once, unless a misprediction drops them all.
RobIsInOrder == Window!Spec

=============================================================================
