------------------------------- MODULE Rename -------------------------------
(***************************************************************************)
(* Register renaming (rename.cpp) and the part of rob_commit_module that   *)
(* commits a mapping and gives a register back (boom_core_step.cpp).       *)
(*                                                                         *)
(* The free list is a ring with a head, a tail and a count of its own.     *)
(* busy_table is written and never read, and prs1_busy and prs2_busy are   *)
(* always false: neither is kept.                                          *)
(***************************************************************************)
EXTENDS BoomTypes

VARIABLES mapTable,         \* int_map_table.map_table
          committedMap,     \* int_map_table.committed_map_table
          freeList,         \* int_free_list.free_list
          freeHead,         \* int_free_list.head
          freeTail,         \* int_free_list.tail
          freeCount,        \* int_free_list.count
          renamedUop        \* ren.renamed_uops[0] when it is valid, else NoUop

freeListVars == <<freeList, freeHead, freeTail, freeCount>>
renameVars == <<mapTable, committedMap, freeListVars, renamedUop>>

\* The constructors of boom_state.hpp: physical register 0 is x0's, and the tail
\* starts on the last register of the list.
RenameInit ==
    /\ mapTable = [r \in Reg |-> 0]
    /\ committedMap = [r \in Reg |-> 0]
    /\ freeList = [i \in Preg |-> i]
    /\ freeHead = 1
    /\ freeTail = IntPhysRegs - 1
    /\ freeCount = IntPhysRegs - 1
    /\ renamedUop = NoUop

-----------------------------------------------------------------------------

\* Mutant of CurrentMap: a redirect keeps the speculative mapping.
CurrentMapKept(redirect) == IF redirect THEN mapTable ELSE mapTable

\* rename_module's mapping for this call: a redirect starts from the committed one.
CurrentMap(redirect) == IF redirect THEN committedMap ELSE mapTable

WantsReg(u) == HasIntDst(u.inst) /\ u.ldst # 0

\* The uop with its sources looked up, p as its destination and l as its rd.
Renamed(u, map, p, l) ==
    [u EXCEPT !.prs1 = map[u.inst.rs1], !.prs2 = map[u.inst.rs2],
              !.stale = map[u.ldst], !.pdst = p, !.ldst = l]

\* No uop from decode.
RenameNothing(redirect) ==
    /\ mapTable' = CurrentMap(redirect)
    /\ renamedUop' = NoUop
    /\ UNCHANGED <<committedMap, freeListVars>>

\* Mutant of RenameTakes: the count of free registers is not looked at.
RenameTakesBlindly(u, redirect) ==
    LET map == CurrentMap(redirect)
        p == freeList[freeHead]
    IN  /\ WantsReg(u)
        /\ freeHead' = (freeHead + 1) % IntPhysRegs
        /\ freeCount' = freeCount - 1
        /\ mapTable' = [map EXCEPT ![u.ldst] = p]
        /\ renamedUop' = Renamed(u, map, p, u.ldst)
        /\ UNCHANGED <<committedMap, freeList, freeTail>>

\* A destination and a free register: the register leaves the list.
RenameTakes(u, redirect) ==
    LET map == CurrentMap(redirect)
        p == freeList[freeHead]
    IN  /\ WantsReg(u)
        /\ freeCount > 0
        /\ freeHead' = (freeHead + 1) % IntPhysRegs
        /\ freeCount' = freeCount - 1
        /\ mapTable' = [map EXCEPT ![u.ldst] = p]
        /\ renamedUop' = Renamed(u, map, p, u.ldst)
        /\ UNCHANGED <<committedMap, freeList, freeTail>>

\* A destination and no free register: the uop goes on without one.
RenameStarves(u, redirect) ==
    LET map == CurrentMap(redirect)
    IN  /\ WantsReg(u)
        /\ freeCount = 0
        /\ mapTable' = map
        /\ renamedUop' = Renamed(u, map, 0, u.ldst)
        /\ UNCHANGED <<committedMap, freeListVars>>

\* No destination, or x0.
RenameWithoutDst(u, redirect) ==
    LET map == CurrentMap(redirect)
    IN  /\ ~WantsReg(u)
        /\ mapTable' = map
        /\ renamedUop' = Renamed(u, map, 0, 0)
        /\ UNCHANGED <<committedMap, freeListVars>>

RenameUop(u, redirect) ==
    \/ RenameTakes(u, redirect)
    \/ RenameStarves(u, redirect)
    \/ RenameWithoutDst(u, redirect)

-----------------------------------------------------------------------------

\* A register comes back at the tail, unless the count says the list is full.
Release(p) ==
    IF freeCount < IntPhysRegs
    THEN /\ freeList' = [freeList EXCEPT ![freeTail] = p]
         /\ freeTail' = (freeTail + 1) % IntPhysRegs
         /\ freeCount' = freeCount + 1
         /\ UNCHANGED freeHead
    ELSE UNCHANGED freeListVars

\* Mutant of CommitMapping: the new register is given back, not the old one.
CommitMappingFreesNew(u) ==
    IF u.pdst # 0
    THEN /\ committedMap' = [committedMap EXCEPT ![u.ldst] = u.pdst]
         /\ IF u.stale # 0 THEN Release(u.pdst) ELSE UNCHANGED freeListVars
    ELSE UNCHANGED <<committedMap, freeListVars>>

\* The register maps' part of the commit of u.
CommitMapping(u) ==
    IF u.pdst # 0
    THEN /\ committedMap' = [committedMap EXCEPT ![u.ldst] = u.pdst]
         /\ IF u.stale # 0 THEN Release(u.stale) ELSE UNCHANGED freeListVars
    ELSE UNCHANGED <<committedMap, freeListVars>>

-----------------------------------------------------------------------------
(* Properties.                                                             *)

RenameTypeOK ==
    /\ mapTable \in [Reg -> Preg]
    /\ committedMap \in [Reg -> Preg]
    /\ freeList \in [Preg -> Preg]
    /\ freeHead \in Preg
    /\ freeTail \in Preg
    /\ freeCount \in 0 .. IntPhysRegs
    /\ renamedUop \in MicroOp \cup {NoUop}

=============================================================================
