--------------------------- MODULE InOrderWindow ---------------------------
(***************************************************************************)
(* What the reorder buffer promises: a bounded queue of micro-ops in       *)
(* program order.  Uops enter at the back, only the oldest one leaves, and *)
(* a misprediction empties the queue.  Which slot of a ring holds a uop,   *)
(* and how a full ring is told from an empty one, is not visible here.     *)
(***************************************************************************)
EXTENDS Naturals, Sequences

CONSTANTS Depth,        \* the most uops in flight
          Uops

VARIABLE window         \* the uops in flight, the oldest first

Init == window = <<>>

Enter(u) ==
    /\ Len(window) < Depth
    /\ window' = Append(window, u)

LeaveOldest ==
    /\ window # <<>>
    /\ window' = Tail(window)

Squash == window' = <<>>

Next ==
    \/ \E u \in Uops : Enter(u)
    \/ LeaveOldest
    \/ Squash

Spec == Init /\ [][Next]_window

=============================================================================
