----------------------------- MODULE MCFrontend -----------------------------
(* The front end on its own with one program, whose words all differ.      *)
EXTENDS Frontend

MCPrograms == {[a \in Word |-> [IllegalWord EXCEPT !.imm = a]]}

=============================================================================
