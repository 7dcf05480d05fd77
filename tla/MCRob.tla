------------------------------- MODULE MCRob -------------------------------
(* A small ring: two uops, one of which faults at decode.                  *)
EXTENDS Rob

MCUops == {[id |-> 1, exception |-> FALSE], [id |-> 2, exception |-> TRUE]}
MCNoUop == [id |-> 0, exception |-> FALSE]
MCMemInfos == {"none", "sent"}

=============================================================================
