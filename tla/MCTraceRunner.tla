--------------------------- MODULE MCTraceRunner ---------------------------
(***************************************************************************)
(* A memory of two doublewords of two bytes, with tohost in the second.    *)
(***************************************************************************)
EXTENDS TraceRunner

\* The lowest lane counts least.
MCNumber(w) == w[0] + ByteValues * w[1]

MCWord(low, high) == [l \in Lane |-> IF l = 0 THEN low ELSE high]

\* Success, and a failure whose exit code is cut to zero.
MCValues == {MCWord(1, 0), MCWord(0, 2)}

\* Tohost, at 2, is reached forwards from 0 and 1 and backwards from 8; the other
\* doubleword at its own address.
MCOffsets == {0, 1, 2, -6}

\* The file: a line of two bytes and a line of one.
MCHexLines == << <<0, 3>>, <<0>> >>

B(addr, id, size, beats) == [addr |-> addr, id |-> id, size |-> size, beats |-> beats]

\* The whole memory word by word, and the bytes of tohost one by one.
MCReadBursts == {B(0, 1, 2, 2)}
MCWriteBursts == {B(0, 0, 2, 2), B(2, 1, 1, 2)}

=============================================================================
