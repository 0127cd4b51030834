--------------------------- MODULE MC_AsrSession ---------------------------
(***************************************************************************)
(* Recordings for the runs of AsrSession: where its chunks begin.          *)
(***************************************************************************)
EXTENDS AsrSession

\* Every chunk is one unit.
EvenChunks == [n \in 0 .. LastSeq + 1 |-> n]

\* Chunks of 1, 2, 0 and 1 units.
MixedChunks == [n \in 0 .. 4 |-> <<0, 1, 3, 3, 4>>[n + 1]]

\* Eleven units in chunks of 1, 3, 0, 2, 3 and 2 units: windows of two units end
\* inside a chunk, at its end and at an empty one.
StraddlingChunks == [n \in 0 .. 6 |-> <<0, 1, 4, 4, 6, 9, 11>>[n + 1]]

=============================================================================
