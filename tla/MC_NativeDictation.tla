------------------------- MODULE MC_NativeDictation -------------------------
(***************************************************************************)
(* An instance of NativeDictation: the sockets are interchangeable.        *)
(***************************************************************************)
EXTENDS NativeDictation

Symmetry == Permutations(Conns)

=============================================================================
