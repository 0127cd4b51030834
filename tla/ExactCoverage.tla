---------------------------- MODULE ExactCoverage ----------------------------
(***************************************************************************)
(* What recognizedThroughSeq promises, said without the ledger's flags.    *)
(* Every unit of received audio has a fate, and at every moment the claim  *)
(* is exactly the longest prefix of the stream that has no undecided and   *)
(* no discarded speech in it: never more, which would be a truncated       *)
(* transcript with a proof of completeness, and never less, which would    *)
(* send a healthy dictation to a full upload again.                        *)
(***************************************************************************)
EXTENDS Integers, Sequences

CONSTANTS
  Lengths,      \* how many units one classified window may have
  MaxConsumed   \* bound: units received in one behaviour

VARIABLES
  fate,         \* fate[i] is the fate of the i-th unit received
  claim         \* how many units, from the first, the transcript claims

Fate == {"silence", "open", "kept", "dropped"}
Settled == {"silence", "kept"}

IsCleanPrefix(f, k) ==
  /\ k \in 0 .. Len(f)
  /\ \A i \in 1 .. k : f[i] \in Settled
  /\ k < Len(f) => f[k + 1] \notin Settled

Grown(f, n, what) == [i \in 1 .. Len(f) + n |-> IF i <= Len(f) THEN f[i] ELSE what]

Decided(f, what) == [i \in 1 .. Len(f) |-> IF f[i] = "open" THEN what ELSE f[i]]

Init ==
  /\ fate = << >>
  /\ claim = 0

\* A window is classified: nothing to decode, or speech whose fate is open.
Hear(n, what) ==
  /\ Len(fate) + n <= MaxConsumed
  /\ fate' = Grown(fate, n, what)

\* All open speech is kept for the decoder, or all of it is dropped.
Decide(what) ==
  /\ \E i \in 1 .. Len(fate) : fate[i] = "open"
  /\ fate' = Decided(fate, what)

Next ==
  /\ \/ \E n \in Lengths, what \in {"silence", "open"} : Hear(n, what)
     \/ \E what \in {"kept", "dropped"} : Decide(what)
  /\ IsCleanPrefix(fate', claim')

Spec == Init /\ [][Next]_<<fate, claim>>

=============================================================================
