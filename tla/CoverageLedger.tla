--------------------------- MODULE CoverageLedger ---------------------------
(***************************************************************************)
(* One CoverageLedger object, driven the way apply_events and the stop     *)
(* handler of ws_transcribe drive it: silence and speech windows as they   *)
(* leave the gate, then an accepted or a rejected segment.  fate is a      *)
(* history variable: what became of every unit the ledger has counted.     *)
(***************************************************************************)
EXTENDS Integers, Sequences, LedgerOps

CONSTANTS
  Lengths,      \* lengths of the windows the gate can emit
  MaxConsumed   \* bound: units received in one behaviour

ASSUME LengthsAssumption == Lengths \subseteq Nat \ {0}
ASSUME BoundAssumption == MaxConsumed \in Nat

VARIABLES ledger, fate

vars == <<ledger, fate>>

Exact == INSTANCE ExactCoverage WITH claim <- ledger.covered

Init ==
  /\ ledger = NewLedger
  /\ fate = << >>

HasRoom(n) == ledger.consumed + n <= MaxConsumed

Silence(n) ==
  /\ HasRoom(n)
  /\ ledger' = NoteSilence(ledger, n)
  /\ fate' = Exact!Grown(fate, n, "silence")

\* A speech window with no attack buffer held before it.
Speech(n) ==
  /\ HasRoom(n)
  /\ ledger' = NoteSpeech(ledger, n, FALSE)
  /\ fate' = Exact!Grown(fate, n, "open")

\* A speech window right after silence: the held window is replayed first.
Onset(n) ==
  /\ HasRoom(n)
  /\ ledger.attack_start # Unset
  /\ ledger' = NoteSpeech(NoteSpeech(ledger, n, TRUE), n, FALSE)
  /\ fate' = Exact!Grown(fate, n, "open")

\* pending_audio is not empty exactly while a segment is open, and both
\* callers decide a segment only when there is pending audio.
Commit ==
  /\ SegmentOpen(ledger)
  /\ ledger' = CommitSegment(ledger)
  /\ fate' = Exact!Decided(fate, "kept")

Discard ==
  /\ SegmentOpen(ledger)
  /\ ledger' = DiscardSegment(ledger)
  /\ fate' = Exact!Decided(fate, "dropped")

Next ==
  \/ \E n \in Lengths : Silence(n) \/ Speech(n) \/ Onset(n)
  \/ Commit
  \/ Discard

Spec == Init /\ [][Next]_vars

-----------------------------------------------------------------------------
(***************************************************************************)
(* Properties.                                                             *)
(***************************************************************************)

\* Type invariant: the ledger is well formed and has counted every unit once,
\* the replayed attack buffer included.
TypeOK ==
  /\ ledger \in Ledger
  /\ fate \in Seq(Exact!Fate)
  /\ Len(fate) = ledger.consumed
  /\ ledger.covered <= ledger.consumed

\* The claim is honest: below covered there is only silence and speech that was
\* kept for the decoder, whatever was accepted or rejected in between.
ClaimIsHonest ==
  \A i \in 1 .. ledger.covered : fate[i] \in Exact!Settled

\* The claim is not timid: it stops only at speech that is undecided or lost.
ClaimIsTight ==
  ledger.covered < ledger.consumed =>
    fate[ledger.covered + 1] \notin Exact!Settled

\* "the frontier FREEZES at that point, forever": no later accepted segment or
\* silence moves a claim that a discard has frozen, and none thaws it.
FrozenForever ==
  [][ledger.frozen => /\ ledger'.frozen
                      /\ ledger'.covered = ledger.covered]_vars

\* The flags and the two offsets implement the exact claim of the abstract
\* specification, which remembers the fate of every unit.
ImplementsExactCoverage == Exact!Spec

\* The inductive strengthening the proofs need: how the flags relate to fate.
LedgerInv ==
  /\ TypeOK
  /\ ClaimIsHonest
  /\ ~SegmentOpen(ledger) => \A i \in 1 .. Len(fate) : fate[i] # "open"
  /\ ~ledger.frozen => \A i \in 1 .. Len(fate) : fate[i] # "dropped"
  /\ ~SegmentOpen(ledger) /\ ~ledger.frozen => ledger.covered = ledger.consumed
  /\ SegmentOpen(ledger) => \E i \in 1 .. Len(fate) : fate[i] = "open"
  /\ SegmentOpen(ledger) /\ ~ledger.frozen =>
       /\ ledger.covered < ledger.consumed
       /\ fate[ledger.covered + 1] = "open"
  /\ ledger.frozen =>
       /\ ledger.covered < ledger.consumed
       /\ fate[ledger.covered + 1] = "dropped"

=============================================================================
