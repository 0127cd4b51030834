------------------------------ MODULE LedgerOps ------------------------------
(***************************************************************************)
(* class CoverageLedger (server.py): the bookkeeping that decides how much *)
(* of the received audio a transcript may claim to include.  One operator  *)
(* per method that is called (note_undecided, which would count audio that *)
(* never reached the gate, has no caller); a ledger is a record whose      *)
(* fields have the names of the attributes, and lengths are counted in     *)
(* audio units.                                                            *)
(***************************************************************************)
EXTENDS Integers

\* segment_start and attack_start are None in the code when unset.
Unset == -1

Offset == Nat \union {Unset}

Ledger == [consumed: Nat, covered: Nat, segment_start: Offset,
           attack_start: Offset, frozen: BOOLEAN]

NewLedger == [consumed |-> 0, covered |-> 0, segment_start |-> Unset,
              attack_start |-> Unset, frozen |-> FALSE]

SegmentOpen(l) == l.segment_start # Unset

\* Mutant: silence covers only up to where it began.
NoteSilenceFromStart(l, n) ==
  [l EXCEPT !.attack_start = l.consumed,
            !.consumed = l.consumed + n,
            !.covered = IF ~SegmentOpen(l) /\ ~l.frozen
                        THEN l.attack_start ELSE l.covered]

NoteSilence(l, n) ==
  [l EXCEPT !.attack_start = l.consumed,
            !.consumed = l.consumed + n,
            !.covered = IF ~SegmentOpen(l) /\ ~l.frozen
                        THEN l.consumed + n ELSE l.covered]

\* Mutant: the replayed attack buffer is counted a second time.
NoteSpeechTwice(l, n, replayed) ==
  [l EXCEPT !.segment_start = IF SegmentOpen(l) THEN l.segment_start
                              ELSE IF replayed THEN l.attack_start
                              ELSE l.consumed,
            !.consumed = l.consumed + n]

\* replayed: the audio is the attack buffer, a silent window that NoteSilence
\* has already counted and that now opens the segment.
NoteSpeech(l, n, replayed) ==
  [l EXCEPT !.segment_start = IF SegmentOpen(l) THEN l.segment_start
                              ELSE IF replayed THEN l.attack_start
                              ELSE l.consumed,
            !.consumed = IF replayed THEN l.consumed ELSE l.consumed + n]

\* Mutant: a commit covers past an earlier discard.
CommitThaws(l) ==
  [l EXCEPT !.segment_start = Unset, !.covered = l.consumed]

\* Mutant: a commit leaves the claim where the segment began.
CommitForgetsClaim(l) == [l EXCEPT !.segment_start = Unset]

CommitSegment(l) ==
  [l EXCEPT !.segment_start = Unset,
            !.covered = IF l.frozen THEN l.covered ELSE l.consumed]

\* Mutant: a discard that freezes nothing.
DiscardForgets(l) == [l EXCEPT !.segment_start = Unset]

\* Mutant: a discard that leaves its segment open.
DiscardLeavesOpen(l) == [l EXCEPT !.frozen = TRUE]

DiscardSegment(l) ==
  [l EXCEPT !.segment_start = Unset, !.frozen = TRUE]

=============================================================================
