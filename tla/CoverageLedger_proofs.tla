------------------------ MODULE CoverageLedger_proofs ------------------------
(***************************************************************************)
(* Proofs about one CoverageLedger, for windows of every length and        *)
(* streams of every length: the ledger claims exactly what the abstract    *)
(* specification ExactCoverage lets it claim, and a freeze is forever.     *)
(*                                                                         *)
(* The properties are not inductive: that a commit may claim everything    *)
(* rests on there being no dropped speech while frozen is FALSE, and that  *)
(* silence may be claimed on there being no open speech between segments.  *)
(* LedgerInv adds these facts about the flags.                             *)
(***************************************************************************)
EXTENDS CoverageLedger, TLAPS

\* Appending n units of one fate to a stream leaves the old units alone.
LEMMA GrownStream ==
  ASSUME NEW f \in Seq(Exact!Fate), NEW n \in Nat, NEW what \in Exact!Fate
  PROVE  /\ Exact!Grown(f, n, what) \in Seq(Exact!Fate)
         /\ Len(Exact!Grown(f, n, what)) = Len(f) + n
         /\ \A i \in 1 .. Len(f) : Exact!Grown(f, n, what)[i] = f[i]
         /\ \A i \in Len(f) + 1 .. Len(f) + n : Exact!Grown(f, n, what)[i] = what
  BY DEF Exact!Grown

\* Deciding the open units changes no other unit, and leaves none open.
LEMMA DecidedStream ==
  ASSUME NEW f \in Seq(Exact!Fate), NEW what \in {"kept", "dropped"}
  PROVE  /\ Exact!Decided(f, what) \in Seq(Exact!Fate)
         /\ Len(Exact!Decided(f, what)) = Len(f)
         /\ \A i \in 1 .. Len(f) :
              Exact!Decided(f, what)[i] = IF f[i] = "open" THEN what ELSE f[i]
  BY DEF Exact!Decided, Exact!Fate

-----------------------------------------------------------------------------
\* What a method of the ledger does to its fields.
LEMMA NoteSilenceFacts ==
  ASSUME NEW l \in Ledger, NEW n \in Nat
  PROVE  /\ NoteSilence(l, n) \in Ledger
         /\ NoteSilence(l, n).consumed = l.consumed + n
         /\ NoteSilence(l, n).frozen = l.frozen
         /\ NoteSilence(l, n).segment_start = l.segment_start
         /\ NoteSilence(l, n).covered =
              IF ~SegmentOpen(l) /\ ~l.frozen THEN l.consumed + n ELSE l.covered
<1>1. NoteSilence(l, n) \in Ledger
  <2>. DEFINE claim == IF ~SegmentOpen(l) /\ ~l.frozen THEN l.consumed + n
                       ELSE l.covered
  <2>1. claim \in Nat /\ l.consumed + n \in Nat /\ l.consumed \in Offset
    BY DEF Ledger, Offset
  <2>2. NoteSilence(l, n) = [l EXCEPT !.attack_start = l.consumed,
                                      !.consumed = l.consumed + n,
                                      !.covered = claim]
    BY DEF NoteSilence
  <2>. HIDE DEF claim
  <2>. QED BY <2>1, <2>2 DEF Ledger
<1>. QED
  BY <1>1 DEF NoteSilence, Ledger

LEMMA NoteSpeechFacts ==
  ASSUME NEW l \in Ledger, NEW n \in Nat, NEW replayed \in BOOLEAN,
         replayed => l.attack_start # Unset
  PROVE  /\ NoteSpeech(l, n, replayed) \in Ledger
         /\ NoteSpeech(l, n, replayed).consumed =
              IF replayed THEN l.consumed ELSE l.consumed + n
         /\ NoteSpeech(l, n, replayed).covered = l.covered
         /\ NoteSpeech(l, n, replayed).frozen = l.frozen
         /\ NoteSpeech(l, n, replayed).segment_start # Unset
<1>. DEFINE start == IF SegmentOpen(l) THEN l.segment_start
                     ELSE IF replayed THEN l.attack_start ELSE l.consumed
            count == IF replayed THEN l.consumed ELSE l.consumed + n
<1>1. NoteSpeech(l, n, replayed) = [l EXCEPT !.segment_start = start,
                                             !.consumed = count]
  BY DEF NoteSpeech
<1>2. start \in Offset /\ start # Unset /\ count \in Nat
  BY DEF Ledger, Offset, Unset, SegmentOpen
<1>. HIDE DEF start
<1>3. NoteSpeech(l, n, replayed).consumed = count
  BY <1>1 DEF Ledger
<1>4. NoteSpeech(l, n, replayed) \in Ledger
  <2>. HIDE DEF count
  <2>. QED BY <1>1, <1>2 DEF Ledger
<1>. QED
  BY <1>1, <1>2, <1>3, <1>4 DEF Ledger

-----------------------------------------------------------------------------
LEMMA InitInv == Init => LedgerInv
  BY DEF Init, LedgerInv, TypeOK, ClaimIsHonest, NewLedger, Ledger, Offset,
         SegmentOpen, Unset, Exact!Fate, Exact!Settled

LEMMA SilenceInv ==
  ASSUME LedgerInv, NEW n \in Nat \ {0}, Silence(n)
  PROVE  LedgerInv'
<1>. DEFINE f == Exact!Grown(fate, n, "silence")
<1>1. /\ ledger \in Ledger /\ fate \in Seq(Exact!Fate)
      /\ Len(fate) = ledger.consumed /\ ledger.covered <= ledger.consumed
  BY DEF LedgerInv, TypeOK
<1>2. /\ fate' = f
      /\ f \in Seq(Exact!Fate)
      /\ Len(f) = ledger.consumed + n
      /\ \A i \in 1 .. ledger.consumed : f[i] = fate[i]
      /\ \A i \in ledger.consumed + 1 .. ledger.consumed + n : f[i] = "silence"
  <2>1. fate' = f
    BY DEF Silence
  <2>2. /\ f \in Seq(Exact!Fate)
        /\ Len(f) = Len(fate) + n
        /\ \A i \in 1 .. Len(fate) : f[i] = fate[i]
        /\ \A i \in Len(fate) + 1 .. Len(fate) + n : f[i] = "silence"
    <3>1. "silence" \in Exact!Fate
      BY DEF Exact!Fate
    <3>. QED BY <1>1, <3>1, GrownStream
  <2>. QED BY <1>1, <2>1, <2>2
<1>3. /\ ledger' \in Ledger
      /\ ledger'.consumed = ledger.consumed + n
      /\ ledger'.segment_start = ledger.segment_start
      /\ ledger'.frozen = ledger.frozen
      /\ ledger'.covered = IF ~SegmentOpen(ledger) /\ ~ledger.frozen
                           THEN ledger.consumed + n ELSE ledger.covered
  BY <1>1, NoteSilenceFacts DEF Silence
<1>4. TypeOK'
  BY <1>1, <1>2, <1>3 DEF TypeOK, Ledger
<1>5. ClaimIsHonest'
  <2>1. CASE ~SegmentOpen(ledger) /\ ~ledger.frozen
    BY <1>1, <1>2, <1>3, <2>1 DEF LedgerInv, ClaimIsHonest, Exact!Settled, Ledger
  <2>2. CASE SegmentOpen(ledger) \/ ledger.frozen
    BY <1>1, <1>2, <1>3, <2>2 DEF LedgerInv, ClaimIsHonest, Ledger
  <2>. QED BY <2>1, <2>2
<1>6. SegmentOpen(ledger') <=> SegmentOpen(ledger)
  BY <1>3 DEF SegmentOpen
<1>7. \A i \in 1 .. Len(fate) : fate'[i] = fate[i]
  BY <1>1, <1>2
<1>8. \A i \in 1 .. Len(fate') : i \in 1 .. Len(fate) \/ fate'[i] = "silence"
  BY <1>1, <1>2 DEF Ledger
<1>9. 1 .. Len(fate) \subseteq 1 .. Len(fate')
  BY <1>1, <1>2 DEF Ledger
<1>10. ~SegmentOpen(ledger) => \A i \in 1 .. Len(fate') : fate'[i] # "open"
  BY <1>7, <1>8 DEF LedgerInv
<1>11. ~ledger.frozen => \A i \in 1 .. Len(fate') : fate'[i] # "dropped"
  BY <1>7, <1>8 DEF LedgerInv
<1>12. SegmentOpen(ledger) => \E i \in 1 .. Len(fate') : fate'[i] = "open"
  BY <1>7, <1>9 DEF LedgerInv
<1>13. SegmentOpen(ledger) \/ ledger.frozen =>
         /\ ledger'.covered = ledger.covered
         /\ ledger.covered < ledger.consumed
         /\ fate'[ledger.covered + 1] = fate[ledger.covered + 1]
  BY <1>1, <1>3, <1>7 DEF LedgerInv, Ledger
<1>14. SegmentOpen(ledger') /\ ~ledger'.frozen =>
         /\ ledger'.covered < ledger'.consumed
         /\ fate'[ledger'.covered + 1] = "open"
  BY <1>1, <1>3, <1>6, <1>13 DEF LedgerInv, Ledger
<1>15. ledger'.frozen =>
         /\ ledger'.covered < ledger'.consumed
         /\ fate'[ledger'.covered + 1] = "dropped"
  BY <1>1, <1>3, <1>13 DEF LedgerInv, Ledger
<1>. QED
  BY <1>3, <1>4, <1>5, <1>6, <1>10, <1>11, <1>12, <1>14, <1>15 DEF LedgerInv

\* A speech window, with or without the attack buffer replayed before it.
LEMMA SpeechInv ==
  ASSUME LedgerInv, NEW n \in Nat \ {0}, Speech(n) \/ Onset(n)
  PROVE  LedgerInv'
<1>. DEFINE f == Exact!Grown(fate, n, "open")
<1>1. /\ ledger \in Ledger /\ fate \in Seq(Exact!Fate)
      /\ Len(fate) = ledger.consumed /\ ledger.covered <= ledger.consumed
  BY DEF LedgerInv, TypeOK
<1>2. /\ fate' = f
      /\ f \in Seq(Exact!Fate)
      /\ Len(f) = ledger.consumed + n
      /\ \A i \in 1 .. ledger.consumed : f[i] = fate[i]
      /\ \A i \in ledger.consumed + 1 .. ledger.consumed + n : f[i] = "open"
  <2>1. fate' = f
    BY DEF Speech, Onset
  <2>2. /\ f \in Seq(Exact!Fate)
        /\ Len(f) = Len(fate) + n
        /\ \A i \in 1 .. Len(fate) : f[i] = fate[i]
        /\ \A i \in Len(fate) + 1 .. Len(fate) + n : f[i] = "open"
    <3>1. "open" \in Exact!Fate
      BY DEF Exact!Fate
    <3>. QED BY <1>1, <3>1, GrownStream
  <2>. QED BY <1>1, <2>1, <2>2
<1>3. /\ ledger' \in Ledger
      /\ ledger'.consumed = ledger.consumed + n
      /\ ledger'.frozen = ledger.frozen
      /\ ledger'.covered = ledger.covered
      /\ ledger'.segment_start # Unset
  <2>1. CASE Speech(n)
    BY <1>1, <2>1, NoteSpeechFacts DEF Speech
  <2>2. CASE Onset(n)
    <3>. DEFINE replay == NoteSpeech(ledger, n, TRUE)
    <3>1. /\ replay \in Ledger
          /\ replay.consumed = ledger.consumed
          /\ replay.covered = ledger.covered
          /\ replay.frozen = ledger.frozen
      BY <1>1, <2>2, NoteSpeechFacts DEF Onset
    <3>2. ledger' = NoteSpeech(replay, n, FALSE)
      BY <2>2 DEF Onset
    <3>. HIDE DEF replay
    <3>3. /\ ledger' \in Ledger
          /\ ledger'.consumed = replay.consumed + n
          /\ ledger'.covered = replay.covered
          /\ ledger'.frozen = replay.frozen
          /\ ledger'.segment_start # Unset
      BY <3>1, <3>2, NoteSpeechFacts
    <3>. QED BY <3>1, <3>3
  <2>. QED BY <2>1, <2>2
<1>4. TypeOK'
  BY <1>1, <1>2, <1>3 DEF TypeOK, Ledger
<1>5. ClaimIsHonest'
  BY <1>1, <1>2, <1>3 DEF LedgerInv, ClaimIsHonest, Ledger
<1>6. fate'[ledger.consumed + n] = "open" /\ ledger.consumed + n \in 1 .. Len(fate')
  BY <1>1, <1>2 DEF Ledger
<1>7. ~ledger.frozen => fate'[ledger.covered + 1] = "open"
  BY <1>1, <1>2 DEF LedgerInv, Ledger
<1>8. ledger.frozen => fate'[ledger.covered + 1] = "dropped"
  BY <1>1, <1>2 DEF LedgerInv, Ledger
<1>9. ~ledger.frozen => \A i \in 1 .. Len(fate') : fate'[i] # "dropped"
  BY <1>1, <1>2 DEF LedgerInv, Ledger
<1>. QED
  BY <1>1, <1>2, <1>3, <1>4, <1>5, <1>6, <1>7, <1>8, <1>9
  DEF LedgerInv, Ledger, SegmentOpen

LEMMA CommitInv ==
  ASSUME LedgerInv, Commit
  PROVE  LedgerInv'
<1>1. /\ ledger \in Ledger /\ fate \in Seq(Exact!Fate)
      /\ Len(fate) = ledger.consumed /\ ledger.covered <= ledger.consumed
  BY DEF LedgerInv, TypeOK
<1>2. /\ fate' \in Seq(Exact!Fate)
      /\ Len(fate') = ledger.consumed
      /\ \A i \in 1 .. ledger.consumed :
           fate'[i] = IF fate[i] = "open" THEN "kept" ELSE fate[i]
  BY <1>1, DecidedStream DEF Commit
<1>3. /\ ledger' \in Ledger
      /\ ledger'.consumed = ledger.consumed
      /\ ledger'.frozen = ledger.frozen
      /\ ledger'.covered = IF ledger.frozen THEN ledger.covered ELSE ledger.consumed
      /\ ~SegmentOpen(ledger')
  BY <1>1 DEF Commit, CommitSegment, Ledger, Offset, SegmentOpen, Unset
<1>4. TypeOK'
  BY <1>1, <1>2, <1>3 DEF TypeOK, Ledger
<1>5. \A i \in 1 .. Len(fate') : fate'[i] # "open"
  BY <1>1, <1>2 DEF Ledger
<1>6. ~ledger.frozen => \A i \in 1 .. Len(fate') : fate'[i] # "dropped"
  BY <1>1, <1>2 DEF LedgerInv, Ledger
<1>7. ClaimIsHonest'
  <2>1. CASE ledger.frozen
    BY <1>1, <1>2, <1>3, <2>1 DEF LedgerInv, ClaimIsHonest, Exact!Settled, Ledger
  <2>2. CASE ~ledger.frozen
    <3>1. \A i \in 1 .. Len(fate') : fate'[i] \in Exact!Fate
      BY <1>2
    <3>. QED
      BY <1>2, <1>3, <1>5, <1>6, <2>2, <3>1
      DEF ClaimIsHonest, Exact!Settled, Exact!Fate, Ledger
  <2>. QED BY <1>3, <2>1, <2>2 DEF Ledger
<1>8. ledger.frozen => fate'[ledger.covered + 1] = "dropped"
  BY <1>1, <1>2 DEF LedgerInv, Ledger
<1>. QED
  BY <1>1, <1>2, <1>3, <1>4, <1>5, <1>6, <1>7, <1>8 DEF LedgerInv, Ledger

LEMMA DiscardInv ==
  ASSUME LedgerInv, Discard
  PROVE  LedgerInv'
<1>1. /\ ledger \in Ledger /\ fate \in Seq(Exact!Fate)
      /\ Len(fate) = ledger.consumed /\ ledger.covered <= ledger.consumed
  BY DEF LedgerInv, TypeOK
<1>2. /\ fate' \in Seq(Exact!Fate)
      /\ Len(fate') = ledger.consumed
      /\ \A i \in 1 .. ledger.consumed :
           fate'[i] = IF fate[i] = "open" THEN "dropped" ELSE fate[i]
  BY <1>1, DecidedStream DEF Discard
<1>3. /\ ledger' \in Ledger
      /\ ledger'.consumed = ledger.consumed
      /\ ledger'.frozen
      /\ ledger'.covered = ledger.covered
      /\ ~SegmentOpen(ledger')
  BY <1>1 DEF Discard, DiscardSegment, Ledger, Offset, SegmentOpen, Unset
<1>4. TypeOK'
  BY <1>1, <1>2, <1>3 DEF TypeOK, Ledger
<1>5. \A i \in 1 .. Len(fate') : fate'[i] # "open"
  BY <1>1, <1>2 DEF Ledger
<1>6. ClaimIsHonest'
  BY <1>1, <1>2, <1>3 DEF LedgerInv, ClaimIsHonest, Exact!Settled, Ledger
<1>7. ledger.covered < ledger.consumed /\ fate'[ledger.covered + 1] = "dropped"
  BY <1>1, <1>2 DEF LedgerInv, Discard, Ledger
<1>. QED
  BY <1>1, <1>2, <1>3, <1>4, <1>5, <1>6, <1>7 DEF LedgerInv, Ledger

LEMMA StepInv == LedgerInv /\ [Next]_vars => LedgerInv'
<1>. SUFFICES ASSUME LedgerInv, [Next]_vars PROVE LedgerInv'
  OBVIOUS
<1>1. CASE \E n \in Lengths : Silence(n)
  BY <1>1, SilenceInv, LengthsAssumption
<1>2. CASE \E n \in Lengths : Speech(n) \/ Onset(n)
  BY <1>2, SpeechInv, LengthsAssumption
<1>3. CASE Commit
  BY <1>3, CommitInv
<1>4. CASE Discard
  BY <1>4, DiscardInv
<1>5. CASE UNCHANGED vars
  BY <1>5 DEF vars, LedgerInv, TypeOK, ClaimIsHonest
<1>. QED
  BY <1>1, <1>2, <1>3, <1>4, <1>5 DEF Next

\* The flags and offsets of the ledger keep step with the fate of every unit.
THEOREM LedgerInvariant == Spec => []LedgerInv
  BY InitInv, StepInv, PTL DEF Spec

\* The ledger stays well formed, and counts every unit exactly once.
THEOREM TypeCorrect == Spec => []TypeOK
<1>1. LedgerInv => TypeOK
  BY DEF LedgerInv
<1>. QED
  BY <1>1, LedgerInvariant, PTL

\* recognizedThroughSeq is never computed from a claim that has a hole in it.
THEOREM Honest == Spec => []ClaimIsHonest
<1>1. LedgerInv => ClaimIsHonest
  BY DEF LedgerInv
<1>. QED
  BY <1>1, LedgerInvariant, PTL

LEMMA InvIsTight == LedgerInv => ClaimIsTight
<1>. SUFFICES ASSUME LedgerInv, ledger.covered < ledger.consumed
              PROVE  fate[ledger.covered + 1] \notin Exact!Settled
  BY DEF ClaimIsTight
<1>1. fate[ledger.covered + 1] \in {"open", "dropped"}
  BY DEF LedgerInv, TypeOK, Ledger
<1>. QED
  BY <1>1 DEF Exact!Settled

\* The claim never lags either: what stops it is undecided or lost speech.
THEOREM Tight == Spec => []ClaimIsTight
  BY InvIsTight, LedgerInvariant, PTL

\* "the frontier FREEZES at that point, forever": no step, whatever it hears,
\* keeps or drops, moves or thaws a frozen claim.
THEOREM FrozenIsForever == Spec => FrozenForever
<1>1. LedgerInv /\ [Next]_vars =>
        [ledger.frozen => /\ ledger'.frozen
                          /\ ledger'.covered = ledger.covered]_vars
  <2>. SUFFICES ASSUME LedgerInv, Next, ledger.frozen
                PROVE  ledger'.frozen /\ ledger'.covered = ledger.covered
    OBVIOUS
  <2>1. ledger \in Ledger
    BY DEF LedgerInv, TypeOK
  <2>2. CASE \E n \in Lengths : Silence(n)
    BY <2>1, <2>2 DEF Silence, NoteSilence, Ledger
  <2>3. CASE \E n \in Lengths : Speech(n)
    BY <2>1, <2>3 DEF Speech, NoteSpeech, Ledger
  <2>4. CASE \E n \in Lengths : Onset(n)
    BY <2>1, <2>4 DEF Onset, NoteSpeech, Ledger
  <2>5. CASE Commit
    BY <2>1, <2>5 DEF Commit, CommitSegment, Ledger
  <2>6. CASE Discard
    BY <2>1, <2>6 DEF Discard, DiscardSegment, Ledger
  <2>. QED
    BY <2>2, <2>3, <2>4, <2>5, <2>6 DEF Next
<1>. QED
  BY <1>1, LedgerInvariant, PTL DEF Spec, FrozenForever

-----------------------------------------------------------------------------
LEMMA InvIsClean == LedgerInv => Exact!IsCleanPrefix(fate, ledger.covered)
<1>. SUFFICES ASSUME LedgerInv PROVE Exact!IsCleanPrefix(fate, ledger.covered)
  OBVIOUS
<1>1. /\ ledger \in Ledger
      /\ Len(fate) = ledger.consumed
      /\ ledger.covered <= ledger.consumed
      /\ ClaimIsHonest /\ ClaimIsTight
  BY InvIsTight DEF LedgerInv, TypeOK
<1>. QED
  BY <1>1 DEF Exact!IsCleanPrefix, ClaimIsHonest, ClaimIsTight, Ledger

LEMMA StepRefines ==
  LedgerInv /\ LedgerInv' /\ [Next]_vars => [Exact!Next]_<<fate, ledger.covered>>
<1>. SUFFICES ASSUME LedgerInv, LedgerInv', Next PROVE Exact!Next
  BY DEF vars
<1>1. Exact!IsCleanPrefix(fate', ledger'.covered)
  <2>1. LedgerInv' => Exact!IsCleanPrefix(fate, ledger.covered)'
    BY InvIsClean, PTL
  <2>. QED BY <2>1 DEF Exact!IsCleanPrefix, Exact!Settled
<1>2. Len(fate) = ledger.consumed
  BY DEF LedgerInv, TypeOK
<1>3. CASE \E n \in Lengths : Silence(n)
  BY <1>1, <1>2, <1>3 DEF Silence, HasRoom, Exact!Next, Exact!Hear
<1>4. CASE \E n \in Lengths : Speech(n) \/ Onset(n)
  BY <1>1, <1>2, <1>4 DEF Speech, Onset, HasRoom, Exact!Next, Exact!Hear
<1>5. CASE Commit
  BY <1>1, <1>5 DEF LedgerInv, Commit, Exact!Next, Exact!Decide
<1>6. CASE Discard
  BY <1>1, <1>6 DEF LedgerInv, Discard, Exact!Next, Exact!Decide
<1>. QED
  BY <1>3, <1>4, <1>5, <1>6 DEF Next

\* Five numbers and flags are enough: the ledger implements the specification
\* that remembers what became of every unit of audio.
THEOREM Refinement == Spec => ImplementsExactCoverage
<1>1. Init => Exact!Init
  BY DEF Init, Exact!Init, NewLedger
<1>. QED
  BY <1>1, LedgerInvariant, StepRefines, PTL
  DEF Spec, ImplementsExactCoverage, Exact!Spec

=============================================================================
