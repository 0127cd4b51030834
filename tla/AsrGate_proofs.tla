--------------------------- MODULE AsrGate_proofs ---------------------------
(***************************************************************************)
(* What the gate of AsrGate does to every stretch of audio.  Both of its   *)
(* loops are recursive functions; the lemmas here say what holds after     *)
(* each turn of them, and so of their results.                             *)
(***************************************************************************)
EXTENDS AsrGate, WellFoundedInduction, SequenceTheorems, TLAPS

-----------------------------------------------------------------------------
(***************************************************************************)
(* Induction and recursion over the naturals, stated of sets and functions *)
(* instead of operators.                                                   *)
(***************************************************************************)

\* A set that holds 0 and with every number its successor holds them all.
LEMMA NatSetInduction ==
  ASSUME NEW P, 0 \in P, \A n \in Nat : n \in P => n + 1 \in P
  PROVE  \A n \in Nat : n \in P
<1> DEFINE Others == {n \in Nat : n \notin P}
<1>1. SUFFICES ASSUME Others # {}  PROVE FALSE
  OBVIOUS
<1>2. PICK n \in Others : \A m \in Others : ~(<<m, n>> \in OpToRel(<, Nat))
  <2>1. Others \subseteq Nat  OBVIOUS
  <2> HIDE DEF Others
  <2> QED  BY <1>1, <2>1, WFMin, NatLessThanWellFounded
<1>3. n \in Nat /\ n # 0  OBVIOUS
<1>4. n - 1 \in Nat /\ n - 1 < n /\ (n - 1) + 1 = n  BY <1>3
<1>5. <<n - 1, n>> \in OpToRel(<, Nat)  BY <1>3, <1>4 DEF OpToRel
<1>6. n - 1 \in P  BY <1>2, <1>4, <1>5
<1>7. n \in P  BY <1>4, <1>6
<1> QED  BY <1>7

\* run[i] is the state of a loop after i of its N turns.
IsRun(run, N, base, turn) ==
  run[0] = base /\ \A i \in 1 .. N : run[i] = turn[i][run[i - 1]]

\* A loop of N turns over states in S has a run: its states after each turn.
LEMMA LoopHasRun ==
  ASSUME NEW S, NEW N \in Nat, NEW base \in S, NEW turn \in [1 .. N -> [S -> S]]
  PROVE  \E run \in [0 .. N -> S] : IsRun(run, N, base, turn)
<1> DEFINE Runs(n) == {run \in [0 .. n -> S] :
                         /\ run[0] = base
                         /\ \A i \in 1 .. n : run[i] = turn[i][run[i - 1]]}
           P == {n \in Nat : n <= N => Runs(n) # {}}
<1>1. 0 \in P
  <2>1. [i \in 0 .. 0 |-> base] \in Runs(0)  OBVIOUS
  <2> QED  BY <2>1
<1>2. ASSUME NEW n \in Nat, n \in P  PROVE n + 1 \in P
  <2> HIDE DEF Runs
  <2>1. CASE ~(n + 1 <= N)  BY <2>1
  <2>2. CASE n + 1 <= N
    <3>1. PICK r : r \in Runs(n)  BY <2>2, <1>2
    <3> USE DEF Runs
    <3> DEFINE q == [i \in 0 .. n + 1 |-> IF i = n + 1 THEN turn[n + 1][r[n]] ELSE r[i]]
    <3>2. r[n] \in S /\ n + 1 \in 1 .. N  BY <3>1, <2>2
    <3>3. turn[n + 1][r[n]] \in S  BY <3>2
    <3>4. q \in [0 .. n + 1 -> S]
      <4>1. ASSUME NEW i \in 0 .. n + 1  PROVE q[i] \in S
        <5>1. i = n + 1 \/ i \in 0 .. n  OBVIOUS
        <5> QED  BY <5>1, <3>1, <3>3
      <4> QED  BY <4>1
    <3>5. q[0] = base  BY <3>1
    <3>6. ASSUME NEW i \in 1 .. n + 1  PROVE q[i] = turn[i][q[i - 1]]
      <4>1. CASE i = n + 1  BY <4>1
      <4>2. CASE i \in 1 .. n
        <5>1. i - 1 \in 0 .. n /\ i - 1 # n + 1 /\ i # n + 1 /\ i \in 0 .. n + 1 /\ i - 1 \in 0 .. n + 1
          BY <4>2
        <5>2. q[i] = r[i] /\ q[i - 1] = r[i - 1]  BY <5>1
        <5> QED  BY <5>2, <3>1, <4>2
      <4> QED  BY <4>1, <4>2
    <3>7. q \in Runs(n + 1)  BY <3>4, <3>5, <3>6
    <3> HIDE DEF Runs, q
    <3> QED  BY <3>7
  <2> QED  BY <2>1, <2>2
<1>3. N \in P
  <2> HIDE DEF P
  <2> QED  BY <1>1, <1>2, NatSetInduction
<1>4. PICK run : run \in Runs(N)  BY <1>3
<1> QED  BY <1>4 DEF IsRun

-----------------------------------------------------------------------------
(***************************************************************************)
(* _process_staged_audio: whole windows, and what is left.                 *)
(***************************************************************************)

\* The whole windows fit into staging, and what is left is less than one.
LEMMA WindowsFit ==
  ASSUME NEW Units, NEW staging \in Seq(Units)
  PROVE  /\ WholeWindows(staging) \in Nat
         /\ WholeWindows(staging) * GATE_WINDOW <= Len(staging)
         /\ Len(staging) < WholeWindows(staging) * GATE_WINDOW + GATE_WINDOW
<1>1. Len(staging) \in Nat  OBVIOUS
<1>2. \A a \in Nat, b \in Nat \ {0} :
        /\ a \div b \in Nat
        /\ (a \div b) * b <= a
        /\ a < (a \div b) * b + b
  BY Z3
<1> QED  BY <1>1, <1>2, GateAssumption DEF WholeWindows

\* A window holds the units of its place in staging.
LEMMA WindowIsItsPlace ==
  ASSUME NEW Units, NEW staging \in Seq(Units), NEW i \in 1 .. WholeWindows(staging)
  PROVE  /\ WindowAt(staging, i) \in Seq(Units)
         /\ Len(WindowAt(staging, i)) = GATE_WINDOW
         /\ \A n \in 1 .. GATE_WINDOW :
              /\ (i - 1) * GATE_WINDOW + n \in 1 .. Len(staging)
              /\ WindowAt(staging, i)[n] = staging[(i - 1) * GATE_WINDOW + n]
<1> DEFINE m == (i - 1) * GATE_WINDOW + 1
           n == i * GATE_WINDOW
<1>1. GATE_WINDOW \in Nat \ {0} /\ WholeWindows(staging) \in Nat /\ Len(staging) \in Nat
  BY GateAssumption, WindowsFit
<1>2. m \in Nat \ {0} /\ n \in Nat /\ n - m + 1 = GATE_WINDOW
  BY <1>1
<1>3. n <= WholeWindows(staging) * GATE_WINDOW
  BY <1>1
<1>4. n <= Len(staging)
  BY <1>1, <1>2, <1>3, WindowsFit
<1>5. \A k \in m .. n : staging[k] \in Units
  BY <1>1, <1>2, <1>4
<1>6. WindowAt(staging, i) = SubSeq(staging, m, n)
  BY DEF WindowAt
<1> HIDE DEF m, n
<1>7. /\ SubSeq(staging, m, n) \in Seq(Units)
      /\ Len(SubSeq(staging, m, n)) = GATE_WINDOW
      /\ \A k \in 1 .. GATE_WINDOW : SubSeq(staging, m, n)[k] = staging[m + k - 1]
  BY <1>1, <1>2, <1>5, SubSeqProperties
<1>8. \A k \in 1 .. GATE_WINDOW : m + k - 1 = (i - 1) * GATE_WINDOW + k /\ m + k - 1 \in 1 .. Len(staging)
  BY <1>1, <1>2, <1>4 DEF m
<1> QED  BY <1>6, <1>7, <1>8

\* The leftover is the end of staging, shorter than a window.
LEMMA LeftoverIsTheEnd ==
  ASSUME NEW Units, NEW staging \in Seq(Units)
  PROVE  /\ Leftover(staging) \in Seq(Units)
         /\ Len(Leftover(staging)) = Len(staging) - WholeWindows(staging) * GATE_WINDOW
         /\ Len(Leftover(staging)) < GATE_WINDOW
         /\ \A n \in 1 .. Len(Leftover(staging)) :
              /\ WholeWindows(staging) * GATE_WINDOW + n \in 1 .. Len(staging)
              /\ Leftover(staging)[n] = staging[WholeWindows(staging) * GATE_WINDOW + n]
<1> DEFINE m == WholeWindows(staging) * GATE_WINDOW
<1>1. m \in Nat /\ m <= Len(staging) /\ Len(staging) < m + GATE_WINDOW /\ Len(staging) \in Nat
  BY WindowsFit, GateAssumption
<1>2. Leftover(staging) = SubSeq(staging, m + 1, Len(staging))
  BY DEF Leftover
<1>3. \A k \in m + 1 .. Len(staging) : staging[k] \in Units
  BY <1>1
<1> HIDE DEF m
<1>4. /\ SubSeq(staging, m + 1, Len(staging)) \in Seq(Units)
      /\ Len(SubSeq(staging, m + 1, Len(staging))) = Len(staging) - m
      /\ \A k \in 1 .. Len(staging) - m :
           SubSeq(staging, m + 1, Len(staging))[k] = staging[m + k]
  BY <1>1, <1>3, SubSeqProperties
<1> QED  BY <1>1, <1>2, <1>4, GateAssumption, SMTT(30) DEF m

\* Less than a window stays in staging as it is.
LEMMA ShortStagingStays ==
  ASSUME NEW Units, NEW staging \in Seq(Units), Len(staging) < GATE_WINDOW
  PROVE  WholeWindows(staging) = 0 /\ Leftover(staging) = staging
<1>1. /\ WholeWindows(staging) \in Nat
      /\ WholeWindows(staging) * GATE_WINDOW <= Len(staging)
      /\ Len(staging) \in Nat
  BY WindowsFit
<1>2. WholeWindows(staging) = 0
  <2>1. \A a \in Nat, b \in Nat \ {0} : a # 0 => a * b >= b  BY Z3
  <2> QED  BY <1>1, <2>1, GateAssumption
<1>3. WholeWindows(staging) * GATE_WINDOW = 0  BY <1>2, GateAssumption
<1>4. Leftover(staging) = SubSeq(staging, 1, Len(staging))
  BY <1>3 DEF Leftover
<1> QED  BY <1>2, <1>4, SubSeqFull

LEMMA Singleton ==
  ASSUME NEW S, NEW e \in S
  PROVE  <<e>> \in Seq(S)
OBVIOUS

\* The gate between two windows.
Passing(Units) ==
  [prev: Seq(Units), gate: Gates, events: Seq(Events(Units))]

\* A window leaves the gate in a state it may be in.
LEMMA GateWindowType ==
  ASSUME NEW Units, NEW g \in Passing(Units), NEW window \in Seq(Units), NEW speech
  PROVE  GateWindow(g, window, speech) \in Passing(Units)
<1>1. g.prev \in Seq(Units) /\ g.gate \in Gates /\ g.events \in Seq(Events(Units))
  BY DEF Passing
<1>2. /\ AudioEvent(g.prev, TRUE) \in Events(Units)
      /\ AudioEvent(window, FALSE) \in Events(Units)
      /\ SilenceEvent(window) \in Events(Units)
      /\ BoundaryEvent \in Events(Units)
  BY <1>1 DEF AudioEvent, SilenceEvent, BoundaryEvent, Events
<1>3. SpeechWindow(g, window) \in Passing(Units)
  <2>1. /\ (IF g.prev # << >> THEN <<AudioEvent(g.prev, TRUE)>> ELSE << >>) \in Seq(Events(Units))
        /\ <<AudioEvent(window, FALSE)>> \in Seq(Events(Units))
    BY <1>2, Singleton, EmptySeq
  <2>2. SpeechWindow(g, window).events \in Seq(Events(Units))
    BY <1>1, <2>1, ConcatProperties DEF SpeechWindow
  <2>3. [silence_run |-> 0, gate_was_open |-> TRUE] \in Gates
    BY DEF Gates
  <2>4. << >> \in Seq(Units)  OBVIOUS
  <2> QED  BY <2>2, <2>3, <2>4 DEF SpeechWindow, Passing
<1>4. SilentWindow(g, window) \in Passing(Units)
  <2> DEFINE ends == g.gate.gate_was_open /\ g.gate.silence_run + 1 >= COMMIT_SILENCE_WINDOWS
  <2>1. /\ <<SilenceEvent(window)>> \in Seq(Events(Units))
        /\ (IF ends THEN <<BoundaryEvent>> ELSE << >>) \in Seq(Events(Units))
    BY <1>2, Singleton, EmptySeq
  <2>2. SilentWindow(g, window).events \in Seq(Events(Units))
    BY <1>1, <2>1, ConcatProperties DEF SilentWindow
  <2>3. SilentWindow(g, window).gate \in Gates
    BY <1>1 DEF SilentWindow, Gates, ClosedGate
  <2>4. SilentWindow(g, window).prev = window
    BY DEF SilentWindow
  <2> QED  BY <2>2, <2>3, <2>4 DEF SilentWindow, Passing
<1> QED  BY <1>3, <1>4 DEF GateWindow

\* run[i] is the gate after i windows of staging; the last is the result.
GateRun(run, staging, prev, gate, speech) ==
  /\ run[0] = [prev |-> prev, gate |-> gate, events |-> << >>]
  /\ \A i \in 1 .. WholeWindows(staging) :
       run[i] = GateWindow(run[i - 1], WindowAt(staging, i), speech)
  /\ ProcessStagedAudio(staging, prev, gate, speech) = run[WholeWindows(staging)]

\* The loop over the windows has a run, and its last state is the result.
LEMMA GateRuns ==
  ASSUME NEW Units, NEW staging \in Seq(Units), NEW prev \in Seq(Units),
         NEW gate \in Gates, NEW speech
  PROVE  \E run \in [0 .. WholeWindows(staging) -> Passing(Units)] :
           GateRun(run, staging, prev, gate, speech)
<1> DEFINE N == WholeWindows(staging)
           base == [prev |-> prev, gate |-> gate, events |-> << >>]
           turn == [i \in 1 .. N |-> [g \in Passing(Units) |->
                      GateWindow(g, WindowAt(staging, i), speech)]]
           Loop(run) == run = [i \in 0 .. N |->
                          IF i = 0 THEN base
                          ELSE GateWindow(run[i - 1], WindowAt(staging, i), speech)]
           after == CHOOSE run : Loop(run)
<1>1. N \in Nat  BY WindowsFit
<1>2. base \in Passing(Units)
  <2>1. << >> \in Seq(Events(Units))  OBVIOUS
  <2> QED  BY <2>1 DEF Passing
<1>3. turn \in [1 .. N -> [Passing(Units) -> Passing(Units)]]
  BY WindowIsItsPlace, GateWindowType
<1>4. PICK f \in [0 .. N -> Passing(Units)] : IsRun(f, N, base, turn)
  <2> HIDE DEF N, base, turn
  <2> QED  BY <1>1, <1>2, <1>3, LoopHasRun, Zenon
<1>5. Loop(f)
  <2> HIDE DEF base, N
  <2>1. \A i \in 1 .. N : f[i] = GateWindow(f[i - 1], WindowAt(staging, i), speech)
    <3>1. TAKE i \in 1 .. N
    <3>2. i - 1 \in 0 .. N  BY <1>1
    <3>3. f[i - 1] \in Passing(Units)  BY <3>2
    <3>4. turn[i] = [g \in Passing(Units) |-> GateWindow(g, WindowAt(staging, i), speech)]
      OBVIOUS
    <3> QED  BY <1>4, <3>3, <3>4 DEF IsRun
  <2>2. \A i \in 0 .. N : i = 0 \/ i \in 1 .. N  BY <1>1
  <2> HIDE DEF turn
  <2>3. f = [i \in 0 .. N |->
               IF i = 0 THEN base
               ELSE GateWindow(f[i - 1], WindowAt(staging, i), speech)]
    BY <2>1, <2>2, <1>4 DEF IsRun
  <2> QED  BY <2>3
<1>6. Loop(after)
  <2> HIDE DEF Loop
  <2> QED  BY <1>5
<1>7. ProcessStagedAudio(staging, prev, gate, speech) = after[N]
  BY DEF ProcessStagedAudio
<1>8. after[0] = base /\ \A i \in 1 .. N :
        after[i] = GateWindow(after[i - 1], WindowAt(staging, i), speech)
  <2> HIDE DEF after, base, N
  <2> QED  BY <1>6, <1>1
<1>9. DOMAIN after = 0 .. N /\ after = [i \in 0 .. N |-> after[i]]
  <2> HIDE DEF after, base, N
  <2> QED  BY <1>6
<1>10. \A i \in 0 .. N : after[i] \in Passing(Units)
  <2> DEFINE P == {n \in Nat : n <= N => after[n] \in Passing(Units)}
  <2> HIDE DEF after, base, N, Loop, turn
  <2>1. 0 \in P  BY <1>8, <1>1, <1>2
  <2>2. ASSUME NEW n \in Nat, n \in P  PROVE n + 1 \in P
    <3>1. CASE n + 1 <= N
      <4>1. n + 1 \in 1 .. N /\ (n + 1) - 1 = n  BY <3>1, <1>1
      <4>2. after[n + 1] = GateWindow(after[n], WindowAt(staging, n + 1), speech)
        BY <1>8, <4>1
      <4>3. after[n] \in Passing(Units)  BY <2>2, <3>1, <1>1
      <4>4. WindowAt(staging, n + 1) \in Seq(Units)  BY <4>1, WindowIsItsPlace DEF N
      <4> QED  BY <4>2, <4>3, <4>4, GateWindowType
    <3>2. CASE ~(n + 1 <= N)  BY <3>2
    <3> QED  BY <3>1, <3>2
  <2>3. \A n \in Nat : n \in P
    <3> HIDE DEF P
    <3> QED  BY <2>1, <2>2, NatSetInduction
  <2> QED  BY <2>3, <1>1
<1>11. after \in [0 .. N -> Passing(Units)]
  <2> HIDE DEF after, base, N, Loop, turn
  <2> QED  BY <1>9, <1>10
<1> HIDE DEF after
<1>12. GateRun(after, staging, prev, gate, speech)  BY <1>7, <1>8 DEF GateRun
<1> QED  BY <1>11, <1>12

-----------------------------------------------------------------------------
(***************************************************************************)
(* apply_events: the ledger, the pending audio, and what must wait.        *)
(***************************************************************************)
Applied(Units) ==
  [ledger: Ledger, pending: Seq(Units), rest: Seq(Events(Units))]

\* Each method of the ledger leaves it a ledger; what each field becomes.
LEMMA LedgerMethods ==
  ASSUME NEW l \in Ledger, NEW n \in Nat, NEW replayed \in BOOLEAN
  PROVE  /\ NoteSilence(l, n) \in Ledger
         /\ NoteSilence(l, n).consumed = l.consumed + n
         /\ NoteSilence(l, n).covered = IF ~SegmentOpen(l) /\ ~l.frozen
                                        THEN l.consumed + n ELSE l.covered
         /\ NoteSilence(l, n).segment_start = l.segment_start
         /\ NoteSilence(l, n).attack_start = l.consumed
         /\ NoteSilence(l, n).frozen = l.frozen
         /\ NoteSpeech(l, n, replayed) \in Ledger
         /\ NoteSpeech(l, n, replayed).consumed = IF replayed THEN l.consumed ELSE l.consumed + n
         /\ NoteSpeech(l, n, replayed).covered = l.covered
         /\ NoteSpeech(l, n, replayed).segment_start =
              IF SegmentOpen(l) THEN l.segment_start
              ELSE IF replayed THEN l.attack_start ELSE l.consumed
         /\ NoteSpeech(l, n, replayed).attack_start = l.attack_start
         /\ NoteSpeech(l, n, replayed).frozen = l.frozen
         /\ CommitSegment(l) \in Ledger
         /\ CommitSegment(l).consumed = l.consumed
         /\ CommitSegment(l).covered = IF l.frozen THEN l.covered ELSE l.consumed
         /\ CommitSegment(l).segment_start = Unset
         /\ CommitSegment(l).attack_start = l.attack_start
         /\ CommitSegment(l).frozen = l.frozen
         /\ DiscardSegment(l) \in Ledger
         /\ DiscardSegment(l).consumed = l.consumed
         /\ DiscardSegment(l).covered = l.covered
         /\ DiscardSegment(l).segment_start = Unset
         /\ DiscardSegment(l).attack_start = l.attack_start
         /\ DiscardSegment(l).frozen
<1>1. /\ l.consumed \in Nat /\ l.covered \in Nat /\ l.frozen \in BOOLEAN
      /\ l.segment_start \in Offset /\ l.attack_start \in Offset
      /\ Nat \subseteq Offset /\ Unset \in Offset /\ l.consumed + n \in Nat
  BY DEF Ledger, Offset
<1> DEFINE open == SegmentOpen(l)
           v == IF ~open /\ ~l.frozen THEN l.consumed + n ELSE l.covered
           w == IF l.frozen THEN l.covered ELSE l.consumed
           s == IF open THEN l.segment_start ELSE IF replayed THEN l.attack_start ELSE l.consumed
           c == IF replayed THEN l.consumed ELSE l.consumed + n
<1>3. v \in Nat /\ w \in Nat /\ s \in Offset /\ c \in Nat
  BY <1>1
<1>4a. NoteSilence(l, n) = [l EXCEPT !.attack_start = l.consumed, !.consumed = l.consumed + n, !.covered = v]
  BY DEF NoteSilence
<1>4b. NoteSpeech(l, n, replayed) = [l EXCEPT !.segment_start = s, !.consumed = c]
  BY DEF NoteSpeech
<1>4c. CommitSegment(l) = [l EXCEPT !.segment_start = Unset, !.covered = w]
  BY DEF CommitSegment
<1>4d. DiscardSegment(l) = [l EXCEPT !.segment_start = Unset, !.frozen = TRUE]
  BY DEF DiscardSegment
<1> HIDE DEF open, v, w, s, c
<1>5. /\ NoteSilence(l, n) \in Ledger
      /\ NoteSilence(l, n).consumed = l.consumed + n
      /\ NoteSilence(l, n).covered = v
      /\ NoteSilence(l, n).segment_start = l.segment_start
      /\ NoteSilence(l, n).attack_start = l.consumed
      /\ NoteSilence(l, n).frozen = l.frozen
  BY <1>1, <1>3, <1>4a DEF Ledger
<1>6. /\ NoteSpeech(l, n, replayed) \in Ledger
      /\ NoteSpeech(l, n, replayed).consumed = c
      /\ NoteSpeech(l, n, replayed).covered = l.covered
      /\ NoteSpeech(l, n, replayed).segment_start = s
      /\ NoteSpeech(l, n, replayed).attack_start = l.attack_start
      /\ NoteSpeech(l, n, replayed).frozen = l.frozen
  BY <1>1, <1>3, <1>4b DEF Ledger
<1>7. /\ CommitSegment(l) \in Ledger
      /\ CommitSegment(l).consumed = l.consumed
      /\ CommitSegment(l).covered = w
      /\ CommitSegment(l).segment_start = Unset
      /\ CommitSegment(l).attack_start = l.attack_start
      /\ CommitSegment(l).frozen = l.frozen
  BY <1>1, <1>3, <1>4c DEF Ledger
<1>8. /\ DiscardSegment(l) \in Ledger
      /\ DiscardSegment(l).consumed = l.consumed
      /\ DiscardSegment(l).covered = l.covered
      /\ DiscardSegment(l).segment_start = Unset
      /\ DiscardSegment(l).attack_start = l.attack_start
      /\ DiscardSegment(l).frozen
  BY <1>1, <1>4d DEF Ledger
<1>9. v = (IF ~SegmentOpen(l) /\ ~l.frozen THEN l.consumed + n ELSE l.covered)
  BY DEF v, open
<1>10. s = (IF SegmentOpen(l) THEN l.segment_start
              ELSE IF replayed THEN l.attack_start ELSE l.consumed)
  BY DEF s, open
<1>11. w = (IF l.frozen THEN l.covered ELSE l.consumed) /\ c = (IF replayed THEN l.consumed ELSE l.consumed + n)
  BY DEF w, c
<1> QED  BY <1>5, <1>6, <1>7, <1>8, <1>9, <1>10, <1>11, Zenon

\* What one event does: nothing but wait once something waits; otherwise a
\* silence and an audio event count, a short boundary is dropped, and any
\* other boundary waits for a speaker embedding.
LEMMA EventIsApplied ==
  ASSUME NEW Units, NEW a \in Applied(Units), NEW e \in Events(Units)
  PROVE  LET b == ApplyEvent(a, e) IN
         /\ b \in Applied(Units)
         /\ a.rest # << >> => b.ledger = a.ledger /\ b.pending = a.pending /\ b.rest = Append(a.rest, e)
         /\ a.rest = << >> /\ e.kind = "silence" =>
              /\ b.ledger = NoteSilence(a.ledger, Len(e.audio))
              /\ b.pending = a.pending /\ b.rest = << >>
         /\ a.rest = << >> /\ e.kind = "audio" =>
              /\ b.ledger = NoteSpeech(a.ledger, Len(e.audio), e.replayed)
              /\ b.pending = a.pending \o e.audio /\ b.rest = << >>
         /\ a.rest = << >> /\ e.kind = "boundary" =>
              /\ b.ledger = a.ledger /\ b.pending = a.pending
              /\ b.rest = IF Len(a.pending) < MIN_COMMIT THEN << >> ELSE <<e>>
<1> DEFINE b == ApplyEvent(a, e)
<1>1. /\ a.ledger \in Ledger /\ a.pending \in Seq(Units) /\ a.rest \in Seq(Events(Units))
      /\ a = [ledger |-> a.ledger, pending |-> a.pending, rest |-> a.rest]
  BY DEF Applied
<1>2. e.kind \in {"audio", "silence", "boundary"} /\ e.audio \in Seq(Units) /\ e.replayed \in BOOLEAN
  BY DEF Events
<1>3. Len(e.audio) \in Nat  BY <1>2
<1>4. CASE a.rest # << >>
  <2>1. b = [a EXCEPT !.rest = Append(@, e)]  BY <1>4 DEF ApplyEvent
  <2>2. Append(a.rest, e) \in Seq(Events(Units))  BY <1>1
  <2> QED  BY <1>1, <1>4, <2>1, <2>2 DEF Applied
<1>5. CASE a.rest = << >> /\ e.kind = "silence"
  <2>1. b = [a EXCEPT !.ledger = NoteSilence(@, Len(e.audio))]  BY <1>5 DEF ApplyEvent
  <2>2. NoteSilence(a.ledger, Len(e.audio)) \in Ledger  BY <1>1, <1>3, LedgerMethods
  <2> QED  BY <1>1, <1>5, <2>1, <2>2 DEF Applied
<1>6. CASE a.rest = << >> /\ e.kind = "audio"
  <2>1. b = [a EXCEPT !.ledger = NoteSpeech(@, Len(e.audio), e.replayed),
                      !.pending = @ \o e.audio]  BY <1>6 DEF ApplyEvent
  <2>2. NoteSpeech(a.ledger, Len(e.audio), e.replayed) \in Ledger
    BY <1>1, <1>2, <1>3, LedgerMethods
  <2>3. a.pending \o e.audio \in Seq(Units)  BY <1>1, <1>2, ConcatProperties
  <2> QED  BY <1>1, <1>6, <2>1, <2>2, <2>3 DEF Applied
<1>7. CASE a.rest = << >> /\ e.kind = "boundary"
  <2>1. b = IF Len(a.pending) < MIN_COMMIT THEN a ELSE [a EXCEPT !.rest = <<e>>]
    BY <1>7 DEF ApplyEvent
  <2>2. <<e>> \in Seq(Events(Units))  BY Singleton
  <2> QED  BY <1>1, <1>7, <2>1, <2>2 DEF Applied
<1> QED  BY <1>2, <1>4, <1>5, <1>6, <1>7

\* run[i] is what i events have made of the ledger and the pending audio.
ApplyRun(run, ledger, pending, events) ==
  /\ run[0] = [ledger |-> ledger, pending |-> pending, rest |-> << >>]
  /\ \A i \in 1 .. Len(events) : run[i] = ApplyEvent(run[i - 1], events[i])
  /\ ApplyEvents(ledger, pending, events) = run[Len(events)]

\* The loop over the events has a run, and its last state is the result.
LEMMA ApplyRuns ==
  ASSUME NEW Units, NEW ledger \in Ledger, NEW pending \in Seq(Units),
         NEW events \in Seq(Events(Units))
  PROVE  \E run \in [0 .. Len(events) -> Applied(Units)] :
           ApplyRun(run, ledger, pending, events)
<1> DEFINE N == Len(events)
           base == [ledger |-> ledger, pending |-> pending, rest |-> << >>]
           turn == [i \in 1 .. N |-> [a \in Applied(Units) |-> ApplyEvent(a, events[i])]]
           Loop(run) == run = [i \in 0 .. N |->
                          IF i = 0 THEN base ELSE ApplyEvent(run[i - 1], events[i])]
           after == CHOOSE run : Loop(run)
<1>1. N \in Nat  OBVIOUS
<1>2. base \in Applied(Units)
  <2>1. << >> \in Seq(Events(Units))  OBVIOUS
  <2> QED  BY <2>1 DEF Applied
<1>3. \A i \in 1 .. N : events[i] \in Events(Units)
  OBVIOUS
<1>4. turn \in [1 .. N -> [Applied(Units) -> Applied(Units)]]
  BY <1>3, EventIsApplied
<1>5. PICK f \in [0 .. N -> Applied(Units)] : IsRun(f, N, base, turn)
  <2> HIDE DEF N, base, turn
  <2> QED  BY <1>1, <1>2, <1>4, LoopHasRun, Zenon
<1>6. Loop(f)
  <2> HIDE DEF base, N
  <2>1. \A i \in 1 .. N : f[i] = ApplyEvent(f[i - 1], events[i])
    <3>1. TAKE i \in 1 .. N
    <3>2. i - 1 \in 0 .. N  BY <1>1
    <3>3. f[i - 1] \in Applied(Units)  BY <3>2
    <3>4. turn[i] = [a \in Applied(Units) |-> ApplyEvent(a, events[i])]
      OBVIOUS
    <3> QED  BY <1>5, <3>3, <3>4 DEF IsRun
  <2>2. \A i \in 0 .. N : i = 0 \/ i \in 1 .. N  BY <1>1
  <2> HIDE DEF turn
  <2>3. f = [i \in 0 .. N |-> IF i = 0 THEN base ELSE ApplyEvent(f[i - 1], events[i])]
    BY <2>1, <2>2, <1>5 DEF IsRun
  <2> QED  BY <2>3
<1>7. Loop(after)
  <2> HIDE DEF Loop
  <2> QED  BY <1>6
<1>8. ApplyEvents(ledger, pending, events) = after[N]
  BY DEF ApplyEvents
<1>9. after[0] = base /\ \A i \in 1 .. N : after[i] = ApplyEvent(after[i - 1], events[i])
  <2> HIDE DEF after, base, N
  <2> QED  BY <1>7, <1>1
<1>10. DOMAIN after = 0 .. N /\ after = [i \in 0 .. N |-> after[i]]
  <2> HIDE DEF after, base, N
  <2> QED  BY <1>7
<1>11. \A i \in 0 .. N : after[i] \in Applied(Units)
  <2> DEFINE P == {n \in Nat : n <= N => after[n] \in Applied(Units)}
  <2> HIDE DEF after, base, N, Loop, turn
  <2>1. 0 \in P  BY <1>9, <1>1, <1>2
  <2>2. ASSUME NEW n \in Nat, n \in P  PROVE n + 1 \in P
    <3>1. CASE n + 1 <= N
      <4>1. n + 1 \in 1 .. N /\ (n + 1) - 1 = n  BY <3>1, <1>1
      <4>2. after[n + 1] = ApplyEvent(after[n], events[n + 1])
        BY <1>9, <4>1
      <4>3. after[n] \in Applied(Units)  BY <2>2, <3>1, <1>1
      <4>4. events[n + 1] \in Events(Units)  BY <4>1, <1>3
      <4>5. ApplyEvent(after[n], events[n + 1]) \in Applied(Units)
        BY <4>3, <4>4, EventIsApplied
      <4> QED  BY <4>2, <4>5
    <3>2. CASE ~(n + 1 <= N)  BY <3>2
    <3> QED  BY <3>1, <3>2
  <2>3. \A n \in Nat : n \in P
    <3> HIDE DEF P
    <3> QED  BY <2>1, <2>2, NatSetInduction
  <2> QED  BY <2>3, <1>1
<1>12. after \in [0 .. N -> Applied(Units)]
  <2> HIDE DEF after, base, N, Loop, turn
  <2> QED  BY <1>10, <1>11
<1> HIDE DEF after
<1>13. ApplyRun(after, ledger, pending, events)  BY <1>8, <1>9 DEF ApplyRun
<1> QED  BY <1>12, <1>13

=============================================================================
