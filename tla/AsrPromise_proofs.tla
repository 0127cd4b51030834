-------------------------- MODULE AsrPromise_proofs --------------------------
(***************************************************************************)
(* Proofs about AsrSession: its ledger, what a final promises, and the one *)
(* transcript of a stop.                                                   *)
(***************************************************************************)
EXTENDS AsrSession_proofs, FiniteSetTheorems

-----------------------------------------------------------------------------
(***************************************************************************)
(* A frozen ledger, from step to step of a world.                          *)
(***************************************************************************)

\* m claims nothing that l, once frozen, did not.
StaysFrozen(l, m) == l.frozen => m.frozen /\ m.covered = l.covered

LEMMA MethodsStayFrozen ==
  ASSUME NEW l \in Ledger, NEW n \in Nat, NEW replayed \in BOOLEAN
  PROVE  /\ StaysFrozen(l, NoteSilence(l, n)) /\ StaysFrozen(l, NoteSpeech(l, n, replayed))
         /\ StaysFrozen(l, CommitSegment(l)) /\ StaysFrozen(l, DiscardSegment(l))
BY LedgerMethods DEF StaysFrozen

\* However many events are applied, by induction over the loop.
LEMMA EventsStayFrozen ==
  ASSUME NEW l \in Ledger, NEW pending \in Audio, NEW events \in Seq(Events(Units))
  PROVE  StaysFrozen(l, ApplyEvents(l, pending, events).ledger)
<1> DEFINE N == Len(events)
<1>1. PICK run \in [0 .. N -> Applied(Units)] : ApplyRun(run, l, pending, events)
  <2>1. pending \in Seq(Units)  BY DEF Audio
  <2> QED  BY <2>1, ApplyRuns, Zenon
<1>2. N \in Nat /\ \A i \in 1 .. N : events[i] \in Events(Units)  BY LenProperties
<1> DEFINE P == {n \in Nat : n <= N => StaysFrozen(l, run[n].ledger)}
<1>3. 0 \in P
  <2>1. run[0].ledger = l  BY <1>1 DEF ApplyRun
  <2> QED  BY <2>1 DEF StaysFrozen
<1>4. ASSUME NEW n \in Nat, n \in P  PROVE n + 1 \in P
  <2> SUFFICES ASSUME n + 1 <= N  PROVE StaysFrozen(l, run[n + 1].ledger)
    OBVIOUS
  <2> DEFINE a == run[n]
             e == events[n + 1]
  <2>1. /\ n + 1 \in 1 .. N /\ n \in 0 .. N /\ (n + 1) - 1 = n
        /\ StaysFrozen(l, a.ledger)
    BY <1>2, <1>4
  <2>2. run[n + 1] = ApplyEvent(a, e)
    <3>1. \A i \in 1 .. N : run[i] = ApplyEvent(run[i - 1], events[i])  BY <1>1 DEF ApplyRun
    <3> HIDE DEF N
    <3> QED  BY <2>1, <3>1
  <2>3. a \in Applied(Units) /\ e \in Events(Units)  BY <1>2, <2>1
  <2> HIDE DEF a, e
  <2>4. /\ a.ledger \in Ledger
        /\ e.kind \in {"audio", "silence", "boundary"} /\ Len(e.audio) \in Nat
        /\ e.replayed \in BOOLEAN
    BY <2>3 DEF Applied, Events
  <2>5. \/ run[n + 1].ledger = a.ledger
        \/ run[n + 1].ledger = NoteSilence(a.ledger, Len(e.audio))
        \/ run[n + 1].ledger = NoteSpeech(a.ledger, Len(e.audio), e.replayed)
    <3> DEFINE b == ApplyEvent(a, e)
    <3>1. /\ a.rest # << >> => b.ledger = a.ledger
          /\ a.rest = << >> /\ e.kind = "silence" =>
               b.ledger = NoteSilence(a.ledger, Len(e.audio))
          /\ a.rest = << >> /\ e.kind = "audio" =>
               b.ledger = NoteSpeech(a.ledger, Len(e.audio), e.replayed)
          /\ a.rest = << >> /\ e.kind = "boundary" => b.ledger = a.ledger
      BY <2>3, EventIsApplied
    <3> HIDE DEF b
    <3> QED  BY <2>2, <2>4, <3>1 DEF b
  <2>6. StaysFrozen(a.ledger, run[n + 1].ledger)
    <3>1. /\ StaysFrozen(a.ledger, NoteSilence(a.ledger, Len(e.audio)))
          /\ StaysFrozen(a.ledger, NoteSpeech(a.ledger, Len(e.audio), e.replayed))
      BY <2>4, MethodsStayFrozen
    <3> QED  BY <2>5, <3>1 DEF StaysFrozen
  <2> QED  BY <2>1, <2>6 DEF StaysFrozen
<1>5. \A n \in Nat : n \in P
  <2> HIDE DEF P
  <2> QED  BY <1>3, <1>4, NatSetInduction
<1>6. StaysFrozen(l, run[N].ledger)  BY <1>2, <1>5
<1> QED  BY <1>1, <1>6 DEF ApplyRun

\* What leaves the ledger alone.
LEMMA LedgerIsKept ==
  ASSUME NEW w \in Worlds, NEW due, NEW text, NEW p
  PROVE  /\ Background(w, due).l = w.l
         /\ [w EXCEPT !.k.phase = p].l = w.l
         /\ AfterRaw(w, text).l = w.l
         /\ \A tail, t : AfterTail(w, tail, t).l = w.l
         /\ SealTail(w).l = w.l
         /\ Seal(w).l = w.l
<1>1. MaybeSendPartial(w, due).l = w.l /\ DOMAIN MaybeSendPartial(w, due) = {"k", "l", "j", "jobs"}
  BY DEF MaybeSendPartial, Worlds
<1>2. Background(w, due).l = w.l
  <2> DEFINE v == MaybeSendPartial(w, due)
  <2> HIDE DEF v
  <2>1. v.l = w.l /\ DOMAIN v = {"k", "l", "j", "jobs"}  BY <1>1 DEF v
  <2>2. MaybeCommitStablePrefix(v).l = v.l  BY <2>1 DEF MaybeCommitStablePrefix
  <2> QED  BY <2>1, <2>2 DEF Background, v
<1>3. [w EXCEPT !.k.phase = p].l = w.l  BY DEF Worlds
<1>4. \A t, through, read : Answer(w, t, through, read).l = w.l  BY DEF Answer, Worlds
<1>5. AfterRaw(w, text).l = w.l  BY <1>4 DEF AfterRaw
<1>6. \A tail, t : AfterTail(w, tail, t).l = w.l
  <2>1. [w EXCEPT !.k.phase = "raw", !.jobs = Append(@, "raw")].l = w.l  BY DEF Worlds
  <2> QED  BY <1>4, <2>1 DEF AfterTail
<1>7. SealTail(w).l = w.l
  <2>1. [w EXCEPT !.k.phase = "tail", !.jobs = Append(@, "tail")].l = w.l  BY DEF Worlds
  <2> QED  BY <1>6, <2>1 DEF SealTail
<1>8. Seal(w).l = w.l
  <2>1. [w EXCEPT !.k.phase = "seal"].l = w.l  BY DEF Worlds
  <2> QED  BY <1>7, <2>1 DEF Seal
<1> QED  BY <1>2, <1>3, <1>5, <1>6, <1>7, <1>8

\* The last segment is kept or rejected.
LEMMA TailLedger ==
  ASSUME NEW w, NEW busy, Calm(w, busy)
  PROVE  /\ AcceptFinalTail(w).l = CommitSegment(w.l)
         /\ RejectFinalTail(w).l = DiscardSegment(w.l)
         /\ DecideTail(w).l = w.l \/ DecideTail(w).l = CommitSegment(w.l)
<1>1. w \in Worlds  BY CalmWorld
<1>2. AcceptFinalTail(w).l = CommitSegment(w.l)
  <2> DEFINE kept == KeepSegment(w)
             synced == Sync(kept)
             v == ClearPending(synced)
  <2>1. AcceptFinalTail(w) = Seal(v)
    BY Zenon DEF AcceptFinalTail, KeepSegment, ClearPending
  <2>2. kept.l = CommitSegment(w.l)  BY <1>1 DEF KeepSegment, Worlds
  <2> HIDE DEF kept
  <2>3. Calm(kept, busy)  BY KeepSegmentKeeps DEF kept
  <2>4. kept \in Worlds  BY <2>3, CalmWorld
  <2>5. synced.l = kept.l /\ Calm(synced, busy)  BY <2>3, <2>4, SyncCopies, CalmSync
  <2> HIDE DEF synced
  <2>6. synced \in Worlds /\ v \in Worlds  BY <2>5, CalmWorld, ClearPendingKeeps
  <2>7. v.l = synced.l  BY <2>6 DEF ClearPending, Worlds
  <2> HIDE DEF v
  <2>8. Seal(v).l = v.l  BY <2>6, LedgerIsKept
  <2> QED  BY <2>1, <2>2, <2>5, <2>7, <2>8
<1>3. RejectFinalTail(w).l = DiscardSegment(w.l)
  <2> DEFINE dropped == [w EXCEPT !.l = DiscardSegment(@)]
             v == ClearPending(dropped)
  <2>1. RejectFinalTail(w) = Seal(v)
    BY <1>1 DEF RejectFinalTail, ClearPending, Worlds
  <2>2. dropped.l = DiscardSegment(w.l)  BY <1>1 DEF Worlds
  <2>3. Calm(dropped, busy)  BY DropSegmentKeeps
  <2> HIDE DEF dropped
  <2>4. dropped \in Worlds /\ v \in Worlds  BY <2>3, CalmWorld, ClearPendingKeeps
  <2>5. v.l = dropped.l  BY <2>4 DEF ClearPending, Worlds
  <2> HIDE DEF v
  <2>6. Seal(v).l = v.l  BY <2>4, LedgerIsKept
  <2> QED  BY <2>1, <2>2, <2>5, <2>6
<1>4. [w EXCEPT !.k.phase = "tailEmbed"].l = w.l /\ Seal(w).l = w.l
  BY <1>1, LedgerIsKept
<1> QED  BY <1>2, <1>3, <1>4 DEF DecideTail

\* From the coverage wait to the next await of the stop handler.
LEMMA FlushStaysFrozen ==
  ASSUME NEW w, NEW busy, Calm(w, busy)
  PROVE  StaysFrozen(w.l, FlushStaging(w).l)
<1> DEFINE flushed == IF w.k.staging = << >> THEN w ELSE Flushed(w)
<1>1. w \in Worlds /\ w.k \in Locals /\ w.l \in Ledger  BY CalmWorld
<1>2. Calm(flushed, busy)  BY FlushedKeeps
<1>3. FlushStaging(w) = IF flushed.k.partial # None /\ FINAL_WAIT_PARTIAL
                        THEN [flushed EXCEPT !.k.phase = "waitPartial"]
                        ELSE DecideTail(flushed)
  BY DEF FlushStaging, Flushed
<1>4. StaysFrozen(w.l, flushed.l)
  <2>1. Flushed(w).l = NoteSpeech(w.l, Len(w.k.staging), FALSE)
    BY <1>1 DEF Flushed, Worlds
  <2>2. Len(w.k.staging) \in Nat  BY <1>1, AudioFacts
  <2>3. StaysFrozen(w.l, NoteSpeech(w.l, Len(w.k.staging), FALSE))
    BY <1>1, <2>2, MethodsStayFrozen
  <2> QED  BY <2>1, <2>3 DEF StaysFrozen
<1> HIDE DEF flushed
<1>5. flushed \in Worlds /\ flushed.l \in Ledger  BY <1>2, CalmWorld
<1>6. [flushed EXCEPT !.k.phase = "waitPartial"].l = flushed.l  BY <1>5, LedgerIsKept
<1>7. DecideTail(flushed).l \in {flushed.l, CommitSegment(flushed.l)}
  BY <1>2, TailLedger
<1>8. StaysFrozen(flushed.l, CommitSegment(flushed.l))
  BY <1>5, MethodsStayFrozen
<1> QED  BY <1>3, <1>4, <1>6, <1>7, <1>8 DEF StaysFrozen

LEMMA ContinueStaysFrozen ==
  ASSUME NEW w, NEW busy, NEW due, Calm(w, busy)
  PROVE  StaysFrozen(w.l, Continue(w, due).l)
<1> DEFINE v == [w EXCEPT !.k.phase = "receive"]
<1>1. w \in Worlds /\ w.k.then \in {"audio", "tick", "stop"}  BY CalmWorld DEF Locals
<1>2. v.l = w.l  BY <1>1, LedgerIsKept
<1>3. v \in Worlds
  <2>1. "receive" \in Phases \ {"unborn"}  BY DEF Phases
  <2>2. Calm(v, busy)  BY <2>1, PhaseKeeps
  <2> QED  BY <2>2, CalmWorld
<1>4. CASE w.k.then = "audio"
  <2>1. Continue(w, due) = Background(Sync(v), due)  BY <1>4 DEF Continue
  <2> HIDE DEF v
  <2>2. Sync(v) \in Worlds /\ Sync(v).l = v.l  BY <1>3, SyncCopies
  <2>3. Background(Sync(v), due).l = Sync(v).l  BY <2>2, LedgerIsKept
  <2> QED  BY <1>2, <2>1, <2>2, <2>3 DEF StaysFrozen
<1>5. CASE w.k.then = "tick"
  <2>1. Continue(w, due) = Background(v, due)  BY <1>5 DEF Continue
  <2> HIDE DEF v
  <2>2. Background(v, due).l = v.l  BY <1>3, LedgerIsKept
  <2> QED  BY <1>2, <2>1, <2>2 DEF StaysFrozen
<1>6. CASE w.k.then = "stop"
  BY <1>6, FlushStaysFrozen DEF Continue
<1> QED  BY <1>1, <1>4, <1>5, <1>6

\* The world once the events are applied, before it goes on.
AppliedWorld(w, events) ==
  LET a == ApplyEvents(w.l, w.k.pending, events)
  IN  [w EXCEPT !.l = a.ledger, !.k.pending = a.pending, !.k.events = a.rest]

LEMMA AppliedIs ==
  ASSUME NEW w, NEW busy, NEW due, Calm(w, busy), NEW events \in Seq(Events(Units))
  PROVE  LET a == ApplyEvents(w.l, w.k.pending, events)
             v == AppliedWorld(w, events)
         IN  /\ Calm(v, busy)
             /\ v.k = [w.k EXCEPT !.pending = a.pending, !.events = a.rest]
             /\ v.l = a.ledger /\ v.j = w.j
             /\ Apply(w, events, due) = IF a.rest # << >> THEN [v EXCEPT !.k.phase = "embed"]
                                        ELSE Continue(v, due)
<1> DEFINE a == ApplyEvents(w.l, w.k.pending, events)
           k == [w.k EXCEPT !.pending = a.pending, !.events = a.rest]
           v == AppliedWorld(w, events)
<1>1. w \in Worlds /\ w.k \in Locals /\ w.l \in Ledger /\ PhaseInv(w.k)
  BY CalmWorld
<1>2. a.ledger \in Ledger /\ a.pending \in Audio /\ a.rest \in Seq(Events(Units))
  BY <1>1, EventsAreApplied, AudioFacts
<1>3. Apply(w, events, due) = IF a.rest # << >> THEN [v EXCEPT !.k.phase = "embed"]
                              ELSE Continue(v, due)
  BY DEF Apply, AppliedWorld
<1>4. v = [w EXCEPT !.k = k, !.l = a.ledger]  BY DEF AppliedWorld
<1> HIDE DEF a, v
<1>5. k \in Locals  BY <1>1, <1>2, ZenonT(60) DEF Locals
<1>6. /\ k.gated = w.k.gated
      /\ k.stable_text = w.k.stable_text /\ k.stable_bytes = w.k.stable_bytes
      /\ k.commit = w.k.commit /\ k.partial = w.k.partial /\ k.journal = w.k.journal
      /\ k.phase = w.k.phase /\ k.answer = w.k.answer
  BY <1>1 DEF Locals
<1> HIDE DEF k
<1>7. SameWaits(k, w.k) /\ SamePrefix(k, w.k) /\ PhaseInv(k)
  BY <1>1, <1>6 DEF SameWaits, SamePrefix, PhaseInv
<1>8. Calm(v, busy) /\ v.k = k
  BY <1>2, <1>4, <1>5, <1>7, CalmUpdate, ZenonT(60)
<1>9. v.l = a.ledger /\ v.j = w.j  BY <1>1, <1>4 DEF Worlds
<1> QED  BY <1>3, <1>8, <1>9 DEF k, a, v

LEMMA ApplyStaysFrozen ==
  ASSUME NEW w, NEW busy, NEW due, Calm(w, busy), NEW events \in Seq(Events(Units))
  PROVE  StaysFrozen(w.l, Apply(w, events, due).l)
<1> DEFINE a == ApplyEvents(w.l, w.k.pending, events)
           v == AppliedWorld(w, events)
<1>1. w.l \in Ledger /\ w.k.pending \in Audio  BY CalmWorld, AudioFacts
<1>2. StaysFrozen(w.l, a.ledger)  BY <1>1, EventsStayFrozen
<1>3. /\ Calm(v, busy) /\ v.l = a.ledger
      /\ Apply(w, events, due) = IF a.rest # << >> THEN [v EXCEPT !.k.phase = "embed"]
                                 ELSE Continue(v, due)
  BY AppliedIs
<1> HIDE DEF a, v
<1>4. [v EXCEPT !.k.phase = "embed"].l = v.l  BY <1>3, CalmWorld, LedgerIsKept
<1>5. StaysFrozen(v.l, Continue(v, due).l)  BY <1>3, ContinueStaysFrozen
<1> QED  BY <1>2, <1>3, <1>4, <1>5 DEF StaysFrozen

\* The world once its staged audio is gated, before the events are applied.
GatedWorld(w, then) ==
  LET g == ProcessStagedAudio(w.k.staging, w.k.prev, w.k.gate, speech)
  IN  [w EXCEPT !.k = [w.k EXCEPT !.staging = Leftover(w.k.staging),
                                  !.prev = g.prev, !.gate = g.gate,
                                  !.then = then]]

LEMMA GatedIs ==
  ASSUME NEW w, NEW busy, NEW due, Calm(w, busy), NEW then \in {"audio", "tick", "stop"}
  PROVE  LET g == ProcessStagedAudio(w.k.staging, w.k.prev, w.k.gate, speech)
             v == GatedWorld(w, then)
         IN  /\ Calm(v, busy) /\ g.events \in Seq(Events(Units))
             /\ v.k = [w.k EXCEPT !.staging = Leftover(w.k.staging), !.prev = g.prev,
                                  !.gate = g.gate, !.then = then]
             /\ v.l = w.l /\ v.j = w.j
             /\ Gate(w, then, due) = Apply(v, g.events, due)
<1> DEFINE g == ProcessStagedAudio(w.k.staging, w.k.prev, w.k.gate, speech)
           k == [w.k EXCEPT !.staging = Leftover(w.k.staging), !.prev = g.prev,
                            !.gate = g.gate, !.then = then]
           v == GatedWorld(w, then)
<1>1. w \in Worlds /\ w.k \in Locals /\ w.l \in Ledger /\ PhaseInv(w.k)
  BY CalmWorld
<1>2. w.k.staging \in Audio /\ w.k.prev \in Audio /\ w.k.gate \in Gates
  BY <1>1 DEF Locals
<1>3. g.prev \in Audio /\ g.gate \in Gates /\ g.events \in Seq(Events(Units))
  BY <1>2, GateIsPassed
<1>4. Leftover(w.k.staging) \in Audio  BY <1>2, LeftoverIsTheEnd DEF Audio
<1>5. Gate(w, then, due) = Apply(v, g.events, due)  BY DEF Gate, GatedWorld
<1>6. v = [w EXCEPT !.k = k]  BY DEF GatedWorld
<1> HIDE DEF g, v
<1>7. k \in Locals  BY <1>1, <1>3, <1>4, ZenonT(60) DEF Locals
<1>8. /\ k.gated = w.k.gated
      /\ k.stable_text = w.k.stable_text /\ k.stable_bytes = w.k.stable_bytes
      /\ k.commit = w.k.commit /\ k.partial = w.k.partial /\ k.journal = w.k.journal
      /\ k.phase = w.k.phase /\ k.answer = w.k.answer
  BY <1>1 DEF Locals
<1> HIDE DEF k
<1>9. v = [w EXCEPT !.k = k, !.l = w.l]  BY <1>1, <1>6 DEF Worlds
<1>10. SameWaits(k, w.k) /\ SamePrefix(k, w.k) /\ PhaseInv(k)
  BY <1>1, <1>8 DEF SameWaits, SamePrefix, PhaseInv
<1>11. Calm(v, busy) /\ v.k = k
  BY <1>1, <1>7, <1>9, <1>10, CalmUpdate, ZenonT(60)
<1>12. v.l = w.l /\ v.j = w.j  BY <1>1, <1>6 DEF Worlds
<1> QED  BY <1>3, <1>5, <1>11, <1>12 DEF k, g, v

LEMMA GateStaysFrozen ==
  ASSUME NEW w, NEW busy, NEW due, Calm(w, busy), NEW then \in {"audio", "tick", "stop"}
  PROVE  StaysFrozen(w.l, Gate(w, then, due).l)
<1> DEFINE g == ProcessStagedAudio(w.k.staging, w.k.prev, w.k.gate, speech)
           v == GatedWorld(w, then)
<1>1. /\ Calm(v, busy) /\ g.events \in Seq(Events(Units)) /\ v.l = w.l
      /\ Gate(w, then, due) = Apply(v, g.events, due)
  <2>1. Gate(w, then, due) = Apply(v, g.events, due)  BY DEF Gate, GatedWorld
  <2>2. Calm(v, busy)  BY GatedIs
  <2>3. g.events \in Seq(Events(Units))  BY GatedIs
  <2>4. v.l = w.l  BY GatedIs
  <2> QED  BY <2>1, <2>2, <2>3, <2>4
<1> HIDE DEF g, v
<1>2. StaysFrozen(v.l, Apply(v, g.events, due).l)  BY <1>1, ApplyStaysFrozen
<1> QED  BY <1>1, <1>2

-----------------------------------------------------------------------------
(***************************************************************************)
(* Every step leaves every frozen ledger as it is.                         *)
(***************************************************************************)

FrozenStep ==
  \A c \in Conns : ledgers[c].frozen =>
    ledgers'[c].frozen /\ ledgers'[c].covered = ledgers[c].covered

LEMMA BecomeStaysFrozen ==
  ASSUME IInv, NEW c \in Conns, conns[c].phase # "unborn", NEW w, NEW q, Become(c, w, q),
         StaysFrozen(World(c).l, w.l)
  PROVE  FrozenStep
<1>1. ledgers \in [Conns -> Ledger]  BY DEF IInv, TypeOK
<1>2. ledgers' = [ledgers EXCEPT ![conns[c].ledger] = w.l]
      /\ World(c).l = ledgers[conns[c].ledger]
  BY DEF Become, World
<1> QED  BY <1>1, <1>2 DEF FrozenStep, StaysFrozen

LEMMA SocketFreezes ==
  ASSUME IInv, NEW c \in Conns,
         \/ \E s \in Seqs : AudioFrame(c, s) \/ LateFrame(c, s)
         \/ FrameAcked(c) \/ ReceiveTimesOut(c) \/ CoverageWaitEnds(c)
  PROVE  FrozenStep
<1> DEFINE w == World(c)
<1>1. conns[c].phase \in {"receive", "ack", "coverage"}
  BY DEF AudioFrame, Receiving, LateFrame, FrameAcked, ReceiveTimesOut, CoverageWaitEnds
<1>2. Calm(w, Busy(c, gpu)) /\ w.k = conns[c]  BY <1>1, QueueIsQueue, WorldIs
<1> HIDE DEF w
<1>3. ASSUME NEW s \in Seqs, AudioFrame(c, s)  PROVE FrozenStep
  <2> DEFINE v == Acked(w, s, IF s \in w.j.chunks THEN None ELSE s)
  <2>1. Become(c, v, gpu)  BY <1>3 DEF AudioFrame, Acked, w
  <2>2. v.l = w.l  BY <1>2, CalmWorld DEF Acked, Accept, Worlds
  <2> HIDE DEF v
  <2> QED  BY <1>1, <2>1, <2>2, BecomeStaysFrozen DEF StaysFrozen, w
<1>4. ASSUME NEW s \in Seqs, LateFrame(c, s)  PROVE FrozenStep
  <2> DEFINE v == Late(w, s)
  <2>1. Become(c, v, gpu)  BY <1>4 DEF LateFrame, Late, w
  <2>2. v.l = w.l  BY <1>2, LateKeeps
  <2> HIDE DEF v
  <2> QED  BY <1>1, <2>1, <2>2, BecomeStaysFrozen DEF StaysFrozen, w
<1>5. CASE FrameAcked(c)
  <2> DEFINE s == conns[c].frame
             v == Buffered(w, s, None)
  <2>1. PICK due \in Due : Become(c, Gate(v, "audio", due), gpu)
    BY <1>5 DEF FrameAcked, Buffered, w
  <2>2. s \in Seqs
    <3>1. conns[c] \in Locals /\ s # None  BY <1>5 DEF IInv, TypeOK, FrameAcked
    <3> QED  BY <3>1 DEF Locals
  <2>3. v.l = w.l  BY <1>2, CalmWorld DEF Buffered, Worlds
  <2>4. Calm(v, Busy(c, gpu))  BY <1>2, <2>2, BufferedKeeps
  <2> HIDE DEF v
  <2>5. StaysFrozen(v.l, Gate(v, "audio", due).l)  BY <2>4, GateStaysFrozen
  <2> QED  BY <1>1, <2>1, <2>3, <2>5, BecomeStaysFrozen DEF w
<1>6. CASE ReceiveTimesOut(c)
  <2>1. PICK due \in Due : Become(c, Gate(w, "tick", due), gpu)
    BY <1>6 DEF ReceiveTimesOut, w
  <2>2. StaysFrozen(w.l, Gate(w, "tick", due).l)  BY <1>2, GateStaysFrozen
  <2> QED  BY <1>1, <2>1, <2>2, BecomeStaysFrozen DEF w
<1>7. CASE CoverageWaitEnds(c)
  <2> DEFINE complete == ~ShortOfCaptured(c)
             v == [w EXCEPT !.k.complete = complete]
  <2>1. Become(c, Gate(v, "stop", FALSE), gpu)  BY <1>7 DEF CoverageWaitEnds, w
  <2>2. complete \in BOOLEAN  OBVIOUS
  <2> HIDE DEF complete
  <2>3. Calm(v, Busy(c, gpu))  BY <1>2, <2>2, CompleteKeeps
  <2>4. v.l = w.l  BY <1>2, CalmWorld DEF Worlds
  <2> HIDE DEF v
  <2>5. StaysFrozen(v.l, Gate(v, "stop", FALSE).l)  BY <2>3, GateStaysFrozen
  <2> QED  BY <1>1, <2>1, <2>4, <2>5, BecomeStaysFrozen DEF w
<1> QED  BY <1>3, <1>4, <1>5, <1>6, <1>7

LEMMA StopFreezes ==
  ASSUME IInv, NEW c \in Conns,
         \/ \E e \in Embeddings : SpeakerChecked(c, e) \/ TailSpeakerChecked(c, e)
         \/ PartialAwaited(c) \/ BackgroundAwaited(c)
  PROVE  FrozenStep
<1> DEFINE w == World(c)
<1>1. conns[c].phase \in {"embed", "tailEmbed", "waitPartial", "seal"}
  BY DEF SpeakerChecked, TailSpeakerChecked, PartialAwaited, BackgroundAwaited
<1>2. Calm(w, Busy(c, gpu)) /\ w.k = conns[c]  BY <1>1, QueueIsQueue, WorldIs
<1> HIDE DEF w
<1>3. w \in Worlds /\ w.l \in Ledger /\ w.k \in Locals  BY <1>2, CalmWorld
<1>4. StaysFrozen(w.l, CommitSegment(w.l)) /\ StaysFrozen(w.l, DiscardSegment(w.l))
      /\ StaysFrozen(w.l, w.l)
  BY <1>3, MethodsStayFrozen DEF StaysFrozen
<1>5. ASSUME NEW e \in Embeddings, SpeakerChecked(c, e)  PROVE FrozenStep
  <2> DEFINE accept == e # "other" \/ ~w.k.enrolled
             enrolled == w.k.enrolled \/ e # "none"
             v == Decided(w, accept, enrolled)
             rest == Tail(w.k.events)
  <2>1. PICK due \in Due : Become(c, Apply(v, rest, due), gpu)
    BY <1>5 DEF SpeakerChecked, Decided, w
  <2>2. rest \in Seq(Events(Units))
    <3>1. w.k.events \in Seq(Events(Units))  BY <1>3 DEF Locals
    <3>2. EmbedInv(conns[c])  BY DEF IInv
    <3>3. w.k.events # << >>  BY <1>2, <1>5, <3>2 DEF EmbedInv, SpeakerChecked
    <3> QED  BY <3>1, <3>3, HeadTailProperties
  <2>3. accept \in BOOLEAN /\ enrolled \in BOOLEAN  OBVIOUS
  <2> HIDE DEF accept, enrolled, rest
  <2>4. Calm(v, Busy(c, gpu)) /\ v.l = IF accept THEN CommitSegment(w.l) ELSE DiscardSegment(w.l)
    BY <1>2, <2>3, DecidedKeeps
  <2> HIDE DEF v
  <2>5. StaysFrozen(v.l, Apply(v, rest, due).l)  BY <2>2, <2>4, ApplyStaysFrozen
  <2>6. StaysFrozen(w.l, Apply(v, rest, due).l)  BY <1>4, <2>4, <2>5 DEF StaysFrozen
  <2> QED  BY <1>1, <2>1, <2>6, BecomeStaysFrozen DEF w
<1>6. ASSUME NEW e \in Embeddings, TailSpeakerChecked(c, e)  PROVE FrozenStep
  <2>1. \/ Become(c, RejectFinalTail(w), gpu)
        \/ Become(c, AcceptFinalTail(w), gpu)
    BY <1>6 DEF TailSpeakerChecked, w
  <2>2. /\ AcceptFinalTail(w).l = CommitSegment(w.l)
        /\ RejectFinalTail(w).l = DiscardSegment(w.l)
    BY <1>2, TailLedger
  <2> QED  BY <1>1, <1>4, <2>1, <2>2, BecomeStaysFrozen DEF w
<1>7. CASE PartialAwaited(c)
  <2>1. Become(c, DecideTail(w), gpu)  BY <1>7 DEF PartialAwaited, w
  <2>2. DecideTail(w).l = w.l \/ DecideTail(w).l = CommitSegment(w.l)  BY <1>2, TailLedger
  <2> QED  BY <1>1, <1>4, <2>1, <2>2, BecomeStaysFrozen DEF w
<1>8. CASE BackgroundAwaited(c)
  <2>1. Become(c, SealTail(w), gpu)  BY <1>8 DEF BackgroundAwaited, w
  <2>2. SealTail(w).l = w.l  BY <1>3, LedgerIsKept
  <2> QED  BY <1>1, <1>4, <2>1, <2>2, BecomeStaysFrozen DEF w
<1> QED  BY <1>5, <1>6, <1>7, <1>8

\* A decode that ends leaves the ledger alone.
LEMMA DecodeFreezes ==
  ASSUME IInv, NEW c \in Conns, NEW outcome,
         \/ CommitDecoded(c, outcome) \/ PartialDecoded(c, outcome)
         \/ TailDecoded(c, outcome) \/ RawDecoded(c, outcome) \/ PartialSent(c)
  PROVE  FrozenStep
<1> DEFINE w == World(c)
<1>1. conns[c].phase # "unborn"
  <2>1. conns[c].commit # None \/ conns[c].partial # None \/ conns[c].phase \in {"tail", "raw"}
    BY RunningIs DEF CommitDecoded, PartialDecoded, TailDecoded, RawDecoded, PartialSent, Waits
  <2> QED  BY <2>1 DEF IInv, LocalsInv
<1>2. w.k = conns[c] /\ w \in Worlds  BY <1>1, QueueIsQueue, WorldIs DEF WorldInv, WorldCore
<1> HIDE DEF w
<1>3. SUFFICES ASSUME NEW v, NEW q, Become(c, v, q), v.l = w.l  PROVE FrozenStep
  <2>1. CASE CommitDecoded(c, outcome)
    <3> DEFINE u == [w EXCEPT !.k.commit = None]
               v == Committed(u, w.k.commit, outcome)
    <3>1. Become(c, v, Tail(gpu))  BY <1>2, <2>1 DEF CommitDecoded, w
    <3>2. v.l = w.l  BY <1>2 DEF Committed, Sync, Worlds
    <3> HIDE DEF v
    <3> QED  BY <3>1, <3>2, <1>3
  <2>2. CASE PartialDecoded(c, outcome)
    <3> DEFINE t == w.k.partial
               text == Decoded(t.audio, outcome)
               shown == t.prefix \o text
               d == [at |-> t.at, audio |-> t.audio, text |-> text]
               over == Over(w, t)
               sending == Sending(w, shown)
    <3>1. \/ Become(c, over, Tail(gpu))
          \/ Become(c, [over EXCEPT !.k.partial_decode = d], Tail(gpu))
          \/ Become(c, sending, Tail(gpu))
          \/ Become(c, [sending EXCEPT !.k.partial_decode = d], Tail(gpu))
      BY <2>2 DEF PartialDecoded, Over, Sending, w
    <3> HIDE DEF d, shown
    <3>2. over.l = w.l /\ sending.l = w.l /\ "l" \in DOMAIN over /\ "l" \in DOMAIN sending
      BY <1>2 DEF Over, Sending, Worlds
    <3> HIDE DEF over, sending
    <3>3. /\ [over EXCEPT !.k.partial_decode = d].l = w.l
          /\ [sending EXCEPT !.k.partial_decode = d].l = w.l
      BY <3>2
    <3> QED  BY <3>1, <3>2, <3>3, <1>3
  <2>3. CASE TailDecoded(c, outcome)
    <3> DEFINE tail == UnsealedTail(w.k)
               text == Decoded(tail, outcome)
               closed == [w EXCEPT !.k.phase = "closed"]
               v == IF outcome = "unavailable" THEN closed ELSE AfterTail(w, tail, text)
    <3>1. Become(c, v, Tail(gpu))  BY <2>3 DEF TailDecoded, w
    <3>2. closed.l = w.l /\ AfterTail(w, tail, text).l = w.l  BY <1>2, LedgerIsKept
    <3>3. v.l = w.l  BY <3>2
    <3> HIDE DEF v
    <3> QED  BY <3>1, <3>3, <1>3
  <2>4. CASE RawDecoded(c, outcome)
    <3> DEFINE text == Decoded(w.k.raw, outcome)
               closed == [w EXCEPT !.k.phase = "closed"]
               v == IF outcome = "unavailable" THEN closed ELSE AfterRaw(w, text)
    <3>1. Become(c, v, Tail(gpu))  BY <2>4 DEF RawDecoded, w
    <3>2. closed.l = w.l /\ AfterRaw(w, text).l = w.l  BY <1>2, LedgerIsKept
    <3>3. v.l = w.l  BY <3>2
    <3> HIDE DEF v
    <3> QED  BY <3>1, <3>3, <1>3
  <2>5. CASE PartialSent(c)
    <3> DEFINE t == w.k.partial
               told == [w EXCEPT !.k.last_partial = t.text]
    <3>1. Become(c, Over(Sync(told), t), gpu) \/ Become(c, Over(w, t), gpu)
      BY <2>5 DEF PartialSent, Over, w
    <3>2. told.l = w.l /\ DOMAIN told = {"k", "l", "j", "jobs"}  BY <1>2 DEF Worlds
    <3> HIDE DEF told
    <3>3. Sync(told).l = w.l /\ DOMAIN Sync(told) = {"k", "l", "j", "jobs"}
      BY <3>2 DEF Sync
    <3>4. Over(Sync(told), t).l = w.l /\ Over(w, t).l = w.l
      <4> DEFINE u == Sync(told)
      <4> HIDE DEF u
      <4>1. u.l = w.l /\ "l" \in DOMAIN u  BY <3>3 DEF u
      <4>2. "l" \in DOMAIN w  BY <1>2 DEF Worlds
      <4> QED  BY <4>1, <4>2 DEF Over, u
    <3> QED  BY <3>1, <3>4, <1>3
  <2> QED  BY <2>1, <2>2, <2>3, <2>4, <2>5
<1> QED  BY <1>1, <1>3, BecomeStaysFrozen DEF StaysFrozen, w

LEMMA OthersFreeze ==
  ASSUME UNCHANGED ledgers
  PROVE  FrozenStep
BY DEF FrozenStep

LEMMA NextFreezes ==
  ASSUME IInv, [Next]_vars
  PROVE  FrozenStep
<1>1. ASSUME NEW c \in Conns, Client(c)  PROVE FrozenStep
  BY <1>1, SocketFreezes, OthersFreeze
     DEF Client, Start, Resume, Create, Attach, SocketDies, StopReplayed, StopRefused, StopRequested
<1>2. ASSUME NEW c \in Conns, Server(c)  PROVE FrozenStep
  <2>1. CASE DuplicateAcked(c) \/ FinalSent(c)
    BY <2>1, OthersFreeze DEF DuplicateAcked, FinalSent
  <2>2. CASE FrameAcked(c) \/ CoverageWaitEnds(c)  BY <2>2, SocketFreezes
  <2>3. CASE PartialSent(c)  BY <2>3, DecodeFreezes
  <2>4. CASE \/ \E e \in Embeddings : SpeakerChecked(c, e) \/ TailSpeakerChecked(c, e)
             \/ PartialAwaited(c) \/ BackgroundAwaited(c)
    BY <2>4, StopFreezes
  <2> QED  BY <1>2, <2>1, <2>2, <2>3, <2>4 DEF Server
<1>3. ASSUME NEW c \in Conns, ReceiveTimesOut(c) \/ ConnectionEnds(c)  PROVE FrozenStep
  BY <1>3, SocketFreezes, OthersFreeze DEF ConnectionEnds
<1>4. ASSUME NEW j \in Journals, StopResultExpires(j)  PROVE FrozenStep
  BY <1>4, OthersFreeze DEF StopResultExpires
<1>5. CASE Gpu  BY <1>5, DecodeFreezes DEF Gpu
<1>6. CASE Finished \/ UNCHANGED vars  BY <1>6, OthersFreeze DEF Finished, vars
<1> QED  BY <1>1, <1>2, <1>3, <1>4, <1>5, <1>6 DEF Next

\* A rejected segment freezes the ledger for good: no later commit, silence or
\* resumed connection that shares it lets its claim grow again.
THEOREM FrozenLedgers == Spec => [][FrozenStep]_vars
<1>1. IInv /\ [Next]_vars => [FrozenStep]_vars
  BY NextFreezes
<1> QED  BY <1>1, SessionInvariant, PTL DEF Spec

-----------------------------------------------------------------------------
(***************************************************************************)
(* What a text says, and in which order.                                   *)
(***************************************************************************)

\* Two different units, and in the order of their numbers if chunks keep it.
Before(x, y) == x # y /\ ("reorder" \notin Allow => x < y)

\* Every unit of one set comes before every unit of the other.
AllBefore(S, T) == \A x \in S, y \in T : Before(x, y)

\* No unit twice, and in order.
Said(z) == \A i, n \in DOMAIN z : i < n => Before(z[i], z[n])

\* The units of a sequence are its elements.
LEMMA UnitsOf ==
  ASSUME NEW S, NEW z \in Seq(S)
  PROVE  /\ \A i \in 1 .. Len(z) : z[i] \in ToSet(z)
         /\ \A x \in ToSet(z) : \E i \in 1 .. Len(z) : z[i] = x
         /\ ToSet(z) \subseteq S /\ DOMAIN z = 1 .. Len(z) /\ Len(z) \in Nat
         /\ z = << >> <=> ToSet(z) = {}
<1>1. DOMAIN z = 1 .. Len(z) /\ Len(z) \in Nat /\ \A i \in 1 .. Len(z) : z[i] \in S
  OBVIOUS
<1>2. ToSet(z) = {z[i] : i \in 1 .. Len(z)}  BY <1>1 DEF ToSet
<1>3. z = << >> <=> Len(z) = 0  OBVIOUS
<1>4. Len(z) # 0 => 1 \in 1 .. Len(z)  BY <1>1
<1>5. Len(z) = 0 => 1 .. Len(z) = {}  BY <1>1
<1> QED  BY <1>1, <1>2, <1>3, <1>4, <1>5

\* The empty text says nothing.
LEMMA SaidNothing == Said(<< >>) /\ ToSet(<< >>) = {}
BY DEF Said, ToSet

\* Two texts said one after the other.
LEMMA SaidTogether ==
  ASSUME NEW S, NEW s \in Seq(S), NEW t \in Seq(S)
  PROVE  /\ s \o t \in Seq(S) /\ Len(s \o t) = Len(s) + Len(t)
         /\ ToSet(s \o t) = ToSet(s) \union ToSet(t)
         /\ Said(s) /\ Said(t) /\ AllBefore(ToSet(s), ToSet(t)) => Said(s \o t)
         /\ Said(s \o t) => Said(s) /\ Said(t) /\ AllBefore(ToSet(s), ToSet(t))
<1> DEFINE c == s \o t
<1>1. /\ c \in Seq(S) /\ Len(c) = Len(s) + Len(t)
      /\ DOMAIN c = 1 .. Len(s) + Len(t)
      /\ \A i \in 1 .. Len(s) : c[i] = s[i]
      /\ \A i \in Len(s) + 1 .. Len(s) + Len(t) : c[i] = t[i - Len(s)]
      /\ Len(s) \in Nat /\ Len(t) \in Nat
      /\ DOMAIN s = 1 .. Len(s) /\ DOMAIN t = 1 .. Len(t)
  BY ConcatIs, ConcatProperties, LenProperties
<1> HIDE DEF c
<1>2. \A i \in 1 .. Len(t) : c[i + Len(s)] = t[i]
  <2> TAKE i \in 1 .. Len(t)
  <2>1. i + Len(s) \in Len(s) + 1 .. Len(s) + Len(t) /\ i + Len(s) - Len(s) = i  BY <1>1
  <2> QED  BY <1>1, <2>1
<1>3. \A i \in 1 .. Len(s) + Len(t) :
        i \in 1 .. Len(s) \/ (i \in Len(s) + 1 .. Len(s) + Len(t) /\ i - Len(s) \in 1 .. Len(t))
  BY <1>1
<1>4. ToSet(c) = ToSet(s) \union ToSet(t)
  <2>1. ASSUME NEW x \in ToSet(c)  PROVE x \in ToSet(s) \union ToSet(t)
    <3>1. PICK i \in 1 .. Len(s) + Len(t) : c[i] = x  BY <1>1 DEF ToSet
    <3>2. CASE i \in 1 .. Len(s)
      BY <1>1, <3>1, <3>2 DEF ToSet
    <3>3. CASE i \in Len(s) + 1 .. Len(s) + Len(t) /\ i - Len(s) \in 1 .. Len(t)
      BY <1>1, <3>1, <3>3 DEF ToSet
    <3> QED  BY <1>3, <3>2, <3>3
  <2>2. ASSUME NEW x \in ToSet(s)  PROVE x \in ToSet(c)
    <3>1. PICK i \in 1 .. Len(s) : s[i] = x  BY <1>1 DEF ToSet
    <3>2. i \in 1 .. Len(s) + Len(t)  BY <1>1
    <3> QED  BY <1>1, <3>1, <3>2 DEF ToSet
  <2>3. ASSUME NEW x \in ToSet(t)  PROVE x \in ToSet(c)
    <3>1. PICK i \in 1 .. Len(t) : t[i] = x  BY <1>1 DEF ToSet
    <3>2. i + Len(s) \in 1 .. Len(s) + Len(t)  BY <1>1
    <3> QED  BY <1>1, <1>2, <3>1, <3>2 DEF ToSet
  <2> QED  BY <2>1, <2>2, <2>3
<1>5. ASSUME Said(s), Said(t), AllBefore(ToSet(s), ToSet(t))  PROVE Said(c)
  <2> SUFFICES ASSUME NEW i \in 1 .. Len(s) + Len(t), NEW n \in 1 .. Len(s) + Len(t), i < n
               PROVE  Before(c[i], c[n])
    BY <1>1 DEF Said
  <2>1. CASE i \in 1 .. Len(s) /\ n \in 1 .. Len(s)
    BY <1>1, <1>5, <2>1 DEF Said
  <2>2. CASE i \in 1 .. Len(s) /\ n \in Len(s) + 1 .. Len(s) + Len(t) /\ n - Len(s) \in 1 .. Len(t)
    <3>1. c[i] \in ToSet(s) /\ c[n] \in ToSet(t)  BY <1>1, <2>2 DEF ToSet
    <3> QED  BY <1>5, <3>1 DEF AllBefore
  <2>3. CASE i \in Len(s) + 1 .. Len(s) + Len(t) /\ n \in Len(s) + 1 .. Len(s) + Len(t)
    <3>1. i - Len(s) \in 1 .. Len(t) /\ n - Len(s) \in 1 .. Len(t) /\ i - Len(s) < n - Len(s)
      BY <1>1, <2>3
    <3>2. c[i] = t[i - Len(s)] /\ c[n] = t[n - Len(s)]  BY <1>1, <2>3
    <3> QED  BY <1>1, <1>5, <3>1, <3>2 DEF Said
  <2>4. ~(i \in Len(s) + 1 .. Len(s) + Len(t) /\ n \in 1 .. Len(s))  BY <1>1
  <2> QED  BY <1>3, <2>1, <2>2, <2>3, <2>4
<1>6. ASSUME Said(c)  PROVE Said(s) /\ Said(t) /\ AllBefore(ToSet(s), ToSet(t))
  <2>1. Said(s)
    <3> SUFFICES ASSUME NEW i \in 1 .. Len(s), NEW n \in 1 .. Len(s), i < n
                 PROVE  Before(s[i], s[n])
      BY <1>1 DEF Said
    <3>1. i \in DOMAIN c /\ n \in DOMAIN c  BY <1>1
    <3>2. Before(c[i], c[n])  BY <1>6, <3>1 DEF Said
    <3> QED  BY <1>1, <3>2
  <2>2. Said(t)
    <3> SUFFICES ASSUME NEW i \in 1 .. Len(t), NEW n \in 1 .. Len(t), i < n
                 PROVE  Before(t[i], t[n])
      BY <1>1 DEF Said
    <3>1. i + Len(s) \in DOMAIN c /\ n + Len(s) \in DOMAIN c /\ i + Len(s) < n + Len(s)
      BY <1>1
    <3>2. Before(c[i + Len(s)], c[n + Len(s)])  BY <1>6, <3>1 DEF Said
    <3> QED  BY <1>2, <3>2
  <2>3. AllBefore(ToSet(s), ToSet(t))
    <3> SUFFICES ASSUME NEW x \in ToSet(s), NEW y \in ToSet(t)  PROVE Before(x, y)
      BY DEF AllBefore
    <3>1. PICK i \in 1 .. Len(s) : s[i] = x  BY <1>1 DEF ToSet
    <3>2. PICK n \in 1 .. Len(t) : t[n] = y  BY <1>1 DEF ToSet
    <3>3. i \in DOMAIN c /\ n + Len(s) \in DOMAIN c /\ i < n + Len(s)  BY <1>1
    <3>4. Before(c[i], c[n + Len(s)])  BY <1>6, <3>3 DEF Said
    <3> QED  BY <1>1, <1>2, <3>1, <3>2, <3>4
  <2> QED  BY <2>1, <2>2, <2>3
<1> QED  BY <1>1, <1>4, <1>5, <1>6 DEF c

\* One unit more.
LEMMA SaidOneMore ==
  ASSUME NEW S, NEW s \in Seq(S), NEW x \in S
  PROVE  /\ Append(s, x) \in Seq(S) /\ Len(Append(s, x)) = Len(s) + 1
         /\ ToSet(Append(s, x)) = ToSet(s) \union {x}
         /\ Said(s) /\ AllBefore(ToSet(s), {x}) => Said(Append(s, x))
<1>1. <<x>> \in Seq(S) /\ Len(<<x>>) = 1 /\ <<x>>[1] = x /\ DOMAIN <<x>> = {1}  OBVIOUS
<1>2. Append(s, x) = s \o <<x>>
  <2>1. /\ Append(s, x) \in Seq(S) /\ Len(Append(s, x)) = Len(s) + 1
        /\ \A i \in 1 .. Len(s) : Append(s, x)[i] = s[i]
        /\ Append(s, x)[Len(s) + 1] = x /\ Len(s) \in Nat
    BY AppendProperties
  <2>2. /\ s \o <<x>> \in Seq(S) /\ Len(s \o <<x>>) = Len(s) + 1
        /\ \A i \in 1 .. Len(s) + 1 : (s \o <<x>>)[i] = IF i <= Len(s) THEN s[i] ELSE <<x>>[i - Len(s)]
    BY <1>1, ConcatProperties
  <2>3. \A i \in 1 .. Len(s) + 1 : i \in 1 .. Len(s) \/ i = Len(s) + 1  BY <2>1
  <2>4. \A i \in 1 .. Len(s) + 1 : Append(s, x)[i] = (s \o <<x>>)[i]
    <3> TAKE i \in 1 .. Len(s) + 1
    <3>1. CASE i \in 1 .. Len(s)  BY <2>1, <2>2, <3>1
    <3>2. CASE i = Len(s) + 1
      <4>1. ~(i <= Len(s)) /\ i - Len(s) = 1  BY <2>1, <3>2
      <4> QED  BY <1>1, <2>1, <2>2, <3>2, <4>1
    <3> QED  BY <2>3, <3>1, <3>2
  <2> QED  BY <2>1, <2>2, <2>4, SeqEqual
<1>3. Said(<<x>>) /\ ToSet(<<x>>) = {x}  BY <1>1 DEF Said, ToSet
<1> DEFINE t == <<x>>
<1>4. t \in Seq(S) /\ Len(t) = 1 /\ Said(t) /\ ToSet(t) = {x} /\ Append(s, x) = s \o t
  BY <1>1, <1>2, <1>3
<1> HIDE DEF t
<1>5. /\ s \o t \in Seq(S) /\ Len(s \o t) = Len(s) + Len(t)
      /\ ToSet(s \o t) = ToSet(s) \union ToSet(t)
      /\ Said(s) /\ Said(t) /\ AllBefore(ToSet(s), ToSet(t)) => Said(s \o t)
  BY <1>4, SaidTogether, ZenonT(60)
<1> QED  BY <1>4, <1>5

\* A stretch of a text.
LEMMA SaidStretch ==
  ASSUME NEW S, NEW z \in Seq(S), NEW m \in Nat, NEW n \in Nat, m <= n, n <= Len(z)
  PROVE  /\ SubSeq(z, m + 1, n) \in Seq(S) /\ Len(SubSeq(z, m + 1, n)) = n - m
         /\ ToSet(SubSeq(z, m + 1, n)) \subseteq ToSet(z)
         /\ Said(z) => Said(SubSeq(z, m + 1, n))
<1> DEFINE t == SubSeq(z, m + 1, n)
<1>1. Len(z) \in Nat /\ DOMAIN z = 1 .. Len(z) /\ \A i \in 1 .. Len(z) : z[i] \in S  OBVIOUS
<1>2. t \in Seq(S) /\ Len(t) = n - m /\ \A i \in 1 .. n - m : t[i] = z[m + i]
  <2>1. \A i \in m + 1 .. n : z[i] \in S  BY <1>1
  <2>2. /\ t \in Seq(S) /\ Len(t) = IF m + 1 <= n THEN n - (m + 1) + 1 ELSE 0
        /\ \A i \in 1 .. n - (m + 1) + 1 : t[i] = z[(m + 1) + i - 1]
    BY <1>1, <2>1, SubSeqProperties
  <2> HIDE DEF t
  <2> QED  BY <2>2
<1> HIDE DEF t
<1>3. DOMAIN t = 1 .. n - m /\ \A i \in 1 .. n - m : m + i \in 1 .. Len(z)
  BY <1>1, <1>2, LenProperties
<1>4. ToSet(t) \subseteq ToSet(z)
  <2> SUFFICES ASSUME NEW x \in ToSet(t)  PROVE x \in ToSet(z)  OBVIOUS
  <2>1. PICK i \in 1 .. n - m : t[i] = x  BY <1>3 DEF ToSet
  <2> QED  BY <1>1, <1>2, <1>3, <2>1 DEF ToSet
<1>5. ASSUME Said(z)  PROVE Said(t)
  <2> SUFFICES ASSUME NEW i \in 1 .. n - m, NEW k \in 1 .. n - m, i < k
               PROVE  Before(t[i], t[k])
    BY <1>3 DEF Said
  <2>1. m + i \in DOMAIN z /\ m + k \in DOMAIN z /\ m + i < m + k  BY <1>1, <1>3
  <2>2. Before(z[m + i], z[m + k])  BY <1>5, <2>1 DEF Said
  <2> QED  BY <1>2, <2>2
<1> QED  BY <1>2, <1>4, <1>5 DEF t

-----------------------------------------------------------------------------
(***************************************************************************)
(* The audio in the events of the gate.                                    *)
(***************************************************************************)
Sounds(events) == {n \in DOMAIN events : events[n].kind = "audio"}

\* What the events will add to the open segment.
Heard(events) == UNION {ToSet(events[n].audio) : n \in Sounds(events)}

\* The VAD heard no speech in a silent window, which may be replayed as audio.
Truthful(e, sp) ==
  /\ Said(e.audio)
  /\ e.kind = "silence" \/ e.replayed => ToSet(e.audio) \intersect sp = {}
  /\ e.kind = "silence" => ~e.replayed

\* The events of the gate are true of the speech, and their audio is in order.
EventsInLine(events, sp) ==
  /\ \A n \in DOMAIN events : Truthful(events[n], sp)
  /\ \A m, n \in Sounds(events) :
       m < n => AllBefore(ToSet(events[m].audio), ToSet(events[n].audio))

\* What one event will add.
Sound(e) == IF e.kind = "audio" THEN ToSet(e.audio) ELSE {}

\* Without events nothing is still to be added or counted.
LEMMA NoEvents ==
  ASSUME NEW sp
  PROVE  Heard(<< >>) = {} /\ EventsInLine(<< >>, sp) /\ Unapplied(<< >>) = 0
<1>1. DOMAIN << >> = {} /\ Len(<< >>) = 0  OBVIOUS
<1>2. Unapplied(<< >>) = 0
  <2> DEFINE Loop(sum) == sum = [n \in 0 .. 0 |->
                 IF n = 0 THEN 0 ELSE sum[n - 1] + Uncounted(<< >>[n])]
             sum == CHOOSE f : Loop(f)
  <2>1. Unapplied(<< >>) = sum[0]  BY <1>1 DEF Unapplied
  <2>2. Loop([n \in 0 .. 0 |-> 0])  OBVIOUS
  <2>3. Loop(sum)
    <3> HIDE DEF Loop
    <3> QED  BY <2>2
  <2> HIDE DEF sum
  <2>4. sum[0] = 0  BY <2>3
  <2> QED  BY <2>1, <2>4
<1> QED  BY <1>1, <1>2 DEF Heard, Sounds, EventsInLine

\* The sum over the events is what adding them up one by one gives.
LEMMA UnappliedIs ==
  ASSUME NEW events \in Seq(Events(Units))
  PROVE  /\ \A n \in 1 .. Len(events) : Uncounted(events[n]) \in Nat
         /\ \E sum \in [0 .. Len(events) -> Nat] :
              /\ sum[0] = 0
              /\ \A n \in 1 .. Len(events) : sum[n] = sum[n - 1] + Uncounted(events[n])
              /\ Unapplied(events) = sum[Len(events)]
<1> DEFINE N == Len(events)
           turn == [i \in 1 .. N |-> [a \in Nat |-> a + Uncounted(events[i])]]
           Loop(sum) == sum = [n \in 0 .. N |->
                          IF n = 0 THEN 0 ELSE sum[n - 1] + Uncounted(events[n])]
           after == CHOOSE f : Loop(f)
<1>1. N \in Nat /\ \A n \in 1 .. N : events[n] \in Events(Units)  OBVIOUS
<1>2. \A n \in 1 .. N : Uncounted(events[n]) \in Nat
  <2> TAKE n \in 1 .. N
  <2>1. events[n] \in Events(Units)  BY <1>1
  <2>2. Len(events[n].audio) \in Nat  BY <2>1 DEF Events
  <2> QED  BY <2>2 DEF Uncounted
<1>3. turn \in [1 .. N -> [Nat -> Nat]]
  <2>1. \A i \in 1 .. N : [a \in Nat |-> a + Uncounted(events[i])] \in [Nat -> Nat]
    BY <1>2
  <2> QED  BY <2>1
<1>4. PICK f \in [0 .. N -> Nat] : IsRun(f, N, 0, turn)
  <2> HIDE DEF N, turn
  <2>1. 0 \in Nat  OBVIOUS
  <2> QED  BY <1>1, <1>3, <2>1, LoopHasRun, Zenon
<1>5. Loop(f)
  <2> HIDE DEF N
  <2>1. \A i \in 1 .. N : f[i] = f[i - 1] + Uncounted(events[i])
    <3>1. TAKE i \in 1 .. N
    <3>2. i - 1 \in 0 .. N  BY <1>1
    <3>3. f[i - 1] \in Nat  BY <3>2
    <3>4. turn[i] = [a \in Nat |-> a + Uncounted(events[i])]  OBVIOUS
    <3> QED  BY <1>4, <3>3, <3>4 DEF IsRun
  <2>2. \A i \in 0 .. N : i = 0 \/ i \in 1 .. N  BY <1>1
  <2> HIDE DEF turn
  <2>3. f = [n \in 0 .. N |-> IF n = 0 THEN 0 ELSE f[n - 1] + Uncounted(events[n])]
    BY <2>1, <2>2, <1>4 DEF IsRun
  <2> QED  BY <2>3
<1>6. Loop(after)
  <2> HIDE DEF Loop
  <2> QED  BY <1>5
<1>7. Unapplied(events) = after[N]  BY DEF Unapplied
<1>8. after[0] = 0 /\ \A i \in 1 .. N : after[i] = after[i - 1] + Uncounted(events[i])
  <2> HIDE DEF after, N
  <2> QED  BY <1>6, <1>1
<1>9. DOMAIN after = 0 .. N /\ after = [i \in 0 .. N |-> after[i]]
  <2> HIDE DEF after, N
  <2> QED  BY <1>6
<1>10. \A i \in 0 .. N : after[i] \in Nat
  <2> DEFINE P == {n \in Nat : n <= N => after[n] \in Nat}
  <2> HIDE DEF after, N, Loop, turn
  <2>1. 0 \in P  BY <1>8, <1>1
  <2>2. ASSUME NEW n \in Nat, n \in P  PROVE n + 1 \in P
    <3>1. CASE n + 1 <= N
      <4>1. n + 1 \in 1 .. N /\ (n + 1) - 1 = n  BY <3>1, <1>1
      <4>2. after[n + 1] = after[n] + Uncounted(events[n + 1])  BY <1>8, <4>1
      <4>3. after[n] \in Nat /\ Uncounted(events[n + 1]) \in Nat  BY <1>1, <1>2, <2>2, <3>1, <4>1
      <4> QED  BY <4>2, <4>3
    <3>2. CASE ~(n + 1 <= N)  BY <3>2
    <3> QED  BY <3>1, <3>2
  <2>3. \A n \in Nat : n \in P
    <3> HIDE DEF P
    <3> QED  BY <2>1, <2>2, NatSetInduction
  <2> QED  BY <2>3, <1>1
<1> HIDE DEF after, turn, Loop
<1>11. after \in [0 .. N -> Nat]  BY <1>9, <1>10
<1> QED  BY <1>2, <1>7, <1>8, <1>11

\* Adding up is determined by what is added.
LEMMA SumsAgree ==
  ASSUME NEW N \in Nat, NEW d \in Nat, NEW f \in [0 .. N + d -> Nat], NEW g \in [0 .. N -> Nat],
         \A i \in 1 .. N : f[i + d] - f[i + d - 1] = g[i] - g[i - 1]
  PROVE  f[N + d] - f[d] = g[N] - g[0]
<1> DEFINE P == {n \in Nat : n <= N => f[n + d] - f[d] = g[n] - g[0]}
<1>1. 0 \in P
  <2>1. f[0 + d] = f[d] /\ f[d] \in Nat /\ g[0] \in Nat
    <3>1. d \in 0 .. N + d /\ 0 \in 0 .. N /\ 0 + d = d  OBVIOUS
    <3> QED  BY <3>1
  <2> QED  BY <2>1
<1>2. ASSUME NEW n \in Nat, n \in P  PROVE n + 1 \in P
  <2> SUFFICES ASSUME n + 1 <= N  PROVE f[(n + 1) + d] - f[d] = g[n + 1] - g[0]
    OBVIOUS
  <2>1. n + 1 \in 1 .. N /\ n + 1 - 1 = n /\ (n + 1) + d - 1 = n + d
    OBVIOUS
  <2>2. f[(n + 1) + d] - f[n + d] = g[n + 1] - g[n]  BY <2>1
  <2>3. f[n + d] - f[d] = g[n] - g[0]  BY <1>2, <2>1
  <2>4. {f[(n + 1) + d], f[n + d], f[d], g[n + 1], g[n], g[0]} \subseteq Nat
    <3>1. {(n + 1) + d, n + d, d} \subseteq 0 .. N + d /\ {n + 1, n, 0} \subseteq 0 .. N
      BY <2>1
    <3> QED  BY <3>1
  <2> DEFINE a == f[(n + 1) + d]  b == f[n + d]  b0 == f[d]
             x == g[n + 1]  y == g[n]  y0 == g[0]
  <2>5. a - b = x - y /\ b - b0 = y - y0
    BY <2>2, <2>3
  <2>7. a \in Int /\ b \in Int /\ b0 \in Int /\ x \in Int /\ y \in Int /\ y0 \in Int
    BY <2>4
  <2> HIDE DEF a, b, b0, x, y, y0
  <2>6. a - b0 = x - y0  BY <2>5, <2>7
  <2> QED  BY <2>6 DEF a, b0, x, y0
<1>3. \A n \in Nat : n \in P
  <2> HIDE DEF P
  <2> QED  BY <1>1, <1>2, NatSetInduction
<1> QED  BY <1>3

\* The first event, and the others.
LEMMA FirstEvent ==
  ASSUME NEW sp, NEW events \in Seq(Events(Units)), events # << >>
  PROVE  LET e == Head(events)
             rest == Tail(events)
         IN  /\ e \in Events(Units) /\ rest \in Seq(Events(Units))
             /\ Heard(events) = Sound(e) \union Heard(rest)
             /\ Unapplied(events) = Uncounted(e) + Unapplied(rest)
             /\ Unapplied(rest) \in Nat
             /\ EventsInLine(events, sp) =>
                  /\ EventsInLine(rest, sp) /\ Truthful(e, sp)
                  /\ AllBefore(Sound(e), Heard(rest))
<1> DEFINE e == Head(events)
           rest == Tail(events)
           N == Len(rest)
<1>1. /\ e \in Events(Units) /\ rest \in Seq(Events(Units)) /\ Len(events) = N + 1 /\ N \in Nat
      /\ e = events[1] /\ \A n \in 1 .. N : rest[n] = events[n + 1]
  BY HeadTailProperties
<1>2. DOMAIN events = 1 .. N + 1 /\ DOMAIN rest = 1 .. N  BY <1>1, LenProperties
<1> HIDE DEF e, rest, N
<1>3. \A n \in 1 .. N + 1 : n = 1 \/ n - 1 \in 1 .. N  BY <1>1
<1>4. \A n \in 1 .. N : n + 1 \in 1 .. N + 1 /\ n + 1 # 1 /\ 1 < n + 1  BY <1>1
<1>5. Heard(events) = Sound(e) \union Heard(rest)
  <2>1. ASSUME NEW x \in Heard(events)  PROVE x \in Sound(e) \union Heard(rest)
    <3>1. PICK n \in 1 .. N + 1 : events[n].kind = "audio" /\ x \in ToSet(events[n].audio)
      BY <1>2 DEF Heard, Sounds
    <3>2. CASE n = 1  BY <1>1, <3>1, <3>2 DEF Sound
    <3>3. CASE n - 1 \in 1 .. N
      <4>1. rest[n - 1] = events[n]
        <5>1. (n - 1) + 1 = n  BY <1>1
        <5> QED  BY <1>1, <3>3, <5>1
      <4> QED  BY <1>2, <3>1, <3>3, <4>1 DEF Heard, Sounds
    <3> QED  BY <1>3, <3>2, <3>3
  <2>2. ASSUME NEW x \in Sound(e)  PROVE x \in Heard(events)
    <3>1. 1 \in 1 .. N + 1  BY <1>1
    <3>2. e.kind = "audio" /\ x \in ToSet(e.audio)  BY DEF Sound
    <3> QED  BY <1>1, <1>2, <3>1, <3>2 DEF Heard, Sounds
  <2>3. ASSUME NEW x \in Heard(rest)  PROVE x \in Heard(events)
    <3>1. PICK n \in 1 .. N : rest[n].kind = "audio" /\ x \in ToSet(rest[n].audio)
      BY <1>2 DEF Heard, Sounds
    <3> QED  BY <1>1, <1>2, <1>4, <3>1 DEF Heard, Sounds
  <2> QED  BY <2>1, <2>2, <2>3
<1>6. Unapplied(events) = Uncounted(e) + Unapplied(rest) /\ Unapplied(rest) \in Nat
  <2>1. PICK f \in [0 .. N + 1 -> Nat] :
          /\ f[0] = 0
          /\ \A n \in 1 .. N + 1 : f[n] = f[n - 1] + Uncounted(events[n])
          /\ Unapplied(events) = f[N + 1]
    BY <1>1, UnappliedIs
  <2>2. PICK g \in [0 .. N -> Nat] :
          /\ g[0] = 0
          /\ \A n \in 1 .. N : g[n] = g[n - 1] + Uncounted(rest[n])
          /\ Unapplied(rest) = g[N]
    BY <1>1, UnappliedIs DEF N
  <2>3. /\ \A n \in 1 .. N + 1 : Uncounted(events[n]) \in Nat
    BY <1>1, UnappliedIs
  <2>4. ASSUME NEW i \in 1 .. N  PROVE f[i + 1] - f[i + 1 - 1] = g[i] - g[i - 1]
    <3>1. /\ i + 1 \in 1 .. N + 1 /\ i + 1 - 1 = i /\ {i - 1, i} \subseteq 0 .. N
          /\ {i, i + 1} \subseteq 0 .. N + 1
      BY <1>1
    <3>2. f[i + 1] = f[i] + Uncounted(events[i + 1]) /\ f[i] \in Nat
      <4> HIDE DEF N
      <4>1. f[i + 1] = f[i + 1 - 1] + Uncounted(events[i + 1])  BY <2>1, <3>1
      <4> QED  BY <3>1, <4>1
    <3>3. g[i] = g[i - 1] + Uncounted(events[i + 1]) /\ g[i - 1] \in Nat
      BY <1>1, <2>2, <3>1
    <3>4. Uncounted(events[i + 1]) \in Nat  BY <2>3, <3>1
    <3>5. \A a, b, u \in Nat : (a + u) - a = (b + u) - b  OBVIOUS
    <3> QED  BY <3>1, <3>2, <3>3, <3>4, <3>5
  <2>5. f[N + 1] - f[1] = g[N] - g[0]
    <3>1. 1 \in Nat  OBVIOUS
    <3> QED  BY <1>1, <2>4, <3>1, SumsAgree
  <2>6. f[1] = Uncounted(e) /\ Uncounted(e) \in Nat
    <3>1. 1 \in 1 .. N + 1 /\ 1 - 1 = 0  BY <1>1
    <3>2. f[1] = f[0] + Uncounted(events[1])  BY <2>1, <3>1
    <3>3. Uncounted(e) \in Nat  BY <1>1, <2>3, <3>1
    <3> QED  BY <1>1, <2>1, <3>2, <3>3
  <2>7. f[N + 1] \in Nat /\ g[N] \in Nat
    <3>1. N + 1 \in 0 .. N + 1 /\ N \in 0 .. N  BY <1>1
    <3> QED  BY <3>1
  <2>8. \A a, b, u \in Nat : a - u = b - 0 => a = u + b  OBVIOUS
  <2> QED  BY <2>1, <2>2, <2>5, <2>6, <2>7, <2>8
<1>7. ASSUME EventsInLine(events, sp)
      PROVE  /\ EventsInLine(rest, sp) /\ Truthful(e, sp)
             /\ AllBefore(Sound(e), Heard(rest))
  <2>1. /\ \A n \in 1 .. N + 1 : Truthful(events[n], sp)
        /\ \A m, n \in 1 .. N + 1 :
             events[m].kind = "audio" /\ events[n].kind = "audio" /\ m < n =>
               AllBefore(ToSet(events[m].audio), ToSet(events[n].audio))
    BY <1>2, <1>7 DEF EventsInLine, Sounds
  <2>2. 1 \in 1 .. N + 1  BY <1>1
  <2>3. Truthful(e, sp)
    BY <1>1, <2>1, <2>2
  <2>4. AllBefore(Sound(e), Heard(rest))
    <3> SUFFICES ASSUME NEW x \in Sound(e), NEW y \in Heard(rest)  PROVE Before(x, y)
      BY DEF AllBefore
    <3>1. e.kind = "audio" /\ x \in ToSet(e.audio)  BY DEF Sound
    <3>2. PICK n \in 1 .. N : rest[n].kind = "audio" /\ y \in ToSet(rest[n].audio)
      BY <1>2 DEF Heard, Sounds
    <3>3. AllBefore(ToSet(events[1].audio), ToSet(events[n + 1].audio))
      BY <1>1, <1>4, <2>1, <2>2, <3>1, <3>2
    <3> QED  BY <1>1, <3>1, <3>2, <3>3 DEF AllBefore
  <2>5. EventsInLine(rest, sp)
    <3>1. \A n \in 1 .. N : Truthful(rest[n], sp)  BY <1>1, <1>4, <2>1
    <3>3. ASSUME NEW m \in 1 .. N, NEW n \in 1 .. N,
                 rest[m].kind = "audio", rest[n].kind = "audio", m < n
          PROVE  AllBefore(ToSet(rest[m].audio), ToSet(rest[n].audio))
      <4>1. m + 1 < n + 1 /\ m + 1 \in 1 .. N + 1 /\ n + 1 \in 1 .. N + 1  BY <1>1, <3>3
      <4>2. rest[m] = events[m + 1] /\ rest[n] = events[n + 1]  BY <1>1
      <4> QED  BY <2>1, <3>3, <4>1, <4>2
    <3> QED  BY <1>2, <3>1, <3>3 DEF EventsInLine, Sounds
  <2> QED  BY <2>3, <2>4, <2>5
<1> QED  BY <1>1, <1>5, <1>6, <1>7 DEF e, rest

\* One event more.
LEMMA OneMoreEvent ==
  ASSUME NEW sp, NEW events \in Seq(Events(Units)), NEW e \in Events(Units)
  PROVE  LET all == Append(events, e) IN
         /\ all \in Seq(Events(Units))
         /\ Heard(all) = Heard(events) \union Sound(e)
         /\ Unapplied(all) = Unapplied(events) + Uncounted(e)
         /\ Unapplied(events) \in Nat
         /\ EventsInLine(events, sp) /\ Truthful(e, sp) /\ AllBefore(Heard(events), Sound(e)) =>
              EventsInLine(all, sp)
<1> DEFINE all == Append(events, e)
           N == Len(events)
<1>1. /\ all \in Seq(Events(Units)) /\ Len(all) = N + 1 /\ N \in Nat
      /\ \A n \in 1 .. N : all[n] = events[n]
      /\ all[N + 1] = e
  BY AppendProperties
<1>2. DOMAIN all = 1 .. N + 1 /\ DOMAIN events = 1 .. N  BY <1>1, LenProperties
<1> HIDE DEF all, N
<1>3. \A n \in 1 .. N + 1 : n \in 1 .. N \/ n = N + 1  BY <1>1
<1>4. 1 .. N \subseteq 1 .. N + 1 /\ N + 1 \in 1 .. N + 1  BY <1>1
<1>5. Heard(all) = Heard(events) \union Sound(e)
  <2>1. ASSUME NEW x \in Heard(all)  PROVE x \in Heard(events) \union Sound(e)
    <3>1. PICK n \in 1 .. N + 1 : all[n].kind = "audio" /\ x \in ToSet(all[n].audio)
      BY <1>2 DEF Heard, Sounds
    <3>2. CASE n \in 1 .. N  BY <1>1, <1>2, <3>1, <3>2 DEF Heard, Sounds
    <3>3. CASE n = N + 1  BY <1>1, <3>1, <3>3 DEF Sound
    <3> QED  BY <1>3, <3>2, <3>3
  <2>2. ASSUME NEW x \in Sound(e)  PROVE x \in Heard(all)
    <3>1. e.kind = "audio" /\ x \in ToSet(e.audio)  BY DEF Sound
    <3> QED  BY <1>1, <1>2, <1>4, <3>1 DEF Heard, Sounds
  <2>3. ASSUME NEW x \in Heard(events)  PROVE x \in Heard(all)
    <3>1. PICK n \in 1 .. N : events[n].kind = "audio" /\ x \in ToSet(events[n].audio)
      BY <1>2 DEF Heard, Sounds
    <3> QED  BY <1>1, <1>2, <1>4, <3>1 DEF Heard, Sounds
  <2> QED  BY <2>1, <2>2, <2>3
<1>6. Unapplied(all) = Unapplied(events) + Uncounted(e) /\ Unapplied(events) \in Nat
  <2>1. PICK f \in [0 .. N + 1 -> Nat] :
          /\ f[0] = 0
          /\ \A n \in 1 .. N + 1 : f[n] = f[n - 1] + Uncounted(all[n])
          /\ Unapplied(all) = f[N + 1]
    BY <1>1, UnappliedIs
  <2>2. PICK g \in [0 .. N -> Nat] :
          /\ g[0] = 0
          /\ \A n \in 1 .. N : g[n] = g[n - 1] + Uncounted(events[n])
          /\ Unapplied(events) = g[N]
    BY UnappliedIs DEF N
  <2>3. \A n \in 1 .. N + 1 : Uncounted(all[n]) \in Nat
    BY <1>1, UnappliedIs
  <2> DEFINE h == [n \in 0 .. N |-> f[n]]
  <2>4. 0 .. N \subseteq 0 .. N + 1 /\ N + 0 = N  BY <1>1
  <2>5. h \in [0 .. N + 0 -> Nat] /\ \A n \in 0 .. N : h[n] = f[n]
    BY <2>4
  <2> HIDE DEF h
  <2>6. ASSUME NEW i \in 1 .. N  PROVE h[i + 0] - h[i + 0 - 1] = g[i] - g[i - 1]
    <3>1. /\ i \in 1 .. N + 1 /\ i + 0 = i /\ i + 0 - 1 = i - 1 /\ {i - 1, i} \subseteq 0 .. N
          /\ i - 1 \in 0 .. N + 1
      BY <1>1
    <3>2. f[i] = f[i - 1] + Uncounted(events[i]) /\ f[i - 1] \in Nat
      BY <1>1, <2>1, <3>1
    <3>3. g[i] = g[i - 1] + Uncounted(events[i]) /\ g[i - 1] \in Nat
      BY <2>2, <3>1
    <3>4. Uncounted(events[i]) \in Nat  BY <1>1, <2>3, <3>1
    <3>5. \A a, b, u \in Nat : (a + u) - a = (b + u) - b  OBVIOUS
    <3>6. h[i] = f[i] /\ h[i - 1] = f[i - 1]  BY <2>5, <3>1
    <3> QED  BY <3>1, <3>2, <3>3, <3>4, <3>5, <3>6
  <2>7. h[N + 0] - h[0] = g[N] - g[0]
    <3>1. 0 \in Nat  OBVIOUS
    <3> QED  BY <1>1, <2>5, <2>6, <3>1, SumsAgree
  <2>8. f[N + 1] = f[N] + Uncounted(e) /\ Uncounted(e) \in Nat
    <3>1. N + 1 \in 1 .. N + 1 /\ N + 1 - 1 = N  BY <1>1
    <3> DEFINE last == N + 1
    <3>2. last \in 1 .. N + 1 /\ last - 1 = N  BY <3>1
    <3> HIDE DEF last
    <3>3. f[last] = f[last - 1] + Uncounted(all[last])  BY <2>1, <3>2
    <3>4. Uncounted(all[last]) \in Nat  BY <2>3, <3>2
    <3> QED  BY <1>1, <3>2, <3>3, <3>4 DEF last
  <2>9. f[N] = g[N] /\ g[N] \in Nat
    <3>1. N \in 0 .. N /\ 0 \in 0 .. N /\ N \in 0 .. N + 1 BY <1>1
    <3>2. h[N] = f[N] /\ h[0] = 0 /\ f[N] \in Nat /\ g[N] \in Nat /\ h[N + 0] = h[N]
      BY <2>1, <2>4, <2>5, <3>1
    <3>3. \A a, b \in Nat : a - 0 = b - 0 => a = b  OBVIOUS
    <3> QED  BY <2>2, <2>7, <3>2, <3>3
  <2> QED  BY <2>1, <2>2, <2>8, <2>9
<1>7. ASSUME EventsInLine(events, sp), Truthful(e, sp), AllBefore(Heard(events), Sound(e))
      PROVE  EventsInLine(all, sp)
  <2>1. \A n \in 1 .. N + 1 : Truthful(all[n], sp)
    BY <1>1, <1>2, <1>3, <1>7 DEF EventsInLine
  <2>3. ASSUME NEW m \in 1 .. N + 1, NEW n \in 1 .. N + 1,
               all[m].kind = "audio", all[n].kind = "audio", m < n
        PROVE  AllBefore(ToSet(all[m].audio), ToSet(all[n].audio))
    <3>1. m \in 1 .. N  BY <1>1, <2>3
    <3>2. CASE n \in 1 .. N
      <4>1. all[m] = events[m] /\ all[n] = events[n]  BY <1>1, <3>1, <3>2
      <4>2. m \in Sounds(events) /\ n \in Sounds(events)
        BY <1>2, <2>3, <3>1, <3>2, <4>1 DEF Sounds
      <4> QED  BY <1>7, <2>3, <4>1, <4>2 DEF EventsInLine
    <3>3. CASE n = N + 1
      <4>1. m \in Sounds(events) /\ all[m] = events[m] /\ all[n] = e /\ e.kind = "audio"
        BY <1>1, <1>2, <2>3, <3>1, <3>3 DEF Sounds
      <4>2. ToSet(all[m].audio) \subseteq Heard(events) /\ Sound(e) = ToSet(e.audio)
        BY <4>1 DEF Heard, Sound
      <4> QED  BY <1>7, <4>1, <4>2 DEF AllBefore
    <3> QED  BY <1>3, <3>2, <3>3
  <2> QED  BY <1>2, <2>1, <2>3 DEF EventsInLine, Sounds
<1> QED  BY <1>1, <1>5, <1>6, <1>7 DEF all

-----------------------------------------------------------------------------
(***************************************************************************)
(* The books of a dictation: where every unit that arrived is now, in      *)
(* which order, and what the ledger says of it.                            *)
(***************************************************************************)

\* Gated, pending, heard, attack, staged and not yet buffered units follow
\* one another.
Line(g, p, h, a, s, f) ==
  /\ AllBefore(g, p)
  /\ AllBefore(g \union p, h)
  /\ AllBefore(g \union p \union h, a)
  /\ AllBefore(g \union p \union h \union a, s)
  /\ AllBefore(g \union p \union h \union a \union s, f)

\* more is what the ledger has yet to count, p the open segment, and seen the
\* units that are still on their way to the decoder: while nothing is missing
\* from the count and no claim is held back, no speech is missing there.
Accounted(l, more, p, seen, arrived, sp) ==
  /\ l.covered <= l.consumed
  /\ p \intersect sp # {} => SegmentOpen(l) /\ l.covered < l.consumed
  /\ l.consumed + more <= Cardinality(arrived)
  /\ l.consumed + more = Cardinality(arrived) /\ (l.frozen => l.covered = l.consumed) =>
       arrived \intersect sp \subseteq seen

\* The buffers of a connection follow one another, its ledger accounts for
\* them, and all of it is audio that has arrived.
Stock(gated, pending, events, attack, staging, frame, l, arrived, sp) ==
  /\ Said(gated) /\ Said(pending) /\ EventsInLine(events, sp) /\ Said(attack) /\ Said(staging)
  /\ Line(ToSet(gated), ToSet(pending), Heard(events), ToSet(attack), ToSet(staging), frame)
  /\ Accounted(l, Unapplied(events) + Len(staging) + Cardinality(frame), ToSet(pending),
               ToSet(gated) \union ToSet(pending) \union Heard(events)
                 \union ToSet(staging) \union frame,
               arrived, sp)
  /\ ToSet(gated) \union ToSet(pending) \union Heard(events) \union ToSet(attack)
       \union ToSet(staging) \union frame \subseteq arrived
  /\ ToSet(attack) \intersect sp = {}

\* The types of what the ledger keeps.
LEMMA LedgerFields ==
  ASSUME NEW l \in Ledger
  PROVE  /\ l.consumed \in Nat /\ l.covered \in Nat /\ l.frozen \in BOOLEAN
         /\ l.segment_start \in Offset /\ l.attack_start \in Offset
BY DEF Ledger

\* note_silence: the count goes on, and the claim with it unless a segment is open
\* or the ledger is frozen.
LEMMA AccountedSilence ==
  ASSUME NEW sp, NEW l \in Ledger, NEW n \in Nat, NEW more \in Nat, NEW p, NEW seen, NEW arrived,
         Cardinality(arrived) \in Nat,
         Accounted(l, n + more, p, seen, arrived, sp)
  PROVE  Accounted(NoteSilence(l, n), more, p, seen, arrived, sp)
<1> DEFINE m == NoteSilence(l, n)
<1>1. /\ m.consumed = l.consumed + n /\ m.segment_start = l.segment_start
      /\ m.covered = (IF ~SegmentOpen(l) /\ ~l.frozen THEN l.consumed + n ELSE l.covered)
      /\ m.frozen = l.frozen
  <2>1. FALSE \in BOOLEAN  OBVIOUS
  <2> QED  BY <2>1, LedgerMethods
<1>2. /\ l.consumed \in Nat /\ l.covered \in Nat /\ l.frozen \in BOOLEAN  BY LedgerFields
<1> HIDE DEF m
<1>3. SegmentOpen(m) <=> SegmentOpen(l)  BY <1>1 DEF SegmentOpen
<1>4. m.covered <= m.consumed  BY <1>1, <1>2 DEF Accounted
<1>5. p \intersect sp # {} => SegmentOpen(m) /\ m.covered < m.consumed
  BY <1>1, <1>2, <1>3 DEF Accounted
<1>6. m.consumed + more = l.consumed + (n + more)  BY <1>1, <1>2
<1>7. (m.frozen => m.covered = m.consumed) => (l.frozen => l.covered = l.consumed)
  BY <1>1, <1>2 DEF Accounted
<1> QED  BY <1>4, <1>5, <1>6, <1>7 DEF Accounted, m

\* note_speech: the count goes on for what is not replayed, and the audio joins the
\* open segment.
LEMMA AccountedSpeech ==
  ASSUME NEW sp, NEW l \in Ledger, NEW n \in Nat, NEW replayed \in BOOLEAN, NEW more \in Nat,
         NEW p, NEW x, NEW seen, NEW arrived, Cardinality(arrived) \in Nat,
         replayed => x \intersect sp = {},
         x # {} => n > 0,
         Accounted(l, (IF replayed THEN 0 ELSE n) + more, p, seen, arrived, sp)
  PROVE  Accounted(NoteSpeech(l, n, replayed), more, p \union x, seen, arrived, sp)
<1> DEFINE m == NoteSpeech(l, n, replayed)
<1>1. /\ m.consumed = (IF replayed THEN l.consumed ELSE l.consumed + n)
      /\ m.covered = l.covered /\ m.frozen = l.frozen
      /\ m.segment_start = IF SegmentOpen(l) THEN l.segment_start
                           ELSE IF replayed THEN l.attack_start ELSE l.consumed
  BY LedgerMethods
<1>2. /\ l.consumed \in Nat /\ l.covered \in Nat /\ l.frozen \in BOOLEAN  BY LedgerFields
<1> HIDE DEF m
<1>3. SegmentOpen(l) => SegmentOpen(m)  BY <1>1 DEF SegmentOpen
<1>4. ~replayed => SegmentOpen(m)  BY <1>1, <1>2 DEF SegmentOpen, Unset
<1>5. m.covered <= m.consumed  BY <1>1, <1>2 DEF Accounted
<1>6. (p \union x) \intersect sp # {} => SegmentOpen(m) /\ m.covered < m.consumed
  <2>1. CASE p \intersect sp # {}
    BY <1>1, <1>2, <1>3, <2>1 DEF Accounted
  <2>2. CASE x \intersect sp # {}
    <3>1. ~replayed /\ n > 0  BY <2>2
    <3> QED  BY <1>1, <1>2, <1>4, <3>1 DEF Accounted
  <2>3. CASE p \intersect sp = {} /\ x \intersect sp = {}
    <3>1. (p \union x) \intersect sp = {}  BY <2>3
    <3> QED  BY <3>1
  <2> QED  BY <2>1, <2>2, <2>3
<1>7. m.consumed + more = l.consumed + ((IF replayed THEN 0 ELSE n) + more)  BY <1>1, <1>2
<1>8. (m.frozen => m.covered = m.consumed) => (l.frozen => l.covered = l.consumed)
  BY <1>1, <1>2 DEF Accounted
<1> QED  BY <1>5, <1>6, <1>7, <1>8 DEF Accounted, m

\* A segment that is kept or dropped: a claim is made, or held back for good.
LEMMA AccountedSegment ==
  ASSUME NEW sp, NEW l \in Ledger, NEW more \in Nat, NEW p, NEW seen, NEW left, NEW arrived,
         Cardinality(arrived) \in Nat, Accounted(l, more, p, seen, arrived, sp)
  PROVE  /\ Accounted(CommitSegment(l), more, {}, seen, arrived, sp)
         /\ seen = left \union p => Accounted(DiscardSegment(l), more, {}, left, arrived, sp)
<1> DEFINE m == CommitSegment(l)
           d == DiscardSegment(l)
<1>1. /\ m.consumed = l.consumed /\ m.frozen = l.frozen
      /\ m.covered = IF l.frozen THEN l.covered ELSE l.consumed
      /\ d.consumed = l.consumed /\ d.covered = l.covered /\ d.frozen
  <2>1. 0 \in Nat /\ FALSE \in BOOLEAN  OBVIOUS
  <2> QED  BY <2>1, LedgerMethods
<1>2. /\ l.consumed \in Nat /\ l.covered \in Nat /\ l.frozen \in BOOLEAN  BY LedgerFields
<1> HIDE DEF m, d
<1>3. Accounted(m, more, {}, seen, arrived, sp)
  BY <1>1, <1>2 DEF Accounted
<1>4. ASSUME seen = left \union p  PROVE Accounted(d, more, {}, left, arrived, sp)
  <2>1. ASSUME l.consumed + more = Cardinality(arrived), d.covered = d.consumed
        PROVE  arrived \intersect sp \subseteq left
    <3>1. l.covered = l.consumed  BY <1>1, <2>1
    <3>2. ~(p \intersect sp # {})  BY <1>2, <3>1 DEF Accounted
    <3>3. arrived \intersect sp \subseteq seen  BY <2>1, <3>1 DEF Accounted
    <3> QED  BY <1>4, <3>2, <3>3
  <2> QED  BY <1>1, <1>2, <2>1 DEF Accounted
<1> QED  BY <1>3, <1>4 DEF m, d

\* Only the units matter that may be heard.
LEMMA AccountedSeen ==
  ASSUME NEW sp, NEW l, NEW more, NEW p, NEW seen, NEW left, NEW arrived,
         Accounted(l, more, p, seen, arrived, sp),
         seen \intersect sp \subseteq left
  PROVE  Accounted(l, more, p, left, arrived, sp)
BY DEF Accounted

\* Units move up the line, or leave it.
LEMMA LineMoves ==
  ASSUME NEW g, NEW p, NEW h, NEW a, NEW s, NEW f, Line(g, p, h, a, s, f)
  PROVE  /\ Line(g \union p, {}, h, a, s, f)
         /\ Line(g, {}, h, a, s, f) /\ Line(g, p, h, {}, s, f)
         /\ AllBefore(g, p) /\ AllBefore(p, s) /\ AllBefore(h, a) /\ AllBefore(h, s)
         /\ AllBefore(a, s) /\ AllBefore(g, h) /\ AllBefore(p, h)
BY DEF Line, AllBefore

\* The first of what the events add joins the open segment.
LEMMA LineTakes ==
  ASSUME NEW g, NEW p, NEW h, NEW x, NEW a, NEW s, NEW f, AllBefore(x, h)
  PROVE  Line(g, p, x \union h, a, s, f) => Line(g, p \union x, h, a, s, f)
BY DEF Line, AllBefore

\* A staged window is heard after the attack buffer, or becomes the attack buffer.
LEMMA LineHears ==
  ASSUME NEW g, NEW p, NEW h, NEW x, NEW a, NEW s, NEW f, AllBefore(x, s)
  PROVE  /\ Line(g, p, h, a, x \union s, f) =>
              /\ Line(g, p, (h \union a) \union x, {}, s, f)
              /\ AllBefore(h \union a, x)
         /\ Line(g, p, h, a, x \union s, f) => Line(g, p, h, x, s, f)
BY DEF Line, AllBefore

\* A frame joins the staging buffer, and what is staged at the stop the open segment.
LEMMA LineBuffers ==
  ASSUME NEW g, NEW p, NEW h, NEW a, NEW s, NEW f
  PROVE  /\ Line(g, p, h, a, s, f) => AllBefore(s, f) /\ Line(g, p, h, a, s \union f, {})
         /\ Line(g, p, {}, a, s, {}) => AllBefore(p, s) /\ Line(g, p \union s, {}, {}, {}, {})
         /\ Line(g, p, h, a, s, f) => Line(g, p, h, a, s, {})
BY DEF Line, AllBefore

\* A frame that arrives comes after all that has arrived before.
LEMMA LineGrows ==
  ASSUME NEW g, NEW p, NEW h, NEW a, NEW s, NEW f, NEW arrived, AllBefore(arrived, f),
         g \union p \union h \union a \union s \subseteq arrived
  PROVE  Line(g, p, h, a, s, {}) => Line(g, p, h, a, s, f)
BY DEF Line, AllBefore

\* What the sizes and the sets of the books are.
LEMMA BooksFacts ==
  ASSUME NEW G \in Audio, NEW P \in Audio, NEW E \in Seq(Events(Units)), NEW A \in Audio,
         NEW S \in Audio, NEW F, NEW l \in Ledger, NEW C \in SUBSET Units
  PROVE  /\ Len(S) \in Nat /\ Unapplied(E) \in Nat /\ Cardinality(C) \in Nat
         /\ Cardinality({}) = 0
<1>1. IsFiniteSet(C)
  <2>1. 0 \in Int /\ Recorded - 1 \in Int  BY ChunkStartIs
  <2>2. IsFiniteSet(Units)  BY <2>1, FS_Interval DEF Units
  <2> QED  BY <2>2, FS_Subset
<1>2. Unapplied(E) \in Nat
  <2>1. CASE E = << >>  BY <2>1, NoEvents
  <2>2. CASE E # << >>
    <3>1. /\ Unapplied(E) = Uncounted(Head(E)) + Unapplied(Tail(E)) /\ Unapplied(Tail(E)) \in Nat
          /\ Head(E) \in Events(Units)
      BY <2>2, FirstEvent
    <3>2. Uncounted(Head(E)) \in Nat
      <4>1. Len(Head(E).audio) \in Nat  BY <3>1 DEF Events
      <4> QED  BY <4>1 DEF Uncounted
    <3> QED  BY <3>1, <3>2
  <2> QED  BY <2>1, <2>2
<1>3. Cardinality(C) \in Nat /\ Cardinality({}) = 0
  BY <1>1, FS_CardinalityType, FS_EmptySet
<1>4. Len(S) \in Nat  BY DEF Audio
<1> QED  BY <1>2, <1>3, <1>4

\* The first event is applied, or waits for a speaker embedding.
EventStocked(G, a, E, A, S, F, C, sp) ==
  LET b == ApplyEvent(a, Head(E)) IN
  /\ b.rest = << >> => Stock(G, b.pending, Tail(E), A, S, F, b.ledger, C, sp)
  /\ b.rest # << >> => /\ b.rest = <<Head(E)>> /\ Head(E).kind = "boundary"
                       /\ b.ledger = a.ledger /\ b.pending = a.pending

\* What one event does when nothing is held back.
LEMMA AppliedOnce ==
  ASSUME NEW a \in Applied(Units), NEW e \in Events(Units), a.rest = << >>,
         NEW b, b = ApplyEvent(a, e)
  PROVE  /\ e.kind = "silence" =>
              b.ledger = NoteSilence(a.ledger, Len(e.audio)) /\ b.pending = a.pending /\ b.rest = << >>
         /\ e.kind = "audio" =>
              /\ b.ledger = NoteSpeech(a.ledger, Len(e.audio), e.replayed)
              /\ b.pending = a.pending \o e.audio /\ b.rest = << >>
         /\ e.kind = "boundary" =>
              /\ b.ledger = a.ledger /\ b.pending = a.pending
              /\ b.rest = IF Len(a.pending) < MIN_COMMIT THEN << >> ELSE <<e>>
<1>1. a.rest = << >> /\ e.kind = "silence" =>
        b.ledger = NoteSilence(a.ledger, Len(e.audio)) /\ b.pending = a.pending /\ b.rest = << >>
  BY EventIsApplied
<1>2. a.rest = << >> /\ e.kind = "audio" =>
        /\ b.ledger = NoteSpeech(a.ledger, Len(e.audio), e.replayed)
        /\ b.pending = a.pending \o e.audio /\ b.rest = << >>
  BY EventIsApplied, ZenonT(60)
<1>3. a.rest = << >> /\ e.kind = "boundary" =>
        /\ b.ledger = a.ledger /\ b.pending = a.pending
        /\ b.rest = IF Len(a.pending) < MIN_COMMIT THEN << >> ELSE <<e>>
  BY EventIsApplied
<1> QED  BY <1>1, <1>2, <1>3

\* Applying one event moves its audio and the ledger together.
LEMMA EventKeepsStock ==
  ASSUME NEW sp, NEW G \in Audio, NEW a \in Applied(Units), NEW E \in Seq(Events(Units)), NEW A \in Audio,
         NEW S \in Audio, NEW F, Cardinality(F) \in Nat, NEW C \in SUBSET Units,
         E # << >>, a.rest = << >>,
         Stock(G, a.pending, E, A, S, F, a.ledger, C, sp)
  PROVE  EventStocked(G, a, E, A, S, F, C, sp)
<1> USE DEF EventStocked
<1> DEFINE e == Head(E)
           rest == Tail(E)
           b == ApplyEvent(a, e)
           P == a.pending
           l == a.ledger
           Q == b.pending
           m == b.ledger
           more == Unapplied(rest) + Len(S) + Cardinality(F)
           g == ToSet(G)
           p == ToSet(P)
           h == Heard(rest)
           s == ToSet(S)
           x == ToSet(e.audio)
<1>1. /\ e \in Events(Units) /\ rest \in Seq(Events(Units))
      /\ Heard(E) = Sound(e) \union h
      /\ Unapplied(E) = Uncounted(e) + Unapplied(rest)
      /\ Unapplied(rest) \in Nat
      /\ EventsInLine(rest, sp) /\ Truthful(e, sp) /\ AllBefore(Sound(e), h)
  BY FirstEvent DEF Stock
<1>2. /\ e.kind \in {"audio", "silence", "boundary"} /\ e.audio \in Audio
      /\ e.replayed \in BOOLEAN /\ Len(e.audio) \in Nat
  BY <1>1 DEF Events, Audio
<1>3. l \in Ledger /\ P \in Audio  BY DEF Applied, Audio
<1>4. Len(S) \in Nat /\ Cardinality(C) \in Nat  BY <1>3, BooksFacts
<1>5. more \in Nat /\ Unapplied(E) + Len(S) + Cardinality(F) = Uncounted(e) + more
      /\ Uncounted(e) \in Nat
  <2>1. Uncounted(e) \in Nat  BY <1>2 DEF Uncounted
  <2> QED  BY <1>1, <1>4, <2>1
<1>6. /\ Said(G) /\ Said(P) /\ Said(A) /\ Said(S)
      /\ Line(g, p, Sound(e) \union h, ToSet(A), s, F)
      /\ Accounted(l, Uncounted(e) + more, p, g \union p \union (Sound(e) \union h) \union s \union F, C, sp)
      /\ g \union p \union (Sound(e) \union h) \union ToSet(A) \union s \union F \subseteq C
      /\ ToSet(A) \intersect sp = {}
  BY <1>1, <1>5 DEF Stock
<1>7. SUFFICES ASSUME b.rest = << >>
               PROVE  /\ Said(Q) /\ Line(g, ToSet(Q), h, ToSet(A), s, F)
                      /\ Accounted(m, more, ToSet(Q), g \union ToSet(Q) \union h \union s \union F, C, sp)
                      /\ g \union ToSet(Q) \union h \union ToSet(A) \union s \union F \subseteq C
  <2>1. b.rest # << >> => /\ b.rest = <<e>> /\ e.kind = "boundary"
                          /\ b.ledger = a.ledger /\ b.pending = a.pending
    <3>0. a \in Applied(Units) /\ e \in Events(Units)  BY <1>1
    <3> HIDE DEF b, e
    <3>1. b = ApplyEvent(a, e)  BY DEF b
    <3>2. /\ e.kind = "silence" => b.rest = << >>
          /\ e.kind = "audio" => b.rest = << >>
          /\ e.kind = "boundary" =>
               /\ b.ledger = a.ledger /\ b.pending = a.pending
               /\ b.rest = IF Len(a.pending) < MIN_COMMIT THEN << >> ELSE <<e>>
      BY <3>0, <3>1, AppliedOnce
    <3> QED  BY <1>2, <3>2
  <2> QED  BY <1>1, <1>6, <2>1 DEF Stock
<1>8. /\ e.kind = "silence" => m = NoteSilence(l, Len(e.audio)) /\ Q = P
      /\ e.kind = "audio" => m = NoteSpeech(l, Len(e.audio), e.replayed) /\ Q = P \o e.audio
      /\ e.kind = "boundary" => m = l /\ Q = P
  <2>1. a \in Applied(Units) /\ e \in Events(Units)  BY <1>1
  <2> HIDE DEF b, e
  <2>2. b = ApplyEvent(a, e)  BY DEF b
  <2> QED  BY <2>1, <2>2, AppliedOnce
<1> HIDE DEF b, e, rest, P, l, Q, m, more, g, p, h, s, x
<1>9. CASE e.kind = "silence"
  <2>1. Sound(e) = {} /\ Uncounted(e) = Len(e.audio) /\ {} \union h = h
    BY <1>1, <1>9 DEF Sound, Uncounted, Truthful
  <2>2. Accounted(l, Len(e.audio) + more, p, g \union p \union h \union s \union F, C, sp)
    BY <1>6, <2>1
  <2>3. Accounted(m, more, p, g \union p \union h \union s \union F, C, sp)
    BY <1>2, <1>3, <1>4, <1>5, <1>8, <1>9, <2>2, AccountedSilence
  <2> QED  BY <1>6, <1>8, <1>9, <2>1, <2>3 DEF p
<1>10. CASE e.kind = "audio"
  <2>1. Sound(e) = x /\ Uncounted(e) = IF e.replayed THEN 0 ELSE Len(e.audio)
    BY <1>10 DEF Sound, Uncounted, x
  <2>2. Said(e.audio) /\ (e.replayed => x \intersect sp = {})
    BY <1>1 DEF Truthful, x
  <2>3. x # {} => Len(e.audio) > 0
    <3>1. e.audio \in Seq(Units)  BY <1>2 DEF Audio
    <3>2. e.audio = << >> <=> x = {}  BY <3>1, UnitsOf DEF x
    <3>3. Len(e.audio) = 0 => e.audio = << >>  BY <3>1
    <3> QED  BY <1>2, <3>2, <3>3
  <2>4. Line(g, p \union x, h, ToSet(A), s, F) /\ AllBefore(p, x)
    <3>1. AllBefore(x, h)  BY <1>1, <2>1
    <3>2. Line(g, p, x \union h, ToSet(A), s, F)  BY <1>6, <2>1
    <3>3. AllBefore(p, x)  BY <3>2 DEF Line, AllBefore
    <3> QED  BY <3>1, <3>2, <3>3, LineTakes
  <2>5. ToSet(Q) = p \union x /\ Said(Q)
    <3>1. P \in Seq(Units) /\ e.audio \in Seq(Units)  BY <1>2, <1>3 DEF Audio
    <3>2. /\ ToSet(P \o e.audio) = ToSet(P) \union ToSet(e.audio)
          /\ Said(P) /\ Said(e.audio) /\ AllBefore(ToSet(P), ToSet(e.audio)) => Said(P \o e.audio)
      BY <3>1, SaidTogether
    <3> QED  BY <1>6, <1>8, <1>10, <2>2, <2>4, <3>2 DEF p, x
  <2>6. g \union p \union (x \union h) \union s \union F = g \union (p \union x) \union h \union s \union F
    OBVIOUS
  <2> DEFINE seen == g \union (p \union x) \union h \union s \union F
  <2>7. Accounted(l, (IF e.replayed THEN 0 ELSE Len(e.audio)) + more, p, seen, C, sp)
    BY <1>6, <2>1, <2>6
  <2> HIDE DEF seen
  <2>8. Accounted(m, more, p \union x, seen, C, sp)
    <3> DEFINE n == Len(e.audio)
               replayed == e.replayed
    <3>1. /\ n \in Nat /\ replayed \in BOOLEAN /\ (replayed => x \intersect sp = {})
          /\ (x # {} => n > 0) /\ Accounted(l, (IF replayed THEN 0 ELSE n) + more, p, seen, C, sp)
          /\ m = NoteSpeech(l, n, replayed)
      BY <1>2, <1>8, <1>10, <2>2, <2>3, <2>7
    <3> HIDE DEF n, replayed
    <3> QED  BY <1>3, <1>4, <1>5, <3>1, AccountedSpeech
  <2> QED  BY <1>6, <2>1, <2>4, <2>5, <2>8 DEF seen
<1>11. CASE e.kind = "boundary"
  <2>1. Sound(e) = {} /\ Uncounted(e) = 0 /\ {} \union h = h /\ 0 + more = more
    BY <1>5, <1>11 DEF Sound, Uncounted
  <2> QED  BY <1>6, <1>8, <1>11, <2>1 DEF p
<1> QED  BY <1>2, <1>9, <1>10, <1>11

\* What is left of a sequence after its first n elements.
From(s, n) == SubSeq(s, n + 1, Len(s))

\* Element by element.
LEMMA FromIs ==
  ASSUME NEW S, NEW s \in Seq(S), NEW n \in Nat, n < Len(s)
  PROVE  /\ From(s, n) \in Seq(S) /\ From(s, n) # << >>
         /\ Head(From(s, n)) = s[n + 1] /\ Tail(From(s, n)) = From(s, n + 1)
<1>1. Len(s) \in Nat /\ \A i \in 1 .. Len(s) : s[i] \in S  OBVIOUS
<1> DEFINE t == From(s, n)
           u == From(s, n + 1)
           N == Len(s)
<1>2. t \in Seq(S) /\ Len(t) = N - n /\ \A i \in 1 .. N - n : t[i] = s[n + i]
  <2>1. \A i \in n + 1 .. N : s[i] \in S  BY <1>1
  <2>2. /\ t \in Seq(S) /\ Len(t) = IF n + 1 <= N THEN N - (n + 1) + 1 ELSE 0
        /\ \A i \in 1 .. N - (n + 1) + 1 : t[i] = s[(n + 1) + i - 1]
    BY <1>1, <2>1, SubSeqProperties DEF From
  <2> HIDE DEF t
  <2> QED  BY <1>1, <2>2
<1>3. u \in Seq(S) /\ Len(u) = N - n - 1 /\ \A i \in 1 .. N - n - 1 : u[i] = s[n + 1 + i]
  <2>1. \A i \in n + 1 + 1 .. N : s[i] \in S  BY <1>1
  <2>2. /\ u \in Seq(S) /\ Len(u) = IF n + 1 + 1 <= N THEN N - (n + 1 + 1) + 1 ELSE 0
        /\ \A i \in 1 .. N - (n + 1 + 1) + 1 : u[i] = s[(n + 1 + 1) + i - 1]
    BY <1>1, <2>1, SubSeqProperties DEF From
  <2> HIDE DEF u
  <2> QED  BY <1>1, <2>2
<1> HIDE DEF t, u
<1>4. t # << >>
  <2>1. Len(t) # 0  BY <1>1, <1>2
  <2> QED  BY <2>1
<1>5. /\ Head(t) = t[1] /\ Tail(t) \in Seq(S) /\ Len(Tail(t)) = N - n - 1
      /\ \A i \in 1 .. N - n - 1 : Tail(t)[i] = t[i + 1]
  BY <1>1, <1>2, <1>4, HeadTailProperties
<1>6. t[1] = s[n + 1]  BY <1>1, <1>2
<1>7. ASSUME NEW i \in 1 .. N - n - 1  PROVE Tail(t)[i] = u[i]
  <2>1. i + 1 \in 1 .. N - n /\ n + (i + 1) = n + 1 + i  BY <1>1
  <2> QED  BY <1>2, <1>3, <1>5, <2>1
<1>8. Tail(t) = u  BY <1>1, <1>3, <1>5, <1>7, SeqEqual
<1> QED  BY <1>2, <1>4, <1>5, <1>6, <1>8 DEF t, u

\* All of a buffer is left at its beginning, and nothing at its end.
LEMMA FromEnds ==
  ASSUME NEW S, NEW s \in Seq(S)
  PROVE  From(s, 0) = s /\ From(s, Len(s)) = << >>
<1>1. From(s, 0) = s  BY SubSeqFull DEF From
<1>2. Len(s) \in Nat  OBVIOUS
<1>3. \A i \in Len(s) + 1 .. Len(s) : s[i] \in S  BY <1>2
<1>4. Len(From(s, Len(s))) = 0 /\ From(s, Len(s)) \in Seq(S)
  BY <1>2, <1>3, SubSeqProperties DEF From
<1> QED  BY <1>1, <1>4

\* An element moves from the front of z to the end of r.
LEMMA Handover ==
  ASSUME NEW S, NEW r \in Seq(S), NEW z \in Seq(S), z # << >>
  PROVE  /\ Append(r, Head(z)) \o Tail(z) = r \o z
         /\ <<Head(z)>> \o Tail(z) = z
<1> DEFINE e == Head(z)
           t == Tail(z)
           N == Len(t)
<1>1. /\ e \in S /\ t \in Seq(S) /\ Len(z) = N + 1 /\ N \in Nat
      /\ e = z[1] /\ \A n \in 1 .. N : t[n] = z[n + 1]
  BY HeadTailProperties
<1> HIDE DEF e, t, N
<1>2. <<e>> \in Seq(S) /\ Len(<<e>>) = 1 /\ <<e>>[1] = e  BY <1>1
<1> DEFINE o == <<e>>
<1>3. o \in Seq(S) /\ Len(o) = 1 /\ o[1] = e  BY <1>2
<1> HIDE DEF o
<1> DEFINE c == o \o t
<1>4. /\ c \in Seq(S) /\ Len(c) = N + 1 /\ c[1] = e
      /\ \A i \in 2 .. N + 1 : c[i] = t[i - 1]
  <2>1. c \in Seq(S) /\ Len(c) = Len(o) + Len(t)
    BY <1>1, <1>3, ConcatProperties
  <2>2. /\ \A i \in 1 .. Len(o) : c[i] = o[i]
        /\ \A i \in Len(o) + 1 .. Len(o) + Len(t) : c[i] = t[i - Len(o)]
    BY <1>1, <1>3, ConcatIs, ZenonT(60)
  <2>3. Len(t) = N  BY DEF N
  <2> HIDE DEF c
  <2>4. 1 \in 1 .. Len(o) /\ Len(o) + 1 = 2 /\ Len(o) + Len(t) = N + 1  BY <1>1, <1>3, <2>3
  <2>5. \A i \in 2 .. N + 1 : c[i] = t[i - Len(o)]  BY <2>2, <2>4
  <2> QED  BY <1>3, <2>1, <2>2, <2>4, <2>5
<1> HIDE DEF c
<1>5. c = z
  <2>1. ASSUME NEW i \in 1 .. N + 1  PROVE c[i] = z[i]
    <3>1. CASE i = 1  BY <1>1, <1>4, <3>1
    <3>2. CASE i # 1
      <4>1. i - 1 \in 1 .. N /\ i \in 2 .. N + 1 /\ (i - 1) + 1 = i  BY <1>1, <3>2
      <4>2. t[i - 1] = z[(i - 1) + 1]  BY <1>1, <4>1
      <4> QED  BY <1>4, <4>1, <4>2
    <3> QED  BY <3>1, <3>2
  <2> QED  BY <1>1, <1>4, <2>1, SeqEqual
<1>6. Append(r, e) = r \o o  BY <1>1, AppendIsConcat DEF o
<1>7. (r \o o) \o t = r \o (o \o t)
  <2>1. r \in Seq(S) /\ o \in Seq(S) /\ t \in Seq(S)  BY <1>1, <1>3
  <2>2. ASSUME NEW x \in Seq(S), NEW y \in Seq(S), NEW u \in Seq(S)
        PROVE  (x \o y) \o u = x \o (y \o u)
    BY ConcatAssociative, SMTT(30)
  <2> QED  BY <2>1, <2>2
<1> QED  BY <1>5, <1>6, <1>7 DEF e, t, o, c

\* Dropping the first element, or adding a last one, and what is left after m.
LEMMA FromMoves ==
  ASSUME NEW S, NEW s \in Seq(S), NEW m \in Nat
  PROVE  /\ s # << >> => From(Tail(s), m) = From(s, m + 1)
         /\ \A e \in S : m <= Len(s) => From(Append(s, e), m) = Append(From(s, m), e)
         /\ From(s, m) \in Seq(S)
<1>1. Len(s) \in Nat /\ \A i \in 1 .. Len(s) : s[i] \in S  OBVIOUS
<1> DEFINE N == Len(s)
           L(n, k) == IF k + 1 <= n THEN n - k ELSE 0
<1>2. ASSUME NEW t \in Seq(S), NEW k \in Nat
      PROVE  /\ From(t, k) \in Seq(S) /\ Len(From(t, k)) = L(Len(t), k)
             /\ \A i \in 1 .. L(Len(t), k) : From(t, k)[i] = t[k + i]
  <2>1. Len(t) \in Nat /\ \A i \in 1 .. Len(t) : t[i] \in S  OBVIOUS
  <2>2. \A i \in k + 1 .. Len(t) : t[i] \in S  BY <2>1
  <2>3. /\ From(t, k) \in Seq(S)
        /\ Len(From(t, k)) = IF k + 1 <= Len(t) THEN Len(t) - (k + 1) + 1 ELSE 0
        /\ \A i \in 1 .. Len(t) - (k + 1) + 1 : From(t, k)[i] = t[(k + 1) + i - 1]
    BY <2>1, <2>2, SubSeqProperties DEF From
  <2> QED  BY <2>1, <2>3
<1>3. ASSUME s # << >>  PROVE From(Tail(s), m) = From(s, m + 1)
  <2> DEFINE t == Tail(s)  f == From(t, m)  g == From(s, m + 1)
  <2>1. /\ t \in Seq(S) /\ Len(t) = N - 1 /\ N >= 1
        /\ \A i \in 1 .. N - 1 : t[i] = s[i + 1]
    BY <1>1, <1>3, HeadTailProperties
  <2>2. /\ f \in Seq(S) /\ Len(f) = L(N - 1, m)
        /\ \A i \in 1 .. L(N - 1, m) : f[i] = t[m + i]
    <3> HIDE DEF t, L
    <3>1. /\ From(t, m) \in Seq(S) /\ Len(From(t, m)) = L(Len(t), m)
          /\ \A i \in 1 .. L(Len(t), m) : From(t, m)[i] = t[m + i]
      BY <1>2, <2>1
    <3> QED  BY <2>1, <3>1
  <2>3. /\ g \in Seq(S) /\ Len(g) = L(N, m + 1)
        /\ \A i \in 1 .. L(N, m + 1) : g[i] = s[m + 1 + i]
    <3> DEFINE k == m + 1
    <3>1. k \in Nat  OBVIOUS
    <3> HIDE DEF L, k
    <3>2. /\ From(s, k) \in Seq(S) /\ Len(From(s, k)) = L(N, k)
          /\ \A i \in 1 .. L(N, k) : From(s, k)[i] = s[k + i]
      BY <1>2, <3>1
    <3> QED  BY <3>2 DEF k
  <2>4. L(N, m + 1) = L(N - 1, m)  BY <1>1
  <2> HIDE DEF t, f, g
  <2>5. ASSUME NEW i \in 1 .. L(N - 1, m)  PROVE f[i] = g[i]
    <3>1. m + i \in 1 .. N - 1 /\ (m + i) + 1 = m + 1 + i  BY <1>1
    <3>2. t[m + i] = s[(m + i) + 1]  BY <2>1, <3>1
    <3> QED  BY <2>2, <2>3, <2>4, <3>1, <3>2
  <2>6. f = g  BY <2>2, <2>3, <2>4, <2>5, SeqEqual
  <2> QED  BY <2>6 DEF t, f, g
<1>4. ASSUME NEW e \in S, m <= Len(s)
      PROVE  From(Append(s, e), m) = Append(From(s, m), e)
  <2> DEFINE t == Append(s, e)  f == From(t, m)  h == From(s, m)  g == Append(h, e)
  <2>1. /\ t \in Seq(S) /\ Len(t) = N + 1 /\ t[N + 1] = e
        /\ \A i \in 1 .. N : t[i] = s[i]
    BY <1>1, AppendProperties
  <2>2. /\ f \in Seq(S) /\ Len(f) = L(N + 1, m)
        /\ \A i \in 1 .. L(N + 1, m) : f[i] = t[m + i]
    <3> HIDE DEF t, L
    <3>1. /\ From(t, m) \in Seq(S) /\ Len(From(t, m)) = L(Len(t), m)
          /\ \A i \in 1 .. L(Len(t), m) : From(t, m)[i] = t[m + i]
      BY <1>2, <2>1
    <3> QED  BY <2>1, <3>1
  <2>3. /\ h \in Seq(S) /\ Len(h) = L(N, m)
        /\ \A i \in 1 .. L(N, m) : h[i] = s[m + i]
    BY <1>2
  <2>4. L(N, m) = N - m /\ L(N + 1, m) = N + 1 - m /\ N - m \in Nat  BY <1>1, <1>4
  <2> HIDE DEF t, f, h
  <2>5. /\ g \in Seq(S) /\ Len(g) = N - m + 1 /\ g[N - m + 1] = e
        /\ \A i \in 1 .. N - m : g[i] = h[i]
    <3>1. Len(h) = N - m  BY <2>3, <2>4
    <3> QED  BY <2>3, <3>1, AppendProperties
  <2> HIDE DEF g
  <2>6. ASSUME NEW i \in 1 .. N + 1 - m  PROVE f[i] = g[i]
    <3>1. CASE i = N + 1 - m
      <4>1. m + i = N + 1 /\ i = N - m + 1  BY <1>1, <3>1
      <4> QED  BY <2>1, <2>2, <2>4, <2>5, <4>1
    <3>2. CASE i # N + 1 - m
      <4>1. i \in 1 .. N - m /\ m + i \in 1 .. N  BY <1>1, <2>4, <3>2
      <4>2. t[m + i] = s[m + i]  BY <2>1, <4>1
      <4> QED  BY <2>2, <2>3, <2>4, <2>5, <4>1, <4>2
    <3> QED  BY <3>1, <3>2
  <2>7. N + 1 - m = N - m + 1  BY <1>1
  <2>8. f = g  BY <2>2, <2>4, <2>5, <2>6, <2>7, SeqEqual
  <2> QED  BY <2>8 DEF t, f, g, h
<1> QED  BY <1>2, <1>3, <1>4

-----------------------------------------------------------------------------
(***************************************************************************)
(* What else the books say: the ledger has a segment open while there is   *)
(* pending audio, and of one socket in order it names the very units.      *)
(***************************************************************************)

\* Where a silent window may be replayed, the ledger knows where it began, or will
\* by the time the replay is applied.
Dated(E, A, l) ==
  \/ l.attack_start # Unset
  \/ /\ \A n \in Sounds(E) : E[n].replayed => \E m \in 1 .. n - 1 : E[m].kind = "silence"
     /\ A # << >> => \E m \in DOMAIN E : E[m].kind = "silence"

\* The open segment is the pending audio, and stays so with the events to come.
Segment(P, E, A, l) ==
  /\ P # << >> <=> SegmentOpen(l)
  /\ \A n \in Sounds(E) : E[n].audio # << >>
  /\ Dated(E, A, l)

\* How many units have passed through the gate.
Passed(S, F, C) == Cardinality(C) - Cardinality(F) - Len(S)

\* The units are numbered as they came: staging holds the last of them, the events
\* those before, the ledger has counted the rest, and what it claims has been heard.
Numbered(G, E, S, F, l, C, sp) ==
  /\ C = 0 .. Cardinality(C) - 1
  /\ l.consumed + Unapplied(E) = Passed(S, F, C)
  /\ \A x \in F : x >= Cardinality(C) - Cardinality(F)
  /\ \A i \in 1 .. Len(S) : S[i] = Passed(S, F, C) + i - 1
  /\ \A m \in 0 .. Len(E), x \in sp :
       x \in Heard(From(E, m)) => x >= Passed(S, F, C) - Unapplied(From(E, m))
  /\ (0 .. l.covered - 1) \intersect sp \subseteq ToSet(G)

\* The buffers of a connection follow one another, its ledger accounts for them and
\* has their segment open; and where no peer misbehaves the units keep their numbers.
Books(gated, pending, events, attack, staging, frame, l, arrived, sp) ==
  /\ Stock(gated, pending, events, attack, staging, frame, l, arrived, sp)
  /\ Segment(pending, events, attack, l)
  /\ Allow = {} => Numbered(gated, events, staging, frame, l, arrived, sp)

\* The numbers of the books.
LEMMA NumberFacts ==
  ASSUME NEW E \in Seq(Events(Units)), NEW S \in Audio, NEW F, Cardinality(F) \in Nat,
         NEW l \in Ledger, NEW C \in SUBSET Units
  PROVE  /\ Len(S) \in Nat /\ Unapplied(E) \in Nat /\ Cardinality(C) \in Nat
         /\ Passed(S, F, C) \in Int /\ l.consumed \in Nat /\ l.covered \in Nat
         /\ Passed(S, F, C) + Len(S) + Cardinality(F) = Cardinality(C)
         /\ \A m \in Nat : Unapplied(From(E, m)) \in Nat
<1>1. Len(S) \in Nat /\ Unapplied(E) \in Nat /\ Cardinality(C) \in Nat
  BY BooksFacts DEF Audio
<1>2. l.consumed \in Nat /\ l.covered \in Nat  BY LedgerFields
<1>3. ASSUME NEW m \in Nat  PROVE Unapplied(From(E, m)) \in Nat
  <2>1. From(E, m) \in Seq(Events(Units))  BY FromMoves
  <2> QED  BY <2>1, BooksFacts DEF Audio
<1> DEFINE n == Len(S)  c == Cardinality(C)  f == Cardinality(F)
<1>4. n \in Nat /\ c \in Nat /\ f \in Nat /\ Passed(S, F, C) = c - f - n  BY <1>1 DEF Passed
<1> HIDE DEF n, c, f
<1>5. Passed(S, F, C) \in Int /\ Passed(S, F, C) + n + f = c  BY <1>4
<1> QED  BY <1>1, <1>2, <1>3, <1>5 DEF n, c, f

LEMMA PassedIs ==
  ASSUME NEW S \in Audio, NEW F, Cardinality(F) \in Nat, NEW C \in SUBSET Units
  PROVE  /\ Passed(S, F, C) \in Int /\ Cardinality(C) \in Nat
         /\ Passed(S, F, C) + Len(S) + Cardinality(F) = Cardinality(C)
<1> DEFINE n == Len(S)  c == Cardinality(C)  f == Cardinality(F)  none == << >>
<1>1. n \in Nat /\ c \in Nat
  <2>1. none \in Seq(Events(Units))  OBVIOUS
  <2>2. NewLedger \in Ledger  BY DEF NewLedger, Ledger, Offset
  <2> HIDE DEF none
  <2> QED  BY <2>1, <2>2, BooksFacts
<1>2. Passed(S, F, C) = c - f - n /\ f \in Nat  BY DEF Passed
<1> HIDE DEF n, c, f
<1>3. Passed(S, F, C) \in Int /\ Passed(S, F, C) + n + f = c  BY <1>1, <1>2
<1> QED  BY <1>1, <1>3 DEF n, c, f

\* Speech below what the events after the first m will count is gated or pending.
LEMMA HeardBelow ==
  ASSUME NEW sp, NEW G \in Audio, NEW P \in Audio, NEW E \in Seq(Events(Units)), NEW A \in Audio,
         NEW S \in Audio, NEW F, Cardinality(F) \in Nat, NEW l \in Ledger, NEW C \in SUBSET Units,
         Stock(G, P, E, A, S, F, l, C, sp), Numbered(G, E, S, F, l, C, sp), ~l.frozen,
         NEW m \in 0 .. Len(E), Heard(E) = Heard(From(E, m)),
         NEW x \in Nat, x \in sp, x < Passed(S, F, C) - Unapplied(From(E, m))
  PROVE  x \in ToSet(G) \union ToSet(P)
<1> DEFINE U == Unapplied(E)  V == Unapplied(From(E, m))  n == Len(S)  f == Cardinality(F)
           c == Cardinality(C)  p == Passed(S, F, C)
           seen == ToSet(G) \union ToSet(P) \union Heard(E) \union ToSet(S) \union F
<1>1. /\ U \in Nat /\ V \in Nat /\ n \in Nat /\ f \in Nat /\ c \in Nat /\ p \in Int
      /\ l.consumed \in Nat /\ p + n + f = c
  BY NumberFacts
<1>2. /\ C = 0 .. c - 1 /\ l.consumed + U = p
      /\ \A y \in F : y >= c - f
      /\ \A i \in 1 .. n : S[i] = p + i - 1
      /\ \A y \in sp : y \in Heard(From(E, m)) => y >= p - V
  BY DEF Numbered
<1>3. Accounted(l, U + n + f, ToSet(P), seen, C, sp)  BY DEF Stock
<1>4. \A y \in ToSet(S) : \E i \in 1 .. n : y = S[i]
  BY UnitsOf DEF Audio
<1> HIDE DEF U, V, n, f, c, p, seen
<1>5. C \intersect sp \subseteq seen
  <2>1. l.consumed + (U + n + f) = c  BY <1>1, <1>2
  <2> QED  BY <1>3, <2>1 DEF Accounted, c
<1>6. x < p - V /\ x < p /\ x < c  BY <1>1 DEF p, V
<1>7. x \in seen  BY <1>1, <1>2, <1>5, <1>6
<1>8. x \notin Heard(E)
  <2>1. x \in Heard(From(E, m)) => x >= p - V  BY <1>2
  <2> QED  BY <1>1, <1>6, <2>1
<1>9. x \notin ToSet(S)
  <2> SUFFICES ASSUME NEW i \in 1 .. n, x = S[i]  PROVE FALSE  BY <1>4
  <2> QED  BY <1>1, <1>2, <1>6
<1>10. x \notin F  BY <1>1, <1>2, <1>6
<1> QED  BY <1>7, <1>8, <1>9, <1>10 DEF seen

\* The first event is applied, or waits for a speaker embedding.
EventKept(G, a, E, A, S, F, C, sp) ==
  LET b == ApplyEvent(a, Head(E)) IN
  /\ b.rest = << >> => Books(G, b.pending, Tail(E), A, S, F, b.ledger, C, sp)
  /\ b.rest # << >> => /\ b.rest = <<Head(E)>> /\ Head(E).kind = "boundary"
                       /\ b.ledger = a.ledger /\ b.pending = a.pending

\* Without its first event: what the other events are.
LEMMA SegmentShifts ==
  ASSUME NEW E \in Seq(Events(Units)), E # << >>, NEW A, NEW l, NEW m
  PROVE  /\ (\A n \in Sounds(E) : E[n].audio # << >>) =>
              \A n \in Sounds(Tail(E)) : Tail(E)[n].audio # << >>
         /\ Dated(E, A, l) /\ Head(E).kind # "silence" /\ m.attack_start = l.attack_start =>
              Dated(Tail(E), A, m)
<1> DEFINE r == Tail(E)
           N == Len(E)
<1>1. /\ N \in Nat /\ N >= 1 /\ DOMAIN E = 1 .. N /\ Head(E) = E[1]
      /\ DOMAIN r = 1 .. N - 1 /\ \A n \in 1 .. N - 1 : r[n] = E[n + 1]
  <2>1. Head(E) = E[1] /\ r \in Seq(Events(Units)) /\ Len(r) = N - 1
        /\ \A n \in 1 .. Len(r) : r[n] = E[n + 1]
    BY HeadTailProperties
  <2>2. N \in Nat /\ N # 0 /\ DOMAIN E = 1 .. N  OBVIOUS
  <2>3. DOMAIN r = 1 .. Len(r)  BY <2>1
  <2> QED  BY <2>1, <2>2, <2>3
<1> HIDE DEF r, N
<1>2. ASSUME NEW n \in Sounds(r)
      PROVE  n \in 1 .. N - 1 /\ n + 1 \in Sounds(E) /\ r[n] = E[n + 1]
  BY <1>1 DEF Sounds
<1>3. ASSUME \A n \in Sounds(E) : E[n].audio # << >>
      PROVE  \A n \in Sounds(r) : r[n].audio # << >>
  BY <1>2, <1>3
<1>4. ASSUME Dated(E, A, l), Head(E).kind # "silence", m.attack_start = l.attack_start
      PROVE  Dated(r, A, m)
  <2>1. CASE l.attack_start # Unset  BY <1>4, <2>1 DEF Dated
  <2>2. CASE l.attack_start = Unset
    <3>1. /\ \A n \in Sounds(E) : E[n].replayed => \E i \in 1 .. n - 1 : E[i].kind = "silence"
          /\ A # << >> => \E i \in DOMAIN E : E[i].kind = "silence"
      BY <1>4, <2>2 DEF Dated
    <3>2. ASSUME NEW n \in Sounds(r), r[n].replayed
          PROVE  \E i \in 1 .. n - 1 : r[i].kind = "silence"
      <4>1. n \in 1 .. N - 1 /\ n + 1 \in Sounds(E) /\ E[n + 1].replayed  BY <1>2, <3>2
      <4>2. PICK i \in 1 .. (n + 1) - 1 : E[i].kind = "silence"  BY <3>1, <4>1
      <4>3. i # 1  BY <1>1, <1>4, <4>2
      <4>4. i - 1 \in 1 .. n - 1 /\ i - 1 \in 1 .. N - 1 /\ (i - 1) + 1 = i
        BY <1>1, <4>1, <4>2, <4>3
      <4>5. r[i - 1] = E[(i - 1) + 1]  BY <1>1, <4>4
      <4> QED  BY <4>2, <4>4, <4>5
    <3>3. ASSUME A # << >>  PROVE \E i \in DOMAIN r : r[i].kind = "silence"
      <4>1. PICK i \in 1 .. N : E[i].kind = "silence"  BY <1>1, <3>1, <3>3
      <4>2. i # 1  BY <1>1, <1>4, <4>1
      <4>3. i - 1 \in 1 .. N - 1 /\ (i - 1) + 1 = i  BY <1>1, <4>1, <4>2
      <4>4. r[i - 1] = E[(i - 1) + 1]  BY <1>1, <4>3
      <4> QED  BY <1>1, <4>1, <4>3, <4>4
    <3> QED  BY <3>2, <3>3 DEF Dated
  <2> QED  BY <2>1, <2>2
<1> QED  BY <1>3, <1>4 DEF r

\* A ledger that has noted silence, or speech.
LEMMA SilenceNoted ==
  ASSUME NEW l \in Ledger, NEW n \in Nat, NEW m, m = NoteSilence(l, n)
  PROVE  /\ m.consumed = l.consumed + n
         /\ m.covered = IF ~SegmentOpen(l) /\ ~l.frozen THEN l.consumed + n ELSE l.covered
         /\ m.segment_start = l.segment_start /\ m.attack_start = l.consumed
<1>1. FALSE \in BOOLEAN  OBVIOUS
<1> QED  BY <1>1, LedgerMethods

LEMMA SpeechNoted ==
  ASSUME NEW l \in Ledger, NEW n \in Nat, NEW replayed \in BOOLEAN,
         NEW m, m = NoteSpeech(l, n, replayed)
  PROVE  /\ m.consumed = IF replayed THEN l.consumed ELSE l.consumed + n
         /\ m.covered = l.covered /\ m.attack_start = l.attack_start
         /\ m.segment_start = IF SegmentOpen(l) THEN l.segment_start
                              ELSE IF replayed THEN l.attack_start ELSE l.consumed
<1>1. /\ NoteSpeech(l, n, replayed).consumed = IF replayed THEN l.consumed ELSE l.consumed + n
      /\ NoteSpeech(l, n, replayed).covered = l.covered
      /\ NoteSpeech(l, n, replayed).segment_start =
           IF SegmentOpen(l) THEN l.segment_start
           ELSE IF replayed THEN l.attack_start ELSE l.consumed
      /\ NoteSpeech(l, n, replayed).attack_start = l.attack_start
  BY LedgerMethods
<1> QED  BY <1>1

\* An applied event keeps the segment open exactly while audio is pending.
LEMMA SegmentEvent ==
  ASSUME NEW a \in Applied(Units), NEW E \in Seq(Events(Units)), NEW A,
         E # << >>, a.rest = << >>, Segment(a.pending, E, A, a.ledger),
         NEW b, b = ApplyEvent(a, Head(E)), b.rest = << >>
  PROVE  Segment(b.pending, Tail(E), A, b.ledger)
<1> DEFINE e == Head(E)
           l == a.ledger
           m == b.ledger
           P == a.pending
           Q == b.pending
<1>1. /\ e \in Events(Units) /\ e = E[1] /\ 1 \in DOMAIN E
      /\ e.kind \in {"audio", "silence", "boundary"} /\ e.audio \in Seq(Units)
      /\ e.replayed \in BOOLEAN /\ Len(e.audio) \in Nat
  <2>1. e \in Events(Units) /\ e = E[1] /\ 1 \in DOMAIN E  BY HeadTailProperties
  <2> QED  BY <2>1 DEF Events
<1>2. l \in Ledger /\ P \in Seq(Units)  BY DEF Applied
<1>3. /\ P # << >> <=> SegmentOpen(l)
      /\ \A n \in Sounds(E) : E[n].audio # << >>
      /\ Dated(E, A, l)
  BY DEF Segment
<1>4. l.consumed \in Nat /\ Unset \notin Nat  BY <1>2, LedgerFields DEF Unset
<1>5. /\ e.kind = "silence" => m = NoteSilence(l, Len(e.audio)) /\ Q = P
      /\ e.kind = "audio" => m = NoteSpeech(l, Len(e.audio), e.replayed) /\ Q = P \o e.audio
      /\ e.kind = "boundary" => m = l /\ Q = P
  <2>1. e \in Events(Units) /\ b = ApplyEvent(a, e)  BY <1>1
  <2> HIDE DEF e
  <2> QED  BY <2>1, AppliedOnce
<1>6. \A n \in Sounds(Tail(E)) : Tail(E)[n].audio # << >>  BY <1>3, SegmentShifts
<1>7. e.kind # "silence" /\ m.attack_start = l.attack_start => Dated(Tail(E), A, m)
  <2> HIDE DEF l, m
  <2> QED  BY <1>3, SegmentShifts
<1> HIDE DEF e, l, m, P, Q
<1>8. CASE e.kind = "silence"
  <2>1. m.segment_start = l.segment_start /\ m.attack_start = l.consumed
    BY <1>1, <1>2, <1>5, <1>8, SilenceNoted
  <2>2. Dated(Tail(E), A, m)  BY <1>4, <2>1 DEF Dated
  <2>3. Q # << >> <=> SegmentOpen(m)  BY <1>3, <1>5, <1>8, <2>1 DEF SegmentOpen
  <2> QED  BY <1>6, <2>2, <2>3 DEF Segment, m, Q
<1>9. CASE e.kind = "audio"
  <2>1. /\ m.attack_start = l.attack_start
        /\ m.segment_start = IF SegmentOpen(l) THEN l.segment_start
                             ELSE IF e.replayed THEN l.attack_start ELSE l.consumed
    BY <1>1, <1>2, <1>5, <1>9, SpeechNoted
  <2>2. 1 \in Sounds(E)  BY <1>1, <1>9 DEF Sounds
  <2>3. e.replayed => l.attack_start # Unset
    <3> SUFFICES ASSUME e.replayed, l.attack_start = Unset  PROVE FALSE  OBVIOUS
    <3>1. \E i \in 1 .. 1 - 1 : E[i].kind = "silence"  BY <1>1, <1>3, <2>2 DEF Dated
    <3> QED  BY <3>1
  <2>4. SegmentOpen(m)  BY <1>4, <2>1, <2>3 DEF SegmentOpen
  <2>5. Q # << >>
    <3>1. e.audio # << >>  BY <1>1, <1>3, <2>2
    <3>2. Len(e.audio) # 0  BY <1>1, <3>1
    <3>3. Len(P \o e.audio) = Len(P) + Len(e.audio) /\ Len(P) \in Nat
      BY <1>1, <1>2, ConcatProperties
    <3>4. Len(Q) # 0  BY <1>1, <1>5, <1>9, <3>2, <3>3
    <3> QED  BY <3>4
  <2> QED  BY <1>6, <1>7, <1>9, <2>1, <2>4, <2>5 DEF Segment, m, Q
<1>10. CASE e.kind = "boundary"
  BY <1>3, <1>5, <1>6, <1>7, <1>10 DEF Segment, m, Q
<1> QED  BY <1>1, <1>8, <1>9, <1>10

\* An applied event is counted, and silence claims nothing that is not gated.
LEMMA NumberedEvent ==
  ASSUME NEW sp, NEW G \in Audio, NEW a \in Applied(Units), NEW E \in Seq(Events(Units)), NEW A \in Audio,
         NEW S \in Audio, NEW F, Cardinality(F) \in Nat, NEW C \in SUBSET Units,
         E # << >>, a.rest = << >>,
         Stock(G, a.pending, E, A, S, F, a.ledger, C, sp),
         Numbered(G, E, S, F, a.ledger, C, sp),
         NEW b, b = ApplyEvent(a, Head(E)), b.rest = << >>
  PROVE  Numbered(G, Tail(E), S, F, b.ledger, C, sp)
<1> DEFINE e == Head(E)
           r == Tail(E)
           l == a.ledger
           m == b.ledger
           P == a.pending
           n == Len(e.audio)
           p == Passed(S, F, C)
<1>1. /\ e \in Events(Units) /\ r \in Seq(Events(Units)) /\ EventsInLine(r, sp)
      /\ Heard(E) = Sound(e) \union Heard(r)
      /\ Unapplied(E) = Uncounted(e) + Unapplied(r)
      /\ Unapplied(r) \in Nat /\ Truthful(e, sp)
  BY FirstEvent DEF Stock
<1>2. /\ e.kind \in {"audio", "silence", "boundary"} /\ e.replayed \in BOOLEAN /\ n \in Nat
  BY <1>1 DEF Events
<1>3. l \in Ledger /\ P \in Audio  BY DEF Applied, Audio
<1>4. l.consumed \in Nat /\ l.covered \in Nat /\ p \in Int /\ Unapplied(E) \in Nat
  BY <1>3, NumberFacts
<1>5. /\ e.kind = "silence" => m = NoteSilence(l, n)
      /\ e.kind = "audio" => m = NoteSpeech(l, n, e.replayed)
      /\ e.kind = "boundary" => m = l
  <2>1. e \in Events(Units) /\ b = ApplyEvent(a, e)  BY <1>1
  <2> HIDE DEF e
  <2> QED  BY <2>1, AppliedOnce
<1>6. Uncounted(e) = IF (e.kind = "audio" /\ e.replayed) \/ e.kind = "boundary" THEN 0 ELSE n
  BY <1>1, <1>2 DEF Uncounted, Truthful, Events
<1> HIDE DEF e, l, m, P, n, p
<1>7. /\ m.consumed = l.consumed + Uncounted(e)
      /\ m.covered = IF e.kind = "silence" /\ ~SegmentOpen(l) /\ ~l.frozen
                     THEN l.consumed + n ELSE l.covered
  <2>1. CASE e.kind = "silence"
    <3>1. m.consumed = l.consumed + n /\ m.covered = IF ~SegmentOpen(l) /\ ~l.frozen
                                                     THEN l.consumed + n ELSE l.covered
      BY <1>2, <1>3, <1>5, <2>1, SilenceNoted
    <3> QED  BY <1>6, <2>1, <3>1
  <2>2. CASE e.kind = "audio"
    <3>1. m.consumed = (IF e.replayed THEN l.consumed ELSE l.consumed + n) /\ m.covered = l.covered
      BY <1>2, <1>3, <1>5, <2>2, SpeechNoted
    <3> QED  BY <1>2, <1>4, <1>6, <2>2, <3>1
  <2>3. CASE e.kind = "boundary"
    BY <1>4, <1>5, <1>6, <2>3
  <2> QED  BY <1>2, <2>1, <2>2, <2>3
<1>8. /\ C = 0 .. Cardinality(C) - 1 /\ l.consumed + Unapplied(E) = p
      /\ \A x \in F : x >= Cardinality(C) - Cardinality(F)
      /\ \A i \in 1 .. Len(S) : S[i] = p + i - 1
      /\ \A k \in 0 .. Len(E), x \in sp : x \in Heard(From(E, k)) => x >= p - Unapplied(From(E, k))
      /\ (0 .. l.covered - 1) \intersect sp \subseteq ToSet(G)
  BY DEF Numbered, l, p
<1>9. m.consumed + Unapplied(r) = p
  <2>1. Uncounted(e) \in Nat  BY <1>2, <1>6
  <2> QED  BY <1>1, <1>4, <1>7, <1>8, <2>1
<1>10. \A k \in 0 .. Len(r) : k + 1 \in 0 .. Len(E) /\ From(r, k) = From(E, k + 1)
  <2>1. Len(r) = Len(E) - 1 /\ Len(E) \in Nat  BY HeadTailProperties DEF r
  <2>2. \A k \in Nat : From(r, k) = From(E, k + 1)  BY FromMoves DEF r
  <2> QED  BY <2>1, <2>2
<1>11. \A k \in 0 .. Len(r), x \in sp : x \in Heard(From(r, k)) => x >= p - Unapplied(From(r, k))
  BY <1>8, <1>10
<1>12. (0 .. m.covered - 1) \intersect sp \subseteq ToSet(G)
  <2>1. CASE ~(e.kind = "silence" /\ ~SegmentOpen(l) /\ ~l.frozen)
    BY <1>7, <1>8, <2>1
  <2>2. CASE e.kind = "silence" /\ ~SegmentOpen(l) /\ ~l.frozen
    <3>1. From(E, 1) = r /\ 1 \in 0 .. Len(E)
      <4>1. r \in Seq(Events(Units)) /\ 0 \in Nat /\ Len(r) \in Nat /\ 0 \in 0 .. Len(r)  BY <1>1
      <4>2. From(r, 0) = r  BY <4>1, FromEnds
      <4>3. 0 + 1 = 1  OBVIOUS
      <4> QED  BY <1>10, <4>1, <4>2, <4>3
    <3>2. Heard(E) = Heard(From(E, 1))  BY <1>1, <2>2, <3>1 DEF Sound
    <3>3. m.covered = p - Unapplied(From(E, 1))
      <4> DEFINE u == Unapplied(r)
      <4>1. m.covered = l.consumed + n /\ m.consumed = l.consumed + n
        BY <1>6, <1>7, <2>2
      <4>2. u \in Nat /\ m.consumed + u = p /\ Unapplied(From(E, 1)) = u  BY <1>1, <1>9, <3>1
      <4> HIDE DEF u
      <4> QED  BY <1>2, <1>4, <4>1, <4>2
    <3>4. ToSet(P) \intersect sp = {}
      BY <2>2 DEF Stock, Accounted, P, l
    <3> SUFFICES ASSUME NEW x \in 0 .. m.covered - 1, x \in sp  PROVE x \in ToSet(G)  OBVIOUS
    <3>5. m.covered \in Int  BY <1>1, <1>2, <1>4, <1>7, <2>2
    <3>6. x \in Nat /\ x < p - Unapplied(From(E, 1))  BY <3>3, <3>5
    <3>7. Stock(G, P, E, A, S, F, l, C, sp) /\ Numbered(G, E, S, F, l, C, sp)  BY DEF P, l
    <3>8. x \in ToSet(G) \union ToSet(P)
      BY <1>3, <2>2, <3>1, <3>2, <3>6, <3>7, HeardBelow DEF p
    <3> QED  BY <3>4, <3>8
  <2> QED  BY <2>1, <2>2
<1> QED  BY <1>8, <1>9, <1>11, <1>12 DEF Numbered, m, r, p

\* Applying one event keeps the books.
LEMMA EventKeepsBooks ==
  ASSUME NEW sp, NEW G \in Audio, NEW a \in Applied(Units), NEW E \in Seq(Events(Units)), NEW A \in Audio,
         NEW S \in Audio, NEW F, Cardinality(F) \in Nat, NEW C \in SUBSET Units,
         E # << >>, a.rest = << >>,
         Books(G, a.pending, E, A, S, F, a.ledger, C, sp)
  PROVE  EventKept(G, a, E, A, S, F, C, sp)
<1> DEFINE b == ApplyEvent(a, Head(E))
<1>1. Stock(G, a.pending, E, A, S, F, a.ledger, C, sp) /\ Segment(a.pending, E, A, a.ledger)
      /\ (Allow = {} => Numbered(G, E, S, F, a.ledger, C, sp))
  BY DEF Books
<1>2. EventStocked(G, a, E, A, S, F, C, sp)  BY <1>1, EventKeepsStock
<1>3. /\ b.rest = << >> => Stock(G, b.pending, Tail(E), A, S, F, b.ledger, C, sp)
      /\ b.rest # << >> => /\ b.rest = <<Head(E)>> /\ Head(E).kind = "boundary"
                           /\ b.ledger = a.ledger /\ b.pending = a.pending
  BY <1>2 DEF EventStocked
<1>4. b = ApplyEvent(a, Head(E))  OBVIOUS
<1> HIDE DEF b
<1>5. b.rest = << >> => Segment(b.pending, Tail(E), A, b.ledger)  BY <1>1, <1>4, SegmentEvent
<1>6. b.rest = << >> /\ Allow = {} => Numbered(G, Tail(E), S, F, b.ledger, C, sp)
  BY <1>1, <1>4, NumberedEvent
<1>7. b.rest = << >> => Books(G, b.pending, Tail(E), A, S, F, b.ledger, C, sp)
  BY <1>3, <1>5, <1>6 DEF Books
<1> QED  BY <1>3, <1>7 DEF EventKept, b

\* However many events are applied, the books stay true, and what waits starts
\* with a boundary.
LEMMA EventsKeepBooks ==
  ASSUME NEW sp, NEW G \in Audio, NEW P \in Audio, NEW E \in Seq(Events(Units)), NEW A \in Audio,
         NEW S \in Audio, NEW F, Cardinality(F) \in Nat, NEW l \in Ledger, NEW C \in SUBSET Units,
         Books(G, P, E, A, S, F, l, C, sp)
  PROVE  LET a == ApplyEvents(l, P, E) IN
         /\ Books(G, a.pending, a.rest, A, S, F, a.ledger, C, sp)
         /\ a.rest # << >> => Head(a.rest).kind = "boundary"
<1> DEFINE N == Len(E)
<1>1. PICK run \in [0 .. N -> Applied(Units)] : ApplyRun(run, l, P, E)
  <2>1. P \in Seq(Units)  BY DEF Audio
  <2> QED  BY <2>1, ApplyRuns, Zenon
<1>2. N \in Nat  OBVIOUS
<1> DEFINE Good(a, left) == /\ Books(G, a.pending, a.rest \o left, A, S, F, a.ledger, C, sp)
                            /\ a.rest # << >> => Head(a.rest).kind = "boundary"
           Q == {n \in Nat : n <= N => Good(run[n], From(E, n))}
<1>3. 0 \in Q
  <2>1. run[0].rest = << >> /\ run[0].pending = P /\ run[0].ledger = l  BY <1>1 DEF ApplyRun
  <2>2. << >> \o From(E, 0) = E  BY FromEnds, ConcatEmptySeq
  <2> QED  BY <2>1, <2>2
<1>4. ASSUME NEW n \in Nat, n \in Q  PROVE n + 1 \in Q
  <2> SUFFICES ASSUME n + 1 <= N  PROVE Good(run[n + 1], From(E, n + 1))
    OBVIOUS
  <2> DEFINE a == run[n]
             z == From(E, n)
             b == run[n + 1]
  <2>1. n + 1 \in 1 .. N /\ n \in 0 .. N /\ (n + 1) - 1 = n /\ n < N /\ n <= N  BY <1>2
  <2>2. /\ z \in Seq(Events(Units)) /\ z # << >> /\ Head(z) = E[n + 1] /\ Tail(z) = From(E, n + 1)
    BY <2>1, FromIs
  <2>3. b = ApplyEvent(a, Head(z))
    <3>1. \A i \in 1 .. N : run[i] = ApplyEvent(run[i - 1], E[i])  BY <1>1 DEF ApplyRun
    <3> HIDE DEF N
    <3>2. run[n + 1] = ApplyEvent(run[n], E[n + 1])  BY <2>1, <3>1
    <3> QED  BY <2>2, <3>2
  <2>4. a \in Applied(Units) /\ Head(z) \in Events(Units) /\ Tail(z) \in Seq(Events(Units))
    BY <2>1, <2>2, HeadTailProperties
  <2>5. Good(a, z)  BY <1>4, <2>1
  <2>0. SUFFICES Good(b, Tail(z))
    BY <2>2
  <2> HIDE DEF a, z, Good, b
  <2>6. a.rest \in Seq(Events(Units))  BY <2>4 DEF Applied
  <2>7. CASE a.rest # << >>
    <3>1. b.ledger = a.ledger /\ b.pending = a.pending /\ b.rest = Append(a.rest, Head(z))
      <4> DEFINE e == Head(z)
      <4>1. e \in Events(Units) /\ b = ApplyEvent(a, e)  BY <2>3, <2>4
      <4> HIDE DEF e
      <4> QED  BY <2>4, <2>7, <4>1, EventIsApplied DEF e
    <3>2. b.rest \o Tail(z) = a.rest \o z
      <4>1. Append(a.rest, Head(z)) \o Tail(z) = a.rest \o z  BY <2>2, <2>6, Handover, Zenon
      <4> QED  BY <3>1, <4>1
    <3>3. Head(b.rest) = Head(a.rest)
      <4>1. Len(a.rest) \in Nat \ {0}  BY <2>6, <2>7
      <4>2. Append(a.rest, Head(z))[1] = a.rest[1]
        BY <2>4, <2>6, <4>1, AppendProperties
      <4>3. Head(Append(a.rest, Head(z))) = Append(a.rest, Head(z))[1]
        OBVIOUS
      <4>4. Head(a.rest) = a.rest[1]  OBVIOUS
      <4> QED  BY <3>1, <4>2, <4>3, <4>4
    <3> QED  BY <2>5, <2>7, <3>1, <3>2, <3>3 DEF Good
  <2>8. CASE a.rest = << >>
    <3>1. << >> \o z = z  BY <2>2, ConcatEmptySeq
    <3>2. Books(G, a.pending, z, A, S, F, a.ledger, C, sp)
      BY <2>5, <2>8, <3>1 DEF Good
    <3>3. /\ b.rest = << >> => Books(G, b.pending, Tail(z), A, S, F, b.ledger, C, sp)
          /\ b.rest # << >> => /\ b.rest = <<Head(z)>> /\ Head(z).kind = "boundary"
                               /\ b.ledger = a.ledger /\ b.pending = a.pending
      <4>1. /\ z \in Seq(Events(Units)) /\ z # << >> /\ a \in Applied(Units) /\ a.rest = << >>
            /\ Books(G, a.pending, z, A, S, F, a.ledger, C, sp)
        BY <2>2, <2>4, <2>8, <3>2
      <4>2. EventKept(G, a, z, A, S, F, C, sp)  BY <4>1, EventKeepsBooks
      <4> DEFINE v == ApplyEvent(a, Head(z))
      <4>4. /\ v.rest = << >> => Books(G, v.pending, Tail(z), A, S, F, v.ledger, C, sp)
            /\ v.rest # << >> => /\ v.rest = <<Head(z)>> /\ Head(z).kind = "boundary"
                                 /\ v.ledger = a.ledger /\ v.pending = a.pending
        BY <4>2 DEF EventKept
      <4> HIDE DEF v
      <4>3. b = v  BY <2>3 DEF v
      <4> QED  BY <4>3, <4>4
    <3>4. CASE b.rest = << >>
      <4>1. << >> \o Tail(z) = Tail(z)  BY <2>4, ConcatEmptySeq
      <4> QED  BY <3>3, <3>4, <4>1 DEF Good
    <3>5. CASE b.rest # << >>
      <4>1. b.rest \o Tail(z) = z
        <5>1. <<Head(z)>> \o Tail(z) = z  BY <2>2, Handover, Zenon
        <5> QED  BY <3>3, <3>5, <5>1
      <4>2. Head(b.rest) = Head(z)  BY <3>3, <3>5
      <4> QED  BY <3>2, <3>3, <3>5, <4>1, <4>2 DEF Good
    <3> QED  BY <3>4, <3>5
  <2> QED  BY <2>7, <2>8
<1>5. \A n \in Nat : n \in Q
  <2> HIDE DEF Q
  <2> QED  BY <1>3, <1>4, NatSetInduction
<1>6. Good(run[N], From(E, N))  BY <1>2, <1>5
<1>7. run[N].rest \o From(E, N) = run[N].rest
  <2>1. N \in 0 .. N  BY <1>2
  <2>2. run[N].rest \in Seq(Events(Units))  BY <2>1 DEF Applied
  <2> QED  BY <2>2, FromEnds, ConcatEmptySeq
<1> QED  BY <1>1, <1>6, <1>7 DEF ApplyRun

\* A sequence is cut in two.
LEMMA Split ==
  ASSUME NEW S, NEW s \in Seq(S), NEW m \in Nat, NEW n \in Nat, m <= n, n <= Len(s)
  PROVE  /\ SubSeq(s, m + 1, n) \in Seq(S) /\ Len(SubSeq(s, m + 1, n)) = n - m
         /\ From(s, m) \in Seq(S) /\ From(s, n) \in Seq(S)
         /\ From(s, m) = SubSeq(s, m + 1, n) \o From(s, n)
<1> DEFINE x == SubSeq(s, m + 1, n)
           y == From(s, n)
           z == From(s, m)
           N == Len(s)
<1>1. N \in Nat /\ \A i \in 1 .. N : s[i] \in S  OBVIOUS
<1>2. x \in Seq(S) /\ Len(x) = n - m /\ \A i \in 1 .. n - m : x[i] = s[m + i]
  <2>1. \A i \in m + 1 .. n : s[i] \in S  BY <1>1
  <2>2. /\ x \in Seq(S) /\ Len(x) = IF m + 1 <= n THEN n - (m + 1) + 1 ELSE 0
        /\ \A i \in 1 .. n - (m + 1) + 1 : x[i] = s[(m + 1) + i - 1]
    BY <1>1, <2>1, SubSeqProperties
  <2> HIDE DEF x
  <2> QED  BY <2>2
<1>3. y \in Seq(S) /\ Len(y) = N - n /\ \A i \in 1 .. N - n : y[i] = s[n + i]
  <2>1. \A i \in n + 1 .. N : s[i] \in S  BY <1>1
  <2>2. /\ y \in Seq(S) /\ Len(y) = IF n + 1 <= N THEN N - (n + 1) + 1 ELSE 0
        /\ \A i \in 1 .. N - (n + 1) + 1 : y[i] = s[(n + 1) + i - 1]
    BY <1>1, <2>1, SubSeqProperties DEF From
  <2> HIDE DEF y
  <2> QED  BY <1>1, <2>2
<1>4. z \in Seq(S) /\ Len(z) = N - m /\ \A i \in 1 .. N - m : z[i] = s[m + i]
  <2>1. \A i \in m + 1 .. N : s[i] \in S  BY <1>1
  <2>2. /\ z \in Seq(S) /\ Len(z) = IF m + 1 <= N THEN N - (m + 1) + 1 ELSE 0
        /\ \A i \in 1 .. N - (m + 1) + 1 : z[i] = s[(m + 1) + i - 1]
    BY <1>1, <2>1, SubSeqProperties DEF From
  <2> HIDE DEF z
  <2> QED  BY <1>1, <2>2
<1> DEFINE c == x \o y
<1>5. /\ c \in Seq(S) /\ \A i \in 1 .. Len(x) : c[i] = x[i]
      /\ \A i \in Len(x) + 1 .. Len(x) + Len(y) : c[i] = y[i - Len(x)]
  <2> HIDE DEF x, y
  <2> QED  BY <1>2, <1>3, ConcatIs, ZenonT(60)
<1>6. Len(c) = Len(x) + Len(y)
  <2> HIDE DEF x, y
  <2> QED  BY <1>2, <1>3, ConcatProperties
<1> HIDE DEF x, y, z, c
<1>7. ASSUME NEW i \in 1 .. N - m  PROVE c[i] = z[i]
  <2>1. CASE i \in 1 .. n - m  BY <1>2, <1>4, <1>5, <2>1
  <2>2. CASE i \in n - m + 1 .. N - m
    <3>1. i - (n - m) \in 1 .. N - n /\ n + (i - (n - m)) = m + i  BY <1>1, <2>2
    <3>2. y[i - (n - m)] = s[m + i]  BY <1>3, <3>1
    <3>3. i \in Len(x) + 1 .. Len(x) + Len(y)  BY <1>1, <1>2, <1>3, <2>2
    <3>4. c[i] = y[i - (n - m)]  BY <1>2, <1>5, <3>3
    <3> QED  BY <1>4, <3>2, <3>4
  <2>3. i \in 1 .. n - m \/ i \in n - m + 1 .. N - m  BY <1>1
  <2> QED  BY <2>1, <2>2, <2>3
<1>8. Len(c) = N - m  BY <1>1, <1>2, <1>3, <1>6
<1>9. c = z  BY <1>1, <1>4, <1>5, <1>7, <1>8, SeqEqual
<1> QED  BY <1>2, <1>3, <1>4, <1>9 DEF x, y, z, c

\* Staged audio is a window and what is after it.
LEMMA NextWindow ==
  ASSUME NEW s \in Audio, NEW i \in Nat, i + 1 <= WholeWindows(s)
  PROVE  /\ WindowAt(s, i + 1) \in Audio /\ Len(WindowAt(s, i + 1)) > 0
         /\ From(s, i * GATE_WINDOW) \in Audio /\ From(s, (i + 1) * GATE_WINDOW) \in Audio
         /\ From(s, i * GATE_WINDOW) = WindowAt(s, i + 1) \o From(s, (i + 1) * GATE_WINDOW)
<1>1. /\ GATE_WINDOW \in Nat \ {0} /\ WholeWindows(s) \in Nat
      /\ WholeWindows(s) * GATE_WINDOW <= Len(s) /\ Len(s) \in Nat /\ s \in Seq(Units)
  BY GateAssumption, WindowsFit DEF Audio
<1> DEFINE m == i * GATE_WINDOW
           n == (i + 1) * GATE_WINDOW
<1>2. m \in Nat /\ n \in Nat /\ n = m + GATE_WINDOW /\ n <= Len(s)
  <2>1. \A a, w \in Nat : i + 1 <= a => (i + 1) * w <= a * w  BY Z3
  <2>2. \A w \in Nat : i * w \in Nat /\ (i + 1) * w \in Nat /\ (i + 1) * w = i * w + w  BY Z3
  <2>3. n <= WholeWindows(s) * GATE_WINDOW  BY <1>1, <2>1
  <2>4. \A a \in Nat : a * GATE_WINDOW \in Nat  BY <1>1, Z3
  <2>5. m \in Nat /\ n \in Nat /\ n = m + GATE_WINDOW  BY <1>1, <2>2
  <2>6. WholeWindows(s) * GATE_WINDOW \in Nat  BY <1>1, <2>4
  <2> DEFINE p == WholeWindows(s) * GATE_WINDOW
  <2> HIDE DEF m, n, p
  <2> QED  BY <1>1, <2>3, <2>5, <2>6 DEF p
<1>3. WindowAt(s, i + 1) = SubSeq(s, m + 1, n)
  <2>1. (i + 1) - 1 = i  OBVIOUS
  <2> QED  BY <2>1 DEF WindowAt
<1> HIDE DEF m, n
<1>4. m <= n /\ n - m > 0  BY <1>1, <1>2
<1>5. /\ SubSeq(s, m + 1, n) \in Seq(Units) /\ Len(SubSeq(s, m + 1, n)) = n - m
      /\ From(s, m) \in Seq(Units) /\ From(s, n) \in Seq(Units)
      /\ From(s, m) = SubSeq(s, m + 1, n) \o From(s, n)
  <2>1. s \in Seq(Units) /\ m \in Nat /\ n \in Nat /\ m <= n /\ n <= Len(s)  BY <1>1, <1>2, <1>4
  <2> QED  BY <2>1, Split, Zenon
<1> QED  BY <1>3, <1>4, <1>5 DEF m, n, Audio

\* One window through the gate.
LEMMA WindowKeepsStock ==
  ASSUME NEW sp, NEW G \in Audio, NEW P \in Audio, NEW g \in Passing(Units), NEW W \in Audio,
         NEW T \in Audio, NEW F, Cardinality(F) \in Nat, NEW l \in Ledger, NEW C \in SUBSET Units,
         Stock(G, P, g.events, g.prev, W \o T, F, l, C, sp)
  PROVE  LET after == GateWindow(g, W, sp) IN
         Stock(G, P, after.events, after.prev, T, F, l, C, sp)
<1> DEFINE E == g.events
           A == g.prev
           S == W \o T
           gg == ToSet(G)
           p == ToSet(P)
           h == Heard(E)
           a == ToSet(A)
           x == ToSet(W)
           t == ToSet(T)
           after == GateWindow(g, W, sp)
           more == Len(T) + Cardinality(F)
<1> SUFFICES Stock(G, P, after.events, after.prev, T, F, l, C, sp)  OBVIOUS
<1>1. E \in Seq(Events(Units)) /\ A \in Audio /\ A \in Seq(Units) /\ W \in Seq(Units) /\ T \in Seq(Units)
  BY DEF Passing, Audio
<1>2. /\ ToSet(S) = x \union t /\ Len(S) = Len(W) + Len(T)
      /\ Said(S) => Said(W) /\ Said(T) /\ AllBefore(x, t)
  BY <1>1, SaidTogether
<1>3. Len(W) \in Nat /\ Len(T) \in Nat /\ Unapplied(E) \in Nat
  BY <1>1, BooksFacts
<1>4. /\ Said(G) /\ Said(P) /\ EventsInLine(E, sp) /\ Said(A) /\ Said(S)
      /\ Line(gg, p, h, a, x \union t, F)
      /\ Accounted(l, Unapplied(E) + Len(S) + Cardinality(F), p,
                   gg \union p \union h \union (x \union t) \union F, C, sp)
      /\ gg \union p \union h \union a \union (x \union t) \union F \subseteq C
      /\ a \intersect sp = {}
  BY <1>2 DEF Stock
<1>5. Said(W) /\ Said(T) /\ AllBefore(x, t)  BY <1>2, <1>4
<1>6. more \in Nat /\ Unapplied(E) + Len(S) + Cardinality(F) = (Unapplied(E) + Len(W)) + more
  <2> DEFINE u == Unapplied(E)  v == Len(W)  y == Len(T)  f == Cardinality(F)
  <2>1. u \in Nat /\ v \in Nat /\ y \in Nat /\ f \in Nat /\ Len(S) = v + y  BY <1>2, <1>3
  <2> HIDE DEF u, v, y, f
  <2>2. u + (v + y) + f = (u + v) + (y + f) /\ y + f \in Nat  BY <2>1
  <2> QED  BY <2>1, <2>2 DEF u, v, y, f
<1> SUFFICES ASSUME NEW E2, NEW A2, after.events = E2, after.prev = A2
             PROVE  /\ EventsInLine(E2, sp) /\ Said(A2)
                    /\ Line(gg, p, Heard(E2), ToSet(A2), t, F)
                    /\ Unapplied(E2) = Unapplied(E) + Len(W)
                    /\ Heard(E2) \union ToSet(A2) \subseteq h \union a \union x
                    /\ (h \union (x \union t)) \intersect sp \subseteq Heard(E2) \union t
                    /\ ToSet(A2) \intersect sp = {}
  <2> DEFINE E2 == after.events
             A2 == after.prev
             h2 == Heard(E2)
             a2 == ToSet(A2)
  <2>1. /\ EventsInLine(E2, sp) /\ Said(A2) /\ Line(gg, p, h2, a2, t, F)
        /\ Unapplied(E2) = Unapplied(E) + Len(W)
        /\ h2 \union a2 \subseteq h \union a \union x
        /\ (h \union (x \union t)) \intersect sp \subseteq h2 \union t
        /\ a2 \intersect sp = {}
    OBVIOUS
  <2> HIDE DEF E2, A2, h2, a2, after, S, E, A, h, a, x, t, gg, p
  <2>2. Unapplied(E2) + Len(T) + Cardinality(F) = (Unapplied(E) + Len(W)) + more
    <3> DEFINE u == Unapplied(E)  v == Len(W)  y == Len(T)  f == Cardinality(F)
    <3>1. u \in Nat /\ v \in Nat /\ y \in Nat /\ f \in Nat /\ Unapplied(E2) = u + v
      BY <1>3, <2>1
    <3> HIDE DEF u, v, y, f
    <3>2. (u + v) + y + f = (u + v) + (y + f)  BY <3>1
    <3> QED  BY <3>1, <3>2 DEF u, v, y, f
  <2> DEFINE seen == gg \union p \union h \union (x \union t) \union F
             left == gg \union p \union h2 \union t \union F
             number == (Unapplied(E) + Len(W)) + more
  <2>3. seen \intersect sp \subseteq left  BY <2>1
  <2>4. Accounted(l, number, p, seen, C, sp)  BY <1>4, <1>6
  <2> HIDE DEF seen, number
  <2>5. Accounted(l, number, p, left, C, sp)  BY <2>3, <2>4, AccountedSeen
  <2>6. gg \union p \union h2 \union a2 \union t \union F \subseteq C
    BY <1>4, <2>1
  <2>7. Accounted(l, Unapplied(E2) + Len(T) + Cardinality(F), p, left, C, sp)
    BY <2>2, <2>5 DEF number
  <2> QED  BY <1>4, <1>5, <2>1, <2>6, <2>7 DEF Stock, E2, A2, h2, a2, gg, p, t
<1> HIDE DEF S, more
<1>7. CASE x \intersect sp # {}
  <2> DEFINE r == AudioEvent(A, TRUE)
             n == AudioEvent(W, FALSE)
             E1 == IF A = << >> THEN E ELSE Append(E, r)
  <2>1. /\ r \in Events(Units) /\ r.kind = "audio" /\ r.audio = A /\ r.replayed = TRUE
        /\ n \in Events(Units) /\ n.kind = "audio" /\ n.audio = W /\ n.replayed = FALSE
    BY <1>1 DEF AudioEvent, Events
  <2>2. A2 = << >> /\ E2 = (E \o (IF A # << >> THEN <<r>> ELSE << >>)) \o <<n>>
    BY <1>7 DEF GateWindow, SpeechWindow
  <2> HIDE DEF r, n, E, A, after
  <2>3. E1 = E \o (IF A # << >> THEN <<r>> ELSE << >>)
    <3>1. Append(E, r) = E \o <<r>>  BY <1>1, <2>1, AppendIsConcat
    <3>2. E = E \o << >>  BY <1>1, ConcatEmptySeq
    <3> QED  BY <3>1, <3>2
  <2>4. /\ Sound(r) = a /\ Sound(n) = x /\ Uncounted(r) = 0 /\ Uncounted(n) = Len(W)
        /\ Truthful(r, sp) /\ Truthful(n, sp)
    BY <1>4, <1>5, <2>1 DEF Sound, Uncounted, Truthful
  <2>5. AllBefore(h, a) /\ AllBefore(h \union a, x) /\ Line(gg, p, (h \union a) \union x, {}, t, F)
    <3>1. AllBefore(h, a)  BY <1>4, LineMoves, Zenon
    <3>2. AllBefore(h \union a, x) /\ Line(gg, p, (h \union a) \union x, {}, t, F)
      <4> HIDE DEF gg, p, h, a, x, t
      <4> QED  BY <1>4, <1>5, LineHears
    <3> QED  BY <3>1, <3>2
  <2>6. /\ E1 \in Seq(Events(Units)) /\ Heard(E1) = h \union a
        /\ Unapplied(E1) = Unapplied(E) /\ EventsInLine(E1, sp)
    <3>1. CASE A = << >>
      <4>1. a = {}  BY <3>1, SaidNothing
      <4> QED  BY <1>1, <1>4, <3>1, <4>1
    <3>2. CASE A # << >>
      <4>1. /\ Append(E, r) \in Seq(Events(Units))
            /\ Heard(Append(E, r)) = Heard(E) \union Sound(r)
            /\ Unapplied(Append(E, r)) = Unapplied(E) + Uncounted(r)
            /\ EventsInLine(E, sp) /\ Truthful(r, sp) /\ AllBefore(Heard(E), Sound(r)) =>
                 EventsInLine(Append(E, r), sp)
        BY <1>1, <2>1, OneMoreEvent
      <4>2. Unapplied(E) + 0 = Unapplied(E)  BY <1>3
      <4> QED  BY <1>4, <2>4, <2>5, <3>2, <4>1, <4>2
    <3> QED  BY <3>1, <3>2
  <2> HIDE DEF E1
  <2>7. E2 = Append(E1, n)
    <3>1. Append(E1, n) = E1 \o <<n>>  BY <2>1, <2>6, AppendIsConcat
    <3> QED  BY <2>2, <2>3, <3>1
  <2>8. /\ Heard(E2) = (h \union a) \union x /\ Unapplied(E2) = Unapplied(E) + Len(W)
        /\ EventsInLine(E2, sp)
    <3>1. /\ Heard(Append(E1, n)) = Heard(E1) \union Sound(n)
          /\ Unapplied(Append(E1, n)) = Unapplied(E1) + Uncounted(n)
          /\ EventsInLine(E1, sp) /\ Truthful(n, sp) /\ AllBefore(Heard(E1), Sound(n)) =>
               EventsInLine(Append(E1, n), sp)
      BY <2>1, <2>6, OneMoreEvent
    <3> QED  BY <2>4, <2>5, <2>6, <2>7, <3>1
  <2>9. Said(A2) /\ ToSet(A2) = {}  BY <2>2, SaidNothing
  <2> HIDE DEF h, a, x, t, gg, p
  <2> QED  BY <2>5, <2>8, <2>9
<1>8. CASE x \intersect sp = {}
  <2> DEFINE s == SilenceEvent(W)
             ends == g.gate.gate_was_open /\ g.gate.silence_run + 1 >= COMMIT_SILENCE_WINDOWS
             E1 == Append(E, s)
  <2>1. /\ s \in Events(Units) /\ s.kind = "silence" /\ s.audio = W /\ s.replayed = FALSE
        /\ BoundaryEvent \in Events(Units) /\ BoundaryEvent.kind = "boundary"
        /\ BoundaryEvent.audio = << >> /\ BoundaryEvent.replayed = FALSE
    BY <1>1 DEF SilenceEvent, BoundaryEvent, Events
  <2>2. A2 = W /\ E2 = (E \o <<s>>) \o (IF ends THEN <<BoundaryEvent>> ELSE << >>)
    BY <1>8 DEF GateWindow, SilentWindow
  <2> HIDE DEF s, E, A, after, ends
  <2>3. E1 = E \o <<s>>  BY <1>1, <2>1, AppendIsConcat
  <2>4. /\ Sound(s) = {} /\ Uncounted(s) = Len(W) /\ Truthful(s, sp)
        /\ Sound(BoundaryEvent) = {} /\ Uncounted(BoundaryEvent) = 0 /\ Truthful(BoundaryEvent, sp)
    BY <1>5, <1>8, <2>1, SaidNothing DEF Sound, Uncounted, Truthful
  <2>5. \A z : AllBefore(z, {})  BY DEF AllBefore
  <2>6. /\ E1 \in Seq(Events(Units)) /\ Heard(E1) = h /\ Unapplied(E1) = Unapplied(E) + Len(W)
        /\ EventsInLine(E1, sp)
    <3>1. /\ Append(E, s) \in Seq(Events(Units))
          /\ Heard(Append(E, s)) = Heard(E) \union Sound(s)
          /\ Unapplied(Append(E, s)) = Unapplied(E) + Uncounted(s)
          /\ EventsInLine(E, sp) /\ Truthful(s, sp) /\ AllBefore(Heard(E), Sound(s)) =>
               EventsInLine(Append(E, s), sp)
      BY <1>1, <2>1, OneMoreEvent
    <3>2. h \union {} = h  OBVIOUS
    <3> QED  BY <1>4, <2>4, <2>5, <3>1, <3>2
  <2> HIDE DEF E1
  <2>7. /\ Heard(E2) = h /\ Unapplied(E2) = Unapplied(E) + Len(W) /\ EventsInLine(E2, sp)
    <3>1. CASE ends
      <4>1. E2 = Append(E1, BoundaryEvent)
        <5>1. Append(E1, BoundaryEvent) = E1 \o <<BoundaryEvent>>
          BY <2>1, <2>6, AppendIsConcat
        <5> QED  BY <2>2, <2>3, <3>1, <5>1
      <4>2. /\ Heard(Append(E1, BoundaryEvent)) = Heard(E1) \union Sound(BoundaryEvent)
            /\ Unapplied(Append(E1, BoundaryEvent)) = Unapplied(E1) + Uncounted(BoundaryEvent)
            /\ EventsInLine(E1, sp) /\ Truthful(BoundaryEvent, sp)
                 /\ AllBefore(Heard(E1), Sound(BoundaryEvent)) =>
                 EventsInLine(Append(E1, BoundaryEvent), sp)
            /\ Unapplied(E1) \in Nat
        BY <2>1, <2>6, OneMoreEvent
      <4>3. Heard(E1) \union {} = Heard(E1) /\ Unapplied(E1) + 0 = Unapplied(E1)
        BY <4>2
      <4> QED  BY <2>4, <2>5, <2>6, <4>1, <4>2, <4>3
    <3>2. CASE ~ends
      <4>1. E1 \o << >> = E1  BY <2>6, ConcatEmptySeq
      <4>2. E2 = E1  BY <2>2, <2>3, <3>2, <4>1
      <4> QED  BY <2>6, <4>2
    <3> QED  BY <3>1, <3>2
  <2>8. Line(gg, p, h, x, t, F)
    <3> HIDE DEF gg, p, h, a, x, t
    <3> QED  BY <1>4, <1>5, LineHears
  <2>9. Said(A2) /\ ToSet(A2) = x  BY <1>5, <2>2
  <2> HIDE DEF h, a, x, t, gg, p
  <2> QED  BY <1>8, <2>7, <2>8, <2>9
<1> QED  BY <1>7, <1>8

\* The events one window adds: the attack buffer is replayed before speech, and
\* enough silence ends the segment.
Emitted(after, events, prev, W, sp) ==
  /\ ToSet(W) \intersect sp # {} =>
       /\ after.prev = << >>
       /\ after.events = Append(IF prev = << >> THEN events
                               ELSE Append(events, AudioEvent(prev, TRUE)), AudioEvent(W, FALSE))
  /\ ToSet(W) \intersect sp = {} =>
       /\ after.prev = W
       /\ \/ after.events = Append(events, SilenceEvent(W))
          \/ after.events = Append(Append(events, SilenceEvent(W)), BoundaryEvent)

LEMMA WindowEvents ==
  ASSUME NEW sp, NEW g \in Passing(Units), NEW W \in Audio, NEW after, after = GateWindow(g, W, sp)
  PROVE  /\ AudioEvent(g.prev, TRUE) \in Events(Units) /\ AudioEvent(W, FALSE) \in Events(Units)
         /\ SilenceEvent(W) \in Events(Units) /\ BoundaryEvent \in Events(Units)
         /\ g.events \in Seq(Events(Units)) /\ g.prev \in Audio
         /\ Emitted(after, g.events, g.prev, W, sp)
<1> DEFINE E == g.events
           A == g.prev
           r == AudioEvent(A, TRUE)
           n == AudioEvent(W, FALSE)
           s == SilenceEvent(W)
           d == BoundaryEvent
<1>1. E \in Seq(Events(Units)) /\ A \in Audio  BY DEF Passing, Audio
<1>2. r \in Events(Units) /\ n \in Events(Units) /\ s \in Events(Units) /\ d \in Events(Units)
  BY <1>1 DEF AudioEvent, SilenceEvent, BoundaryEvent, Events, Audio
<1>3. ASSUME NEW z \in Seq(Events(Units)), NEW e \in Events(Units)
      PROVE  /\ Append(z, e) = z \o <<e>> /\ Append(z, e) \in Seq(Events(Units))
             /\ z \o << >> = z
  BY AppendIsConcat, AppendProperties, ConcatEmptySeq
<1>4. ASSUME ToSet(W) \intersect sp # {}
      PROVE  /\ after.prev = << >>
             /\ after.events = Append(IF A = << >> THEN E ELSE Append(E, r), n)
  <2>1. after.prev = << >> /\ after.events = (E \o (IF A # << >> THEN <<r>> ELSE << >>)) \o <<n>>
    BY <1>4 DEF GateWindow, SpeechWindow
  <2> HIDE DEF r, n, s, d, E, A
  <2>2. CASE A = << >>
    <3>1. after.events = E \o <<n>>  BY <1>1, <1>3, <2>1, <2>2, <1>2
    <3> QED  BY <1>1, <1>2, <1>3, <2>1, <2>2, <3>1
  <2>3. CASE A # << >>
    <3>1. after.events = (E \o <<r>>) \o <<n>>  BY <2>1, <2>3
    <3>2. Append(E, r) = E \o <<r>> /\ Append(E, r) \in Seq(Events(Units))  BY <1>1, <1>2, <1>3
    <3>3. Append(Append(E, r), n) = Append(E, r) \o <<n>>  BY <1>2, <1>3, <3>2
    <3> QED  BY <2>1, <2>3, <3>1, <3>2, <3>3
  <2> QED  BY <2>2, <2>3
<1>5. ASSUME ToSet(W) \intersect sp = {}
      PROVE  /\ after.prev = W
             /\ after.events = Append(E, s) \/ after.events = Append(Append(E, s), d)
  <2> DEFINE ends == g.gate.gate_was_open /\ g.gate.silence_run + 1 >= COMMIT_SILENCE_WINDOWS
  <2>1. after.prev = W /\ after.events = (E \o <<s>>) \o (IF ends THEN <<d>> ELSE << >>)
    BY <1>5 DEF GateWindow, SilentWindow
  <2> HIDE DEF r, n, s, d, E, A, ends
  <2>2. Append(E, s) = E \o <<s>> /\ Append(E, s) \in Seq(Events(Units))  BY <1>1, <1>2, <1>3
  <2> DEFINE E1 == Append(E, s)
  <2>3. E1 \in Seq(Events(Units)) /\ after.events = E1 \o (IF ends THEN <<d>> ELSE << >>)
    BY <2>1, <2>2
  <2> HIDE DEF E1
  <2>4. Append(E1, d) = E1 \o <<d>> /\ E1 \o << >> = E1  BY <1>2, <1>3, <2>3
  <2> QED  BY <2>1, <2>3, <2>4 DEF E1
<1>6. Emitted(after, E, A, W, sp)  BY <1>4, <1>5 DEF Emitted
<1> QED  BY <1>1, <1>2, <1>6

\* One more event of the gate keeps the segment that of the pending audio.
LEMMA SegmentAppend ==
  ASSUME NEW P, NEW E \in Seq(Events(Units)), NEW A, NEW B, NEW l, NEW e \in Events(Units),
         Segment(P, E, A, l),
         e.kind = "audio" => e.audio # << >> /\ (e.replayed => A # << >>),
         B # << >> => A # << >> \/ e.kind = "silence"
  PROVE  Segment(P, Append(E, e), B, l)
<1> DEFINE all == Append(E, e)
           N == Len(E)
<1>1. /\ N \in Nat /\ DOMAIN E = 1 .. N /\ DOMAIN all = 1 .. N + 1 /\ all[N + 1] = e
      /\ \A n \in 1 .. N : all[n] = E[n]
  <2>1. /\ all \in Seq(Events(Units)) /\ Len(all) = N + 1 /\ N \in Nat /\ all[N + 1] = e
        /\ \A n \in 1 .. N : all[n] = E[n]
    BY AppendProperties
  <2>2. DOMAIN all = 1 .. Len(all) /\ DOMAIN E = 1 .. N  BY <2>1, LenProperties
  <2> QED  BY <2>1, <2>2
<1> HIDE DEF all, N
<1>2. ASSUME NEW n \in Sounds(all)
      PROVE  (n \in 1 .. N /\ n \in Sounds(E) /\ all[n] = E[n]) \/ (n = N + 1 /\ all[n] = e)
  BY <1>1 DEF Sounds
<1>3. \A n \in Sounds(all) : all[n].audio # << >>
  <2> TAKE n \in Sounds(all)
  <2>1. all[n].kind = "audio"  BY DEF Sounds
  <2> QED  BY <1>2, <2>1 DEF Segment
<1>4. Dated(all, B, l)
  <2>1. CASE l.attack_start # Unset  BY <2>1 DEF Dated
  <2>2. CASE l.attack_start = Unset
    <3>1. /\ \A n \in Sounds(E) : E[n].replayed => \E i \in 1 .. n - 1 : E[i].kind = "silence"
          /\ A # << >> => \E i \in DOMAIN E : E[i].kind = "silence"
      BY <2>2 DEF Segment, Dated
    <3>2. ASSUME NEW n \in Sounds(all), all[n].replayed
          PROVE  \E i \in 1 .. n - 1 : all[i].kind = "silence"
      <4>1. CASE n \in 1 .. N /\ n \in Sounds(E) /\ all[n] = E[n]
        <5>1. PICK i \in 1 .. n - 1 : E[i].kind = "silence"  BY <3>1, <3>2, <4>1
        <5>2. i \in 1 .. N  BY <1>1, <4>1, <5>1
        <5> QED  BY <1>1, <5>1, <5>2
      <4>2. CASE n = N + 1 /\ all[n] = e
        <5>1. e.kind = "audio" /\ e.replayed  BY <3>2, <4>2 DEF Sounds
        <5>2. PICK i \in 1 .. N : E[i].kind = "silence"  BY <1>1, <3>1, <5>1
        <5>3. i \in 1 .. n - 1  BY <1>1, <4>2, <5>2
        <5> QED  BY <1>1, <5>2, <5>3
      <4> QED  BY <1>2, <4>1, <4>2
    <3>3. ASSUME B # << >>  PROVE \E i \in DOMAIN all : all[i].kind = "silence"
      <4>1. CASE A # << >>
        <5>1. PICK i \in 1 .. N : E[i].kind = "silence"  BY <1>1, <3>1, <4>1
        <5> QED  BY <1>1, <5>1
      <4>2. CASE e.kind = "silence"
        <5>1. N + 1 \in DOMAIN all  BY <1>1
        <5> QED  BY <1>1, <4>2, <5>1
      <4> QED  BY <3>3, <4>1, <4>2
    <3> QED  BY <3>2, <3>3 DEF Dated
  <2> QED  BY <2>1, <2>2
<1> QED  BY <1>3, <1>4 DEF Segment, all

\* A window W that becomes an event keeps its numbers; an event of no window is not counted.
LEMMA NumberedAppend ==
  ASSUME NEW sp, NEW G, NEW E \in Seq(Events(Units)), NEW W \in Audio, NEW T \in Audio,
         NEW F, Cardinality(F) \in Nat, NEW l \in Ledger, NEW C \in SUBSET Units,
         NEW e \in Events(Units), Uncounted(e) = Len(W), Sound(e) \intersect sp \subseteq ToSet(W),
         NEW S \in Audio, S = W \o T, Numbered(G, E, S, F, l, C, sp)
  PROVE  Numbered(G, Append(E, e), T, F, l, C, sp)
<1> DEFINE all == Append(E, e)
           N == Len(E)
           w == Len(W)
           p == Passed(S, F, C)
           q == Passed(T, F, C)
<1>1. /\ all \in Seq(Events(Units)) /\ Len(all) = N + 1 /\ N \in Nat
      /\ Unapplied(all) = Unapplied(E) + Uncounted(e) /\ Unapplied(E) \in Nat
  <2>1. all \in Seq(Events(Units)) /\ Len(all) = N + 1 /\ N \in Nat  BY AppendProperties
  <2> QED  BY <2>1, OneMoreEvent
<1>2. W \in Seq(Units) /\ T \in Seq(Units) /\ w \in Nat /\ Len(T) \in Nat  BY DEF Audio
<1>3. /\ Len(S) = w + Len(T) /\ \A i \in 1 .. w : S[i] = W[i]
      /\ \A i \in 1 .. Len(T) : w + i \in 1 .. Len(S) /\ S[w + i] = T[i]
  <2>1. Len(S) = w + Len(T)  BY <1>2, ConcatProperties
  <2>2. /\ \A i \in 1 .. Len(W) : S[i] = W[i]
        /\ \A i \in Len(W) + 1 .. Len(W) + Len(T) : S[i] = T[i - Len(W)]
    BY <1>2, ConcatIs, ZenonT(60)
  <2>3. ASSUME NEW i \in 1 .. Len(T)  PROVE w + i \in 1 .. Len(S) /\ S[w + i] = T[i]
    <3>1. w + i \in 1 .. Len(S) /\ w + i \in w + 1 .. w + Len(T) /\ (w + i) - w = i
      BY <1>2, <2>1
    <3> QED  BY <2>2, <3>1
  <2> QED  BY <2>1, <2>2, <2>3
<1>4. p \in Int /\ q = p + w
  <2>0. p \in Int /\ p + Len(S) + Cardinality(F) = Cardinality(C) /\ Cardinality(C) \in Nat
    BY PassedIs
  <2>1. /\ p \in Int /\ p + Len(S) + Cardinality(F) = Cardinality(C)
        /\ q \in Int /\ q + Len(T) + Cardinality(F) = Cardinality(C) /\ Cardinality(C) \in Nat
    <3>1. q \in Int /\ q + Len(T) + Cardinality(F) = Cardinality(C)  BY PassedIs
    <3> QED  BY <2>0, <3>1
  <2> DEFINE c == Cardinality(C)  f == Cardinality(F)  t == Len(T)
  <2>2. p + (w + t) + f = c /\ q + t + f = c /\ c \in Nat /\ f \in Nat /\ t \in Nat
    BY <1>2, <1>3, <2>1
  <2> HIDE DEF c, f, t, p, q, w
  <2> QED  BY <1>2, <2>1, <2>2
<1>5. /\ C = 0 .. Cardinality(C) - 1 /\ l.consumed + Unapplied(E) = p
      /\ \A x \in F : x >= Cardinality(C) - Cardinality(F)
      /\ \A i \in 1 .. Len(S) : S[i] = p + i - 1
      /\ \A k \in 0 .. N, x \in sp : x \in Heard(From(E, k)) => x >= p - Unapplied(From(E, k))
      /\ (0 .. l.covered - 1) \intersect sp \subseteq ToSet(G)
  BY DEF Numbered
<1>6. l.consumed \in Nat  BY LedgerFields
<1>7. ToSet(W) = {W[i] : i \in 1 .. w}  BY <1>2, UnitsOf
<1> HIDE DEF all, N, w, p, q
<1>8. l.consumed + Unapplied(all) = q
  <2> DEFINE u == Unapplied(E)  v == Unapplied(all)  a == l.consumed
  <2>1. v = u + w /\ u \in Nat  BY <1>1 DEF w
  <2>2. a + u = p /\ a \in Nat /\ w \in Nat /\ q = p + w  BY <1>2, <1>4, <1>5, <1>6
  <2> HIDE DEF u, v, a
  <2>3. a + v = q  BY <2>1, <2>2
  <2> QED  BY <2>3 DEF v, a
<1>9. ASSUME NEW i \in 1 .. Len(T)  PROVE T[i] = q + i - 1
  <2>1. S[w + i] = p + (w + i) - 1  BY <1>3, <1>5
  <2> QED  BY <1>2, <1>3, <1>4, <2>1
<1>10. ASSUME NEW k \in 0 .. N + 1, NEW x \in sp, x \in Heard(From(all, k))
       PROVE  x >= q - Unapplied(From(all, k))
  <2>1. CASE k = N + 1
    <3>1. From(all, k) = << >>  BY <1>1, <2>1, FromEnds
    <3> QED  BY <1>10, <3>1, NoEvents
  <2>2. CASE k \in 0 .. N
    <3> DEFINE z == From(E, k)
    <3>1. From(all, k) = Append(z, e) /\ z \in Seq(Events(Units))
      BY <1>1, <2>2, FromMoves DEF all, N
    <3> HIDE DEF z
    <3>2. /\ Heard(Append(z, e)) = Heard(z) \union Sound(e)
          /\ Unapplied(Append(z, e)) = Unapplied(z) + Uncounted(e) /\ Unapplied(z) \in Nat
      BY <3>1, OneMoreEvent
    <3>3. q - Unapplied(From(all, k)) = p - Unapplied(z)  BY <1>2, <1>4, <3>1, <3>2 DEF w
    <3>4. CASE x \in Heard(z)
      <4>1. x >= p - Unapplied(z)  BY <1>5, <2>2, <3>4 DEF z
      <4> QED  BY <3>3, <4>1
    <3>5. CASE x \in Sound(e)
      <4>1. PICK i \in 1 .. w : x = W[i]  BY <1>7, <3>5
      <4>2. i \in 1 .. Len(S)  BY <1>2, <1>3
      <4>3. x = p + i - 1  BY <1>3, <1>5, <4>1, <4>2
      <4> QED  BY <1>2, <1>4, <3>2, <3>3, <4>3
    <3> QED  BY <1>10, <3>1, <3>2, <3>4, <3>5
  <2>3. k \in 0 .. N \/ k = N + 1  BY <1>1
  <2> QED  BY <2>1, <2>2, <2>3
<1>11. \A k \in 0 .. Len(all), x \in sp :
         x \in Heard(From(all, k)) => x >= q - Unapplied(From(all, k))
  BY <1>1, <1>10
<1> QED  BY <1>5, <1>8, <1>9, <1>11 DEF Numbered, all, q

\* One window keeps the books.
LEMMA WindowKeepsBooks ==
  ASSUME NEW sp, NEW G \in Audio, NEW P \in Audio, NEW g \in Passing(Units), NEW W \in Audio,
         Len(W) > 0, NEW T \in Audio, NEW F, Cardinality(F) \in Nat, NEW l \in Ledger,
         NEW C \in SUBSET Units, Books(G, P, g.events, g.prev, W \o T, F, l, C, sp)
  PROVE  LET after == GateWindow(g, W, sp) IN
         Books(G, P, after.events, after.prev, T, F, l, C, sp)
<1> DEFINE E == g.events
           A == g.prev
           S == W \o T
           r == AudioEvent(A, TRUE)
           n == AudioEvent(W, FALSE)
           s == SilenceEvent(W)
           d == BoundaryEvent
           after == GateWindow(g, W, sp)
           none == << >>
<1>1. /\ Stock(G, P, E, A, S, F, l, C, sp) /\ Segment(P, E, A, l)
      /\ (Allow = {} => Numbered(G, E, S, F, l, C, sp))
  BY DEF Books
<1>2. Stock(G, P, after.events, after.prev, T, F, l, C, sp)  BY <1>1, WindowKeepsStock
<1>3. /\ r \in Events(Units) /\ n \in Events(Units) /\ s \in Events(Units) /\ d \in Events(Units)
      /\ E \in Seq(Events(Units)) /\ A \in Audio
      /\ ToSet(W) \intersect sp # {} =>
           after.prev = none /\ after.events = Append(IF A = none THEN E ELSE Append(E, r), n)
      /\ ToSet(W) \intersect sp = {} =>
           after.prev = W /\ (after.events = Append(E, s) \/ after.events = Append(Append(E, s), d))
  <2>1. after = GateWindow(g, W, sp)  OBVIOUS
  <2> HIDE DEF after
  <2>2. /\ r \in Events(Units) /\ n \in Events(Units) /\ s \in Events(Units) /\ d \in Events(Units)
        /\ E \in Seq(Events(Units)) /\ A \in Audio
    BY <2>1, WindowEvents
  <2>3. Emitted(after, E, A, W, sp)  BY <2>1, WindowEvents
  <2> QED  BY <2>2, <2>3 DEF Emitted
<1>4. W # none /\ W \in Seq(Units) /\ T \in Seq(Units) /\ S \in Audio /\ none \in Audio
      /\ none \o S = S /\ none \o T = T /\ Len(none) = 0 /\ ToSet(none) = {}
  <2>1. W # none /\ W \in Seq(Units) /\ T \in Seq(Units) /\ none \in Audio  BY DEF Audio
  <2>2. S \in Seq(Units)  BY <2>1, ConcatProperties
  <2> QED  BY <2>1, <2>2, ConcatEmptySeq, SaidNothing DEF Audio
<1>5. /\ r.kind = "audio" /\ r.audio = A /\ r.replayed /\ Sound(r) = ToSet(A) /\ Uncounted(r) = 0
      /\ n.kind = "audio" /\ n.audio = W /\ ~n.replayed /\ Sound(n) = ToSet(W) /\ Uncounted(n) = Len(W)
      /\ s.kind = "silence" /\ Sound(s) = {} /\ Uncounted(s) = Len(W)
      /\ d.kind = "boundary" /\ Sound(d) = {} /\ Uncounted(d) = 0
  BY DEF AudioEvent, SilenceEvent, BoundaryEvent, Sound, Uncounted
<1>6. ToSet(A) \intersect sp = {}  BY <1>1 DEF Stock
<1> DEFINE Kept(z, b) == /\ z \in Seq(Events(Units)) /\ Segment(P, z, b, l)
                         /\ (Allow = {} => Numbered(G, z, T, F, l, C, sp))
<1> HIDE DEF E, A, S, r, n, s, d, after, none
<1>7. ASSUME NEW z \in Seq(Events(Units)), NEW e \in Events(Units)
      PROVE  Append(z, e) \in Seq(Events(Units))
  BY AppendProperties
<1>8. CASE ToSet(W) \intersect sp # {}
  <2> DEFINE E1 == IF A = none THEN E ELSE Append(E, r)
  <2>1. /\ E1 \in Seq(Events(Units)) /\ Segment(P, E1, none, l)
        /\ (Allow = {} => Numbered(G, E1, S, F, l, C, sp))
    <3>1. CASE A = none  BY <1>1, <1>3, <3>1
    <3>2. CASE A # none
      <4>1. Segment(P, Append(E, r), none, l)
        BY <1>1, <1>3, <1>5, <3>2, SegmentAppend DEF none
      <4>2. Allow = {} => Numbered(G, Append(E, r), S, F, l, C, sp)
        <5>1. Uncounted(r) = Len(none) /\ Sound(r) \intersect sp \subseteq ToSet(none)
          BY <1>4, <1>5, <1>6
        <5> QED  BY <1>1, <1>3, <1>4, <5>1, NumberedAppend
      <4> QED  BY <1>3, <1>7, <3>2, <4>1, <4>2
    <3> QED  BY <3>1, <3>2
  <2> HIDE DEF E1
  <2>2. after.events = Append(E1, n) /\ after.prev = none  BY <1>3, <1>8 DEF E1
  <2>3. Segment(P, Append(E1, n), none, l)
    BY <1>3, <1>4, <1>5, <2>1, SegmentAppend DEF none
  <2>4. Allow = {} => Numbered(G, Append(E1, n), T, F, l, C, sp)
    <3>1. Sound(n) \intersect sp \subseteq ToSet(W)  BY <1>5
    <3> QED  BY <1>3, <1>4, <1>5, <2>1, <3>1, NumberedAppend DEF S
  <2> QED  BY <1>2, <2>2, <2>3, <2>4 DEF Books, after
<1>9. CASE ToSet(W) \intersect sp = {}
  <2> DEFINE E1 == Append(E, s)
  <2>1. /\ E1 \in Seq(Events(Units)) /\ Segment(P, E1, W, l)
        /\ (Allow = {} => Numbered(G, E1, T, F, l, C, sp))
    <3>1. Segment(P, E1, W, l)  BY <1>1, <1>3, <1>5, SegmentAppend
    <3>2. Allow = {} => Numbered(G, E1, T, F, l, C, sp)
      <4>1. Sound(s) \intersect sp \subseteq ToSet(W)  BY <1>5
      <4> QED  BY <1>1, <1>3, <1>4, <1>5, <4>1, NumberedAppend DEF S
    <3> QED  BY <1>3, <1>7, <3>1, <3>2
  <2> HIDE DEF E1
  <2>2. Segment(P, Append(E1, d), W, l)  BY <1>3, <1>4, <1>5, <2>1, SegmentAppend DEF none
  <2>3. Allow = {} => Numbered(G, Append(E1, d), T, F, l, C, sp)
    <3>1. Uncounted(d) = Len(none) /\ Sound(d) \intersect sp \subseteq ToSet(none)
      BY <1>4, <1>5
    <3> QED  BY <1>3, <1>4, <2>1, <3>1, NumberedAppend
  <2>4. after.prev = W /\ (after.events = E1 \/ after.events = Append(E1, d))
    BY <1>3, <1>9 DEF E1
  <2> QED  BY <1>2, <2>1, <2>2, <2>3, <2>4 DEF Books, after
<1> QED  BY <1>8, <1>9

\* However many windows there are.
LEMMA GateKeepsBooks ==
  ASSUME NEW sp, NEW G \in Audio, NEW P \in Audio, NEW staging \in Audio, NEW prev \in Audio,
         NEW gate \in Gates, NEW F, Cardinality(F) \in Nat, NEW l \in Ledger, NEW C \in SUBSET Units,
         Books(G, P, << >>, prev, staging, F, l, C, sp)
  PROVE  LET g == ProcessStagedAudio(staging, prev, gate, sp) IN
         Books(G, P, g.events, g.prev, Leftover(staging), F, l, C, sp)
<1> DEFINE N == WholeWindows(staging)
           R(i) == From(staging, i * GATE_WINDOW)
<1>1. PICK run \in [0 .. N -> Passing(Units)] : GateRun(run, staging, prev, gate, sp)
  <2>1. staging \in Seq(Units) /\ prev \in Seq(Units)  BY DEF Audio
  <2> QED  BY <2>1, GateRuns, Zenon
<1>2. N \in Nat  BY WindowsFit DEF Audio
<1> DEFINE Q == {n \in Nat : n <= N => Books(G, P, run[n].events, run[n].prev, R(n), F, l, C, sp)}
<1>3. 0 \in Q
  <2>1. run[0].events = << >> /\ run[0].prev = prev  BY <1>1 DEF GateRun
  <2>2. R(0) = staging
    <3>1. 0 * GATE_WINDOW = 0  BY GateAssumption
    <3>2. From(staging, 0) = staging  BY FromEnds DEF Audio
    <3> QED  BY <3>1, <3>2
  <2> QED  BY <2>1, <2>2
<1>4. ASSUME NEW n \in Nat, n \in Q  PROVE n + 1 \in Q
  <2> SUFFICES ASSUME n + 1 <= N
               PROVE  Books(G, P, run[n + 1].events, run[n + 1].prev, R(n + 1), F, l, C, sp)
    OBVIOUS
  <2>1. n + 1 \in 1 .. N /\ n \in 0 .. N /\ (n + 1) - 1 = n /\ n <= N  BY <1>2
  <2> DEFINE g == run[n]
             W == WindowAt(staging, n + 1)
             T == R(n + 1)
  <2>2. run[n + 1] = GateWindow(g, W, sp)
    <3>1. \A i \in 1 .. N : run[i] = GateWindow(run[i - 1], WindowAt(staging, i), sp)
      BY <1>1 DEF GateRun
    <3> HIDE DEF N
    <3> QED  BY <2>1, <3>1
  <2>3. g \in Passing(Units)  BY <2>1
  <2>4. W \in Audio /\ Len(W) > 0 /\ T \in Audio /\ R(n) = W \o T  BY NextWindow
  <2>5. Books(G, P, g.events, g.prev, R(n), F, l, C, sp)  BY <1>4, <2>1
  <2> HIDE DEF g, W, T, R
  <2>6. Books(G, P, g.events, g.prev, W \o T, F, l, C, sp)  BY <2>4, <2>5
  <2> DEFINE after == GateWindow(g, W, sp)
  <2>7. Books(G, P, after.events, after.prev, T, F, l, C, sp)
    BY <2>3, <2>4, <2>6, WindowKeepsBooks
  <2> QED  BY <2>2, <2>7 DEF T
<1>5. \A n \in Nat : n \in Q
  <2> HIDE DEF Q
  <2> QED  BY <1>3, <1>4, NatSetInduction
<1>6. Books(G, P, run[N].events, run[N].prev, R(N), F, l, C, sp)  BY <1>2, <1>5
<1>7. R(N) = Leftover(staging)  BY DEF From, Leftover
<1> QED  BY <1>1, <1>6, <1>7 DEF GateRun

-----------------------------------------------------------------------------
(***************************************************************************)
(* The units that frames bring.                                            *)
(***************************************************************************)
Sent(s) == ToSet(Payload(s))

\* A frame is a stretch of the recording, said in order.
LEMMA SentIs ==
  ASSUME NEW s \in Seqs
  PROVE  /\ Payload(s) \in Audio /\ Said(Payload(s)) /\ Len(Payload(s)) \in Nat
         /\ Sent(s) = Stretch(s) /\ Sent(s) \subseteq Units /\ IsFiniteSet(Sent(s))
         /\ Cardinality(Sent(s)) = Len(Payload(s))
         /\ ChunkStart[s] \in Nat /\ ChunkStart[s + 1] = ChunkStart[s] + Len(Payload(s))
<1> DEFINE p == Payload(s)  a == ChunkStart[s]  b == ChunkStart[s + 1]
<1>1. /\ p \in Audio /\ Sent(s) = Stretch(s) /\ Len(p) = b - a /\ Len(p) \in Nat
      /\ \A i, j \in DOMAIN p : i < j => p[i] < p[j]
  BY PayloadIs DEF Sent
<1>2. a \in Nat /\ b \in Nat /\ a <= b
  <2>1. s \in 0 .. Captured /\ s + 1 \in 0 .. Captured /\ s <= s + 1
    BY ChunkStartIs DEF Seqs
  <2> QED  BY <2>1, ChunkStartIs
<1>3. Said(p)
  <2>1. DOMAIN p = 1 .. Len(p) /\ \A i \in DOMAIN p : p[i] \in Int
    <3>1. p \in Seq(Units)  BY <1>1 DEF Audio
    <3> HIDE DEF p
    <3>2. DOMAIN p = 1 .. Len(p) /\ \A i \in 1 .. Len(p) : p[i] \in Units  BY <3>1
    <3> QED  BY <3>2, ChunkStartIs DEF Units
  <2> HIDE DEF p
  <2> QED  BY <1>1, <2>1 DEF Said, Before
<1>4. Sent(s) \subseteq Units  BY <1>1, UnitsOf DEF Audio, Sent
<1>5. Sent(s) = a .. b - 1  BY <1>1 DEF Stretch
<1> HIDE DEF a, b, p
<1>6. IsFiniteSet(Sent(s)) /\ Cardinality(Sent(s)) = Len(p)
  <2>1. a \in Int /\ b - 1 \in Int  BY <1>2
  <2>2. IsFiniteSet(a .. b - 1) /\ Cardinality(a .. b - 1) = IF a <= b - 1 THEN (b - 1) - a + 1 ELSE 0
    BY <2>1, FS_Interval
  <2>3. (IF a <= b - 1 THEN (b - 1) - a + 1 ELSE 0) = b - a  BY <1>2
  <2> QED  BY <1>1, <1>5, <2>2, <2>3
<1>7. b = a + Len(p)  BY <1>1, <1>2
<1> QED  BY <1>1, <1>2, <1>3, <1>4, <1>6, <1>7 DEF a, b, p

\* What has arrived, and one chunk more.
LEMMA ArrivedMore ==
  ASSUME NEW chunks \in SUBSET Seqs, NEW s \in Seqs
  PROVE  /\ Arrived({}) = {} /\ Arrived(chunks) \in SUBSET Units
         /\ Arrived(chunks \union {s}) = Arrived(chunks) \union Sent(s)
         /\ s \in chunks => Sent(s) \subseteq Arrived(chunks)
BY ArrivedIs DEF Arrived, Sent

\* The chunks below n are the units before the start of n.
LEMMA ArrivedPrefix ==
  ASSUME NEW n \in 0 .. Captured
  PROVE  Arrived(0 .. n - 1) = 0 .. ChunkStart[n] - 1 /\ 0 .. n - 1 \in SUBSET Seqs
<1> DEFINE P == {m \in Nat : m <= Captured => Arrived(0 .. m - 1) = 0 .. ChunkStart[m] - 1}
<1>1. Captured \in Nat /\ Captured = LastSeq + 1 /\ LastSeq \in Nat /\ ChunkStart[0] = 0
  BY ChunkStartIs DEF Captured
<1>2. \A m \in 0 .. Captured : 0 .. m - 1 \in SUBSET Seqs
  BY <1>1 DEF Seqs
<1>3. 0 \in P
  <2>1. 0 .. 0 - 1 = {} /\ 0 .. ChunkStart[0] - 1 = {}  BY <1>1
  <2>2. Arrived({}) = {}  BY DEF Arrived
  <2> QED  BY <2>1, <2>2
<1>4. ASSUME NEW m \in Nat, m \in P  PROVE m + 1 \in P
  <2> SUFFICES ASSUME m + 1 <= Captured
               PROVE  Arrived(0 .. (m + 1) - 1) = 0 .. ChunkStart[m + 1] - 1
    OBVIOUS
  <2>1. m \in Seqs /\ m \in 0 .. Captured /\ m <= Captured  BY <1>1 DEF Seqs
  <2>2. 0 .. (m + 1) - 1 = (0 .. m - 1) \union {m}  OBVIOUS
  <2>3. Arrived((0 .. m - 1) \union {m}) = Arrived(0 .. m - 1) \union Sent(m)
    BY <1>2, <2>1, ArrivedMore
  <2>4. Arrived(0 .. m - 1) = 0 .. ChunkStart[m] - 1  BY <1>4, <2>1
  <2>5. /\ Sent(m) = ChunkStart[m] .. ChunkStart[m + 1] - 1
        /\ ChunkStart[m] \in Nat /\ Len(Payload(m)) \in Nat
        /\ ChunkStart[m + 1] = ChunkStart[m] + Len(Payload(m))
    BY <2>1, SentIs DEF Stretch
  <2>6. (0 .. ChunkStart[m] - 1) \union (ChunkStart[m] .. ChunkStart[m + 1] - 1)
          = 0 .. ChunkStart[m + 1] - 1
    BY <2>5
  <2> QED  BY <2>2, <2>3, <2>4, <2>5, <2>6
<1>5. Nat \subseteq P
  <2> HIDE DEF P
  <2> QED  BY <1>3, <1>4, NatSetInduction
<1> QED  BY <1>1, <1>2, <1>5

-----------------------------------------------------------------------------
(***************************************************************************)
(* The invariant of a dictation whose sockets do not overlap: at most one  *)
(* connection is live, and what it has synced is all the next one gets.    *)
(***************************************************************************)
FrameSet(k) == IF k.frame = None THEN {} ELSE Sent(k.frame)

\* raw_audio has every unit that was accepted, once.
RawInv(k, chunks) ==
  /\ Said(k.raw)
  /\ k.frame # None => k.frame \in chunks
  /\ ToSet(k.raw) \union FrameSet(k) = Arrived(chunks)
  /\ AllBefore(ToSet(k.raw), FrameSet(k))

\* What a partial shows, and what it may lend to the final.
PartialsInv(k) ==
  /\ Said(k.last_partial)
  /\ k.partial # None => Said(k.partial.prefix \o k.partial.audio) /\ Said(k.partial.text)
  /\ k.partial_decode # None => k.partial_decode.text \in {k.partial_decode.audio, << >>}

\* The speech of the chunks below the frontier has been read.
Names(through, read, sp) ==
  through # None => Arrived(0 .. through - 1) \intersect sp \subseteq read

\* A final that keeps its promise: it has read all the speech it covers, its text says
\* no unit twice, and where no peer misbehaves its frontier names what it has read.
SoundFinal(a, sp) ==
  /\ Covers(a) => sp \subseteq a.read
  /\ Allow = {} => Names(a.through, a.read, sp)
  /\ Said(a.text)

\* What the journal has cached and shown is sound; ordered clients leave no gap.
JournalInv(j, sp) ==
  /\ Said(j.last_partial)
  /\ j.final # None => SoundFinal(j.final, sp)
  /\ "reorder" \notin Allow => \A x \in j.chunks : 0 .. x \subseteq j.chunks

\* The locals and the journal have the same recognized prefix.
SameText(k, j) == k.stable_text = j.stable_text /\ k.stable_bytes = j.stable_bytes

\* The journal has the buffers, and the ledger if there is anything in it.
Synced(k, l, j) ==
  /\ j.gated = k.gated /\ j.pending = k.pending /\ j.staging = k.staging
  /\ j.ledger = k.ledger \/ (j.ledger = None /\ l = NewLedger)

\* Where an open connection stands between two steps.
Place(k, l, j, sp) ==
  /\ k.frame # None => k.phase = "ack"
  /\ k.events # << >> => k.phase = "embed" /\ Head(k.events).kind = "boundary"
  /\ k.phase \in {"receive", "ack"} =>
       Len(k.staging) < GATE_WINDOW /\ k.stop = None /\ Synced(k, l, j)
  /\ k.phase = "embed" =>
       /\ Len(k.staging) < GATE_WINDOW
       /\ (k.then = "audio" /\ k.stop = None) \/ (k.then = "stop" /\ k.stop # None)
  /\ k.phase \in {"coverage", "waitPartial", "tailEmbed", "seal", "tail", "raw", "final"} =>
       k.stop # None
  /\ k.phase \in {"waitPartial", "tailEmbed", "seal", "tail", "raw"} => k.staging = << >>
  /\ k.phase \in {"seal", "tail", "raw"} => k.pending = << >>
  /\ k.phase = "final" => SoundFinal(k.answer, sp)

\* The attack buffer, for as long as it can still be replayed.
Attack(k) == IF k.phase \in {"receive", "ack", "embed", "coverage"} THEN k.prev ELSE << >>

\* The invariant of an open connection: its books, its raw audio, and where it stands.
OpenInv(k, l, j, sp) ==
  /\ Books(k.gated, k.pending, k.events, Attack(k), k.staging, FrameSet(k), l, Arrived(j.chunks), sp)
  /\ RawInv(k, j.chunks)
  /\ Place(k, l, j, sp)

\* A journal that no connection works on holds true books by itself, if a socket may
\* still start from it: where nobody resumes, only a new one.
Rest(l, j, sp) ==
  /\ (Allow # {} \/ j.chunks = {}) =>
       Books(j.gated, j.pending, << >>, << >>, j.staging, {}, l, Arrived(j.chunks), sp)
  /\ Len(j.staging) < GATE_WINDOW

-----------------------------------------------------------------------------
(***************************************************************************)
(* One step of one connection: u is its world before the step, w a world   *)
(* on the way, E the events still to apply and A the attack buffer.        *)
(***************************************************************************)
Sane(u, w) ==
  /\ PartialsInv(w.k) /\ JournalInv(w.j, speech) /\ SameText(w.k, w.j)
  /\ w.k.ledger = u.k.ledger /\ w.k.journal = u.k.journal
  /\ w.j.ledger \in {u.j.ledger, u.k.ledger}

\* The world on the way is one whose books are true.
Trust(u, w, E, A) ==
  /\ Books(w.k.gated, w.k.pending, E, A, w.k.staging, FrameSet(w.k), w.l, Arrived(w.j.chunks), speech)
  /\ RawInv(w.k, w.j.chunks)
  /\ Sane(u, w)

\* A world the step may end in.
Fine(u, w) ==
  /\ Sane(u, w)
  /\ w.k.phase # "closed" => OpenInv(w.k, w.l, w.j, speech)
  /\ w.k.phase = "closed" /\ w.k.stop = None =>
       Synced(w.k, w.l, w.j) /\ Rest(w.l, w.j, speech)

\* Two locals with the same buffers.
SameAudio(a, b) ==
  /\ a.gated = b.gated /\ a.pending = b.pending /\ a.staging = b.staging
  /\ a.raw = b.raw /\ a.frame = b.frame

\* Two locals with the same ledger and journal.
SameRefs(a, b) == a.ledger = b.ledger /\ a.journal = b.journal

\* Two locals with the same partials.
SamePartials(a, b) ==
  /\ a.last_partial = b.last_partial /\ a.partial = b.partial
  /\ a.partial_decode = b.partial_decode

\* What does not touch the audio leaves the books as they are.
LEMMA TrustStays ==
  ASSUME NEW u, NEW w, NEW v, NEW E, NEW A, Trust(u, w, E, A),
         v.l = w.l, v.j = w.j, SameAudio(v.k, w.k), SameRefs(v.k, w.k),
         SamePartials(v.k, w.k),
         v.k.stable_text = w.k.stable_text, v.k.stable_bytes = w.k.stable_bytes
  PROVE  Trust(u, v, E, A)
<1>1. FrameSet(v.k) = FrameSet(w.k)  BY DEF FrameSet, SameAudio
<1>2. RawInv(v.k, v.j.chunks)  BY <1>1 DEF Trust, RawInv, SameAudio
<1>3. PartialsInv(v.k)  BY DEF Trust, Sane, PartialsInv, SamePartials
<1>4. SameText(v.k, v.j)  BY DEF Trust, Sane, SameText
<1>5. Sane(u, v)  BY <1>3, <1>4 DEF Trust, Sane, SameRefs
<1> QED  BY <1>1, <1>2, <1>5 DEF Trust, SameAudio

\* The frontier reaches what was captured only if every chunk has arrived and
\* every unit of speech is in the gated audio.
LEMMA CoveredIsHeard ==
  ASSUME NEW w \in Worlds, speech \subseteq Units, Frontier(w) >= Captured,
         Books(w.k.gated, << >>, << >>, << >>, << >>, {}, w.l, Arrived(w.j.chunks), speech)
  PROVE  speech \subseteq Arrived(w.j.chunks) /\ speech \subseteq ToSet(w.k.gated)
<1> DEFINE C == Arrived(w.j.chunks)
           n == Cardinality(C)
           f == Frontier(w)
<1>1. /\ w.l \in Ledger /\ w.j.chunks \in SUBSET Seqs
      /\ w.l.covered \in Nat /\ w.l.consumed \in Nat
  <2>1. w.l \in Ledger /\ w.j \in Sessions  BY WorldFields
  <2> QED  BY <2>1, LedgerFields DEF Sessions
<1>2. f \in 0 .. Captured /\ ChunkStart[f] <= w.l.covered /\ 0 .. f - 1 \subseteq w.j.chunks
  BY <1>1, FrontierIs DEF Frontier
<1>3. Captured \in Nat /\ Recorded \in Nat /\ ChunkStart[Captured] = Recorded
  BY ChunkStartIs
<1>4. f = Captured  BY <1>2, <1>3
<1> HIDE DEF f
<1>5. C = Units
  <2>1. Arrived(0 .. Captured - 1) = Units  BY <1>3, ArrivedPrefix DEF Units
  <2>2. Arrived(0 .. Captured - 1) \subseteq C  BY <1>2, <1>4 DEF Arrived
  <2> QED  BY <1>1, <2>1, <2>2, ArrivedMore, ArrivedIs
<1>6. n = Recorded
  <2>1. 0 \in Int /\ Recorded - 1 \in Int  BY <1>3
  <2>2. Cardinality(0 .. Recorded - 1) =
          IF 0 <= Recorded - 1 THEN (Recorded - 1) - 0 + 1 ELSE 0
    BY <2>1, FS_Interval
  <2> QED  BY <1>3, <1>5, <2>2 DEF Units
<1>7. Unapplied(<< >>) = 0 /\ Heard(<< >>) = {}  BY NoEvents
<1>8. Cardinality({}) = 0 /\ ToSet(<< >>) = {} /\ Len(<< >>) = 0
  BY FS_EmptySet, SaidNothing
<1> HIDE DEF C
<1>9. Accounted(w.l, 0, {}, ToSet(w.k.gated), C, speech)
  <2>1. 0 + 0 + 0 = 0 /\ ToSet(w.k.gated) \union {} \union {} \union {} \union {} = ToSet(w.k.gated)
    OBVIOUS
  <2> QED  BY <1>7, <1>8, <2>1 DEF Books, Stock, C
<1> HIDE DEF n
<1>10. w.l.consumed + 0 = n /\ w.l.covered = w.l.consumed
  BY <1>1, <1>2, <1>3, <1>4, <1>6, <1>9 DEF Accounted, n
<1>11. C \intersect speech \subseteq ToSet(w.k.gated)
  BY <1>9, <1>10 DEF Accounted, n
<1> QED  BY <1>5, <1>11 DEF C

-----------------------------------------------------------------------------
(***************************************************************************)
(* The stop handler after its flush: no event, no staging, no attack.      *)
(***************************************************************************)
AtTail(u, w) ==
  /\ Trust(u, w, << >>, << >>)
  /\ w.k.staging = << >> /\ w.k.frame = None /\ w.k.events = << >> /\ w.k.stop # None

\* ... and no open segment either.
AtSeal(u, w) == AtTail(u, w) /\ w.k.pending = << >>

\* Two locals that differ at most in phase and bookkeeping.
SameBuffers(a, b) ==
  /\ SameAudio(a, b) /\ SameRefs(a, b) /\ SamePartials(a, b)
  /\ a.stable_text = b.stable_text /\ a.stable_bytes = b.stable_bytes
  /\ a.events = b.events /\ a.prev = b.prev /\ a.stop = b.stop /\ a.then = b.then

\* A change of phase leaves the buffers alone.
LEMMA PhaseOnly ==
  ASSUME NEW k \in Locals, NEW p \in Phases
  PROVE  LET v == [k EXCEPT !.phase = p] IN SameBuffers(v, k) /\ v.phase = p
<1> DEFINE v == [k EXCEPT !.phase = p]
<1>1. /\ v.gated = k.gated /\ v.pending = k.pending /\ v.staging = k.staging
      /\ v.raw = k.raw /\ v.frame = k.frame
      /\ v.ledger = k.ledger /\ v.journal = k.journal
      /\ v.last_partial = k.last_partial /\ v.partial = k.partial
      /\ v.partial_decode = k.partial_decode
      /\ v.stable_text = k.stable_text /\ v.stable_bytes = k.stable_bytes
      /\ v.events = k.events /\ v.prev = k.prev /\ v.stop = k.stop /\ v.then = k.then
      /\ v.phase = p
  BY DEF Locals
<1> HIDE DEF v
<1>2. SameBuffers(v, k) /\ v.phase = p
  BY <1>1 DEF SameBuffers, SameAudio, SameRefs, SamePartials
<1> QED  BY <1>2 DEF v

\* The handler stops to wait, its books in order.
LEMMA TailWaits ==
  ASSUME NEW u, NEW w \in Worlds, AtTail(u, w), NEW v,
         NEW p \in {"waitPartial", "tailEmbed", "seal", "tail", "raw"},
         p \in {"seal", "tail", "raw"} => w.k.pending = << >>,
         v.k = [w.k EXCEPT !.phase = p], v.l = w.l, v.j = w.j
  PROVE  Fine(u, v)
<1>1. p \in Phases  BY DEF Phases
<1>2. w.k \in Locals  BY WorldFields
<1>3. SameBuffers(v.k, w.k) /\ v.k.phase = p  BY <1>1, <1>2, PhaseOnly
<1>4. Trust(u, v, << >>, << >>)  BY <1>3, TrustStays DEF AtTail, SameBuffers
<1>5. Attack(v.k) = << >> /\ v.k.events = << >>
  BY <1>3 DEF Attack, AtTail, SameBuffers
<1>6. Place(v.k, v.l, v.j, speech)
  <2>1. v.k.frame = None /\ v.k.staging = << >> /\ v.k.stop # None /\ v.k.pending = w.k.pending
    BY <1>3 DEF AtTail, SameBuffers, SameAudio
  <2> QED  BY <1>3, <1>5, <2>1 DEF Place
<1>7. OpenInv(v.k, v.l, v.j, speech)
  BY <1>4, <1>5, <1>6 DEF OpenInv, Trust
<1> QED  BY <1>3, <1>4, <1>7 DEF Fine, Trust

\* A final that reaches what was captured has read all the speech.
LEMMA AnswerIsFine ==
  ASSUME NEW u, NEW w, NEW busy, Calm(w, busy), AtSeal(u, w), speech \subseteq Units,
         NEW text \in Audio, Said(text), NEW through \in Nat \union {None},
         NEW read \in SUBSET Units,
         through # None /\ through >= Captured => speech \subseteq read,
         Allow = {} => Names(through, read, speech)
  PROVE  Fine(u, Answer(w, text, through, read))
<1> DEFINE final == [stop |-> w.k.stop, text |-> text,
                     through |-> IF w.k.complete THEN through ELSE None,
                     fresh |-> TRUE, read |-> read]
           k == [w.k EXCEPT !.answer = final, !.phase = "final"]
           j == [w.j EXCEPT !.final = final]
           v == Answer(w, text, through, read)
<1> SUFFICES Fine(u, v)  OBVIOUS
<1>1. w \in Worlds /\ w.k \in Locals /\ w.j \in Sessions  BY CalmWorld
<1>2. final \in Finals
  <2>1. w.k.stop \in StopIds \union {None}  BY <1>1 DEF Locals
  <2> QED  BY <2>1 DEF Finals
<1>3. SoundFinal(final, speech)  BY DEF SoundFinal, Covers, Reaches, Names
<1>4. v = [w EXCEPT !.k = k, !.j = j]
  BY DEF Answer
<1> HIDE DEF final
<1>5. k \in Locals /\ j \in Sessions
  <2>1. "final" \in Phases  BY DEF Phases
  <2>2. k \in Locals  BY <1>1, <1>2, <2>1, ZenonT(60) DEF Locals
  <2>3. j \in Sessions  BY <1>1, <1>2 DEF Sessions
  <2> QED  BY <2>2, <2>3
<1>6. /\ k.gated = w.k.gated /\ k.pending = w.k.pending /\ k.staging = w.k.staging
      /\ k.raw = w.k.raw /\ k.frame = w.k.frame
      /\ k.ledger = w.k.ledger /\ k.journal = w.k.journal
      /\ k.last_partial = w.k.last_partial /\ k.partial = w.k.partial
      /\ k.partial_decode = w.k.partial_decode
      /\ k.stable_text = w.k.stable_text /\ k.stable_bytes = w.k.stable_bytes
      /\ k.events = w.k.events /\ k.stop = w.k.stop
      /\ k.phase = "final" /\ k.answer = final
  BY <1>1 DEF Locals
<1>7. /\ j.stable_text = w.j.stable_text /\ j.stable_bytes = w.j.stable_bytes
      /\ j.chunks = w.j.chunks /\ j.last_partial = w.j.last_partial
      /\ j.ledger = w.j.ledger /\ j.final = final
  BY <1>1 DEF Sessions
<1> HIDE DEF k, j, v
<1>8. v.k = k /\ v.j = j /\ v.l = w.l
  BY <1>1, <1>4, <1>5 DEF Worlds
<1>9. Trust(u, w, << >>, << >>)  BY DEF AtSeal, AtTail
<1>10. FrameSet(k) = FrameSet(w.k)  BY <1>6 DEF FrameSet
<1>11. Sane(u, v)
  <2>1. PartialsInv(k)  BY <1>6, <1>9 DEF Trust, Sane, PartialsInv
  <2>2. JournalInv(j, speech)  BY <1>3, <1>7, <1>9 DEF Trust, Sane, JournalInv
  <2>3. SameText(k, j)  BY <1>6, <1>7, <1>9 DEF Trust, Sane, SameText
  <2> QED  BY <1>6, <1>7, <1>8, <1>9, <2>1, <2>2, <2>3 DEF Trust, Sane
<1>12. RawInv(k, j.chunks)  BY <1>6, <1>7, <1>9, <1>10 DEF Trust, RawInv
<1>13. Attack(k) = << >> /\ k.events = << >>  BY <1>6 DEF Attack, AtSeal, AtTail
<1>14. Books(k.gated, k.pending, k.events, Attack(k), k.staging, FrameSet(k), v.l, Arrived(j.chunks), speech)
  BY <1>6, <1>7, <1>8, <1>9, <1>10, <1>13 DEF Trust
<1>15. Place(k, v.l, j, speech)
  <2>1. k.frame = None /\ k.stop # None  BY <1>6 DEF AtSeal, AtTail
  <2> QED  BY <1>3, <1>6, <1>13, <2>1 DEF Place
<1> QED  BY <1>6, <1>8, <1>11, <1>12, <1>14, <1>15 DEF Fine, OpenInv

\* What the last decodes may be handed.
LEMMA SealFacts ==
  ASSUME NEW u, NEW w, NEW busy, Calm(w, busy), AtSeal(u, w), speech \subseteq Units
  PROVE  /\ Frontier(w) \in Nat
         /\ Frontier(w) >= Captured =>
              speech \subseteq ToSet(w.k.gated) /\ speech \subseteq ToSet(w.k.raw)
         /\ Allow = {} => /\ Names(Frontier(w), ToSet(w.k.gated), speech)
                          /\ Names(Frontier(w), ToSet(w.k.raw), speech)
         /\ Said(w.k.raw) /\ Said(w.k.last_partial)
         /\ Said(w.k.stable_text) /\ Said(w.k.stable_text \o UnsealedTail(w.k))
         /\ ToSet(w.k.stable_text) \union ToSet(UnsealedTail(w.k)) = ToSet(w.k.gated)
<1>1. w \in Worlds /\ w.k \in Locals /\ PrefixIsDecoded(w.k)  BY CalmWorld
<1>2. Frontier(w) \in Nat  BY <1>1, FrontierOfWorld
<1>3. Trust(u, w, << >>, << >>) /\ w.k.pending = << >> /\ w.k.staging = << >> /\ w.k.frame = None
  BY DEF AtSeal, AtTail
<1>4. FrameSet(w.k) = {}  BY <1>3 DEF FrameSet
<1>5. Books(w.k.gated, << >>, << >>, << >>, << >>, {}, w.l, Arrived(w.j.chunks), speech)
  BY <1>3, <1>4 DEF Trust
<1>6. Said(w.k.raw) /\ ToSet(w.k.raw) = Arrived(w.j.chunks)  BY <1>3, <1>4 DEF Trust, RawInv
<1>7. Frontier(w) >= Captured =>
        speech \subseteq ToSet(w.k.gated) /\ speech \subseteq ToSet(w.k.raw)
  BY <1>1, <1>5, <1>6, CoveredIsHeard
<1>8. Said(w.k.last_partial)  BY <1>3 DEF Trust, Sane, PartialsInv
<1> DEFINE G == w.k.gated  n == w.k.stable_bytes  t == SubSeq(G, 1, n)  r == SubSeq(G, n + 1, Len(G))
<1>9. /\ G \in Audio /\ n \in Nat /\ n <= Len(G) /\ Len(G) \in Nat
      /\ w.k.stable_text = t /\ UnsealedTail(w.k) = r
  BY <1>1, AudioFacts DEF PrefixIsDecoded, UnsealedTail
<1>10. Said(G)  BY <1>3 DEF Trust, Books, Stock
<1> HIDE DEF G, n
<1>11. t \o r = G
  <2> DEFINE m == Len(G)
  <2>3. G \in Seq(Units) /\ n \in Nat /\ m \in Nat /\ n <= m /\ m <= Len(G)
    BY <1>9 DEF Audio
  <2> HIDE DEF m
  <2>4. SubSeq(G, 1, n) \o SubSeq(G, n + 1, m) = SubSeq(G, 1, m)
    BY <2>3, SubSeqJoin
  <2>1. t \o r = SubSeq(G, 1, Len(G))  BY <2>4 DEF m
  <2>2. SubSeq(G, 1, Len(G)) = G  BY <1>9, SubSeqFull DEF Audio
  <2> QED  BY <2>1, <2>2
<1>12. Said(t)
  <2>1. 0 \in Nat /\ 0 <= n /\ 0 + 1 = 1  BY <1>9
  <2>2. Said(SubSeq(G, 0 + 1, n))  BY <1>9, <1>10, <2>1, SaidStretch DEF Audio
  <2> QED  BY <2>1, <2>2
<1>13. ASSUME Allow = {}
       PROVE  /\ Names(Frontier(w), ToSet(w.k.gated), speech)
              /\ Names(Frontier(w), ToSet(w.k.raw), speech)
  <2> DEFINE f == Frontier(w)
  <2>1. w.l \in Ledger /\ w.j.chunks \in SUBSET Seqs
    <3>1. w.l \in Ledger /\ w.j \in Sessions  BY <1>1, WorldFields
    <3> QED  BY <3>1 DEF Sessions
  <2>2. w.l.covered \in Nat  BY <2>1, LedgerFields
  <2>3. f \in 0 .. Captured /\ ChunkStart[f] <= w.l.covered /\ 0 .. f - 1 \subseteq w.j.chunks
    BY <2>1, <2>2, FrontierIs DEF Frontier
  <2>4. (0 .. w.l.covered - 1) \intersect speech \subseteq ToSet(w.k.gated)
    BY <1>5, <1>13 DEF Books, Numbered
  <2> HIDE DEF f
  <2>5. Arrived(0 .. f - 1) \subseteq 0 .. w.l.covered - 1
    <3>1. Arrived(0 .. f - 1) = 0 .. ChunkStart[f] - 1  BY <2>3, ArrivedPrefix
    <3>2. ChunkStart[f] \in Nat  BY <2>3, ChunkStartIs
    <3> QED  BY <2>2, <2>3, <3>1, <3>2
  <2>6. Names(f, ToSet(w.k.gated), speech)  BY <2>4, <2>5 DEF Names
  <2>7. Names(f, ToSet(w.k.raw), speech)
    <3>1. Arrived(0 .. f - 1) \subseteq Arrived(w.j.chunks)  BY <2>3 DEF Arrived
    <3> QED  BY <1>6, <3>1 DEF Names
  <2> QED  BY <2>6, <2>7 DEF f
<1>14. ToSet(t) \union ToSet(r) = ToSet(G)
  <2>1. t \in Seq(Units) /\ r \in Seq(Units)
    <3>1. w.k.stable_text \in Audio /\ UnsealedTail(w.k) \in Audio  BY <1>1, AudioFacts, TailIsAudio
    <3> QED  BY <1>9, <3>1 DEF Audio
  <2> QED  BY <1>11, <2>1, SaidTogether
<1> QED  BY <1>2, <1>6, <1>7, <1>8, <1>9, <1>10, <1>11, <1>12, <1>13, <1>14 DEF G

\* The final from the raw audio, or from the last partial without a frontier, is sound.
LEMMA AfterRawIsFine ==
  ASSUME NEW u, NEW w, NEW busy, Calm(w, busy), AtSeal(u, w), speech \subseteq Units,
         NEW text \in {w.k.raw, << >>}
  PROVE  Fine(u, AfterRaw(w, text))
<1>1. /\ w.k.raw \in Audio /\ ToSet(w.k.raw) \in SUBSET Units /\ w.k.last_partial \in Audio
  BY CalmWorld, AudioFacts
<1>2. Frontier(w) \in Nat /\ Frontier(w) \in Nat \union {None} /\ {} \in SUBSET Units
  BY SealFacts
<1>3. /\ Frontier(w) >= Captured => speech \subseteq ToSet(w.k.raw)
      /\ Allow = {} => Names(Frontier(w), ToSet(w.k.raw), speech)
      /\ Said(w.k.raw) /\ Said(w.k.last_partial)
  BY SealFacts
<1>4. Fine(u, Answer(w, w.k.raw, Frontier(w), ToSet(w.k.raw)))
  BY <1>1, <1>2, <1>3, AnswerIsFine
<1>5. Fine(u, Answer(w, w.k.last_partial, None, {}))
  BY <1>1, <1>2, <1>3, AnswerIsFine DEF Names
<1> QED  BY <1>4, <1>5 DEF AfterRaw

\* The final from the stable prefix and the decoded tail is sound, or the handler goes
\* on to the raw audio.
LEMMA AfterTailIsFine ==
  ASSUME NEW u, NEW w, NEW busy, Calm(w, busy), AtSeal(u, w), speech \subseteq Units,
         NEW tail, ToSet(w.k.stable_text) \union ToSet(tail) = ToSet(w.k.gated),
         NEW text \in {UnsealedTail(w.k), << >>}
  PROVE  Fine(u, AfterTail(w, tail, text))
<1>0. w \in Worlds /\ w.k \in Locals  BY CalmWorld
<1>1. /\ w.k.gated \in Audio /\ ToSet(w.k.gated) \in SUBSET Units /\ w.k.last_partial \in Audio
      /\ w.k.stable_text \in Audio /\ UnsealedTail(w.k) \in Audio
  BY <1>0, AudioFacts, TailIsAudio
<1>2. Frontier(w) \in Nat /\ Frontier(w) \in Nat \union {None} /\ {} \in SUBSET Units
  BY SealFacts
<1>3. /\ Frontier(w) >= Captured => speech \subseteq ToSet(w.k.gated)
      /\ Allow = {} => Names(Frontier(w), ToSet(w.k.gated), speech)
      /\ Said(w.k.last_partial)
      /\ Said(w.k.stable_text) /\ Said(w.k.stable_text \o UnsealedTail(w.k))
  BY SealFacts
<1> DEFINE said == w.k.stable_text \o text
<1>4. said \in Audio /\ Said(said)
  <2>1. w.k.stable_text \o << >> = w.k.stable_text  BY <1>1, ConcatEmptySeq DEF Audio
  <2>2. w.k.stable_text \o UnsealedTail(w.k) \in Audio  BY <1>1, ConcatProperties DEF Audio
  <2> QED  BY <1>1, <1>3, <2>1, <2>2
<1> HIDE DEF said
<1>5. Fine(u, Answer(w, said, Frontier(w), ToSet(w.k.gated)))
  BY <1>1, <1>2, <1>3, <1>4, AnswerIsFine
<1>6. Fine(u, Answer(w, w.k.last_partial, None, {}))
  BY <1>1, <1>2, <1>3, AnswerIsFine DEF Names
<1>7. Fine(u, [w EXCEPT !.k.phase = "raw", !.jobs = Append(@, "raw")])
  <2> DEFINE v == [w EXCEPT !.k.phase = "raw", !.jobs = Append(@, "raw")]
  <2>1. v.k = [w.k EXCEPT !.phase = "raw"] /\ v.l = w.l /\ v.j = w.j
    BY <1>0 DEF Worlds
  <2> HIDE DEF v
  <2>2. Fine(u, v)  BY <1>0, <2>1, TailWaits DEF AtSeal
  <2> QED  BY <2>2 DEF v
<1> QED  BY <1>5, <1>6, <1>7 DEF AfterTail, said

\* finalize_with_stable_prefix: a reused partial and a decoded tail say the same audio.
LEMMA SealTailIsFine ==
  ASSUME NEW u, NEW w, NEW busy, Calm(w, busy), AtSeal(u, w), speech \subseteq Units
  PROVE  Fine(u, SealTail(w))
<1>0. w \in Worlds /\ w.k \in Locals  BY CalmWorld
<1> DEFINE d == w.k.partial_decode
<1>1. d # None => d.text \in {d.audio, << >>}
  BY DEF AtSeal, AtTail, Trust, Sane, PartialsInv
<1> DEFINE tail == UnsealedTail(w.k)
<1>1a. ToSet(w.k.stable_text) \union ToSet(tail) = ToSet(w.k.gated)  BY SealFacts
<1>2. d # None /\ d.audio = tail => Fine(u, AfterTail(w, d.audio, d.text))
  <2> SUFFICES ASSUME d # None, d.audio = tail
               PROVE  Fine(u, AfterTail(w, tail, d.text))
    OBVIOUS
  <2>1. d.text \in {UnsealedTail(w.k), << >>}  BY <1>1
  <2> HIDE DEF d, tail
  <2> QED  BY <1>1a, <2>1, AfterTailIsFine
<1>3. tail = << >> => Fine(u, AfterTail(w, << >>, << >>))
  <2> DEFINE none == << >>
  <2>1. none \in {UnsealedTail(w.k), << >>}  OBVIOUS
  <2> SUFFICES ASSUME tail = none  PROVE Fine(u, AfterTail(w, none, none))  OBVIOUS
  <2> HIDE DEF tail, none
  <2> QED  BY <1>1a, <2>1, AfterTailIsFine
<1>4. Fine(u, [w EXCEPT !.k.phase = "tail", !.jobs = Append(@, "tail")])
  <2> DEFINE v == [w EXCEPT !.k.phase = "tail", !.jobs = Append(@, "tail")]
  <2>1. v.k = [w.k EXCEPT !.phase = "tail"] /\ v.l = w.l /\ v.j = w.j
    BY <1>0 DEF Worlds
  <2> HIDE DEF v
  <2>2. Fine(u, v)  BY <1>0, <2>1, TailWaits DEF AtSeal
  <2> QED  BY <2>2 DEF v
<1> QED  BY <1>2, <1>3, <1>4 DEF SealTail

\* Sealing, at once or after the background decodes.
LEMMA SealIsFine ==
  ASSUME NEW u, NEW w, NEW busy, Calm(w, busy), AtSeal(u, w), speech \subseteq Units
  PROVE  Fine(u, Seal(w))
<1>0. w \in Worlds  BY CalmWorld
<1>1. Fine(u, [w EXCEPT !.k.phase = "seal"])
  <2> DEFINE v == [w EXCEPT !.k.phase = "seal"]
  <2>1. v.k = [w.k EXCEPT !.phase = "seal"] /\ v.l = w.l /\ v.j = w.j
    BY <1>0 DEF Worlds
  <2> HIDE DEF v
  <2>2. Fine(u, v)  BY <1>0, <2>1, TailWaits DEF AtSeal
  <2> QED  BY <2>2 DEF v
<1> QED  BY <1>1, SealTailIsFine DEF Seal

-----------------------------------------------------------------------------
(***************************************************************************)
(* What the session does to the books.                                     *)
(***************************************************************************)

\* The open segment is kept or dropped.
LEMMA StockDecide ==
  ASSUME NEW sp, NEW G \in Audio, NEW P \in Audio, NEW E \in Seq(Events(Units)), NEW A \in Audio,
         NEW S \in Audio, NEW F, Cardinality(F) \in Nat, NEW l \in Ledger, NEW C \in SUBSET Units,
         Stock(G, P, E, A, S, F, l, C, sp)
  PROVE  /\ Stock(G \o P, << >>, E, A, S, F, CommitSegment(l), C, sp)
         /\ Stock(G, << >>, E, A, S, F, DiscardSegment(l), C, sp)
<1> DEFINE more == Unapplied(E) + Len(S) + Cardinality(F)
           g == ToSet(G)  p == ToSet(P)  h == Heard(E)  a == ToSet(A)  s == ToSet(S)
           seen == g \union p \union h \union s \union F
           left == g \union h \union s \union F
           q == ToSet(G \o P)
<1>1. more \in Nat /\ Cardinality(C) \in Nat
  <2>1. Len(S) \in Nat /\ Unapplied(E) \in Nat /\ Cardinality(C) \in Nat  BY BooksFacts
  <2> QED  BY <2>1
<1>2. /\ Said(G) /\ Said(P) /\ Line(g, p, h, a, s, F)
      /\ Accounted(l, more, p, seen, C, sp)
      /\ g \union p \union h \union a \union s \union F \subseteq C
  BY DEF Stock
<1>3. AllBefore(g, p)  BY <1>2 DEF Line
<1>4. Said(G \o P) /\ q = g \union p
  BY <1>2, <1>3, SaidTogether DEF Audio
<1>5. Said(<< >>) /\ ToSet(<< >>) = {}  BY SaidNothing
<1> HIDE DEF more, q
<1>6. Line(q, {}, h, a, s, F) /\ Line(g, {}, h, a, s, F)
  BY <1>2, <1>4, LineMoves
<1>7. Accounted(CommitSegment(l), more, {}, seen, C, sp)
  BY <1>1, <1>2, AccountedSegment
<1>8. Accounted(DiscardSegment(l), more, {}, left, C, sp)
  <2>1. seen = left \union p  OBVIOUS
  <2> HIDE DEF seen, left, p
  <2> QED  BY <1>1, <1>2, <2>1, AccountedSegment
<1>9. q \union {} \union h \union s \union F = seen /\ g \union {} \union h \union s \union F = left
  BY <1>4
<1>10. Stock(G \o P, << >>, E, A, S, F, CommitSegment(l), C, sp)
  BY <1>2, <1>4, <1>5, <1>6, <1>7, <1>9 DEF Stock, more, q
<1>11. Stock(G, << >>, E, A, S, F, DiscardSegment(l), C, sp)
  BY <1>2, <1>4, <1>5, <1>6, <1>8, <1>9 DEF Stock, more
<1> QED  BY <1>10, <1>11

\* The boundary itself has no audio.
LEMMA StockBoundary ==
  ASSUME NEW sp, NEW G \in Audio, NEW P \in Audio, NEW E \in Seq(Events(Units)), NEW A \in Audio,
         NEW S \in Audio, NEW F, NEW l, NEW C,
         E # << >>, Head(E).kind = "boundary",
         Stock(G, P, E, A, S, F, l, C, sp)
  PROVE  Stock(G, P, Tail(E), A, S, F, l, C, sp)
<1> DEFINE e == Head(E)  r == Tail(E)
<1>1. /\ Heard(E) = Sound(e) \union Heard(r)
      /\ Unapplied(E) = Uncounted(e) + Unapplied(r) /\ Unapplied(r) \in Nat
      /\ EventsInLine(r, sp)
  BY FirstEvent DEF Stock
<1>2. Sound(e) = {} /\ Uncounted(e) = 0  BY DEF Sound, Uncounted
<1> HIDE DEF e, r
<1>3. Heard(E) = Heard(r) /\ Unapplied(E) = Unapplied(r)  BY <1>1, <1>2
<1>4. Stock(G, P, r, A, S, F, l, C, sp)  BY <1>1, <1>3 DEF Stock
<1> QED  BY <1>4 DEF r

\* Less than a window is left: it joins the open segment, and no later speech
\* will replay the attack buffer.
LEMMA StockFlush ==
  ASSUME NEW sp, NEW G \in Audio, NEW P \in Audio, NEW A \in Audio,
         NEW S \in Audio, NEW l \in Ledger, NEW C \in SUBSET Units,
         Stock(G, P, << >>, A, S, {}, l, C, sp)
  PROVE  /\ S # << >> =>
              Stock(G, P \o S, << >>, << >>, << >>, {}, NoteSpeech(l, Len(S), FALSE), C, sp)
         /\ S = << >> => Stock(G, P, << >>, << >>, << >>, {}, l, C, sp)
<1> DEFINE g == ToSet(G)  p == ToSet(P)  a == ToSet(A)  s == ToSet(S)  n == Len(S)
           seen == g \union p \union s
           q == ToSet(P \o S)
<1>1. /\ Unapplied(<< >>) = 0 /\ Heard(<< >>) = {} /\ EventsInLine(<< >>, sp)
      /\ Cardinality({}) = 0 /\ ToSet(<< >>) = {} /\ Len(<< >>) = 0 /\ Said(<< >>)
      /\ n \in Nat /\ Cardinality(C) \in Nat
  <2>1. Len(S) \in Nat /\ Cardinality(C) \in Nat
    <3>1. << >> \in Seq(Events(Units))  OBVIOUS
    <3> QED  BY <3>1, BooksFacts
  <2> QED  BY <2>1, NoEvents, SaidNothing, FS_EmptySet
<1>2. /\ Said(G) /\ Said(P) /\ Said(S) /\ Line(g, p, {}, a, s, {})
      /\ g \union p \union {} \union a \union s \union {} \subseteq C
  BY <1>1 DEF Stock
<1>3. Accounted(l, n, p, seen, C, sp)
  <2>1. 0 + n + 0 = n /\ g \union p \union {} \union s \union {} = seen  BY <1>1
  <2>2. Accounted(l, 0 + n + 0, p, g \union p \union {} \union s \union {}, C, sp)
    BY <1>1 DEF Stock
  <2> QED  BY <2>1, <2>2
<1>4. ASSUME S # << >>
      PROVE  Stock(G, P \o S, << >>, << >>, << >>, {}, NoteSpeech(l, Len(S), FALSE), C, sp)
  <2>1. AllBefore(p, s) /\ Line(g, p \union s, {}, {}, {}, {})
    BY <1>2, LineBuffers, LineMoves
  <2>2. Said(P \o S) /\ q = p \union s
    BY <1>2, <2>1, SaidTogether DEF Audio
  <2>3. n + 0 = n /\ n \in Nat \ {0}
    BY <1>1, <1>4
  <2> DEFINE m == NoteSpeech(l, n, FALSE)
  <2>4. Accounted(m, 0, q, seen, C, sp)
    <3>1. Accounted(l, (IF FALSE THEN 0 ELSE n) + 0, p, seen, C, sp)  BY <1>3, <2>3
    <3>2. FALSE \in BOOLEAN /\ 0 \in Nat /\ n > 0 /\ n \in Nat /\ Cardinality(C) \in Nat
      BY <1>1, <2>3
    <3> HIDE DEF n, p, s, seen
    <3>3. Accounted(NoteSpeech(l, n, FALSE), 0, p \union s, seen, C, sp)
      BY <3>1, <3>2, AccountedSpeech
    <3> QED  BY <2>2, <3>3
  <2> HIDE DEF m, q
  <2>5. 0 + 0 + 0 = 0 /\ g \union q \union {} \union {} \union {} = seen
        /\ g \union q \union {} \union {} \union {} \union {} \subseteq C
    BY <1>2, <2>2
  <2>6. Stock(G, P \o S, << >>, << >>, << >>, {}, m, C, sp)
    BY <1>1, <1>2, <2>1, <2>2, <2>4, <2>5 DEF Stock, q
  <2> QED  BY <2>6 DEF m
<1>5. ASSUME S = << >>
      PROVE  Stock(G, P, << >>, << >>, << >>, {}, l, C, sp)
  <2>1. n = 0 /\ s = {}  BY <1>1, <1>5
  <2>2. Line(g, p, {}, {}, {}, {})  BY <1>2, <2>1, LineMoves
  <2>3. 0 + 0 + 0 = 0 /\ g \union p \union {} \union {} \union {} = seen
        /\ g \union p \union {} \union {} \union {} \union {} \subseteq C
    BY <1>2, <2>1
  <2> QED  BY <1>1, <1>2, <1>3, <2>1, <2>2, <2>3 DEF Stock
<1> QED  BY <1>4, <1>5

\* An accepted chunk is somewhere: first with its frame, then in staging.
LEMMA StockFrame ==
  ASSUME NEW sp, NEW G \in Audio, NEW P \in Audio, NEW E \in Seq(Events(Units)), NEW A \in Audio,
         NEW S \in Audio, NEW l \in Ledger, NEW C \in SUBSET Units, NEW x \in Seqs
  PROVE  /\ Stock(G, P, E, A, S, {}, l, C, sp) /\ AllBefore(C, Sent(x)) =>
              Stock(G, P, E, A, S, Sent(x), l, C \union Sent(x), sp)
         /\ Stock(G, P, E, A, S, Sent(x), l, C, sp) =>
              /\ Stock(G, P, E, A, S \o Payload(x), {}, l, C, sp)
              /\ Stock(G, P, E, A, S, {}, l, C, sp)
<1> DEFINE g == ToSet(G)  p == ToSet(P)  h == Heard(E)  a == ToSet(A)  s == ToSet(S)
           U == Unapplied(E)  n == Len(S)  X == Payload(x)  F == Sent(x)  f == Len(X)
           T == S \o X
<1>1. /\ U \in Nat /\ n \in Nat /\ Cardinality(C) \in Nat /\ f \in Nat
      /\ Cardinality({}) = 0 /\ Cardinality(F) = f /\ IsFiniteSet(C) /\ IsFiniteSet(F)
  <2>1. U \in Nat /\ n \in Nat /\ Cardinality(C) \in Nat  BY BooksFacts
  <2>2. Cardinality({}) = 0  BY FS_EmptySet
  <2>3. Cardinality(F) = f /\ f \in Nat /\ IsFiniteSet(F)  BY SentIs
  <2>4. 0 \in Int /\ Recorded - 1 \in Int  BY ChunkStartIs
  <2>5. IsFiniteSet(Units)  BY <2>4, FS_Interval DEF Units
  <2>6. IsFiniteSet(C)  BY <2>5, FS_Subset
  <2> QED  BY <2>1, <2>2, <2>3, <2>6
<1>2. l.consumed \in Nat /\ l.covered \in Nat  BY LedgerFields
<1>3. /\ T \in Audio /\ Len(T) = n + f /\ ToSet(T) = s \union F
      /\ (Said(S) /\ AllBefore(s, F) => Said(T))
  <2>1. S \in Seq(Units) /\ X \in Seq(Units) /\ ToSet(X) = F /\ Said(X)
    BY SentIs DEF Audio, Sent
  <2> HIDE DEF X, F
  <2>2. /\ T \in Seq(Units) /\ Len(T) = Len(S) + Len(X)
        /\ ToSet(T) = ToSet(S) \union ToSet(X)
        /\ Said(S) /\ Said(X) /\ AllBefore(ToSet(S), ToSet(X)) => Said(T)
    BY <2>1, SaidTogether
  <2> HIDE DEF T
  <2> QED  BY <2>1, <2>2 DEF Audio
<1>4. f = 0 => F = {}  BY <1>1, FS_EmptySet
<1> HIDE DEF U, n, T, g, p, h, a, s, X, F, f
<1>5. ASSUME Stock(G, P, E, A, S, {}, l, C, sp), AllBefore(C, F)
      PROVE  Stock(G, P, E, A, S, F, l, C \union F, sp)
  <2>1. /\ Line(g, p, h, a, s, {}) /\ g \union p \union h \union a \union s \subseteq C
        /\ Accounted(l, U + n + 0, p, g \union p \union h \union s \union {}, C, sp)
    BY <1>1, <1>5 DEF Stock, g, p, h, a, s, U, n
  <2>2. Line(g, p, h, a, s, F)  BY <1>5, <2>1, LineGrows
  <2>3. Cardinality(C \union F) = Cardinality(C) + f
    <3>1. C \intersect F = {}  BY <1>5 DEF AllBefore, Before
    <3>2. Cardinality(C \union F) = Cardinality(C) + Cardinality(F) - Cardinality(C \intersect F)
      BY <1>1, FS_Union
    <3>3. Cardinality(C \intersect F) = 0  BY <1>1, <3>1
    <3> DEFINE d == Cardinality(C \union F)  e == Cardinality(C)
    <3>4. d = e + f - 0 /\ e \in Nat /\ f \in Nat  BY <1>1, <3>2, <3>3
    <3> HIDE DEF d, e
    <3>5. d = e + f  BY <3>4
    <3> QED  BY <3>5 DEF d, e
  <2>4. Accounted(l, U + n + f, p, g \union p \union h \union s \union F, C \union F, sp)
    BY <1>1, <1>2, <2>1, <2>3 DEF Accounted
  <2> QED  BY <1>1, <1>5, <2>1, <2>2, <2>4 DEF Stock, g, p, h, a, s, U, n
<1>6. ASSUME Stock(G, P, E, A, S, F, l, C, sp)
      PROVE  /\ Stock(G, P, E, A, T, {}, l, C, sp)
             /\ Stock(G, P, E, A, S, {}, l, C, sp)
  <2>1. /\ Line(g, p, h, a, s, F) /\ g \union p \union h \union a \union s \union F \subseteq C
        /\ Accounted(l, U + n + f, p, g \union p \union h \union s \union F, C, sp)
        /\ Said(S)
    BY <1>1, <1>6 DEF Stock, g, p, h, a, s, U, n
  <2>2. AllBefore(s, F) /\ Line(g, p, h, a, s \union F, {}) /\ Line(g, p, h, a, s, {})
    BY <2>1, LineBuffers
  <2>3. Accounted(l, U + (n + f) + 0, p, g \union p \union h \union (s \union F) \union {}, C, sp)
    BY <1>1, <1>2, <2>1 DEF Accounted
  <2>4. Accounted(l, U + n + 0, p, g \union p \union h \union s \union {}, C, sp)
    <3>1. l.consumed + (U + n + 0) <= Cardinality(C)
      BY <1>1, <1>2, <2>1 DEF Accounted
    <3>2. l.consumed + (U + n + 0) = Cardinality(C) => f = 0
      BY <1>1, <1>2, <2>1 DEF Accounted
    <3>3. f = 0 => U + n + 0 = U + n + f /\ F = {}  BY <1>1, <1>4
    <3> QED  BY <2>1, <3>1, <3>2, <3>3 DEF Accounted
  <2>5. Stock(G, P, E, A, T, {}, l, C, sp)
    BY <1>1, <1>3, <1>6, <2>1, <2>2, <2>3 DEF Stock, g, p, h, a, s, U, n
  <2>6. Stock(G, P, E, A, S, {}, l, C, sp)
    BY <1>1, <1>6, <2>1, <2>2, <2>4 DEF Stock, g, p, h, a, s, U, n
  <2> QED  BY <2>5, <2>6
<1> QED  BY <1>5, <1>6 DEF T, X, F

\* A closed connection has no attack buffer.
LEMMA StockForget ==
  ASSUME NEW sp, NEW G, NEW P, NEW E, NEW A, NEW S, NEW F, NEW l, NEW C,
         Stock(G, P, E, A, S, F, l, C, sp)
  PROVE  Stock(G, P, E, << >>, S, F, l, C, sp)
<1>1. Said(<< >>) /\ ToSet(<< >>) = {}  BY SaidNothing
<1>2. Line(ToSet(G), ToSet(P), Heard(E), {}, ToSet(S), F)
  BY LineMoves DEF Stock
<1> QED  BY <1>1, <1>2 DEF Stock

\* The open segment is kept or dropped.
LEMMA BooksDecide ==
  ASSUME NEW sp, NEW G \in Audio, NEW P \in Audio, NEW E \in Seq(Events(Units)), NEW A \in Audio,
         NEW S \in Audio, NEW F, Cardinality(F) \in Nat, NEW l \in Ledger, NEW C \in SUBSET Units,
         Books(G, P, E, A, S, F, l, C, sp)
  PROVE  /\ Books(G \o P, << >>, E, A, S, F, CommitSegment(l), C, sp)
         /\ Books(G, << >>, E, A, S, F, DiscardSegment(l), C, sp)
<1> DEFINE m == CommitSegment(l)
           d == DiscardSegment(l)
           all == G \o P
           p == Passed(S, F, C)
<1>1. /\ Stock(G, P, E, A, S, F, l, C, sp) /\ Segment(P, E, A, l)
      /\ (Allow = {} => Numbered(G, E, S, F, l, C, sp))
  BY DEF Books
<1>2. Stock(all, << >>, E, A, S, F, m, C, sp) /\ Stock(G, << >>, E, A, S, F, d, C, sp)
  BY <1>1, StockDecide
<1>3. /\ m.consumed = l.consumed /\ m.covered = (IF l.frozen THEN l.covered ELSE l.consumed)
      /\ m.segment_start = Unset /\ m.attack_start = l.attack_start
      /\ d.consumed = l.consumed /\ d.covered = l.covered
      /\ d.segment_start = Unset /\ d.attack_start = l.attack_start
  <2>1. 0 \in Nat /\ FALSE \in BOOLEAN  OBVIOUS
  <2> QED  BY <2>1, LedgerMethods
<1>4. ToSet(all) = ToSet(G) \union ToSet(P)
  <2>1. G \in Seq(Units) /\ P \in Seq(Units)  BY DEF Audio
  <2> QED  BY <2>1, SaidTogether
<1> HIDE DEF m, d, all, p
<1>5. Segment(<< >>, E, A, m) /\ Segment(<< >>, E, A, d)
  BY <1>1, <1>3 DEF Segment, SegmentOpen, Dated
<1>6. ASSUME Allow = {}
      PROVE  Numbered(all, E, S, F, m, C, sp) /\ Numbered(G, E, S, F, d, C, sp)
  <2>1. Numbered(G, E, S, F, l, C, sp)  BY <1>1, <1>6
  <2>2. (0 .. m.covered - 1) \intersect sp \subseteq ToSet(all)
    <3>1. CASE l.frozen
      <4>1. (0 .. l.covered - 1) \intersect sp \subseteq ToSet(G)  BY <2>1 DEF Numbered
      <4> QED  BY <1>3, <1>4, <3>1, <4>1
    <3>2. CASE ~l.frozen
      <4> SUFFICES ASSUME NEW x \in 0 .. m.covered - 1, x \in sp  PROVE x \in ToSet(all)  OBVIOUS
      <4>1. From(E, 0) = E /\ 0 \in 0 .. Len(E)
        <5>1. Len(E) \in Nat  OBVIOUS
        <5> QED  BY <5>1, FromEnds
      <4>2. /\ l.consumed \in Nat /\ Unapplied(E) \in Nat /\ p \in Int
            /\ l.consumed + Unapplied(E) = p
        <5>1. l.consumed \in Nat /\ Unapplied(E) \in Nat /\ p \in Int  BY NumberFacts DEF p
        <5> QED  BY <2>1, <5>1 DEF Numbered, p
      <4>3. m.covered = l.consumed  BY <1>3, <3>2
      <4>4. x \in Nat /\ x < p - Unapplied(From(E, 0))  BY <4>1, <4>2, <4>3
      <4>5. Heard(E) = Heard(From(E, 0))  BY <4>1
      <4>6. x \in ToSet(G) \union ToSet(P)  BY <1>1, <2>1, <3>2, <4>1, <4>4, <4>5, HeardBelow DEF p
      <4> QED  BY <1>4, <4>6
    <3> QED  BY <3>1, <3>2
  <2> QED  BY <1>3, <2>1, <2>2 DEF Numbered
<1> QED  BY <1>2, <1>5, <1>6 DEF Books, m, d, all

\* A boundary leaves the events.
LEMMA BooksBoundary ==
  ASSUME NEW sp, NEW G \in Audio, NEW P \in Audio, NEW E \in Seq(Events(Units)), NEW A \in Audio,
         NEW S \in Audio, NEW F, NEW l, NEW C,
         E # << >>, Head(E).kind = "boundary",
         Books(G, P, E, A, S, F, l, C, sp)
  PROVE  Books(G, P, Tail(E), A, S, F, l, C, sp)
<1> DEFINE e == Head(E)  r == Tail(E)
<1>1. /\ Stock(G, P, E, A, S, F, l, C, sp) /\ Segment(P, E, A, l)
      /\ (Allow = {} => Numbered(G, E, S, F, l, C, sp))
  BY DEF Books
<1>2. Stock(G, P, r, A, S, F, l, C, sp)  BY <1>1, StockBoundary
<1>3. Segment(P, r, A, l)
  <2>1. Head(E).kind # "silence" /\ l.attack_start = l.attack_start  OBVIOUS
  <2> QED  BY <1>1, <2>1, SegmentShifts DEF Segment
<1>4. ASSUME Allow = {}  PROVE Numbered(G, r, S, F, l, C, sp)
  <2>1. Unapplied(E) = Unapplied(r)
    <3>1. Unapplied(E) = Uncounted(e) + Unapplied(r) /\ Unapplied(r) \in Nat  BY FirstEvent
    <3>2. Uncounted(e) = 0  BY DEF Uncounted
    <3> HIDE DEF e, r
    <3> QED  BY <3>1, <3>2
  <2>2. \A k \in 0 .. Len(r) : k + 1 \in 0 .. Len(E) /\ From(r, k) = From(E, k + 1)
    <3>1. Len(r) = Len(E) - 1 /\ Len(E) \in Nat  BY HeadTailProperties
    <3>2. \A k \in Nat : From(r, k) = From(E, k + 1)  BY FromMoves
    <3> HIDE DEF r
    <3> QED  BY <3>1, <3>2
  <2>3. Numbered(G, E, S, F, l, C, sp)  BY <1>1, <1>4
  <2> HIDE DEF r
  <2> QED  BY <2>1, <2>2, <2>3 DEF Numbered
<1> QED  BY <1>2, <1>3, <1>4 DEF Books

\* At the stop the attack buffer is dropped, and what is staged joins the segment.
LEMMA BooksFlush ==
  ASSUME NEW sp, NEW G \in Audio, NEW P \in Audio, NEW A \in Audio,
         NEW S \in Audio, NEW l \in Ledger, NEW C \in SUBSET Units,
         Books(G, P, << >>, A, S, {}, l, C, sp)
  PROVE  /\ S # << >> =>
              Books(G, P \o S, << >>, << >>, << >>, {}, NoteSpeech(l, Len(S), FALSE), C, sp)
         /\ S = << >> => Books(G, P, << >>, << >>, << >>, {}, l, C, sp)
<1> DEFINE m == NoteSpeech(l, Len(S), FALSE)
           n == Len(S)
           c == Cardinality(C)
           none == << >>
<1>1. /\ Stock(G, P, none, A, S, {}, l, C, sp) /\ Segment(P, none, A, l)
      /\ (Allow = {} => Numbered(G, none, S, {}, l, C, sp))
  BY DEF Books
<1>2. /\ S # none => Stock(G, P \o S, none, none, none, {}, m, C, sp)
      /\ S = none => Stock(G, P, none, none, none, {}, l, C, sp)
  BY <1>1, StockFlush
<1>3. /\ none \in Seq(Events(Units)) /\ none \in Audio /\ Len(none) = 0 /\ Sounds(none) = {}
      /\ Unapplied(none) = 0 /\ Cardinality({}) = 0 /\ From(none, 0) = none /\ Heard(none) = {}
  <2>1. none \in Seq(Events(Units)) /\ none \in Audio /\ Len(none) = 0 /\ Sounds(none) = {}
    BY DEF Audio, Sounds
  <2>2. Heard(none) = {} /\ Unapplied(none) = 0  BY NoEvents
  <2> HIDE DEF none
  <2> QED  BY <2>1, <2>2, FromEnds, FS_EmptySet
<1>4. n \in Nat /\ c \in Nat /\ l.consumed \in Nat
  <2>1. Cardinality({}) \in Nat  BY <1>3
  <2> HIDE DEF none
  <2> QED  BY <1>3, <2>1, NumberFacts
<1>5. /\ m.consumed = l.consumed + n /\ m.covered = l.covered
      /\ m.segment_start = (IF SegmentOpen(l) THEN l.segment_start ELSE l.consumed)
  <2>1. FALSE \in BOOLEAN  OBVIOUS
  <2> HIDE DEF none
  <2> QED  BY <1>4, <2>1, LedgerMethods
<1>6. S # none => P \o S # none
  <2>1. P \in Seq(Units) /\ S \in Seq(Units)  BY DEF Audio
  <2>2. Len(P \o S) = Len(P) + Len(S) /\ Len(P) \in Nat  BY <2>1, ConcatProperties
  <2>3. S # none => Len(S) # 0  BY <2>1
  <2>4. n = Len(S) /\ Len(none) = 0  BY <1>3
  <2> HIDE DEF n
  <2>5. S # none => Len(P \o S) # 0  BY <1>4, <2>2, <2>3, <2>4
  <2> QED  BY <2>4, <2>5
<1> DEFINE p == Passed(S, {}, C)  q == Passed(none, {}, C)
<1>7. p + n = c /\ q = c /\ p \in Int
  <2>1. p = c - 0 - n /\ q = c - 0 - 0  BY <1>3 DEF Passed
  <2> HIDE DEF p, q, n, c
  <2> QED  BY <1>4, <2>1
<1>8. ASSUME NEW k, k.consumed = c, k.covered = l.covered, Allow = {}
      PROVE  Numbered(G, none, none, {}, k, C, sp)
  <2>1. Numbered(G, none, S, {}, l, C, sp)  BY <1>1, <1>8
  <2>2. C = 0 .. c - 1 /\ (0 .. k.covered - 1) \intersect sp \subseteq ToSet(G)
    BY <1>8, <2>1 DEF Numbered
  <2>3. k.consumed + Unapplied(none) = q
    <3> HIDE DEF q, c, none
    <3> QED  BY <1>3, <1>4, <1>7, <1>8
  <2>4. \A i \in 1 .. Len(none) : none[i] = q + i - 1  BY <1>3
  <2>5. \A i \in 0 .. Len(none) : From(none, i) = none
    <3>1. \A i \in 0 .. 0 : i = 0  OBVIOUS
    <3> HIDE DEF none
    <3> QED  BY <1>3, <3>1
  <2> HIDE DEF none
  <2> QED  BY <1>3, <2>2, <2>3, <2>4, <2>5 DEF Numbered, q, c
<1>9. CASE S # none
  <2>1. SegmentOpen(m)
    <3> HIDE DEF m, n, c, p, q, none
    <3> QED  BY <1>4, <1>5 DEF SegmentOpen, Unset
  <2>2. Dated(none, none, m)  BY <1>3 DEF Dated
  <2>3. Segment(P \o S, none, none, m)  BY <1>3, <1>6, <1>9, <2>1, <2>2 DEF Segment
  <2>4. Allow = {} => Numbered(G, none, none, {}, m, C, sp)
    <3> SUFFICES ASSUME Allow = {}  PROVE Numbered(G, none, none, {}, m, C, sp)  OBVIOUS
    <3>1. l.consumed + Unapplied(none) = p  BY <1>1 DEF Numbered
    <3> HIDE DEF m, n, c, p, q, none
    <3>2. m.consumed = c  BY <1>3, <1>4, <1>5, <1>7, <3>1
    <3> QED  BY <1>5, <1>8, <3>2
  <2> QED  BY <1>2, <1>9, <2>3, <2>4 DEF Books
<1>10. CASE S = none
  <2>1. Dated(none, none, l)  BY <1>3 DEF Dated
  <2>2. Segment(P, none, none, l)  BY <1>1, <2>1 DEF Segment
  <2>3. Allow = {} => Numbered(G, none, none, {}, l, C, sp)
    <3> SUFFICES ASSUME Allow = {}  PROVE Numbered(G, none, none, {}, l, C, sp)  OBVIOUS
    <3>1. l.consumed + Unapplied(none) = p  BY <1>1 DEF Numbered
    <3>2. n = 0  BY <1>3, <1>10
    <3> HIDE DEF n, c, p, q, none
    <3>3. l.consumed = c  BY <1>3, <1>4, <1>7, <3>1, <3>2
    <3> QED  BY <1>8, <3>3
  <2> QED  BY <1>2, <1>10, <2>2, <2>3 DEF Books
<1> QED  BY <1>9, <1>10

\* A frame arrives, is buffered, or is lost with its socket.
LEMMA BooksFrame ==
  ASSUME NEW sp, NEW G \in Audio, NEW P \in Audio, NEW E \in Seq(Events(Units)), NEW A \in Audio,
         NEW S \in Audio, NEW l \in Ledger, NEW C \in SUBSET Units, NEW x \in Seqs
  PROVE  /\ /\ Books(G, P, E, A, S, {}, l, C, sp) /\ AllBefore(C, Sent(x))
            /\ Allow = {} => Cardinality(C) = ChunkStart[x]
            => Books(G, P, E, A, S, Sent(x), l, C \union Sent(x), sp)
         /\ Books(G, P, E, A, S, Sent(x), l, C, sp) =>
              /\ Books(G, P, E, A, S \o Payload(x), {}, l, C, sp)
              /\ Allow # {} => Books(G, P, E, A, S, {}, l, C, sp)
<1> DEFINE c == Cardinality(C)  n == Len(S)  X == Payload(x)  F == Sent(x)  f == Len(X)
           b == ChunkStart[x]  T == S \o X  D == C \union F
<1>1. /\ n \in Nat /\ c \in Nat /\ f \in Nat /\ b \in Nat
      /\ Cardinality({}) = 0 /\ Cardinality(F) = f /\ IsFiniteSet(C) /\ IsFiniteSet(F)
      /\ F = b .. (b + f) - 1 /\ \A i \in 1 .. f : X[i] = b + i - 1
  <2>1. n \in Nat /\ c \in Nat  BY BooksFacts
  <2>2. IsFiniteSet(C)
    <3>1. 0 \in Int /\ Recorded - 1 \in Int  BY ChunkStartIs
    <3>2. IsFiniteSet(Units)  BY <3>1, FS_Interval DEF Units
    <3> QED  BY <3>2, FS_Subset
  <2>3. /\ f \in Nat /\ b \in Nat /\ Cardinality(F) = f /\ IsFiniteSet(F)
        /\ F = Stretch(x) /\ ChunkStart[x + 1] = b + f
    BY SentIs
  <2>4. F = b .. (b + f) - 1  BY <2>3 DEF Stretch
  <2>5. \A i \in 1 .. f : X[i] = b + i - 1  BY PayloadIs
  <2> QED  BY <2>1, <2>2, <2>3, <2>4, <2>5, FS_EmptySet
<1>3. /\ T \in Audio /\ Len(T) = n + f /\ \A i \in 1 .. n : T[i] = S[i]
      /\ \A i \in n + 1 .. n + f : T[i] = X[i - n]
  <2>1. S \in Seq(Units) /\ X \in Seq(Units)  BY SentIs DEF Audio
  <2> HIDE DEF X
  <2> QED  BY <2>1, ConcatIs, ConcatProperties DEF Audio
<1> HIDE DEF F, X
<1>4. ASSUME Books(G, P, E, A, S, {}, l, C, sp), AllBefore(C, F), Allow = {} => c = b
      PROVE  Books(G, P, E, A, S, F, l, D, sp)
  <2>1. Stock(G, P, E, A, S, F, l, D, sp)  BY <1>4, StockFrame DEF Books, F
  <2>2. ASSUME Allow = {}  PROVE Numbered(G, E, S, F, l, D, sp)
    <3>1. Numbered(G, E, S, {}, l, C, sp)  BY <1>4, <2>2 DEF Books
    <3>2. C = 0 .. c - 1 /\ c = b  BY <1>4, <2>2, <3>1 DEF Numbered
    <3>3. Cardinality(D) = c + f
      <4>1. C \intersect F = {}  BY <1>4 DEF AllBefore, Before
      <4>2. Cardinality(D) = Cardinality(C) + Cardinality(F) - Cardinality(C \intersect F)
        BY <1>1, FS_Union
      <4>3. Cardinality(C \intersect F) = 0  BY <1>1, <4>1
      <4> DEFINE d == Cardinality(D)
      <4>4. d = c + f - 0 /\ c \in Nat /\ f \in Nat  BY <1>1, <4>2, <4>3
      <4> HIDE DEF d, c, f
      <4>5. d = c + f  BY <4>4
      <4> QED  BY <4>5 DEF d
    <3>5. D = 0 .. (c + f) - 1
      <4> HIDE DEF c, f, b
      <4>1. \A y : y \in 0 .. (c + f) - 1 <=> y \in 0 .. c - 1 \/ y \in c .. (c + f) - 1
        BY <1>1
      <4> QED  BY <1>1, <3>2, <4>1
    <3>6. Passed(S, F, D) = Passed(S, {}, C) /\ Cardinality(D) - Cardinality(F) = c
      <4>1. Passed(S, F, D) = (c + f) - f - n /\ Passed(S, {}, C) = c - 0 - n
        BY <1>1, <3>3 DEF Passed
      <4> HIDE DEF c, n, D, f
      <4> QED  BY <1>1, <3>3, <4>1
    <3>7. \A y \in F : y >= Cardinality(D) - Cardinality(F)
      <4> HIDE DEF c, D, b, f
      <4> QED  BY <1>1, <3>2, <3>6
    <3> HIDE DEF D, c, f
    <3> QED  BY <3>1, <3>3, <3>5, <3>6, <3>7 DEF Numbered
  <2> QED  BY <1>4, <2>1, <2>2 DEF Books
<1>5. ASSUME Books(G, P, E, A, S, F, l, C, sp)
      PROVE  /\ Books(G, P, E, A, T, {}, l, C, sp)
             /\ Allow # {} => Books(G, P, E, A, S, {}, l, C, sp)
  <2>1. Stock(G, P, E, A, T, {}, l, C, sp) /\ Stock(G, P, E, A, S, {}, l, C, sp)
    BY <1>5, StockFrame DEF Books, F, X
  <2>2. ASSUME Allow = {}  PROVE Numbered(G, E, T, {}, l, C, sp)
    <3>1. Numbered(G, E, S, F, l, C, sp)  BY <1>5, <2>2 DEF Books
    <3>2. F \subseteq C  BY <1>5 DEF Books, Stock
    <3>3. f # 0 => b = c - f
      <4>1. C = 0 .. c - 1 /\ \A y \in F : y >= c - f  BY <1>1, <3>1 DEF Numbered
      <4> HIDE DEF c, f, b
      <4>2. f # 0 => b \in F /\ (b + f) - 1 \in F  BY <1>1
      <4>3. f # 0 => b >= c - f /\ (b + f) - 1 \in 0 .. c - 1  BY <3>2, <4>1, <4>2
      <4> QED  BY <1>1, <4>3
    <3>4. Passed(T, {}, C) = Passed(S, F, C) /\ Passed(S, F, C) = c - f - n
      <4>1. Passed(S, F, C) = c - f - n /\ Passed(T, {}, C) = c - 0 - (n + f)
        BY <1>1, <1>3 DEF Passed
      <4> HIDE DEF c, n, f
      <4> QED  BY <1>1, <4>1
    <3>5. ASSUME NEW i \in 1 .. Len(T)  PROVE T[i] = Passed(T, {}, C) + i - 1
      <4>1. CASE i \in 1 .. n
        <5>1. S[i] = Passed(S, F, C) + i - 1  BY <3>1, <4>1 DEF Numbered
        <5> QED  BY <1>3, <3>4, <4>1, <5>1
      <4>2. CASE i \in n + 1 .. n + f
        <5>1. T[i] = X[i - n]  BY <1>3, <4>2
        <5> HIDE DEF c, n, f, b, T
        <5>2. f # 0 /\ i - n \in 1 .. f  BY <1>1, <4>2
        <5>3. X[i - n] = b + (i - n) - 1  BY <1>1, <5>2
        <5> QED  BY <1>1, <3>3, <3>4, <4>2, <5>1, <5>2, <5>3
      <4>3. i \in 1 .. n \/ i \in n + 1 .. n + f
        <5> HIDE DEF n, f, T
        <5> QED  BY <1>1, <1>3
      <4> QED  BY <4>1, <4>2, <4>3
    <3> HIDE DEF T, c
    <3> QED  BY <1>1, <3>1, <3>4, <3>5 DEF Numbered
  <2> QED  BY <1>5, <2>1, <2>2 DEF Books
<1> QED  BY <1>4, <1>5 DEF T, X, F

\* The attack buffer may be forgotten.
LEMMA BooksForget ==
  ASSUME NEW sp, NEW G, NEW P, NEW E, NEW A, NEW S, NEW F, NEW l, NEW C,
         Books(G, P, E, A, S, F, l, C, sp)
  PROVE  Books(G, P, E, << >>, S, F, l, C, sp)
<1>1. Stock(G, P, E, << >>, S, F, l, C, sp)  BY StockForget DEF Books
<1>2. Segment(P, E, << >>, l)  BY DEF Books, Segment, Dated
<1> QED  BY <1>1, <1>2 DEF Books

-----------------------------------------------------------------------------
(***************************************************************************)
(* From the gate to the end of the step.                                   *)
(***************************************************************************)

\* The journal is as it was, or has been synced.
Journaled(v, w) ==
  \/ v.j = w.j
  \/ /\ v.j.chunks = w.j.chunks /\ v.j.final = w.j.final
     /\ v.j.last_partial = v.k.last_partial
     /\ v.j.stable_text = v.k.stable_text /\ v.j.stable_bytes = v.k.stable_bytes
     /\ v.j.ledger = v.k.ledger

\* Two locals that differ at most in the audio they have gated, opened and staged.
SameClaims(a, b) ==
  /\ SameRefs(a, b) /\ SamePartials(a, b)
  /\ a.stable_text = b.stable_text /\ a.stable_bytes = b.stable_bytes
  /\ a.raw = b.raw /\ a.frame = b.frame

\* Audio moves on between the buffers.
LEMMA TrustMoves ==
  ASSUME NEW u, NEW w, NEW v, NEW E, NEW A, Trust(u, w, E, A), NEW more, NEW kept,
         Journaled(v, w), SameClaims(v.k, w.k),
         Books(v.k.gated, v.k.pending, more, kept, v.k.staging, FrameSet(w.k),
               v.l, Arrived(w.j.chunks), speech)
  PROVE  Trust(u, v, more, kept)
<1>1. FrameSet(v.k) = FrameSet(w.k)  BY DEF FrameSet, SameClaims
<1>2. v.j.chunks = w.j.chunks  BY DEF Journaled
<1>3. RawInv(v.k, v.j.chunks)  BY <1>1, <1>2 DEF Trust, RawInv, SameClaims
<1>4. PartialsInv(v.k)  BY DEF Trust, Sane, PartialsInv, SamePartials, SameClaims
<1>5. SameText(v.k, v.j)  BY DEF Trust, Sane, SameText, SameClaims, Journaled
<1>6. JournalInv(v.j, speech)
  <2>1. Said(v.k.last_partial)  BY <1>4 DEF PartialsInv
  <2> QED  BY <1>2, <2>1 DEF Trust, Sane, JournalInv, Journaled
<1>7. v.k.ledger = u.k.ledger /\ v.k.journal = u.k.journal
  BY DEF Trust, Sane, SameClaims, SameRefs
<1>8. v.j.ledger \in {u.j.ledger, u.k.ledger}  BY <1>7 DEF Trust, Sane, Journaled
<1>9. Sane(u, v)  BY <1>4, <1>5, <1>6, <1>7, <1>8 DEF Sane
<1> QED  BY <1>1, <1>2, <1>3, <1>9 DEF Trust

\* A sync leaves the books of the connection true.
LEMMA SyncTrusts ==
  ASSUME NEW u, NEW w \in Worlds, NEW E, NEW A, Trust(u, w, E, A)
  PROVE  Trust(u, Sync(w), E, A) /\ Synced(Sync(w).k, Sync(w).l, Sync(w).j)
<1>1. Journaled(Sync(w), w)  BY SyncCopies DEF Journaled
<1>2. Sync(w).k = w.k /\ Sync(w).l = w.l  BY SyncCopies
<1>3. SameClaims(Sync(w).k, w.k)  BY <1>2 DEF SameClaims, SameRefs, SamePartials
<1>4. Trust(u, Sync(w), E, A)  BY <1>1, <1>2, <1>3, TrustMoves DEF Trust
<1> QED  BY <1>4, SyncCopies DEF Synced

\* The open segment is kept: it joins the gated audio and the claim goes up to it.
LEMMA AcceptFinalTailIsFine ==
  ASSUME NEW u, NEW w, NEW busy, Calm(w, busy), AtTail(u, w), speech \subseteq Units
  PROVE  Fine(u, AcceptFinalTail(w))
<1> DEFINE x == KeepSegment(w)
           y == Sync(x)
           v == ClearPending(y)
<1>1. Calm(x, busy) /\ x.k = [w.k EXCEPT !.gated = @ \o w.k.pending]
  BY KeepSegmentKeeps
<1>2. /\ w \in Worlds /\ w.k \in Locals /\ w.l \in Ledger /\ w.j \in Sessions
      /\ x \in Worlds /\ x.k \in Locals
  BY <1>1, CalmWorld
<1>3. x.l = CommitSegment(w.l) /\ x.j = w.j
  BY <1>2 DEF KeepSegment, Worlds
<1>4. /\ x.k.gated = w.k.gated \o w.k.pending /\ x.k.staging = w.k.staging
      /\ x.k.events = w.k.events /\ x.k.stop = w.k.stop
      /\ SameClaims(x.k, w.k)
  BY <1>1, <1>2, ZenonT(60) DEF Locals, SameClaims, SameRefs, SamePartials
<1> HIDE DEF x
<1>5. Calm(y, busy) /\ y.k = x.k  BY <1>1, CalmSync
<1>6. /\ y \in Worlds /\ y.l = x.l
      /\ y.j.chunks = w.j.chunks /\ y.j.final = w.j.final
      /\ y.j.last_partial = x.k.last_partial
      /\ y.j.stable_text = x.k.stable_text /\ y.j.stable_bytes = x.k.stable_bytes
      /\ y.j.ledger = x.k.ledger
  BY <1>2, <1>3, SyncCopies
<1> HIDE DEF y
<1>7. Calm(v, busy)  BY <1>5, ClearPendingKeeps
<1>8. v.k = [x.k EXCEPT !.pending = << >>] /\ v.l = x.l /\ v.j = y.j
  BY <1>5, <1>6 DEF ClearPending, Worlds
<1> HIDE DEF v
<1>9. /\ v.k.gated = x.k.gated /\ v.k.pending = << >> /\ v.k.staging = x.k.staging
      /\ v.k.events = x.k.events /\ v.k.stop = x.k.stop
      /\ SameClaims(v.k, x.k)
  BY <1>2, <1>8 DEF Locals, SameClaims, SameRefs, SamePartials
<1>10. SameClaims(v.k, w.k)
  BY <1>4, <1>9 DEF SameClaims, SameRefs, SamePartials
<1>11. Journaled(v, w)
  BY <1>6, <1>8, <1>9 DEF Journaled, SameClaims, SameRefs, SamePartials
<1>12. Trust(u, w, << >>, << >>)  BY DEF AtTail
<1>13. Books(v.k.gated, v.k.pending, << >>, << >>, v.k.staging, FrameSet(w.k),
             v.l, Arrived(w.j.chunks), speech)
  <2>1. /\ w.k.gated \in Audio /\ w.k.pending \in Audio /\ w.k.staging \in Audio
        /\ << >> \in Audio /\ << >> \in Seq(Events(Units))
    BY <1>2, AudioFacts DEF Audio
  <2>1a. Arrived(w.j.chunks) \in SUBSET Units  BY <1>2, ArrivedIs DEF Sessions
  <2>2. FrameSet(w.k) = {} /\ Cardinality({}) = 0 /\ 0 \in Nat
    BY FS_EmptySet DEF FrameSet, AtTail
  <2>3. Books(w.k.gated, w.k.pending, << >>, << >>, w.k.staging, {}, w.l, Arrived(w.j.chunks), speech)
    BY <1>12, <2>2 DEF Trust
  <2>4. Books(w.k.gated \o w.k.pending, << >>, << >>, << >>, w.k.staging, {},
              CommitSegment(w.l), Arrived(w.j.chunks), speech)
    BY <1>2, <2>1, <2>1a, <2>2, <2>3, BooksDecide
  <2> QED  BY <1>3, <1>4, <1>8, <1>9, <2>2, <2>4
<1>14. Trust(u, v, << >>, << >>)  BY <1>10, <1>11, <1>12, <1>13, TrustMoves
<1>15. AtSeal(u, v)
  BY <1>4, <1>9, <1>10, <1>14 DEF AtSeal, AtTail, SameClaims
<1>16. AcceptFinalTail(w) = Seal(v)
  BY DEF AcceptFinalTail, v, y, x, KeepSegment, ClearPending
<1> QED  BY <1>7, <1>15, <1>16, SealIsFine

\* The open segment is dropped: its audio is gone, and the claim is frozen before it.
LEMMA RejectFinalTailIsFine ==
  ASSUME NEW u, NEW w, NEW busy, Calm(w, busy), AtTail(u, w), speech \subseteq Units
  PROVE  Fine(u, RejectFinalTail(w))
<1> DEFINE x == [w EXCEPT !.l = DiscardSegment(@)]
           v == ClearPending(x)
<1>1. Calm(x, busy)  BY DropSegmentKeeps
<1>2. /\ w \in Worlds /\ w.k \in Locals /\ w.l \in Ledger /\ w.j \in Sessions
      /\ x \in Worlds
  BY <1>1, CalmWorld
<1>3. x.l = DiscardSegment(w.l) /\ x.j = w.j /\ x.k = w.k
  BY <1>2 DEF Worlds
<1>4. RejectFinalTail(w) = Seal(v)
  BY DEF RejectFinalTail, ClearPending
<1> HIDE DEF x
<1>7. Calm(v, busy)  BY <1>1, ClearPendingKeeps
<1>8. v.k = [w.k EXCEPT !.pending = << >>] /\ v.l = x.l /\ v.j = w.j
  BY <1>2, <1>3 DEF ClearPending, Worlds
<1> HIDE DEF v
<1>9. /\ v.k.gated = w.k.gated /\ v.k.pending = << >> /\ v.k.staging = w.k.staging
      /\ v.k.events = w.k.events /\ v.k.stop = w.k.stop
      /\ SameClaims(v.k, w.k)
  BY <1>2, <1>8 DEF Locals, SameClaims, SameRefs, SamePartials
<1>11. Journaled(v, w)  BY <1>8 DEF Journaled
<1>12. Trust(u, w, << >>, << >>)  BY DEF AtTail
<1>13. Books(v.k.gated, v.k.pending, << >>, << >>, v.k.staging, FrameSet(w.k),
             v.l, Arrived(w.j.chunks), speech)
  <2>1. /\ w.k.gated \in Audio /\ w.k.pending \in Audio /\ w.k.staging \in Audio
        /\ << >> \in Audio /\ << >> \in Seq(Events(Units))
    BY <1>2, AudioFacts DEF Audio
  <2>1a. Arrived(w.j.chunks) \in SUBSET Units  BY <1>2, ArrivedIs DEF Sessions
  <2>2. FrameSet(w.k) = {} /\ Cardinality({}) = 0 /\ 0 \in Nat
    BY FS_EmptySet DEF FrameSet, AtTail
  <2>3. Books(w.k.gated, w.k.pending, << >>, << >>, w.k.staging, {}, w.l, Arrived(w.j.chunks), speech)
    BY <1>12, <2>2 DEF Trust
  <2>4. Books(w.k.gated, << >>, << >>, << >>, w.k.staging, {},
              DiscardSegment(w.l), Arrived(w.j.chunks), speech)
    BY <1>2, <2>1, <2>1a, <2>2, <2>3, BooksDecide
  <2> QED  BY <1>3, <1>8, <1>9, <2>2, <2>4
<1>14. Trust(u, v, << >>, << >>)  BY <1>9, <1>11, <1>12, <1>13, TrustMoves
<1>15. AtSeal(u, v)
  BY <1>9, <1>14 DEF AtSeal, AtTail, SameClaims
<1> QED  BY <1>4, <1>7, <1>15, SealIsFine

\* The tail decision, with and without a speaker check.
LEMMA DecideTailIsFine ==
  ASSUME NEW u, NEW w, NEW busy, Calm(w, busy), AtTail(u, w), speech \subseteq Units
  PROVE  Fine(u, DecideTail(w))
<1>1. w \in Worlds  BY CalmWorld
<1>2. w.k.pending = << >> => Fine(u, Seal(w))  BY SealIsFine DEF AtSeal
<1>3. Fine(u, AcceptFinalTail(w))  BY AcceptFinalTailIsFine
<1>4. Fine(u, [w EXCEPT !.k.phase = "tailEmbed"])
  <2> DEFINE v == [w EXCEPT !.k.phase = "tailEmbed"]
  <2>1. v.k = [w.k EXCEPT !.phase = "tailEmbed"] /\ v.l = w.l /\ v.j = w.j
    BY <1>1 DEF Worlds
  <2> HIDE DEF v
  <2>2. Fine(u, v)  BY <1>1, <2>1, TailWaits
  <2> QED  BY <2>2 DEF v
<1> QED  BY <1>2, <1>3, <1>4 DEF DecideTail

\* Joining the staged rest to the segment touches these two buffers only.
LEMMA JoinedFields ==
  ASSUME NEW k \in Locals, NEW m \in Locals, NEW q,
         m = [k EXCEPT !.staging = << >>, !.pending = q]
  PROVE  /\ m.gated = k.gated /\ m.pending = q /\ m.staging = << >>
         /\ m.events = k.events /\ m.stop = k.stop /\ SameClaims(m, k)
<1>1. m.gated = k.gated /\ m.pending = q /\ m.staging = << >>  BY DEF Locals
<1>2. m.events = k.events /\ m.stop = k.stop  BY DEF Locals
<1>3. SameRefs(m, k)  BY DEF Locals, SameRefs
<1>4. SamePartials(m, k)  BY DEF Locals, SamePartials
<1>5. m.stable_text = k.stable_text /\ m.stable_bytes = k.stable_bytes  BY DEF Locals
<1>6. m.raw = k.raw /\ m.frame = k.frame  BY DEF Locals
<1> QED  BY <1>1, <1>2, <1>3, <1>4, <1>5, <1>6 DEF SameClaims

\* The staged rest joins the open segment.
LEMMA FlushStagingIsFine ==
  ASSUME NEW u, NEW w, NEW busy, Calm(w, busy), speech \subseteq Units, NEW A \in Audio,
         Trust(u, w, << >>, A), w.k.frame = None, w.k.events = << >>, w.k.stop # None
  PROVE  Fine(u, FlushStaging(w))
<1> DEFINE v == IF w.k.staging = << >> THEN w ELSE Flushed(w)
<1>1. /\ w \in Worlds /\ w.k \in Locals /\ w.l \in Ledger /\ w.j \in Sessions
  BY CalmWorld
<1>2. /\ w.k.gated \in Audio /\ w.k.pending \in Audio /\ w.k.staging \in Audio
      /\ Arrived(w.j.chunks) \in SUBSET Units
  BY <1>1, AudioFacts, ArrivedIs DEF Sessions
<1>3. FrameSet(w.k) = {}  BY DEF FrameSet
<1>4. Books(w.k.gated, w.k.pending, << >>, A, w.k.staging, {}, w.l, Arrived(w.j.chunks), speech)
  BY <1>3 DEF Trust
<1>5. Calm(v, busy) /\ AtTail(u, v)
  <2>1. CASE w.k.staging = << >>
    <3>1. Books(w.k.gated, w.k.pending, << >>, << >>, << >>, {}, w.l, Arrived(w.j.chunks), speech)
      BY <1>1, <1>2, <1>4, <2>1, BooksFlush
    <3>2. Trust(u, w, << >>, << >>)  BY <1>3, <2>1, <3>1 DEF Trust
    <3> QED  BY <2>1, <3>2 DEF AtTail
  <2>2. CASE w.k.staging # << >>
    <3>1. Books(w.k.gated, w.k.pending \o w.k.staging, << >>, << >>, << >>, {},
                NoteSpeech(w.l, Len(w.k.staging), FALSE), Arrived(w.j.chunks), speech)
      BY <1>1, <1>2, <1>4, <2>2, BooksFlush
    <3> DEFINE x == Flushed(w)
    <3>2. Calm(x, busy)  BY FlushedKeeps
    <3>3. /\ x.k = [w.k EXCEPT !.staging = << >>, !.pending = @ \o w.k.staging]
          /\ x.l = NoteSpeech(w.l, Len(w.k.staging), FALSE) /\ x.j = w.j
      BY <1>1 DEF Flushed, Worlds
    <3> HIDE DEF x
    <3>4. /\ x.k.gated = w.k.gated /\ x.k.pending = w.k.pending \o w.k.staging
          /\ x.k.staging = << >> /\ x.k.events = w.k.events /\ x.k.stop = w.k.stop
          /\ SameClaims(x.k, w.k)
      <4>1. x.k \in Locals  BY <3>2, CalmWorld
      <4> DEFINE q == w.k.pending \o w.k.staging
      <4>2. x.k = [w.k EXCEPT !.staging = << >>, !.pending = q]  BY <3>3
      <4> HIDE DEF q
      <4>3. /\ x.k.gated = w.k.gated /\ x.k.pending = q /\ x.k.staging = << >>
            /\ x.k.events = w.k.events /\ x.k.stop = w.k.stop /\ SameClaims(x.k, w.k)
        BY <1>1, <4>1, <4>2, JoinedFields, Zenon
      <4> QED  BY <4>3 DEF q
    <3>5. Journaled(x, w)  BY <3>3 DEF Journaled
    <3>6. Trust(u, x, << >>, << >>)
      BY <1>3, <3>1, <3>3, <3>4, <3>5, TrustMoves
    <3>7. AtTail(u, x)  BY <3>4, <3>6 DEF AtTail, SameClaims
    <3> QED  BY <2>2, <3>2, <3>7 DEF x
  <2> QED  BY <2>1, <2>2
<1>6. FlushStaging(w) = IF v.k.partial # None /\ FINAL_WAIT_PARTIAL
                        THEN [v EXCEPT !.k.phase = "waitPartial"] ELSE DecideTail(v)
  BY DEF FlushStaging, Flushed
<1> HIDE DEF v
<1>7. Fine(u, DecideTail(v))  BY <1>5, DecideTailIsFine
<1>8. Fine(u, [v EXCEPT !.k.phase = "waitPartial"])
  <2> DEFINE x == [v EXCEPT !.k.phase = "waitPartial"]
  <2>0. v \in Worlds  BY <1>5, CalmWorld
  <2>1. x.k = [v.k EXCEPT !.phase = "waitPartial"] /\ x.l = v.l /\ x.j = v.j
    BY <2>0 DEF Worlds
  <2> HIDE DEF x
  <2>2. Fine(u, x)  BY <1>5, <2>0, <2>1, TailWaits
  <2> QED  BY <2>2 DEF x
<1> QED  BY <1>6, <1>7, <1>8

-----------------------------------------------------------------------------
(***************************************************************************)
(* Background decodes read the audio; they do not move it.                 *)
(***************************************************************************)

\* The journal is as it was, or has been synced with buffers of its own.
Resynced(v, w) ==
  \/ v.j = w.j
  \/ /\ v.j.chunks = w.j.chunks /\ v.j.final = w.j.final
     /\ v.j.gated = v.k.gated /\ v.j.pending = v.k.pending /\ v.j.staging = v.k.staging
     /\ v.j.last_partial = v.k.last_partial
     /\ v.j.ledger = v.k.ledger

\* Two locals that stand at the same place with the same audio.
SamePlace(a, b) ==
  /\ SameAudio(a, b) /\ SameRefs(a, b)
  /\ a.events = b.events /\ a.prev = b.prev /\ a.stop = b.stop /\ a.then = b.then
  /\ a.phase = b.phase /\ a.answer = b.answer

\* What moves no audio, and a sync, leave a fine world fine.
LEMMA FineStays ==
  ASSUME NEW u, NEW w, NEW v, Fine(u, w), v.l = w.l, SamePlace(v.k, w.k), Resynced(v, w),
         PartialsInv(v.k), SameText(v.k, v.j)
  PROVE  Fine(u, v)
<1>1. FrameSet(v.k) = FrameSet(w.k) /\ Attack(v.k) = Attack(w.k)
  BY DEF FrameSet, Attack, SamePlace, SameAudio
<1>2. v.j.chunks = w.j.chunks  BY DEF Resynced
<1>3. Sane(u, v)
  <2>1. JournalInv(v.j, speech)
    <3>1. Said(v.k.last_partial)  BY DEF PartialsInv
    <3> QED  BY <1>2, <3>1 DEF Fine, Sane, JournalInv, Resynced
  <2>2. v.k.ledger = u.k.ledger /\ v.k.journal = u.k.journal
    BY DEF Fine, Sane, SamePlace, SameRefs
  <2>3. v.j.ledger \in {u.j.ledger, u.k.ledger}  BY <2>2 DEF Fine, Sane, Resynced
  <2> QED  BY <2>1, <2>2, <2>3 DEF Sane
<1>4. Synced(w.k, w.l, w.j) => Synced(v.k, v.l, v.j)
  BY DEF Synced, Resynced, SamePlace, SameAudio, SameRefs
<1>5. ASSUME v.k.phase # "closed"  PROVE OpenInv(v.k, v.l, v.j, speech)
  <2>1. OpenInv(w.k, w.l, w.j, speech)  BY <1>5 DEF Fine, SamePlace
  <2>2. Place(v.k, v.l, v.j, speech)
    BY <1>4, <2>1 DEF OpenInv, Place, SamePlace, SameAudio
  <2>3. RawInv(v.k, v.j.chunks)  BY <1>1, <1>2, <2>1 DEF OpenInv, RawInv, SamePlace, SameAudio
  <2>4. Books(v.k.gated, v.k.pending, v.k.events, Attack(v.k), v.k.staging, FrameSet(v.k),
              v.l, Arrived(v.j.chunks), speech)
    BY <1>1, <1>2, <2>1 DEF OpenInv, SamePlace, SameAudio
  <2> QED  BY <2>2, <2>3, <2>4 DEF OpenInv
<1>6. ASSUME v.k.phase = "closed", v.k.stop = None
      PROVE  Synced(v.k, v.l, v.j) /\ Rest(v.l, v.j, speech)
  <2>1. Synced(w.k, w.l, w.j) /\ Rest(w.l, w.j, speech)  BY <1>6 DEF Fine, SamePlace
  <2>2. v.j.gated = w.j.gated /\ v.j.pending = w.j.pending /\ v.j.staging = w.j.staging
    BY <2>1 DEF Resynced, Synced, SamePlace, SameAudio
  <2> QED  BY <1>2, <1>4, <2>1, <2>2 DEF Rest
<1> QED  BY <1>3, <1>5, <1>6 DEF Fine

\* Two buffers said one after the other.
LEMMA AudioTogether ==
  ASSUME NEW s \in Audio, NEW t \in Audio
  PROVE  /\ s \o t \in Audio /\ ToSet(s \o t) = ToSet(s) \union ToSet(t)
         /\ Said(s) /\ Said(t) /\ AllBefore(ToSet(s), ToSet(t)) => Said(s \o t)
         /\ Said(s \o t) => Said(s) /\ Said(t) /\ AllBefore(ToSet(s), ToSet(t))
BY SaidTogether DEF Audio

\* What a partial decodes after its prefix is the gated and the pending audio,
\* or the end of raw_audio.
LEMMA SnapshotIsSaid ==
  ASSUME NEW k \in Locals, PrefixIsDecoded(k), Said(k.raw), Said(k.gated), Said(k.pending),
         AllBefore(ToSet(k.gated), ToSet(k.pending))
  PROVE  Said(PartialSnapshot(k).prefix \o PartialSnapshot(k).audio)
<1> DEFINE G == k.gated  n == k.stable_bytes  m == Len(G)
           t == SubSeq(G, 1, n)  r == SubSeq(G, n + 1, m)
           p == k.pending  tail == r \o p
<1>1. /\ G \in Audio /\ n \in Nat /\ n <= m /\ m \in Nat
      /\ k.stable_text = t /\ UnsealedTail(k) = r /\ t \in Audio
      /\ p \in Audio /\ k.raw \in Audio
  BY AudioFacts DEF PrefixIsDecoded, UnsealedTail
<1>2. r \in Audio  BY <1>1, TailIsAudio
<1> HIDE DEF G, n, p
<1>3. t \o r = G
  <2>1. G \in Seq(Units) /\ n \in Nat /\ m \in Nat /\ n <= m /\ m <= Len(G)
    BY <1>1 DEF Audio
  <2> HIDE DEF m
  <2>2. t \o r = SubSeq(G, 1, m)  BY <2>1, SubSeqJoin
  <2>3. SubSeq(G, 1, Len(G)) = G  BY <2>1, SubSeqFull
  <2> QED  BY <2>2, <2>3 DEF m
<1> HIDE DEF t, r
<1>4. /\ Said(G) => Said(t) /\ Said(r) /\ AllBefore(ToSet(t), ToSet(r))
      /\ ToSet(G) = ToSet(t) \union ToSet(r)
  <2>1. /\ ToSet(t \o r) = ToSet(t) \union ToSet(r)
        /\ Said(t \o r) => Said(t) /\ Said(r) /\ AllBefore(ToSet(t), ToSet(r))
    BY <1>1, <1>2, AudioTogether
  <2> QED  BY <1>3, <2>1
<1>5. Said(G) /\ Said(p) /\ AllBefore(ToSet(G), ToSet(p))  BY DEF G, p
<1>6. AllBefore(ToSet(r), ToSet(p)) /\ AllBefore(ToSet(t), ToSet(r) \union ToSet(p))
  BY <1>4, <1>5 DEF AllBefore
<1>7. tail \in Audio /\ Said(tail) /\ ToSet(tail) = ToSet(r) \union ToSet(p)
  BY <1>1, <1>2, <1>4, <1>5, <1>6, AudioTogether
<1> HIDE DEF tail
<1>8. Said(t \o tail)
  <2>1. /\ t \in Audio /\ tail \in Audio /\ Said(t) /\ Said(tail)
        /\ AllBefore(ToSet(t), ToSet(tail))
    BY <1>1, <1>4, <1>5, <1>6, <1>7
  <2> QED  BY <2>1, AudioTogether
<1>9. Said(<< >> \o Suffix(k.raw, PARTIAL_WINDOW))
  <2> DEFINE z == k.raw  q == Suffix(z, PARTIAL_WINDOW)  N == Len(z)
  <2>1. PARTIAL_WINDOW \in Nat /\ z \in Audio /\ N \in Nat
    BY <1>1, SessionAssumption DEF Audio
  <2>2. q \in Audio  BY <2>1, SuffixIsAudio
  <2>3. Said(q)
    <3>1. CASE N <= PARTIAL_WINDOW  BY <3>1 DEF Suffix
    <3>2. CASE ~(N <= PARTIAL_WINDOW)
      <4> DEFINE a == N - PARTIAL_WINDOW
      <4>1. a \in Nat /\ a <= N /\ N <= Len(z)  BY <2>1, <3>2
      <4>2. q = SubSeq(z, a + 1, N)  BY <3>2 DEF Suffix
      <4>3. z \in Seq(Units) /\ Said(z)  BY <2>1 DEF Audio
      <4> HIDE DEF a, z, N, q
      <4>4. Said(SubSeq(z, a + 1, N))  BY <2>1, <4>1, <4>3, SaidStretch
      <4> QED  BY <4>2, <4>4
    <3> QED  BY <3>1, <3>2
  <2> HIDE DEF q
  <2>4. << >> \o q = q  BY <2>2, ConcatEmptySeq DEF Audio
  <2> QED  BY <2>3, <2>4 DEF q
<1> QED  BY <1>1, <1>8, <1>9 DEF PartialSnapshot, t, tail, p

\* Starting a partial and a commit moves no audio.
LEMMA BackgroundIsFine ==
  ASSUME NEW u, NEW w, NEW busy, NEW due, Calm(w, busy), Fine(u, w), w.k.phase = "receive"
  PROVE  Fine(u, Background(w, due))
<1>0. w \in Worlds /\ w.k \in Locals /\ PrefixIsDecoded(w.k)  BY CalmWorld
<1> DEFINE x == MaybeSendPartial(w, due)
           y == MaybeCommitStablePrefix(x)
<1>1. /\ OpenInv(w.k, w.l, w.j, speech) /\ PartialsInv(w.k) /\ SameText(w.k, w.j)
  BY DEF Fine, Sane
<1>2. Said(PartialSnapshot(w.k).prefix \o PartialSnapshot(w.k).audio)
  <2>1. /\ Said(w.k.raw) /\ Said(w.k.gated) /\ Said(w.k.pending)
        /\ AllBefore(ToSet(w.k.gated), ToSet(w.k.pending))
    BY <1>1 DEF OpenInv, RawInv, Books, Stock, Line
  <2> QED  BY <1>0, <2>1, SnapshotIsSaid
<1>3. x \in Worlds /\ Fine(u, x)
  <2>1. CASE x = w  BY <1>0, <2>1
  <2>2. CASE /\ x \in Worlds /\ x.l = w.l /\ x.j = w.j /\ x.k \in Locals
             /\ x.k = [w.k EXCEPT !.partial = NewPartial(w.k)]
    <3> HIDE DEF x
    <3> DEFINE t == NewPartial(w.k)
    <3>1. /\ t.prefix = PartialSnapshot(w.k).prefix /\ t.audio = PartialSnapshot(w.k).audio
          /\ t.text = << >>
      BY DEF NewPartial
    <3> HIDE DEF t
    <3>2. /\ SamePlace(x.k, w.k) /\ x.k.partial = t
          /\ x.k.last_partial = w.k.last_partial /\ x.k.partial_decode = w.k.partial_decode
          /\ SameText(x.k, w.k)
      BY <1>0, <2>2 DEF Locals, SamePlace, SameAudio, SameRefs, SameText, t
    <3>3. PartialsInv(x.k)
      BY <1>1, <1>2, <3>1, <3>2, SaidNothing DEF PartialsInv
    <3>4. SameText(x.k, x.j) /\ Resynced(x, w)
      BY <1>1, <2>2, <3>2 DEF SameText, Resynced
    <3> QED  BY <1>1, <2>2, <3>2, <3>3, <3>4, FineStays
  <2>3. \/ x = w
        \/ /\ x \in Worlds /\ x.l = w.l /\ x.j = w.j /\ x.k \in Locals
           /\ x.k = [w.k EXCEPT !.partial = NewPartial(w.k)]
    BY <1>0, MaybeSendPartialDoes
  <2> QED  BY <2>1, <2>2, <2>3
<1> HIDE DEF x
<1>4. Fine(u, y)
  <2>1. CASE y = x  BY <1>3, <2>1
  <2>2. CASE /\ y.l = x.l /\ y.j = x.j /\ y.k \in Locals
             /\ y.k = [x.k EXCEPT !.commit = NewCommit(x.k)]
    <3> HIDE DEF y
    <3>0. x.k \in Locals  BY <1>3, WorldFields
    <3>2. SamePlace(y.k, x.k) /\ SamePartials(y.k, x.k) /\ SameText(y.k, x.k)
      BY <3>0, <2>2 DEF Locals, SamePlace, SameAudio, SameRefs, SameText, SamePartials
    <3>1. PartialsInv(x.k) /\ SameText(x.k, x.j)
      BY <1>3 DEF Fine, Sane
    <3>3. PartialsInv(y.k)
      BY <3>1, <3>2 DEF PartialsInv, SamePartials
    <3>4. SameText(y.k, y.j) /\ Resynced(y, x)
      BY <3>1, <2>2, <3>2 DEF SameText, Resynced
    <3> QED  BY <1>3, <2>2, <3>1, <3>2, <3>3, <3>4, FineStays
  <2>3. \/ y = x
        \/ /\ y.l = x.l /\ y.j = x.j /\ y.k \in Locals
           /\ y.k = [x.k EXCEPT !.commit = NewCommit(x.k)]
    BY <1>3, MaybeCommitDoes
  <2> QED  BY <2>1, <2>2, <2>3
<1> QED  BY <1>4 DEF Background, x, y

-----------------------------------------------------------------------------
(***************************************************************************)
(* Gating: the rest of an audio frame, of a tick, or of a stop.            *)
(***************************************************************************)

\* The gate has run, or does not need to: what is staged is less than a window.
Ready(w) ==
  /\ w.k.frame = None /\ Len(w.k.staging) < GATE_WINDOW
  /\ \/ w.k.then = "audio" /\ w.k.stop = None
     \/ w.k.then = "tick" /\ w.k.stop = None /\ Synced(w.k, w.l, w.j)
     \/ w.k.then = "stop" /\ w.k.stop # None

\* A synced connection that waits for its next frame is fine.
LEMMA ReceiveIsFine ==
  ASSUME NEW u, NEW w, Trust(u, w, << >>, w.k.prev), w.k.phase = "receive",
         w.k.frame = None, w.k.events = << >>, Len(w.k.staging) < GATE_WINDOW,
         w.k.stop = None, Synced(w.k, w.l, w.j)
  PROVE  Fine(u, w)
<1>1. Attack(w.k) = w.k.prev  BY DEF Attack
<1>2. Place(w.k, w.l, w.j, speech)  BY DEF Place
<1> QED  BY <1>1, <1>2 DEF Fine, OpenInv, Trust

\* What follows once every event is applied.
LEMMA ContinueIsFine ==
  ASSUME NEW u, NEW w, NEW busy, NEW due, Calm(w, busy), speech \subseteq Units,
         Trust(u, w, << >>, w.k.prev), w.k.events = << >>, Ready(w)
  PROVE  Fine(u, Continue(w, due))
<1> DEFINE x == [w EXCEPT !.k.phase = "receive"]
           y == Sync(x)
<1>1. w \in Worlds /\ w.k \in Locals /\ w.k.prev \in Audio  BY CalmWorld DEF Locals
<1>2. "receive" \in Phases \ {"unborn"} /\ "receive" # "final" /\ "receive" # "embed"
  BY DEF Phases
<1>3. Calm(x, busy)  BY <1>2, PhaseKeeps
<1>4. x \in Worlds /\ x.l = w.l /\ x.j = w.j /\ x.k = [w.k EXCEPT !.phase = "receive"]
  BY <1>1, <1>2, PhaseMoves
<1> HIDE DEF x
<1>5. SameBuffers(x.k, w.k) /\ x.k.phase = "receive"  BY <1>1, <1>2, <1>4, PhaseOnly
<1>6. /\ x.k.prev = w.k.prev /\ x.k.frame = None /\ x.k.events = << >>
      /\ x.k.staging = w.k.staging /\ x.k.stop = w.k.stop
  BY <1>5 DEF SameBuffers, SameAudio, Ready
<1>7. Trust(u, x, << >>, x.k.prev)
  BY <1>4, <1>5, <1>6, TrustStays DEF SameBuffers
<1>8. CASE w.k.then = "audio"
  <2>1. /\ Trust(u, y, << >>, x.k.prev) /\ Synced(y.k, y.l, y.j)
    BY <1>4, <1>7, SyncTrusts
  <2>2. Calm(y, busy) /\ y.k = x.k  BY <1>3, CalmSync
  <2> HIDE DEF y
  <2>3. y.k.stop = None  BY <1>6, <1>8, <2>2 DEF Ready
  <2>4. Fine(u, y)
    BY <1>5, <1>6, <2>1, <2>2, <2>3, ReceiveIsFine DEF Ready
  <2>5. Fine(u, Background(y, due))  BY <1>5, <2>2, <2>4, BackgroundIsFine
  <2> QED  BY <1>8, <2>5 DEF Continue, x, y
<1>9. CASE w.k.then = "tick"
  <2>1. x.k.stop = None /\ Synced(w.k, w.l, w.j)  BY <1>6, <1>9 DEF Ready
  <2>2. Synced(x.k, x.l, x.j)
    BY <1>4, <1>5, <2>1 DEF Synced, SameBuffers, SameAudio, SameRefs
  <2>3. Fine(u, x)  BY <1>5, <1>6, <1>7, <2>1, <2>2, ReceiveIsFine DEF Ready
  <2>4. Fine(u, Background(x, due))  BY <1>3, <1>5, <2>3, BackgroundIsFine
  <2> QED  BY <1>9, <2>4 DEF Continue, x
<1>10. CASE w.k.then = "stop"
  <2>1. w.k.stop # None /\ w.k.frame = None  BY <1>10 DEF Ready
  <2>2. Fine(u, FlushStaging(w))  BY <1>1, <2>1, FlushStagingIsFine
  <2> QED  BY <1>10, <2>2 DEF Continue
<1> QED  BY <1>8, <1>9, <1>10 DEF Ready

\* No events leave ledger and segment alone.
LEMMA NothingApplied ==
  ASSUME NEW l \in Ledger, NEW pending \in Audio
  PROVE  ApplyEvents(l, pending, << >>) = [ledger |-> l, pending |-> pending, rest |-> << >>]
<1>1. pending \in Seq(Units) /\ << >> \in Seq(Events(Units)) /\ Len(<< >>) = 0  BY DEF Audio
<1>2. PICK run \in [0 .. Len(<< >>) -> Applied(Units)] : ApplyRun(run, l, pending, << >>)
  <2> DEFINE none == << >>
  <2>1. none \in Seq(Events(Units)) /\ pending \in Seq(Units)  BY <1>1
  <2> HIDE DEF none
  <2>2. \E run \in [0 .. Len(none) -> Applied(Units)] : ApplyRun(run, l, pending, none)
    BY <2>1, ApplyRuns, Zenon
  <2> QED  BY <2>2 DEF none
<1> QED  BY <1>1, <1>2 DEF ApplyRun

\* Applying events, up to the next speaker check or to the end.
LEMMA ApplyIsFine ==
  ASSUME NEW u, NEW w, NEW busy, NEW due, Calm(w, busy), speech \subseteq Units,
         NEW events \in Seq(Events(Units)), Trust(u, w, events, w.k.prev), Ready(w),
         w.k.then = "tick" => events = << >>
  PROVE  Fine(u, Apply(w, events, due))
<1> DEFINE a == ApplyEvents(w.l, w.k.pending, events)
           v == AppliedWorld(w, events)
<1>1. /\ w \in Worlds /\ w.k \in Locals /\ w.l \in Ledger /\ w.j \in Sessions
      /\ w.k.gated \in Audio /\ w.k.pending \in Audio /\ w.k.staging \in Audio
      /\ w.k.prev \in Audio /\ Arrived(w.j.chunks) \in SUBSET Units
  BY CalmWorld, ArrivedIs DEF Locals, Sessions
<1>2. FrameSet(w.k) = {} /\ Cardinality({}) \in Nat  BY FS_EmptySet DEF FrameSet, Ready
<1>3. Books(w.k.gated, w.k.pending, events, w.k.prev, w.k.staging, {}, w.l, Arrived(w.j.chunks), speech)
  BY <1>2 DEF Trust
<1>4. /\ Books(w.k.gated, a.pending, a.rest, w.k.prev, w.k.staging, {}, a.ledger, Arrived(w.j.chunks), speech)
      /\ a.rest # << >> => Head(a.rest).kind = "boundary"
  BY <1>1, <1>2, <1>3, EventsKeepBooks
<1>5. Calm(v, busy)  BY AppliedIs
<1>6. v.k = [w.k EXCEPT !.pending = a.pending, !.events = a.rest]  BY AppliedIs
<1>7. v.l = a.ledger /\ v.j = w.j  BY AppliedIs
<1>8. Apply(w, events, due) = IF a.rest # << >> THEN [v EXCEPT !.k.phase = "embed"]
                              ELSE Continue(v, due)
  BY DEF Apply, AppliedWorld
<1>9. w.k.then = "tick" =>
        a.rest = << >> /\ a.pending = w.k.pending /\ a.ledger = w.l
  BY <1>1, NothingApplied
<1> HIDE DEF a, v
<1>10. v \in Worlds /\ v.k \in Locals  BY <1>5, CalmWorld
<1>11. /\ v.k.gated = w.k.gated /\ v.k.pending = a.pending /\ v.k.staging = w.k.staging
       /\ v.k.events = a.rest /\ v.k.prev = w.k.prev /\ v.k.stop = w.k.stop
       /\ v.k.then = w.k.then /\ v.k.frame = w.k.frame
       /\ SameClaims(v.k, w.k)
  BY <1>1, <1>6, <1>10 DEF Locals, SameClaims, SameRefs, SamePartials
<1>12. Trust(u, v, a.rest, v.k.prev)
  <2>1. Journaled(v, w)  BY <1>7 DEF Journaled
  <2> QED  BY <1>2, <1>4, <1>7, <1>11, <2>1, TrustMoves
<1>13. CASE a.rest = << >>
  <2>1. Ready(v)
    <3>1. w.k.then = "tick" /\ Synced(w.k, w.l, w.j) => Synced(v.k, v.l, v.j)
      BY <1>7, <1>9, <1>11 DEF Synced, SameClaims, SameRefs
    <3> QED  BY <1>11, <3>1 DEF Ready
  <2>2. Fine(u, Continue(v, due))
    BY <1>5, <1>11, <1>12, <1>13, <2>1, ContinueIsFine
  <2> QED  BY <1>8, <1>13, <2>2
<1>14. CASE a.rest # << >>
  <2> DEFINE x == [v EXCEPT !.k.phase = "embed"]
  <2>1. "embed" \in Phases  BY DEF Phases
  <2>2. x.l = v.l /\ x.j = v.j /\ x.k = [v.k EXCEPT !.phase = "embed"]
    BY <1>10, <2>1, PhaseMoves
  <2> HIDE DEF x
  <2>3. SameBuffers(x.k, v.k) /\ x.k.phase = "embed"  BY <1>10, <2>1, <2>2, PhaseOnly
  <2>4. Trust(u, x, a.rest, v.k.prev)
    BY <1>12, <2>2, <2>3, TrustStays DEF SameBuffers
  <2>5. /\ x.k.events = a.rest /\ x.k.prev = v.k.prev /\ x.k.frame = None
        /\ Len(x.k.staging) < GATE_WINDOW
        /\ x.k.stop = w.k.stop /\ x.k.then = w.k.then
    BY <1>11, <2>3 DEF SameBuffers, SameAudio, Ready
  <2>6. Attack(x.k) = v.k.prev  BY <2>3, <2>5 DEF Attack
  <2>7. Place(x.k, x.l, x.j, speech)
    BY <1>4, <1>9, <1>14, <2>3, <2>5 DEF Place, Ready
  <2>8. Fine(u, x)  BY <2>3, <2>4, <2>5, <2>6, <2>7 DEF Fine, OpenInv, Trust
  <2> QED  BY <1>8, <1>14, <2>8 DEF x
<1> QED  BY <1>13, <1>14

\* A buffer of less than a window passes the gate as it is.
LEMMA NothingGated ==
  ASSUME NEW staging \in Audio, NEW prev \in Audio, NEW gate \in Gates,
         Len(staging) < GATE_WINDOW
  PROVE  LET g == ProcessStagedAudio(staging, prev, gate, speech) IN
         g.prev = prev /\ g.events = << >> /\ Leftover(staging) = staging
<1>1. staging \in Seq(Units) /\ prev \in Seq(Units)  BY DEF Audio
<1>2. PICK run \in [0 .. WholeWindows(staging) -> Passing(Units)] :
        GateRun(run, staging, prev, gate, speech)
  BY <1>1, GateRuns, Zenon
<1>3. WholeWindows(staging) = 0 /\ Leftover(staging) = staging  BY <1>1, ShortStagingStays
<1> QED  BY <1>2, <1>3 DEF GateRun

\* The gate on the staged audio, and the events it yields.
LEMMA GateIsFine ==
  ASSUME NEW u, NEW w, NEW busy, NEW due, Calm(w, busy), speech \subseteq Units,
         NEW then \in {"audio", "tick", "stop"}, Trust(u, w, << >>, w.k.prev),
         w.k.frame = None,
         IF then = "stop" THEN w.k.stop # None ELSE w.k.stop = None,
         then = "tick" => Synced(w.k, w.l, w.j) /\ Len(w.k.staging) < GATE_WINDOW
  PROVE  Fine(u, Gate(w, then, due))
<1> DEFINE g == ProcessStagedAudio(w.k.staging, w.k.prev, w.k.gate, speech)
           v == GatedWorld(w, then)
<1>1. /\ w \in Worlds /\ w.k \in Locals /\ w.l \in Ledger /\ w.j \in Sessions
      /\ w.k.gated \in Audio /\ w.k.pending \in Audio /\ w.k.staging \in Audio
      /\ w.k.prev \in Audio /\ w.k.gate \in Gates /\ Arrived(w.j.chunks) \in SUBSET Units
  BY CalmWorld, ArrivedIs DEF Locals, Sessions
<1>2. FrameSet(w.k) = {} /\ Cardinality({}) \in Nat  BY FS_EmptySet DEF FrameSet
<1>3. Books(w.k.gated, w.k.pending, << >>, w.k.prev, w.k.staging, {}, w.l, Arrived(w.j.chunks), speech)
  BY <1>2 DEF Trust
<1>4. Books(w.k.gated, w.k.pending, g.events, g.prev, Leftover(w.k.staging), {},
            w.l, Arrived(w.j.chunks), speech)
  BY <1>1, <1>2, <1>3, GateKeepsBooks
<1>5. Calm(v, busy)  BY GatedIs
<1>6. g.events \in Seq(Events(Units))  BY GatedIs
<1>7. v.k = [w.k EXCEPT !.staging = Leftover(w.k.staging), !.prev = g.prev,
                        !.gate = g.gate, !.then = then]
  BY GatedIs
<1>8. v.l = w.l /\ v.j = w.j  BY GatedIs
<1>9. Gate(w, then, due) = Apply(v, g.events, due)
  BY DEF Gate, GatedWorld
<1>10. then = "tick" =>
         g.prev = w.k.prev /\ g.events = << >> /\ Leftover(w.k.staging) = w.k.staging
  BY <1>1, NothingGated
<1> HIDE DEF g, v
<1>11. v.k \in Locals  BY <1>5, CalmWorld
<1>12. /\ v.k.gated = w.k.gated /\ v.k.pending = w.k.pending
       /\ v.k.staging = Leftover(w.k.staging) /\ v.k.prev = g.prev
       /\ v.k.stop = w.k.stop /\ v.k.then = then /\ v.k.frame = None
       /\ SameClaims(v.k, w.k)
  BY <1>1, <1>7, <1>11 DEF Locals, SameClaims, SameRefs, SamePartials
<1>13. Trust(u, v, g.events, v.k.prev)
  <2>1. Journaled(v, w)  BY <1>8 DEF Journaled
  <2> QED  BY <1>2, <1>4, <1>8, <1>12, <2>1, TrustMoves
<1>14. Ready(v)
  <2>1. Len(v.k.staging) < GATE_WINDOW
    <3>1. w.k.staging \in Seq(Units)  BY <1>1 DEF Audio
    <3>2. Len(Leftover(w.k.staging)) < GATE_WINDOW  BY <3>1, LeftoverIsTheEnd, Zenon
    <3> QED  BY <1>12, <3>2
  <2>2. then = "tick" => Synced(v.k, v.l, v.j)
    BY <1>8, <1>10, <1>12 DEF Synced, SameClaims, SameRefs
  <2> QED  BY <1>12, <2>1, <2>2 DEF Ready
<1> QED  BY <1>5, <1>6, <1>9, <1>10, <1>12, <1>13, <1>14, ApplyIsFine

-----------------------------------------------------------------------------
(***************************************************************************)
(* The frames of a connection.                                             *)
(***************************************************************************)

\* What is known of an open connection at the start of a step.
LEMMA OpenFacts ==
  ASSUME NEW u, NEW w, Fine(u, w), w.k.phase # "closed"
  PROVE  /\ Trust(u, w, w.k.events, Attack(w.k)) /\ Place(w.k, w.l, w.j, speech)
         /\ JournalInv(w.j, speech)
BY DEF Fine, OpenInv, Trust, Sane

\* ... when it holds no frame and no events.
LEMMA PlainFacts ==
  ASSUME NEW u, NEW w, NEW busy, Calm(w, busy), Fine(u, w),
         w.k.phase \in {"receive", "coverage"}
  PROVE  /\ w.k.frame = None /\ w.k.events = << >>
         /\ Trust(u, w, << >>, w.k.prev)
         /\ w.k.phase = "receive" =>
              /\ w.k.stop = None /\ Len(w.k.staging) < GATE_WINDOW
              /\ Synced(w.k, w.l, w.j)
         /\ w.k.phase = "coverage" => w.k.stop # None
<1>1. w.k.phase # "closed" /\ w.k.phase # "ack" /\ w.k.phase # "embed"  OBVIOUS
<1>2. Trust(u, w, w.k.events, Attack(w.k)) /\ Place(w.k, w.l, w.j, speech)
  BY <1>1, OpenFacts
<1>3. w.k.frame = None /\ w.k.events = << >>  BY <1>1, <1>2 DEF Place
<1>4. Attack(w.k) = w.k.prev  BY DEF Attack
<1> QED  BY <1>2, <1>3, <1>4 DEF Place

\* What a socket of an ordered client may bring next.
Arrives(chunks, s) ==
  s \notin chunks /\ ("reorder" \in Allow \/ s <= HighestContiguous(chunks) + 1)

\* A new chunk comes after those that have arrived, if chunks keep their order.
LEMMA ChunkArrives ==
  ASSUME NEW chunks \in SUBSET Seqs, NEW s \in Seqs, Arrives(chunks, s),
         "reorder" \notin Allow => \A x \in chunks : 0 .. x \subseteq chunks
  PROVE  /\ AllBefore(Arrived(chunks), Sent(s))
         /\ "reorder" \notin Allow =>
              /\ \A x \in chunks \union {s} : 0 .. x \subseteq chunks \union {s}
              /\ Cardinality(Arrived(chunks)) = ChunkStart[s]
<1> DEFINE h == HighestContiguous(chunks)
<1>1. LastSeq \in Nat /\ s \in Nat /\ \A x \in chunks : x \in Nat /\ x \in Seqs
  BY SessionAssumption DEF Seqs
<1>2. h \in -1 .. LastSeq /\ 0 .. h \subseteq chunks  BY HighestContiguousIs
<1>3. /\ s \notin chunks
      /\ "reorder" \notin Allow => s <= h + 1
      /\ "reorder" \notin Allow => \A x \in chunks : x < s
  <2>1. ASSUME "reorder" \notin Allow, NEW x \in chunks  PROVE x < s
    <3>1. s \notin 0 .. x  BY <2>1 DEF Arrives
    <3> QED  BY <1>1, <3>1
  <2> QED  BY <2>1 DEF Arrives
<1> HIDE DEF h
<1>4. "reorder" \notin Allow => chunks = 0 .. s - 1
  <2> SUFFICES ASSUME "reorder" \notin Allow  PROVE chunks = 0 .. s - 1  OBVIOUS
  <2>1. \A y \in 0 .. s - 1 : y \in 0 .. h  BY <1>1, <1>2, <1>3
  <2>2. \A x \in chunks : x \in 0 .. s - 1  BY <1>1, <1>3
  <2> QED  BY <1>2, <2>1, <2>2
<1>5. AllBefore(Arrived(chunks), Sent(s))
  <2> SUFFICES ASSUME NEW x \in chunks, NEW a \in Stretch(x), NEW b \in Stretch(s)
               PROVE  Before(a, b)
    <3>1. Arrived(chunks) = UNION {Stretch(x) : x \in chunks}  BY ArrivedIs
    <3>2. Sent(s) = Stretch(s)  BY SentIs
    <3> QED  BY <3>1, <3>2 DEF AllBefore
  <2>1. \A m, n \in 0 .. Captured : m <= n => ChunkStart[m] <= ChunkStart[n]  BY ChunkStartIs
  <2>2. /\ x \in 0 .. Captured /\ x + 1 \in 0 .. Captured
        /\ s \in 0 .. Captured /\ s + 1 \in 0 .. Captured
    BY <1>1, ChunkStartIs
  <2>3. /\ ChunkStart[x] \in Nat /\ ChunkStart[x + 1] \in Nat
        /\ ChunkStart[s] \in Nat /\ ChunkStart[s + 1] \in Nat
    BY <2>2, ChunkStartIs
  <2>4. /\ x < s => ChunkStart[x + 1] <= ChunkStart[s]
        /\ s < x => ChunkStart[s + 1] <= ChunkStart[x]
    <3>1. (x < s => x + 1 <= s) /\ (s < x => s + 1 <= x)  BY <1>1
    <3> QED  BY <2>1, <2>2, <3>1
  <2>5. /\ ChunkStart[x] <= a /\ a < ChunkStart[x + 1] /\ a \in Int
        /\ ChunkStart[s] <= b /\ b < ChunkStart[s + 1] /\ b \in Int
    BY <2>3 DEF Stretch
  <2>6. x < s \/ (s < x /\ "reorder" \in Allow)  BY <1>1, <1>3
  <2>7. (x < s => a < b) /\ (s < x => b < a)  BY <2>3, <2>4, <2>5
  <2> QED  BY <2>5, <2>6, <2>7 DEF Before
<1>6. ASSUME "reorder" \notin Allow, NEW x \in chunks \union {s}
      PROVE  0 .. x \subseteq chunks \union {s}
  <2>1. chunks = 0 .. s - 1 /\ x \in 0 .. s  BY <1>1, <1>3, <1>4, <1>6
  <2>2. \A y \in 0 .. x : y \in 0 .. s - 1 \/ y = s  BY <1>1, <2>1
  <2> QED  BY <2>1, <2>2
<1>7. ASSUME "reorder" \notin Allow  PROVE Cardinality(Arrived(chunks)) = ChunkStart[s]
  <2>1. s \in 0 .. Captured /\ ChunkStart[s] \in Nat  BY ChunkStartIs
  <2>2. Arrived(chunks) = 0 .. ChunkStart[s] - 1  BY <1>4, <1>7, <2>1, ArrivedPrefix
  <2> DEFINE n == ChunkStart[s]
  <2>3. 0 \in Int /\ n - 1 \in Int /\ n \in Nat  BY <2>1
  <2> HIDE DEF n
  <2>4. Cardinality(0 .. n - 1) = IF 0 <= n - 1 THEN (n - 1) - 0 + 1 ELSE 0
    BY <2>3, FS_Interval
  <2>5. Cardinality(0 .. n - 1) = n  BY <2>3, <2>4
  <2> QED  BY <2>2, <2>5 DEF n
<1> QED  BY <1>5, <1>6, <1>7

\* accept() and the ack leave the books true: the frame is counted as held.
LEMMA AckedIsFine ==
  ASSUME NEW u, NEW w, NEW busy, Calm(w, busy), Fine(u, w), w.k.phase = "receive",
         NEW s \in Seqs, s \in w.j.chunks \/ Arrives(w.j.chunks, s)
  PROVE  Fine(u, Acked(w, s, IF s \in w.j.chunks THEN None ELSE s))
<1> DEFINE C == w.j.chunks
           frame == IF s \in C THEN None ELSE s
           v == Acked(w, s, frame)
           new == IF s \in C THEN {} ELSE Sent(s)
           old == Arrived(C)
<1> SUFFICES Fine(u, v)  OBVIOUS
<1>1. /\ w \in Worlds /\ w.k \in Locals /\ w.l \in Ledger /\ w.j \in Sessions
      /\ w.k.gated \in Audio /\ w.k.pending \in Audio /\ w.k.staging \in Audio
      /\ w.k.prev \in Audio /\ C \in SUBSET Seqs /\ w.k.raw \in Audio
  BY CalmWorld DEF Locals, Sessions
<1>2. /\ w.k.frame = None /\ w.k.events = << >> /\ Trust(u, w, << >>, w.k.prev)
      /\ w.k.stop = None /\ Len(w.k.staging) < GATE_WINDOW /\ Synced(w.k, w.l, w.j)
  BY PlainFacts
<1>3. JournalInv(w.j, speech)  BY <1>2 DEF Trust, Sane
<1>4. s # None  BY NoneAssumption, SessionAssumption DEF Seqs
<1> DEFINE k == [w.k EXCEPT !.phase = "ack", !.frame = frame]
           j == [w.j EXCEPT !.chunks = @ \union {s}]
<1>5. v \in Worlds /\ v.k = k /\ v.l = w.l /\ v.j = j
  <2>1. frame \in Seqs \union {None} /\ "ack" \in Phases  BY DEF Phases
  <2>2. w.j.chunks \union {s} \in SUBSET Seqs  BY <1>1
  <2>3. v = [w EXCEPT !.k = k, !.j = j]  BY DEF Acked, Accept
  <2> HIDE DEF frame, v
  <2>4. k \in Locals  BY <1>1, <2>1, ZenonT(60) DEF Locals
  <2>5. j \in Sessions  BY <1>1, <2>2 DEF Sessions
  <2> HIDE DEF k, j
  <2> QED  BY <1>1, <2>3, <2>4, <2>5 DEF Worlds
<1>6. /\ Arrived(C \union {s}) = old \union new /\ FrameSet(v.k) = new
      /\ v.k.frame # None => v.k.frame \in C \union {s}
  <2>1. v.k.frame = frame  BY <1>1, <1>5 DEF Locals
  <2>2. Arrived(C \union {s}) = old \union Sent(s)  BY <1>1, ArrivedMore
  <2>3. s \in C => C \union {s} = C  OBVIOUS
  <2> QED  BY <1>4, <2>1, <2>2, <2>3 DEF FrameSet
<1> HIDE DEF old
<1> HIDE DEF v
<1>7. v.k \in Locals /\ v.j \in Sessions  BY <1>5 DEF Worlds
<1>8. /\ SameRefs(v.k, w.k) /\ SamePartials(v.k, w.k)
      /\ v.k.gated = w.k.gated /\ v.k.pending = w.k.pending /\ v.k.staging = w.k.staging
      /\ v.k.raw = w.k.raw /\ v.k.events = w.k.events /\ v.k.prev = w.k.prev
      /\ v.k.stop = w.k.stop /\ v.k.phase = "ack"
      /\ v.k.stable_text = w.k.stable_text /\ v.k.stable_bytes = w.k.stable_bytes
  BY <1>1, <1>5, <1>7 DEF Locals, SameRefs, SamePartials
<1>9. /\ v.j.chunks = C \union {s} /\ v.j.gated = w.j.gated /\ v.j.pending = w.j.pending
      /\ v.j.staging = w.j.staging /\ v.j.ledger = w.j.ledger /\ v.j.final = w.j.final
      /\ v.j.last_partial = w.j.last_partial
      /\ v.j.stable_text = w.j.stable_text /\ v.j.stable_bytes = w.j.stable_bytes
  BY <1>1, <1>5, <1>6, <1>7 DEF Sessions
<1>10. /\ AllBefore(old, new)
       /\ "reorder" \notin Allow => \A x \in C \union {s} : 0 .. x \subseteq C \union {s}
       /\ "reorder" \notin Allow /\ s \notin C => Cardinality(old) = ChunkStart[s]
  <2>1. CASE s \in C
    <3>1. C \union {s} = C  BY <2>1
    <3> QED  BY <1>3, <2>1, <3>1 DEF JournalInv, AllBefore
  <2>2. CASE s \notin C
    <3>1. Arrives(C, s)  BY <2>2
    <3>2. "reorder" \notin Allow => \A x \in C : 0 .. x \subseteq C  BY <1>3 DEF JournalInv
    <3>3. new = Sent(s)  BY <2>2
    <3> HIDE DEF C, new
    <3> QED  BY <1>1, <3>1, <3>2, <3>3, ChunkArrives DEF old
  <2> QED  BY <2>1, <2>2
<1>11. Books(w.k.gated, w.k.pending, << >>, w.k.prev, w.k.staging, {}, w.l, old, speech)
  BY <1>2 DEF Trust, FrameSet, old
<1>12. Books(w.k.gated, w.k.pending, << >>, w.k.prev, w.k.staging, new, w.l, old \union new, speech)
  <2>1. CASE s \in C  BY <1>11, <2>1
  <2>2. CASE s \notin C
    <3> DEFINE none == << >>
    <3>1. none \in Seq(Events(Units))  OBVIOUS
    <3> HIDE DEF none
    <3>2. AllBefore(old, Sent(s))  BY <1>10, <2>2
    <3>4. Books(w.k.gated, w.k.pending, none, w.k.prev, w.k.staging, {}, w.l, old, speech)
      BY <1>11 DEF none
    <3>4a. Allow = {} => Cardinality(old) = ChunkStart[s]  BY <1>10, <2>2
    <3>4b. old \in SUBSET Units  BY <1>1, ArrivedIs DEF old
    <3>5. Books(w.k.gated, w.k.pending, none, w.k.prev, w.k.staging, Sent(s), w.l,
                old \union Sent(s), speech)
      BY <1>1, <3>1, <3>2, <3>4, <3>4a, <3>4b, BooksFrame
    <3> QED  BY <2>2, <3>5 DEF none
  <2> QED  BY <2>1, <2>2
<1>13. RawInv(v.k, v.j.chunks)
  <2>1. Said(w.k.raw) /\ ToSet(w.k.raw) = old  BY <1>2 DEF Trust, RawInv, FrameSet, old
  <2> QED  BY <1>6, <1>8, <1>9, <1>10, <2>1 DEF RawInv
<1>14. Sane(u, v)
  <2>1. PartialsInv(v.k)  BY <1>2, <1>8 DEF Trust, Sane, PartialsInv, SamePartials
  <2>2. SameText(v.k, v.j)  BY <1>2, <1>8, <1>9 DEF Trust, Sane, SameText
  <2>3. JournalInv(v.j, speech)  BY <1>3, <1>9, <1>10 DEF JournalInv
  <2> QED  BY <1>2, <1>8, <1>9, <2>1, <2>2, <2>3 DEF Trust, Sane, SameRefs
<1>15. Attack(v.k) = w.k.prev  BY <1>8 DEF Attack
<1>16. Synced(v.k, v.l, v.j)  BY <1>2, <1>5, <1>8, <1>9 DEF Synced, SameRefs
<1>17. Place(v.k, v.l, v.j, speech)  BY <1>2, <1>8, <1>16 DEF Place
<1> QED  BY <1>2, <1>5, <1>6, <1>8, <1>9, <1>12, <1>13, <1>14, <1>15, <1>17, ZenonT(60) DEF Fine, OpenInv

\* raw_audio takes the frame that was held for it.
LEMMA RawGrows ==
  ASSUME NEW raw \in Audio, NEW staging \in Audio, NEW s \in Seqs, Said(raw),
         AllBefore(ToSet(raw), Sent(s))
  PROVE  /\ raw \o Payload(s) \in Audio /\ staging \o Payload(s) \in Audio
         /\ Said(raw \o Payload(s)) /\ ToSet(raw \o Payload(s)) = ToSet(raw) \union Sent(s)
<1> DEFINE X == Payload(s)
<1>1. raw \in Seq(Units) /\ staging \in Seq(Units) /\ X \in Seq(Units) /\ Said(X)
      /\ ToSet(X) = Sent(s)
  BY SentIs DEF Audio, Sent
<1> HIDE DEF X
<1>2. raw \o X \in Seq(Units) /\ staging \o X \in Seq(Units)
  BY <1>1, SaidTogether
<1>3. Said(raw \o X) /\ ToSet(raw \o X) = ToSet(raw) \union Sent(s)
  BY <1>1, SaidTogether
<1> QED  BY <1>2, <1>3 DEF Audio, X

\* The frame reaches raw_audio and the staging buffer, and the gate runs.
LEMMA FrameIsFine ==
  ASSUME NEW u, NEW w, NEW busy, NEW due, Calm(w, busy), Fine(u, w), speech \subseteq Units,
         w.k.phase = "ack", w.k.frame # None
  PROVE  Fine(u, Gate(Buffered(w, w.k.frame, None), "audio", due))
<1> DEFINE s == w.k.frame
           v == Buffered(w, s, None)
<1> SUFFICES Fine(u, Gate(v, "audio", due))  OBVIOUS
<1>1. /\ w \in Worlds /\ w.k \in Locals /\ w.l \in Ledger /\ w.j \in Sessions
      /\ w.k.gated \in Audio /\ w.k.pending \in Audio /\ w.k.staging \in Audio
      /\ w.k.prev \in Audio /\ w.k.raw \in Audio /\ w.j.chunks \in SUBSET Seqs
      /\ s \in Seqs
  BY CalmWorld DEF Locals, Sessions
<1>2. w.k.phase # "closed" /\ w.k.phase # "embed"  OBVIOUS
<1>3. Trust(u, w, w.k.events, Attack(w.k)) /\ Place(w.k, w.l, w.j, speech)
  BY <1>2, OpenFacts
<1>4. w.k.events = << >> /\ w.k.stop = None /\ Attack(w.k) = w.k.prev /\ FrameSet(w.k) = Sent(s)
  BY <1>2, <1>3 DEF Place, Attack, FrameSet
<1>5. Calm(v, busy)  BY <1>1, BufferedKeeps
<1>6. v.k = [w.k EXCEPT !.frame = None, !.raw = @ \o Payload(s), !.staging = @ \o Payload(s)]
  BY <1>1 DEF Buffered, Worlds
<1>7. v.l = w.l /\ v.j = w.j
  <2>1. v.l = w.l  BY <1>1 DEF Buffered, Worlds
  <2> QED  BY <1>1, <2>1, BufferedKeeps
<1>8. /\ Said(w.k.raw) /\ ToSet(w.k.raw) \union Sent(s) = Arrived(w.j.chunks)
      /\ AllBefore(ToSet(w.k.raw), Sent(s))
  BY <1>3, <1>4 DEF Trust, RawInv
<1> HIDE DEF v, s
<1>9. /\ w.k.raw \o Payload(s) \in Audio /\ w.k.staging \o Payload(s) \in Audio
      /\ Said(w.k.raw \o Payload(s)) /\ ToSet(w.k.raw \o Payload(s)) = Arrived(w.j.chunks)
  BY <1>1, <1>8, RawGrows
<1>10. v.k \in Locals  BY <1>5, CalmWorld
<1>11. /\ SameRefs(v.k, w.k) /\ SamePartials(v.k, w.k)
       /\ v.k.gated = w.k.gated /\ v.k.pending = w.k.pending
       /\ v.k.staging = w.k.staging \o Payload(s) /\ v.k.raw = w.k.raw \o Payload(s)
       /\ v.k.prev = w.k.prev /\ v.k.stop = w.k.stop /\ v.k.frame = None
       /\ v.k.stable_text = w.k.stable_text /\ v.k.stable_bytes = w.k.stable_bytes
  BY <1>1, <1>6, <1>10 DEF Locals, SameRefs, SamePartials
<1>12. FrameSet(v.k) = {}  BY <1>11 DEF FrameSet
<1>13. Books(w.k.gated, w.k.pending, << >>, w.k.prev, w.k.staging \o Payload(s), {}, w.l,
             Arrived(w.j.chunks), speech)
  <2> DEFINE none == << >>
             C == Arrived(w.j.chunks)
  <2>1. none \in Seq(Events(Units))  OBVIOUS
  <2>2. Books(w.k.gated, w.k.pending, none, w.k.prev, w.k.staging, Sent(s), w.l, C, speech)
    BY <1>3, <1>4 DEF Trust
  <2> HIDE DEF none, C
  <2>3. C \in SUBSET Units  BY <1>1, ArrivedIs DEF C
  <2>4. Books(w.k.gated, w.k.pending, none, w.k.prev, w.k.staging \o Payload(s), {}, w.l, C, speech)
    BY <1>1, <2>1, <2>2, <2>3, BooksFrame
  <2> QED  BY <2>4 DEF none, C
<1>14. RawInv(v.k, v.j.chunks)
  BY <1>7, <1>9, <1>11, <1>12 DEF RawInv, AllBefore
<1>15. Sane(u, v)
  <2>1. PartialsInv(v.k)  BY <1>3, <1>11 DEF Trust, Sane, PartialsInv, SamePartials
  <2>2. SameText(v.k, v.j)  BY <1>3, <1>7, <1>11 DEF Trust, Sane, SameText
  <2> QED  BY <1>3, <1>7, <1>11, <2>1, <2>2 DEF Trust, Sane, SameRefs
<1>16. Trust(u, v, << >>, v.k.prev)
  BY <1>7, <1>11, <1>12, <1>13, <1>14, <1>15 DEF Trust
<1>17. v.k.stop = None  BY <1>4, <1>11
<1> QED  BY <1>5, <1>11, <1>16, <1>17, GateIsFine

\* A late frame is accepted and staged in one step.
LEMMA LateIsFine ==
  ASSUME NEW u, NEW w, NEW busy, Calm(w, busy), Fine(u, w),
         w.k.phase = "coverage", NEW s \in Seqs, Arrives(w.j.chunks, s)
  PROVE  Fine(u, Late(w, s))
<1> DEFINE v == Late(w, s)
           C == w.j.chunks
           old == Arrived(C)
<1> SUFFICES Fine(u, v)  OBVIOUS
<1>1. /\ w \in Worlds /\ w.k \in Locals /\ w.l \in Ledger /\ w.j \in Sessions
      /\ w.k.gated \in Audio /\ w.k.pending \in Audio /\ w.k.staging \in Audio
      /\ w.k.prev \in Audio /\ w.k.raw \in Audio /\ C \in SUBSET Seqs
  BY CalmWorld DEF Locals, Sessions
<1>2. /\ w.k.frame = None /\ w.k.events = << >> /\ Trust(u, w, << >>, w.k.prev)
      /\ w.k.stop # None
  BY PlainFacts
<1>3. Calm(v, busy) /\ v.l = w.l  BY LateKeeps
<1>4. v.k = [w.k EXCEPT !.raw = @ \o Payload(s), !.staging = @ \o Payload(s)]  BY LateKeeps
<1>5. v.j = [w.j EXCEPT !.chunks = @ \union {s}]  BY LateKeeps
<1> HIDE DEF v
<1>6. v.k \in Locals /\ v.j \in Sessions  BY <1>3, CalmWorld
<1>7. "reorder" \notin Allow => \A x \in C : 0 .. x \subseteq C
  BY <1>2 DEF Trust, Sane, JournalInv
<1>8. /\ AllBefore(old, Sent(s)) /\ Arrived(C \union {s}) = old \union Sent(s)
      /\ "reorder" \notin Allow => \A x \in C \union {s} : 0 .. x \subseteq C \union {s}
      /\ "reorder" \notin Allow => Cardinality(old) = ChunkStart[s]
  <2> HIDE DEF C
  <2>1. Arrives(C, s)  BY DEF C
  <2>2. Arrived(C \union {s}) = old \union Sent(s)  BY <1>1, ArrivedMore
  <2> QED  BY <1>1, <1>7, <2>1, <2>2, ChunkArrives
<1>9. Said(w.k.raw) /\ ToSet(w.k.raw) = old  BY <1>2 DEF Trust, RawInv, FrameSet
<1> HIDE DEF old
<1>10. /\ w.k.raw \o Payload(s) \in Audio /\ w.k.staging \o Payload(s) \in Audio
       /\ Said(w.k.raw \o Payload(s)) /\ ToSet(w.k.raw \o Payload(s)) = old \union Sent(s)
  BY <1>1, <1>8, <1>9, RawGrows
<1>11. /\ SameRefs(v.k, w.k) /\ SamePartials(v.k, w.k)
       /\ v.k.gated = w.k.gated /\ v.k.pending = w.k.pending
       /\ v.k.staging = w.k.staging \o Payload(s) /\ v.k.raw = w.k.raw \o Payload(s)
       /\ v.k.prev = w.k.prev /\ v.k.stop = w.k.stop /\ v.k.frame = None
       /\ v.k.events = << >> /\ v.k.phase = "coverage"
       /\ v.k.stable_text = w.k.stable_text /\ v.k.stable_bytes = w.k.stable_bytes
  BY <1>1, <1>2, <1>4, <1>6 DEF Locals, SameRefs, SamePartials
<1>12. /\ v.j.chunks = C \union {s} /\ v.j.ledger = w.j.ledger /\ v.j.final = w.j.final
       /\ v.j.last_partial = w.j.last_partial
       /\ v.j.stable_text = w.j.stable_text /\ v.j.stable_bytes = w.j.stable_bytes
  BY <1>1, <1>5, <1>6 DEF Sessions
<1>13. FrameSet(v.k) = {} /\ Attack(v.k) = w.k.prev  BY <1>11 DEF FrameSet, Attack
<1>14. Books(w.k.gated, w.k.pending, << >>, w.k.prev, w.k.staging \o Payload(s), {}, w.l,
             old \union Sent(s), speech)
  <2> DEFINE none == << >>
             D == old \union Sent(s)
  <2>1. none \in Seq(Events(Units))  OBVIOUS
  <2>2. Books(w.k.gated, w.k.pending, none, w.k.prev, w.k.staging, {}, w.l, old, speech)
    BY <1>2 DEF Trust, FrameSet, old
  <2> HIDE DEF none, C
  <2>2a. old \in SUBSET Units /\ Sent(s) \in SUBSET Units  BY <1>1, ArrivedIs, SentIs DEF old
  <2>3. Books(w.k.gated, w.k.pending, none, w.k.prev, w.k.staging, Sent(s), w.l, D, speech)
    BY <1>1, <1>8, <2>1, <2>2, <2>2a, BooksFrame
  <2>4. D \in SUBSET Units  BY <2>2a
  <2> HIDE DEF D
  <2>5. Books(w.k.gated, w.k.pending, none, w.k.prev, w.k.staging \o Payload(s), {}, w.l, D, speech)
    BY <1>1, <2>1, <2>3, <2>4, BooksFrame
  <2> QED  BY <2>5 DEF none, D
<1>15. RawInv(v.k, v.j.chunks)
  BY <1>8, <1>10, <1>11, <1>12, <1>13 DEF RawInv, AllBefore
<1>16. Sane(u, v)
  <2>1. PartialsInv(v.k)  BY <1>2, <1>11 DEF Trust, Sane, PartialsInv, SamePartials
  <2>2. SameText(v.k, v.j)  BY <1>2, <1>11, <1>12 DEF Trust, Sane, SameText
  <2>3. JournalInv(v.j, speech)  BY <1>2, <1>8, <1>12 DEF Trust, Sane, JournalInv
  <2> QED  BY <1>2, <1>11, <1>12, <2>1, <2>2, <2>3 DEF Trust, Sane, SameRefs
<1>17. Place(v.k, v.l, v.j, speech)  BY <1>2, <1>11 DEF Place
<1> QED  BY <1>3, <1>8, <1>11, <1>12, <1>13, <1>14, <1>15, <1>16, <1>17 DEF Fine, OpenInv

-----------------------------------------------------------------------------
(***************************************************************************)
(* The other steps of a connection, action by action.                      *)
(***************************************************************************)

\* A receive that times out.
LEMMA TickIsFine ==
  ASSUME NEW u, NEW w, NEW busy, NEW due, Calm(w, busy), Fine(u, w), speech \subseteq Units,
         w.k.phase = "receive"
  PROVE  Fine(u, Gate(w, "tick", due))
<1>1. /\ Trust(u, w, << >>, w.k.prev) /\ w.k.frame = None /\ w.k.stop = None
      /\ Synced(w.k, w.l, w.j) /\ Len(w.k.staging) < GATE_WINDOW
  BY PlainFacts
<1> QED  BY <1>1, GateIsFine

\* The stop handler has all the audio it will get.
LEMMA CoverageIsFine ==
  ASSUME NEW u, NEW w, NEW busy, NEW complete \in BOOLEAN, Calm(w, busy), Fine(u, w),
         speech \subseteq Units, w.k.phase = "coverage"
  PROVE  Fine(u, Gate([w EXCEPT !.k.complete = complete], "stop", FALSE))
<1> DEFINE v == [w EXCEPT !.k.complete = complete]
<1> SUFFICES Fine(u, Gate(v, "stop", FALSE))  OBVIOUS
<1>1. w \in Worlds /\ w.k \in Locals  BY CalmWorld
<1>2. /\ Trust(u, w, << >>, w.k.prev) /\ w.k.frame = None /\ w.k.stop # None
  BY PlainFacts
<1>3. Calm(v, busy) /\ v.k = [w.k EXCEPT !.complete = complete]  BY CompleteKeeps
<1>4. v.l = w.l /\ v.j = w.j  BY <1>1 DEF Worlds
<1> HIDE DEF v
<1>5. v.k \in Locals  BY <1>3, CalmWorld
<1>6. /\ SameAudio(v.k, w.k) /\ SameRefs(v.k, w.k) /\ SamePartials(v.k, w.k)
      /\ v.k.prev = w.k.prev /\ v.k.stop = w.k.stop
      /\ v.k.stable_text = w.k.stable_text /\ v.k.stable_bytes = w.k.stable_bytes
  BY <1>1, <1>3, <1>5 DEF Locals, SameAudio, SameRefs, SamePartials
<1>7. Trust(u, v, << >>, v.k.prev)  BY <1>2, <1>4, <1>6, TrustStays
<1>8. v.k.frame = None /\ v.k.stop # None  BY <1>2, <1>6 DEF SameAudio
<1> QED  BY <1>3, <1>7, <1>8, GateIsFine

\* The speaker check of a boundary returns, and the rest of the events follow.
LEMMA CheckIsFine ==
  ASSUME NEW u, NEW w, NEW busy, NEW due, NEW accept \in BOOLEAN, NEW enrolled \in BOOLEAN,
         Calm(w, busy), Fine(u, w), speech \subseteq Units, w.k.phase = "embed",
         w.k.events # << >>
  PROVE  Fine(u, Apply(Decided(w, accept, enrolled), Tail(w.k.events), due))
<1> DEFINE v == Decided(w, accept, enrolled)
           more == Tail(w.k.events)
<1> SUFFICES Fine(u, Apply(v, more, due))  OBVIOUS
<1>1. /\ w \in Worlds /\ w.k \in Locals /\ w.l \in Ledger /\ w.j \in Sessions
      /\ w.k.gated \in Audio /\ w.k.pending \in Audio /\ w.k.staging \in Audio
      /\ w.k.prev \in Audio /\ w.k.events \in Seq(Events(Units)) /\ Arrived(w.j.chunks) \in SUBSET Units
  BY CalmWorld, ArrivedIs DEF Locals, Sessions
<1>2. w.k.phase # "closed" /\ w.k.phase # "ack"  OBVIOUS
<1>3. Trust(u, w, w.k.events, Attack(w.k)) /\ Place(w.k, w.l, w.j, speech)
  BY <1>2, OpenFacts
<1>4. /\ w.k.frame = None /\ Attack(w.k) = w.k.prev /\ Head(w.k.events).kind = "boundary"
      /\ Len(w.k.staging) < GATE_WINDOW
      /\ (w.k.then = "audio" /\ w.k.stop = None) \/ (w.k.then = "stop" /\ w.k.stop # None)
  BY <1>2, <1>3 DEF Place, Attack
<1>5. FrameSet(w.k) = {} /\ Cardinality({}) \in Nat  BY <1>4, FS_EmptySet DEF FrameSet
<1>6. more \in Seq(Events(Units))  BY <1>1
<1>7. Calm(v, busy)  BY DecidedKeeps
<1>8. v.k = [w.k EXCEPT !.pending = << >>, !.enrolled = enrolled,
                        !.gated = IF accept THEN @ \o w.k.pending ELSE @]
  <2>1. CASE accept  BY <1>1, <2>1 DEF Decided, Worlds
  <2>2. CASE ~accept  BY <1>1, <2>2 DEF Decided, Worlds, Locals
  <2> QED  BY <2>1, <2>2
<1>9. /\ v.l = IF accept THEN CommitSegment(w.l) ELSE DiscardSegment(w.l)
      /\ v.j = w.j
  BY DecidedKeeps, ZenonT(60)
<1>10. Books(w.k.gated, w.k.pending, w.k.events, w.k.prev, w.k.staging, {}, w.l,
             Arrived(w.j.chunks), speech)
  BY <1>3, <1>4, <1>5 DEF Trust
<1>11. Books(w.k.gated, w.k.pending, more, w.k.prev, w.k.staging, {}, w.l, Arrived(w.j.chunks), speech)
  BY <1>1, <1>4, <1>10, BooksBoundary
<1> HIDE DEF v, more
<1>12. /\ Books(w.k.gated \o w.k.pending, << >>, more, w.k.prev, w.k.staging, {},
                CommitSegment(w.l), Arrived(w.j.chunks), speech)
       /\ Books(w.k.gated, << >>, more, w.k.prev, w.k.staging, {},
                DiscardSegment(w.l), Arrived(w.j.chunks), speech)
  BY <1>1, <1>5, <1>6, <1>11, BooksDecide
<1>13. v.k \in Locals  BY <1>7, CalmWorld
<1>14. /\ SameClaims(v.k, w.k) /\ v.k.pending = << >> /\ v.k.staging = w.k.staging
       /\ v.k.prev = w.k.prev /\ v.k.stop = w.k.stop /\ v.k.then = w.k.then
       /\ v.k.frame = w.k.frame
       /\ v.k.gated = IF accept THEN w.k.gated \o w.k.pending ELSE w.k.gated
  BY <1>1, <1>8, <1>13 DEF Locals, SameClaims, SameRefs, SamePartials
<1>15. Books(v.k.gated, v.k.pending, more, v.k.prev, v.k.staging, {}, v.l, Arrived(w.j.chunks), speech)
  BY <1>9, <1>12, <1>14
<1>16. Trust(u, v, more, v.k.prev)
  <2>1. Journaled(v, w)  BY <1>9 DEF Journaled
  <2> QED  BY <1>3, <1>5, <1>14, <1>15, <2>1, TrustMoves
<1>17. Ready(v)  BY <1>4, <1>14 DEF Ready
<1>18. v.k.then # "tick"  BY <1>4, <1>14
<1> QED  BY <1>6, <1>7, <1>16, <1>17, <1>18, ApplyIsFine

\* The stop handler waits for a decode, or for the speaker check of its tail.
LEMMA TailFacts ==
  ASSUME NEW u, NEW w, Fine(u, w),
         w.k.phase \in {"waitPartial", "tailEmbed", "seal", "tail", "raw"}
  PROVE  /\ AtTail(u, w)
         /\ w.k.phase \in {"seal", "tail", "raw"} => AtSeal(u, w)
<1>1. w.k.phase \notin {"closed", "ack", "embed", "receive", "coverage"}  OBVIOUS
<1>2. Trust(u, w, w.k.events, Attack(w.k)) /\ Place(w.k, w.l, w.j, speech)
  BY <1>1, OpenFacts
<1>3. /\ w.k.events = << >> /\ w.k.frame = None /\ w.k.staging = << >> /\ w.k.stop # None
      /\ w.k.phase \in {"seal", "tail", "raw"} => w.k.pending = << >>
  BY <1>1, <1>2 DEF Place
<1>4. Attack(w.k) = << >>  BY <1>1 DEF Attack
<1> QED  BY <1>2, <1>3, <1>4 DEF AtTail, AtSeal

\* A model that cannot be loaded ends the socket.
LEMMA RaisedIsFine ==
  ASSUME NEW u, NEW w \in Worlds, AtSeal(u, w)
  PROVE  Fine(u, [w EXCEPT !.k.phase = "closed"])
<1> DEFINE v == [w EXCEPT !.k.phase = "closed"]
<1> SUFFICES Fine(u, v)  OBVIOUS
<1>1. "closed" \in Phases /\ w.k \in Locals  BY WorldFields DEF Phases
<1>2. v.l = w.l /\ v.j = w.j /\ v.k = [w.k EXCEPT !.phase = "closed"]
  BY <1>1, PhaseMoves
<1> HIDE DEF v
<1>3. SameBuffers(v.k, w.k) /\ v.k.phase = "closed"  BY <1>1, <1>2, PhaseOnly
<1>4. Trust(u, v, << >>, << >>)
  BY <1>2, <1>3, TrustStays DEF AtSeal, AtTail, SameBuffers
<1>5. v.k.stop # None  BY <1>3 DEF SameBuffers, AtSeal, AtTail
<1> QED  BY <1>3, <1>4, <1>5 DEF Fine, Trust

\* A commit extends the recognized text of the locals and of the journal alike.
LEMMA CommitIsFine ==
  ASSUME NEW w \in Worlds, Fine(w, w), w.k.commit # None, NEW outcome
  PROVE  Fine(w, Committed([w EXCEPT !.k.commit = None], w.k.commit, outcome))
<1> DEFINE t == w.k.commit
           idle == [w EXCEPT !.k.commit = None]
           empty == [idle EXCEPT !.k.empty_upto = t.upto]
           longer == [idle EXCEPT !.k.stable_bytes = t.upto,
                                  !.k.stable_text = @ \o t.audio]
<1> DEFINE ki == [w.k EXCEPT !.commit = None]
           ke == [w.k EXCEPT !.commit = None, !.empty_upto = t.upto]
           text == w.k.stable_text \o t.audio
           kl == [w.k EXCEPT !.commit = None, !.stable_bytes = t.upto, !.stable_text = text]
<1>1. /\ w.k \in Locals /\ w.j \in Sessions /\ t \in Commits
      /\ w.k.stable_text \in Audio /\ t.audio \in Audio /\ t.upto \in Nat
  BY WorldFields DEF Locals, Commits
<1>2. text \in Audio  BY <1>1, AudioTogether
<1>3. idle = [w EXCEPT !.k = ki] /\ empty = [w EXCEPT !.k = ke] /\ longer = [w EXCEPT !.k = kl]
  BY <1>1 DEF Worlds, Locals
<1> HIDE DEF idle, empty, longer, text
<1>4. ki \in Locals /\ ke \in Locals /\ kl \in Locals
  <2> HIDE DEF t
  <2>1. ki \in Locals  BY <1>1, ZenonT(60) DEF Locals
  <2>2. ke \in Locals  BY <1>1, ZenonT(60) DEF Locals
  <2>3. kl \in Locals  BY <1>1, <1>2, ZenonT(60) DEF Locals
  <2> QED  BY <2>1, <2>2, <2>3
<1>5. /\ idle \in Worlds /\ idle.k = ki /\ idle.l = w.l /\ idle.j = w.j
      /\ empty \in Worlds /\ empty.k = ke /\ empty.l = w.l /\ empty.j = w.j
      /\ longer \in Worlds /\ longer.k = kl /\ longer.l = w.l /\ longer.j = w.j
  <2> HIDE DEF ki, ke, kl
  <2> QED  BY <1>3, <1>4 DEF Worlds
<1>6. /\ SamePlace(ki, w.k) /\ SamePartials(ki, w.k)
      /\ ki.stable_text = w.k.stable_text /\ ki.stable_bytes = w.k.stable_bytes
  BY <1>1, <1>4 DEF Locals, SamePlace, SameAudio, SameRefs, SamePartials
<1>7. /\ SamePlace(ke, w.k) /\ SamePartials(ke, w.k)
      /\ ke.stable_text = w.k.stable_text /\ ke.stable_bytes = w.k.stable_bytes
  BY <1>1, <1>4 DEF Locals, SamePlace, SameAudio, SameRefs, SamePartials
<1>8. SamePlace(kl, w.k) /\ SamePartials(kl, w.k) /\ kl.stable_text = text
  BY <1>1, <1>4 DEF Locals, SamePlace, SameAudio, SameRefs, SamePartials
<1> HIDE DEF ki, ke, kl, t
<1>9. PartialsInv(w.k) /\ SameText(w.k, w.j)
  BY DEF Fine, Sane
<1>10. Fine(w, idle)
  <2>1. PartialsInv(idle.k)  BY <1>5, <1>6, <1>9 DEF PartialsInv, SamePartials
  <2>2. SameText(idle.k, idle.j) /\ Resynced(idle, w)
    BY <1>5, <1>6, <1>9 DEF SameText, Resynced
  <2> QED  BY <1>5, <1>6, <1>9, <2>1, <2>2, FineStays
<1>11. Fine(w, empty)
  <2>1. PartialsInv(empty.k)  BY <1>5, <1>7, <1>9 DEF PartialsInv, SamePartials
  <2>2. SameText(empty.k, empty.j) /\ Resynced(empty, w)
    BY <1>5, <1>7, <1>9 DEF SameText, Resynced
  <2> QED  BY <1>5, <1>7, <1>9, <2>1, <2>2, FineStays
<1>12. Fine(w, Sync(longer))
  <2> DEFINE v == Sync(longer)
  <2>1. v.k = kl /\ v.l = w.l /\ Resynced(v, w) /\ SameText(v.k, v.j)
    BY <1>5, <1>8, SyncCopies DEF Resynced, SameText
  <2> HIDE DEF v
  <2>2. PartialsInv(v.k)  BY <1>8, <1>9, <2>1 DEF PartialsInv, SamePartials
  <2>3. Fine(w, v)  BY <1>8, <2>1, <2>2, FineStays
  <2> QED  BY <2>3 DEF v
<1>13. Committed(idle, t, outcome) \in {idle, empty, Sync(longer)}
  BY DEF Committed, idle, empty, longer
<1> QED  BY <1>10, <1>11, <1>12, <1>13 DEF idle, t

\* Locals that move no audio leave a world fine, and so does a sync.
LEMMA LocalsAreFine ==
  ASSUME NEW u, NEW w \in Worlds, Fine(u, w), NEW k \in Locals, NEW v, v = [w EXCEPT !.k = k],
         SamePlace(k, w.k), PartialsInv(k),
         k.stable_text = w.k.stable_text, k.stable_bytes = w.k.stable_bytes
  PROVE  Fine(u, v) /\ v \in Worlds /\ v.k = k /\ v.l = w.l /\ v.j = w.j
<1>1. v \in Worlds /\ v.k = k /\ v.l = w.l /\ v.j = w.j  BY DEF Worlds
<1>2. SameText(w.k, w.j)  BY DEF Fine, Sane
<1>3. SameText(v.k, v.j) /\ Resynced(v, w)  BY <1>1, <1>2 DEF SameText, Resynced
<1> QED  BY <1>1, <1>2, <1>3, FineStays

\* A sync leaves a fine world fine.
LEMMA SyncIsFine ==
  ASSUME NEW u, NEW w \in Worlds, Fine(u, w)
  PROVE  Fine(u, Sync(w))
<1> DEFINE v == Sync(w)
<1>1. SameText(w.k, w.j) /\ PartialsInv(w.k)
  BY DEF Fine, Sane
<1>2. v.k = w.k /\ v.l = w.l /\ Resynced(v, w) /\ SameText(v.k, v.j)
  BY SyncCopies DEF Resynced, SameText
<1>3. SamePlace(v.k, w.k)  BY <1>2 DEF SamePlace, SameAudio, SameRefs
<1> HIDE DEF v
<1>4. Fine(u, v)  BY <1>1, <1>2, <1>3, FineStays
<1> QED  BY <1>4 DEF v

\* A partial is over.
LEMMA OverIsFine ==
  ASSUME NEW u, NEW w \in Worlds, Fine(u, w), NEW t \in Partials
  PROVE  Fine(u, Over(w, t)) /\ Over(w, t) \in Worlds
<1> DEFINE k == [w.k EXCEPT !.partial = None, !.partial_at = AtLeast(@, t.signal)]
           v == Over(w, t)
<1>1. w.k \in Locals /\ AtLeast(w.k.partial_at, t.signal) \in Nat
  BY WorldFields DEF Locals, Partials, AtLeast
<1>2. v = [w EXCEPT !.k = k]  BY DEF Over
<1> HIDE DEF v
<1>3. k \in Locals  BY <1>1, ZenonT(60) DEF Locals
<1>4. /\ SamePlace(k, w.k) /\ k.last_partial = w.k.last_partial /\ k.partial = None
      /\ k.partial_decode = w.k.partial_decode
      /\ k.stable_text = w.k.stable_text /\ k.stable_bytes = w.k.stable_bytes
  BY <1>1, <1>3 DEF Locals, SamePlace, SameAudio, SameRefs
<1> HIDE DEF k
<1>5. PartialsInv(w.k)  BY DEF Fine, Sane
<1>6. PartialsInv(k)  BY <1>4, <1>5 DEF PartialsInv
<1>7. Fine(u, v) /\ v \in Worlds  BY <1>2, <1>3, <1>4, <1>6, LocalsAreFine
<1> QED  BY <1>7 DEF v

\* What a partial decoded is kept for the stop handler.
LEMMA RememberIsFine ==
  ASSUME NEW u, NEW w \in Worlds, Fine(u, w), NEW d \in [at: Nat, audio: Audio, text: Audio],
         d.text \in {d.audio, << >>}
  PROVE  Fine(u, [w EXCEPT !.k.partial_decode = d])
<1> DEFINE k == [w.k EXCEPT !.partial_decode = d]
           v == [w EXCEPT !.k.partial_decode = d]
<1> SUFFICES Fine(u, v)  OBVIOUS
<1>1. w.k \in Locals  BY WorldFields
<1>2. v = [w EXCEPT !.k = k]  OBVIOUS
<1> HIDE DEF v
<1>3. k \in Locals  BY <1>1, ZenonT(60) DEF Locals
<1>4. /\ SamePlace(k, w.k) /\ k.last_partial = w.k.last_partial /\ k.partial = w.k.partial
      /\ k.partial_decode = d
      /\ k.stable_text = w.k.stable_text /\ k.stable_bytes = w.k.stable_bytes
  BY <1>1, <1>3 DEF Locals, SamePlace, SameAudio, SameRefs
<1> HIDE DEF k
<1>5. PartialsInv(w.k)  BY DEF Fine, Sane
<1>6. PartialsInv(k)  BY <1>4, <1>5 DEF PartialsInv
<1> QED  BY <1>2, <1>3, <1>4, <1>6, LocalsAreFine

\* A partial with news goes to the client.
LEMMA SendingIsFine ==
  ASSUME NEW u, NEW w \in Worlds, Fine(u, w), w.k.partial # None, NEW text \in Audio, Said(text)
  PROVE  Fine(u, Sending(w, text)) /\ Sending(w, text) \in Worlds
<1> DEFINE t == [w.k.partial EXCEPT !.stage = "send", !.text = text]
           k == [w.k EXCEPT !.partial = t]
           v == Sending(w, text)
<1>1. w.k \in Locals /\ w.k.partial \in Partials  BY WorldFields DEF Locals
<1>2. v = [w EXCEPT !.k = k]  BY <1>1 DEF Sending, Worlds, Locals
<1>3. /\ t \in Partials /\ t.prefix = w.k.partial.prefix /\ t.audio = w.k.partial.audio
      /\ t.text = text
  BY <1>1 DEF Partials
<1> HIDE DEF v, t
<1>4. k \in Locals  BY <1>1, <1>3 DEF Locals
<1>5. /\ SamePlace(k, w.k) /\ k.last_partial = w.k.last_partial /\ k.partial = t
      /\ k.partial_decode = w.k.partial_decode
      /\ k.stable_text = w.k.stable_text /\ k.stable_bytes = w.k.stable_bytes
  BY <1>1, <1>4 DEF Locals, SamePlace, SameAudio, SameRefs
<1> HIDE DEF k
<1>6. PartialsInv(w.k)  BY DEF Fine, Sane
<1>7. PartialsInv(k)  BY <1>3, <1>5, <1>6 DEF PartialsInv
<1>8. Fine(u, v) /\ v \in Worlds  BY <1>2, <1>4, <1>5, <1>7, LocalsAreFine
<1> QED  BY <1>8 DEF v

\* It has been sent: it is what both the locals and the journal show last.
LEMMA SentIsFine ==
  ASSUME NEW u, NEW w \in Worlds, Fine(u, w), w.k.partial # None
  PROVE  LET v == Sync([w EXCEPT !.k.last_partial = w.k.partial.text])
         IN  Fine(u, v) /\ v \in Worlds
<1> DEFINE text == w.k.partial.text
           k == [w.k EXCEPT !.last_partial = text]
           told == [w EXCEPT !.k.last_partial = text]
<1>1. w.k \in Locals /\ text \in Audio  BY WorldFields DEF Locals, Partials
<1>2. told = [w EXCEPT !.k = k]  OBVIOUS
<1> HIDE DEF told
<1>3. k \in Locals  BY <1>1 DEF Locals
<1>4. /\ SamePlace(k, w.k) /\ k.last_partial = text /\ k.partial = w.k.partial
      /\ k.partial_decode = w.k.partial_decode
      /\ k.stable_text = w.k.stable_text /\ k.stable_bytes = w.k.stable_bytes
  BY <1>1, <1>3 DEF Locals, SamePlace, SameAudio, SameRefs
<1> HIDE DEF k
<1>5. PartialsInv(w.k)  BY DEF Fine, Sane
<1>6. Said(text)  BY <1>5 DEF PartialsInv
<1>7. PartialsInv(k)  BY <1>4, <1>5, <1>6 DEF PartialsInv
<1>8. Fine(u, told) /\ told \in Worlds  BY <1>2, <1>3, <1>4, <1>7, LocalsAreFine
<1>9. Fine(u, Sync(told)) /\ Sync(told) \in Worlds  BY <1>8, SyncIsFine, SyncCopies
<1> QED  BY <1>9 DEF told

\* What a partial shows is said once, with or without words of its own.
LEMMA ShownIsSaid ==
  ASSUME NEW w \in Worlds, PartialsInv(w.k), w.k.partial # None, NEW outcome
  PROVE  LET t == w.k.partial
             text == Decoded(t.audio, outcome)
         IN  /\ text \in {t.audio, << >>} /\ text \in Audio
             /\ t.prefix \o text \in Audio /\ Said(t.prefix \o text)
<1> DEFINE t == w.k.partial
           text == Decoded(t.audio, outcome)
           empty == << >>
<1>1. t \in Partials /\ t.audio \in Audio /\ t.prefix \in Audio
  BY WorldFields DEF Locals, Partials
<1>2. Said(t.prefix \o t.audio)  BY DEF PartialsInv
<1>3. text \in {t.audio, empty}  BY DEF Decoded
<1>4. empty \in Audio  BY DEF Audio
<1>5. Said(empty) /\ ToSet(empty) = {}  BY SaidNothing
<1> HIDE DEF t, text, empty
<1>6. text \in Audio  BY <1>1, <1>3, <1>4
<1>7. t.prefix \o text \in Audio  BY <1>1, <1>6, AudioTogether
<1>8. Said(t.prefix)  BY <1>1, <1>2, AudioTogether
<1>9. AllBefore(ToSet(t.prefix), ToSet(empty))  BY <1>5 DEF AllBefore
<1>10. Said(t.prefix \o empty)  BY <1>1, <1>4, <1>5, <1>8, <1>9, AudioTogether
<1>11. Said(t.prefix \o text)  BY <1>2, <1>3, <1>10
<1> QED  BY <1>3, <1>6, <1>7, <1>11 DEF t, text, empty

-----------------------------------------------------------------------------
(***************************************************************************)
(* The invariant of the whole dictation.                                   *)
(***************************************************************************)

\* A connection that may still change the journal.
Live(c) == Open(c) \/ conns[c].commit # None \/ conns[c].partial # None

\* The ledger the next connection gets.
LedgerOf(j) == IF j.ledger = None THEN NewLedger ELSE ledgers[j.ledger]

\* A connection that has taken up a journal.
Born(c) == conns[c].phase # "unborn"

\* A connection that has not begun has nothing, and its ledger is fresh.
UnbornInv ==
  \A c \in Conns : ~Born(c) => conns[c] = NewConn(c) /\ ledgers[c] = NewLedger

\* A ledger that another connection or a journal refers to has an owner.
LedgersInv ==
  /\ \A c \in Conns : conns[c].ledger # c => Born(conns[c].ledger)
  /\ \A j \in Journals : journals[j].ledger # None => Born(journals[j].ledger)

\* There is at most one journal, and every connection is on it.
OneJournal ==
  /\ \/ /\ created = 0 /\ held = None /\ \A c \in Conns : ~Born(c)
        /\ journals = [j \in Journals |-> NewJournal]
     \/ created = 1 /\ held = 1
  /\ \A c \in Conns : Born(c) => conns[c].journal = 1

\* Nothing that has begun a stop, and no decode of a closed socket, shares the
\* journal with another connection.
OneLive ==
  \A c, d \in Conns : Live(d) /\ (Live(c) \/ conns[c].stop # None) => c = d

\* What holds of each connection by itself.
ConnsInv ==
  \A c \in Conns :
    /\ PartialsInv(conns[c])
    /\ Open(c) => OpenInv(conns[c], ledgers[conns[c].ledger], journals[1], speech)
    /\ Live(c) => SameText(conns[c], journals[1])
    /\ Live(c) /\ ~Open(c) /\ conns[c].stop = None =>
         Synced(conns[c], ledgers[conns[c].ledger], journals[1])

\* Without an open connection and before any stop the journal is at rest.
RestInv ==
  (\A c \in Conns : ~Open(c) /\ conns[c].stop = None) =>
    Rest(LedgerOf(journals[1]), journals[1], speech)

\* The invariant of the whole dictation; IInv has its types.
PInv ==
  /\ UnbornInv /\ LedgersInv /\ OneJournal /\ OneLive /\ ConnsInv /\ RestInv
  /\ \A j \in Journals : JournalInv(journals[j], speech)
  /\ \A a \in answers : SoundFinal(a, speech)

\* What closing a connection leaves of its locals.
LEMMA SettledIs ==
  ASSUME NEW k \in Locals, PartialsInv(k)
  PROVE  /\ Settled(k).phase = k.phase /\ Settled(k).ledger = k.ledger
         /\ Settled(k).journal = k.journal /\ Settled(k).stop = k.stop
         /\ Settled(k).commit = k.commit /\ Settled(k).partial = k.partial
         /\ PartialsInv(Settled(k))
         /\ k.phase # "closed" => Settled(k) = k
         /\ k.commit # None \/ k.partial # None =>
              /\ Settled(k).gated = k.gated /\ Settled(k).pending = k.pending
              /\ Settled(k).staging = k.staging
              /\ Settled(k).stable_text = k.stable_text
              /\ Settled(k).stable_bytes = k.stable_bytes
<1>1. CASE k.phase # "closed"  BY <1>1 DEF Settled
<1>2. CASE k.phase = "closed" /\ k.commit = None /\ k.partial = None
  <2> DEFINE n == NewConn(k.ledger)
             v == [n EXCEPT !.phase = "closed", !.journal = k.journal, !.closing = TRUE,
                            !.stop = k.stop]
  <2>1. k.ledger \in Conns  BY DEF Locals
  <2>2. n \in Locals /\ n.ledger = k.ledger /\ n.commit = None /\ n.partial = None
    BY <2>1, NewConnIs
  <2>3. n.last_partial = << >> /\ n.partial_decode = None  BY DEF NewConn
  <2>4. Settled(k) = v  BY <1>2 DEF Settled, Closed
  <2> HIDE DEF n
  <2>5. /\ v.phase = "closed" /\ v.journal = k.journal /\ v.stop = k.stop
        /\ v.ledger = k.ledger /\ v.commit = None /\ v.partial = None
        /\ v.last_partial = << >> /\ v.partial_decode = None
    BY <2>2, <2>3 DEF Locals
  <2> HIDE DEF v
  <2>6. PartialsInv(v)  BY <2>5, SaidNothing DEF PartialsInv
  <2> QED  BY <1>2, <2>4, <2>5, <2>6
<1>3. CASE k.phase = "closed" /\ ~(k.commit = None /\ k.partial = None)
  <2> DEFINE v == [k EXCEPT !.phase = "closed", !.alive = FALSE, !.closing = TRUE]
  <2>1. Settled(k) = v  BY <1>3 DEF Settled, Closed
  <2>2. /\ v.phase = "closed" /\ v.journal = k.journal /\ v.stop = k.stop
        /\ v.ledger = k.ledger /\ v.commit = k.commit /\ v.partial = k.partial
        /\ v.last_partial = k.last_partial /\ v.partial_decode = k.partial_decode
        /\ v.gated = k.gated /\ v.pending = k.pending /\ v.staging = k.staging
        /\ v.stable_text = k.stable_text /\ v.stable_bytes = k.stable_bytes
    BY DEF Locals
  <2> HIDE DEF v
  <2>3. PartialsInv(v)  BY <2>2 DEF PartialsInv
  <2> QED  BY <1>3, <2>1, <2>2, <2>3
<1> QED  BY <1>1, <1>2, <1>3

\* At the start of its step a live connection is as fine as the invariant says.
LEMMA LiveIsFine ==
  ASSUME IInv, PInv, NEW c \in Conns, Live(c), Born(c)
  PROVE  /\ Fine(World(c), World(c))
         /\ World(c).k = conns[c] /\ World(c).l = ledgers[conns[c].ledger]
         /\ World(c).j = journals[1] /\ conns[c].journal = 1 /\ conns[c].ledger \in Conns
         /\ conns[c] \in Locals /\ World(c) \in Worlds /\ created = 1 /\ held = 1
<1> DEFINE w == World(c)
<1>1. conns[c].journal = 1 /\ created = 1 /\ held = 1
  BY DEF PInv, OneJournal
<1>2. Queue(gpu)  BY QueueIsQueue
<1>3. /\ w.k = conns[c] /\ w.l = ledgers[conns[c].ledger] /\ w.j = journals[1]
      /\ conns[c].ledger \in Conns /\ 1 \in Journals /\ WorldInv(w, Busy(c, gpu))
  BY <1>1, <1>2, WorldIs DEF Born
<1> HIDE DEF w
<1>4. w \in Worlds /\ w.k \in Locals /\ w.j \in Sessions
  BY <1>3, WorldFields DEF WorldInv, WorldCore
<1>6. Sane(w, w)
  BY <1>3 DEF PInv, ConnsInv, Sane
<1>7. w.k.phase # "closed" => OpenInv(w.k, w.l, w.j, speech)
  BY <1>3 DEF PInv, ConnsInv, Open, Born
<1>8. ASSUME w.k.phase = "closed", w.k.stop = None
      PROVE  Synced(w.k, w.l, w.j) /\ Rest(w.l, w.j, speech)
  <2>1. ~Open(c)  BY <1>3, <1>8 DEF Open
  <2>2. Synced(w.k, w.l, w.j)  BY <1>3, <1>8, <2>1 DEF PInv, ConnsInv
  <2>3. \A d \in Conns : ~Open(d) /\ conns[d].stop = None
    <3> SUFFICES ASSUME NEW d \in Conns  PROVE ~Open(d) /\ conns[d].stop = None  OBVIOUS
    <3>1. Open(d) \/ conns[d].stop # None => d = c  BY DEF PInv, OneLive, Live
    <3> QED  BY <1>3, <1>8, <2>1, <3>1
  <2>4. Rest(LedgerOf(w.j), w.j, speech)  BY <1>3, <2>3 DEF PInv, RestInv
  <2>5. LedgerOf(w.j) = w.l
    <3>1. w.k.ledger # None  BY <1>3, NoneAssumption
    <3> QED  BY <1>3, <2>2, <3>1 DEF LedgerOf, Synced
  <2> QED  BY <2>2, <2>4, <2>5
<1>9. Fine(w, w)  BY <1>6, <1>7, <1>8 DEF Fine
<1> QED  BY <1>1, <1>3, <1>4, <1>9 DEF w

\* A step of one live connection that ends in a fine world keeps the invariant.
LEMMA StepIsFine ==
  ASSUME IInv, PInv, NEW c \in Conns, Live(c), Born(c),
         NEW w \in Worlds, Fine(World(c), w), w.k.phase # "unborn",
         conns' = [conns EXCEPT ![c] = Settled(w.k)],
         ledgers' = [ledgers EXCEPT ![conns[c].ledger] = w.l],
         journals' = [journals EXCEPT ![conns[c].journal] = w.j],
         UNCHANGED <<speech, held, created>>,
         \A a \in answers' : SoundFinal(a, speech)
  PROVE  PInv'
<1> DEFINE n == conns[c].ledger
           k == Settled(w.k)
<1>1. /\ World(c).k = conns[c] /\ World(c).j = journals[1] /\ conns[c].journal = 1
      /\ n \in Conns /\ created = 1 /\ held = 1
  BY LiveIsFine
<1>2. /\ conns \in [Conns -> Locals] /\ ledgers \in [Conns -> Ledger]
      /\ journals \in [Journals -> Sessions] /\ 1 \in Journals
  BY SessionAssumption DEF IInv, TypeOK, Journals
<1>3. w.k \in Locals /\ w.j \in Sessions  BY WorldFields
<1>4. /\ Sane(World(c), w) /\ PartialsInv(w.k) /\ SameText(w.k, w.j) /\ JournalInv(w.j, speech)
      /\ w.k.ledger = n /\ w.k.journal = 1 /\ w.j.ledger \in {journals[1].ledger, n}
  BY <1>1 DEF Fine, Sane
<1>5. /\ k.phase = w.k.phase /\ k.ledger = n /\ k.journal = 1 /\ k.stop = w.k.stop
      /\ k.commit = w.k.commit /\ k.partial = w.k.partial /\ PartialsInv(k)
      /\ w.k.phase # "closed" => k = w.k
      /\ k.commit # None \/ k.partial # None =>
           /\ k.gated = w.k.gated /\ k.pending = w.k.pending /\ k.staging = w.k.staging
           /\ k.stable_text = w.k.stable_text /\ k.stable_bytes = w.k.stable_bytes
  BY <1>3, <1>4, SettledIs
<1> HIDE DEF k
<1>6. conns'[c] = k /\ \A d \in Conns \ {c} : conns'[d] = conns[d]
  BY <1>2 DEF k
<1>7. ledgers'[n] = w.l /\ \A d \in Conns \ {n} : ledgers'[d] = ledgers[d]
  BY <1>1, <1>2
<1>8. journals'[1] = w.j /\ \A j \in Journals \ {1} : journals'[j] = journals[j]
  BY <1>1, <1>2
<1>9. speech' = speech /\ held' = 1 /\ created' = 1  BY <1>1
<1>10. Born(c)' /\ Born(n) /\ \A d \in Conns \ {c} : Born(d)' <=> Born(d)
  <2>1. Born(n)  BY <1>1 DEF PInv, LedgersInv
  <2> QED  BY <1>5, <1>6, <2>1 DEF Born
<1>11. \A d \in Conns \ {c} : ~Live(d) /\ ~Open(d) /\ conns[d].stop = None
  BY DEF PInv, OneLive, Live
<1>12. \A d \in Conns \ {c} : ~Live(d)' /\ ~Open(d)' /\ conns'[d].stop = None
  BY <1>6, <1>11 DEF Live, Open
<1>13. UnbornInv'
  <2> SUFFICES ASSUME NEW d \in Conns, ~Born(d)'
               PROVE  conns'[d] = NewConn(d) /\ ledgers'[d] = NewLedger
    BY DEF UnbornInv
  <2>1. d # c /\ ~Born(d) /\ d # n  BY <1>10
  <2> QED  BY <1>6, <1>7, <2>1 DEF PInv, UnbornInv
<1>14. LedgersInv'
  <2>1. \A e \in Conns : Born(e) => conns'[e].phase # "unborn"  BY <1>10 DEF Born
  <2>2. ASSUME NEW d \in Conns, conns'[d].ledger # d
        PROVE  conns'[conns'[d].ledger].phase # "unborn"
    <3>1. conns'[d].ledger = conns[d].ledger  BY <1>5, <1>6
    <3>2. conns[d].ledger \in Conns  BY <1>2 DEF Locals
    <3>3. Born(conns[d].ledger)  BY <2>2, <3>1 DEF PInv, LedgersInv
    <3> QED  BY <2>1, <3>1, <3>2, <3>3
  <2>3. ASSUME NEW j \in Journals, journals'[j].ledger # None
        PROVE  conns'[journals'[j].ledger].phase # "unborn"
    <3>1. journals'[j].ledger \in {journals[j].ledger, n}  BY <1>4, <1>8
    <3>2. journals'[j].ledger \in Conns
      <4>1. journals[j].ledger \in Conns \union {None}  BY <1>2 DEF Sessions
      <4> QED  BY <1>1, <2>3, <3>1, <4>1
    <3>3. CASE journals'[j].ledger = n  BY <1>10, <2>1, <3>2, <3>3
    <3>4. CASE journals'[j].ledger = journals[j].ledger
      <4>1. Born(journals[j].ledger)  BY <2>3, <3>4 DEF PInv, LedgersInv
      <4> QED  BY <2>1, <3>2, <3>4, <4>1
    <3> QED  BY <3>1, <3>3, <3>4
  <2> QED  BY <2>2, <2>3 DEF LedgersInv, Born
<1>15. OneJournal'
  <2>1. \A d \in Conns : Born(d)' => conns'[d].journal = 1
    BY <1>5, <1>6, <1>10 DEF PInv, OneJournal
  <2> QED  BY <1>9, <2>1 DEF OneJournal
<1>16. OneLive'  BY <1>12 DEF OneLive
<1>17. ConnsInv'
  <2>1. ASSUME NEW d \in Conns \ {c}
        PROVE  PartialsInv(conns'[d]) /\ ~Open(d)' /\ ~Live(d)'
    BY <1>6, <1>12 DEF PInv, ConnsInv
  <2>2. PartialsInv(conns'[c])  BY <1>5, <1>6
  <2>3. ASSUME Open(c)'
        PROVE  OpenInv(conns'[c], ledgers'[conns'[c].ledger], journals'[1], speech')
    <3>1. w.k.phase # "closed"  BY <1>5, <1>6, <2>3 DEF Open
    <3>2. OpenInv(w.k, w.l, w.j, speech)  BY <3>1 DEF Fine
    <3> QED  BY <1>4, <1>5, <1>6, <1>7, <1>8, <1>9, <3>1, <3>2
  <2>4. ASSUME Live(c)'  PROVE SameText(conns'[c], journals'[1])
    <3>1. k.stable_text = w.k.stable_text /\ k.stable_bytes = w.k.stable_bytes
      BY <1>3, <1>5, <1>6, <2>4 DEF Live, Open
    <3> QED  BY <1>4, <1>6, <1>8, <3>1 DEF SameText
  <2>5. ASSUME Live(c)', ~Open(c)', conns'[c].stop = None
        PROVE  Synced(conns'[c], ledgers'[conns'[c].ledger], journals'[1])
    <3>1. w.k.phase = "closed" /\ w.k.stop = None
      BY <1>5, <1>6, <2>5, <1>10 DEF Open, Born
    <3>2. Synced(w.k, w.l, w.j)  BY <3>1 DEF Fine
    <3>3. k.gated = w.k.gated /\ k.pending = w.k.pending /\ k.staging = w.k.staging
      BY <1>5, <1>6, <2>5 DEF Live
    <3> QED  BY <1>4, <1>5, <1>6, <1>7, <1>8, <3>2, <3>3 DEF Synced
  <2> QED  BY <2>1, <2>2, <2>3, <2>4, <2>5 DEF ConnsInv
<1>18. RestInv'
  <2> SUFFICES ASSUME \A d \in Conns : ~Open(d)' /\ conns'[d].stop = None
               PROVE  Rest(LedgerOf(journals[1])', journals'[1], speech')
    BY DEF RestInv
  <2>1. w.k.phase = "closed" /\ w.k.stop = None
    BY <1>5, <1>6, <1>10 DEF Open, Born
  <2>2. Synced(w.k, w.l, w.j) /\ Rest(w.l, w.j, speech)  BY <2>1 DEF Fine
  <2>3. LedgerOf(journals[1])' = w.l
    <3>1. n # None  BY <1>1, NoneAssumption
    <3> QED  BY <1>4, <1>7, <1>8, <2>2, <3>1 DEF LedgerOf, Synced
  <2> QED  BY <1>8, <1>9, <2>2, <2>3
<1>19. \A j \in Journals : JournalInv(journals'[j], speech')
  BY <1>4, <1>8, <1>9 DEF PInv
<1>20. \A a \in answers' : SoundFinal(a, speech')  BY <1>9
<1> QED
  BY <1>13, <1>14, <1>15, <1>16, <1>17, <1>18, <1>19, <1>20 DEF PInv

\* What an action keeps.
Faithful == PInv'

\* A step that makes a fine world the world of its connection keeps the rest.
LEMMA BecomeIsFine ==
  ASSUME IInv, PInv, NEW c \in Conns, Live(c), Born(c), NEW w, NEW busy, WorldInv(w, busy),
         Fine(World(c), w), NEW q, Become(c, w, q),
         UNCHANGED <<speech, held, created, answers>>
  PROVE  Faithful
<1>1. w \in Worlds /\ w.k.phase # "unborn"  BY DEF WorldInv, WorldCore
<1>2. /\ conns' = [conns EXCEPT ![c] = Settled(w.k)]
      /\ ledgers' = [ledgers EXCEPT ![conns[c].ledger] = w.l]
      /\ journals' = [journals EXCEPT ![conns[c].journal] = w.j]
  BY DEF Become
<1>3. \A a \in answers' : SoundFinal(a, speech)  BY DEF PInv
<1>4. UNCHANGED <<speech, held, created>>  OBVIOUS
<1> QED  BY <1>1, <1>2, <1>3, <1>4, StepIsFine DEF Faithful

\* An open connection between two steps of its own.
LEMMA OpenIsCalm ==
  ASSUME IInv, PInv, NEW c \in Conns,
         conns[c].phase \in {"receive", "ack", "embed", "coverage", "waitPartial", "tailEmbed",
                             "seal", "final"}
  PROVE  /\ Live(c) /\ Born(c) /\ Fine(World(c), World(c)) /\ speech \subseteq Units
         /\ Calm(World(c), Busy(c, gpu)) /\ World(c).k = conns[c]
         /\ World(c) \in Worlds /\ World(c).j = journals[1] /\ Queue(gpu)
<1>1. Open(c) /\ Born(c) /\ Live(c)  BY DEF Open, Born, Live
<1>2. speech \subseteq Units  BY DEF IInv, TypeOK
<1>3. Queue(gpu)  BY QueueIsQueue
<1>4. conns[c].phase \notin {"tail", "raw", "unborn"}  OBVIOUS
<1>5. Calm(World(c), Busy(c, gpu))  BY <1>3, <1>4, WorldIs
<1>6. /\ Fine(World(c), World(c)) /\ World(c).k = conns[c] /\ World(c).j = journals[1]
      /\ World(c) \in Worlds
  BY <1>1, LiveIsFine
<1> QED  BY <1>1, <1>2, <1>3, <1>5, <1>6

-----------------------------------------------------------------------------
(***************************************************************************)
(* Every action is fine: what arrives on a socket.                         *)
(***************************************************************************)

\* A frame is accepted, or found to be a duplicate.
LEMMA AudioFrameIsFine ==
  ASSUME IInv, PInv, NEW c \in Conns, NEW s \in Seqs, AudioFrame(c, s)
  PROVE  Faithful
<1> DEFINE w == World(c)
           frame == IF s \in w.j.chunks THEN None ELSE s
           v == Acked(w, s, frame)
<1>1. conns[c].phase = "receive"  BY DEF AudioFrame, Receiving
<1>2. /\ Live(c) /\ Born(c) /\ Fine(w, w) /\ Calm(w, Busy(c, gpu)) /\ w.k = conns[c]
  BY <1>1, OpenIsCalm
<1>3. Become(c, v, gpu) /\ UNCHANGED <<speech, held, created, answers>>
  BY DEF AudioFrame, Acked
<1>4. s \in w.j.chunks \/ Arrives(w.j.chunks, s)
  BY DEF AudioFrame, InOrder, Arrives
<1>5. frame \in Seqs \union {None}  OBVIOUS
<1> HIDE DEF w
<1>6. Fine(w, v)  BY <1>1, <1>2, <1>4, AckedIsFine
<1> HIDE DEF frame
<1>7. WorldInv(v, Busy(c, gpu))  BY <1>2, <1>5, AckedKeeps
<1> HIDE DEF v
<1> QED  BY <1>2, <1>3, <1>6, <1>7, BecomeIsFine DEF w

\* An acknowledged frame goes through the gate.
LEMMA FrameAckedIsFine ==
  ASSUME IInv, PInv, NEW c \in Conns, FrameAcked(c)
  PROVE  Faithful
<1> DEFINE w == World(c)
           s == w.k.frame
<1>1. conns[c].phase = "ack" /\ conns[c].frame # None  BY DEF FrameAcked
<1>2. /\ Live(c) /\ Born(c) /\ Fine(w, w) /\ Calm(w, Busy(c, gpu)) /\ w.k = conns[c]
      /\ speech \subseteq Units
  BY <1>1, OpenIsCalm
<1>3. s \in Seqs
  <2>1. w.k \in Locals  BY <1>2, CalmWorld
  <2> QED  BY <1>1, <1>2, <2>1 DEF Locals
<1>4. PICK due \in Due : Become(c, Gate(Buffered(w, s, None), "audio", due), gpu)
  BY <1>2 DEF FrameAcked, Buffered
<1>5. UNCHANGED <<speech, held, created, answers>>  BY DEF FrameAcked
<1> DEFINE v == Gate(Buffered(w, s, None), "audio", due)
<1> HIDE DEF w
<1>6. Fine(w, v)  BY <1>1, <1>2, FrameIsFine
<1> HIDE DEF s
<1>7. Calm(Buffered(w, s, None), Busy(c, gpu))  BY <1>2, <1>3, BufferedKeeps
<1>8. WorldInv(v, Busy(c, gpu))  BY <1>7, GateKeeps
<1> HIDE DEF v
<1> QED  BY <1>2, <1>4, <1>5, <1>6, <1>8, BecomeIsFine DEF w, v

\* A receive that times out lets the gate look again.
LEMMA ReceiveTimesOutIsFine ==
  ASSUME IInv, PInv, NEW c \in Conns, ReceiveTimesOut(c)
  PROVE  Faithful
<1> DEFINE w == World(c)
<1>1. conns[c].phase = "receive"  BY DEF ReceiveTimesOut
<1>2. /\ Live(c) /\ Born(c) /\ Fine(w, w) /\ Calm(w, Busy(c, gpu)) /\ w.k = conns[c]
      /\ speech \subseteq Units
  BY <1>1, OpenIsCalm
<1>3. PICK due \in Due : Become(c, Gate(w, "tick", due), gpu)  BY DEF ReceiveTimesOut
<1>4. UNCHANGED <<speech, held, created, answers>>  BY DEF ReceiveTimesOut
<1> DEFINE v == Gate(w, "tick", due)
<1> HIDE DEF w
<1>5. Fine(w, v)  BY <1>1, <1>2, TickIsFine
<1>6. WorldInv(v, Busy(c, gpu))  BY <1>2, GateKeeps
<1> HIDE DEF v
<1> QED  BY <1>2, <1>3, <1>4, <1>5, <1>6, BecomeIsFine DEF w, v

\* A late frame of the stop handler joins the staging buffer.
LEMMA LateFrameIsFine ==
  ASSUME IInv, PInv, NEW c \in Conns, NEW s \in Seqs, LateFrame(c, s)
  PROVE  Faithful
<1> DEFINE w == World(c)
           v == Late(w, s)
<1>1. conns[c].phase = "coverage"  BY DEF LateFrame
<1>2. /\ Live(c) /\ Born(c) /\ Fine(w, w) /\ Calm(w, Busy(c, gpu)) /\ w.k = conns[c]
  BY <1>1, OpenIsCalm
<1>3. Become(c, v, gpu) /\ UNCHANGED <<speech, held, created, answers>>
  BY DEF LateFrame, Late
<1>4. Arrives(w.j.chunks, s)  BY DEF LateFrame, InOrder, Arrives
<1> HIDE DEF w
<1>5. Fine(w, v)  BY <1>1, <1>2, <1>4, LateIsFine
<1>6. WorldInv(v, Busy(c, gpu))
  <2>1. Calm(v, Busy(c, gpu))
        /\ v.k = [w.k EXCEPT !.raw = @ \o Payload(s), !.staging = @ \o Payload(s)]
    BY <1>2, LateKeeps
  <2>2. w.k \in Locals  BY <1>2, CalmWorld
  <2> HIDE DEF v
  <2>3. v.k.phase = "coverage"  BY <1>1, <1>2, <2>1, <2>2 DEF Locals
  <2> QED  BY <2>1, <2>3 DEF Calm, WorldInv, EmbedInv
<1> HIDE DEF v
<1> QED  BY <1>2, <1>3, <1>5, <1>6, BecomeIsFine DEF w

-----------------------------------------------------------------------------
(***************************************************************************)
(* Every action is fine: the stop handler and the speaker checks.          *)
(***************************************************************************)

\* The coverage wait ends, with all the audio or without.
LEMMA CoverageWaitEndsIsFine ==
  ASSUME IInv, PInv, NEW c \in Conns, CoverageWaitEnds(c)
  PROVE  Faithful
<1> DEFINE w == World(c)
           complete == ~ShortOfCaptured(c)
           x == [w EXCEPT !.k.complete = complete]
           v == Gate(x, "stop", FALSE)
<1>1. conns[c].phase = "coverage"  BY DEF CoverageWaitEnds
<1>2. /\ Live(c) /\ Born(c) /\ Fine(w, w) /\ Calm(w, Busy(c, gpu)) /\ w.k = conns[c]
      /\ speech \subseteq Units
  BY <1>1, OpenIsCalm
<1>3. Become(c, v, gpu) /\ UNCHANGED <<speech, held, created, answers>>
  BY DEF CoverageWaitEnds
<1>4. complete \in BOOLEAN  OBVIOUS
<1> HIDE DEF w, complete
<1>5. Fine(w, v)  BY <1>1, <1>2, <1>4, CoverageIsFine
<1>6. Calm(x, Busy(c, gpu))  BY <1>2, <1>4, CompleteKeeps
<1> HIDE DEF x
<1>7. WorldInv(v, Busy(c, gpu))  BY <1>6, GateKeeps
<1> HIDE DEF v
<1> QED  BY <1>2, <1>3, <1>5, <1>7, BecomeIsFine DEF w

\* A speaker check decides a segment, and the other events follow.
LEMMA SpeakerCheckedIsFine ==
  ASSUME IInv, PInv, NEW c \in Conns, NEW embedding \in Embeddings, SpeakerChecked(c, embedding)
  PROVE  Faithful
<1> DEFINE w == World(c)
           accept == embedding # "other" \/ ~w.k.enrolled
           enrolled == w.k.enrolled \/ embedding # "none"
           x == Decided(w, accept, enrolled)
           more == Tail(w.k.events)
<1>1. conns[c].phase = "embed"  BY DEF SpeakerChecked
<1>2. /\ Live(c) /\ Born(c) /\ Fine(w, w) /\ Calm(w, Busy(c, gpu)) /\ w.k = conns[c]
      /\ speech \subseteq Units
  BY <1>1, OpenIsCalm
<1>3. PICK due \in Due : Become(c, Apply(x, more, due), gpu)
  BY DEF SpeakerChecked, Decided
<1>4. UNCHANGED <<speech, held, created, answers>>  BY DEF SpeakerChecked
<1>5. w.k.events # << >> /\ more \in Seq(Events(Units))
  <2>1. w.k \in Locals  BY <1>2, CalmWorld
  <2>2. w.k.events \in Seq(Events(Units))  BY <2>1 DEF Locals
  <2>3. EmbedInv(conns[c])  BY DEF IInv
  <2>4. w.k.events # << >>  BY <1>1, <1>2, <2>3 DEF EmbedInv
  <2> QED  BY <2>2, <2>4, HeadTailProperties
<1>6. accept \in BOOLEAN /\ enrolled \in BOOLEAN  OBVIOUS
<1> DEFINE v == Apply(x, more, due)
<1> HIDE DEF w, accept, enrolled
<1>7. Fine(w, v)  BY <1>1, <1>2, <1>5, <1>6, CheckIsFine
<1>8. Calm(x, Busy(c, gpu))  BY <1>2, <1>6, DecidedKeeps
<1> HIDE DEF x, more
<1>9. WorldInv(v, Busy(c, gpu))  BY <1>5, <1>8, ApplyKeeps
<1> HIDE DEF v
<1> QED  BY <1>2, <1>3, <1>4, <1>7, <1>9, BecomeIsFine DEF w, v

\* The stop handler has waited for the partial in flight.
LEMMA PartialAwaitedIsFine ==
  ASSUME IInv, PInv, NEW c \in Conns, PartialAwaited(c)
  PROVE  Faithful
<1> DEFINE w == World(c)
           v == DecideTail(w)
<1>1. conns[c].phase = "waitPartial" /\ Become(c, v, gpu)
      /\ UNCHANGED <<speech, held, created, answers>>
  BY DEF PartialAwaited
<1>2. /\ Live(c) /\ Born(c) /\ Fine(w, w) /\ Calm(w, Busy(c, gpu)) /\ w.k = conns[c]
      /\ speech \subseteq Units
  BY <1>1, OpenIsCalm
<1> HIDE DEF w
<1>3. AtTail(w, w)  BY <1>1, <1>2, TailFacts
<1>4. Fine(w, v)  BY <1>2, <1>3, DecideTailIsFine
<1>5. WorldInv(v, Busy(c, gpu))  BY <1>2, DecideTailKeeps
<1> HIDE DEF v
<1> QED  BY <1>1, <1>2, <1>4, <1>5, BecomeIsFine DEF w

\* The speaker check of the last segment.
LEMMA TailSpeakerCheckedIsFine ==
  ASSUME IInv, PInv, NEW c \in Conns, NEW embedding \in Embeddings,
         TailSpeakerChecked(c, embedding)
  PROVE  Faithful
<1> DEFINE w == World(c)
           v == IF embedding = "other" THEN RejectFinalTail(w) ELSE AcceptFinalTail(w)
<1>1. conns[c].phase = "tailEmbed" /\ Become(c, v, gpu)
      /\ UNCHANGED <<speech, held, created, answers>>
  BY DEF TailSpeakerChecked
<1>2. /\ Live(c) /\ Born(c) /\ Fine(w, w) /\ Calm(w, Busy(c, gpu)) /\ w.k = conns[c]
      /\ speech \subseteq Units
  BY <1>1, OpenIsCalm
<1> HIDE DEF w
<1>3. AtTail(w, w)  BY <1>1, <1>2, TailFacts
<1>4. Fine(w, v)  BY <1>2, <1>3, AcceptFinalTailIsFine, RejectFinalTailIsFine
<1>5. WorldInv(v, Busy(c, gpu))  BY <1>2, AcceptFinalTailKeeps, RejectFinalTailKeeps
<1> HIDE DEF v
<1> QED  BY <1>1, <1>2, <1>4, <1>5, BecomeIsFine DEF w

\* The stop handler has waited for the background decodes.
LEMMA BackgroundAwaitedIsFine ==
  ASSUME IInv, PInv, NEW c \in Conns, BackgroundAwaited(c)
  PROVE  Faithful
<1> DEFINE w == World(c)
           v == SealTail(w)
<1>1. conns[c].phase = "seal" /\ Become(c, v, gpu)
      /\ UNCHANGED <<speech, held, created, answers>>
  BY DEF BackgroundAwaited
<1>2. /\ Live(c) /\ Born(c) /\ Fine(w, w) /\ Calm(w, Busy(c, gpu)) /\ w.k = conns[c]
      /\ speech \subseteq Units
  BY <1>1, OpenIsCalm
<1> HIDE DEF w
<1>3. AtSeal(w, w)  BY <1>1, <1>2, TailFacts
<1>4. Fine(w, v)  BY <1>2, <1>3, SealTailIsFine
<1>5. WorldInv(v, Busy(c, gpu))  BY <1>2, SealTailKeeps
<1> HIDE DEF v
<1> QED  BY <1>1, <1>2, <1>4, <1>5, BecomeIsFine DEF w

-----------------------------------------------------------------------------
(***************************************************************************)
(* Every action is fine: the decodes.                                      *)
(***************************************************************************)

\* run_stable_commit after its decode, of an open or of a closed socket.
LEMMA CommitDecodedIsFine ==
  ASSUME IInv, PInv, NEW c \in Conns, NEW outcome, CommitDecoded(c, outcome)
  PROVE  Faithful
<1> DEFINE q == Tail(gpu)
           w == World(c)
           v == Committed([w EXCEPT !.k.commit = None], w.k.commit, outcome)
<1>1. /\ Queue(q) /\ Waits(conns[c], "commit") /\ "commit" \notin Busy(c, q)
      /\ Busy(c, q) \subseteq JobKinds
  BY RunningIs DEF CommitDecoded
<1>2. conns[c].commit # None  BY <1>1 DEF Waits
<1>3. Born(c) /\ Live(c)  BY <1>2 DEF IInv, LocalsInv, Born, Live
<1>4. w.k = conns[c] /\ WorldInv(w, Busy(c, q)) /\ w.jobs = << >>
  BY <1>1, <1>3, WorldIs DEF Born
<1>5. Fine(w, w) /\ w \in Worlds  BY <1>3, LiveIsFine
<1>6. Become(c, v, q) /\ UNCHANGED <<speech, held, created, answers>>
  BY <1>4 DEF CommitDecoded
<1> HIDE DEF w, q
<1>7. WorldInv(v, Busy(c, q))  BY <1>1, <1>2, <1>4, CommittedKeeps
<1>8. Fine(w, v)  BY <1>2, <1>4, <1>5, CommitIsFine
<1> HIDE DEF v
<1> QED  BY <1>3, <1>6, <1>7, <1>8, BecomeIsFine DEF w

\* The decode of the unsealed tail answers the stop, or raises.
LEMMA TailDecodedIsFine ==
  ASSUME IInv, PInv, NEW c \in Conns, NEW outcome, TailDecoded(c, outcome)
  PROVE  Faithful
<1> DEFINE q == Tail(gpu)
           w == World(c)
           tail == UnsealedTail(w.k)
           text == Decoded(tail, outcome)
           closed == [w EXCEPT !.k.phase = "closed"]
           v == IF outcome = "unavailable" THEN closed ELSE AfterTail(w, tail, text)
<1>1. /\ Queue(q) /\ Waits(conns[c], "tail") /\ "tail" \notin Busy(c, q)
      /\ Busy(c, q) \subseteq JobKinds
  BY RunningIs DEF TailDecoded
<1>2. conns[c].phase = "tail"  BY <1>1 DEF Waits
<1>3. "raw" \notin Busy(c, q)
  <2>1. ~Waits(conns[c], "raw")  BY <1>2 DEF Waits
  <2> QED  BY <1>1, <2>1, BusyIsAwaited
<1>4. Busy(c, q) \subseteq {"commit", "partial"}  BY <1>1, <1>3 DEF JobKinds
<1>5. Calm(w, Busy(c, q))  BY <1>1, <1>2, <1>4, WorldIs
<1>6. Become(c, v, q) /\ UNCHANGED <<speech, held, created, answers>>
  BY DEF TailDecoded
<1>7. Live(c) /\ Born(c)  BY <1>2 DEF Live, Open, Born
<1>8. Fine(w, w) /\ w.k = conns[c] /\ w \in Worlds  BY <1>7, LiveIsFine
<1>9. tail \in Audio /\ text \in Audio /\ text \in {UnsealedTail(w.k), << >>}
  <2>1. w.k \in Locals  BY <1>5, CalmWorld
  <2> QED  BY <2>1, TailIsAudio, DecodedType DEF Decoded
<1>10. speech \subseteq Units  BY DEF IInv, TypeOK
<1> HIDE DEF w, q, text
<1>11. AtSeal(w, w)  BY <1>2, <1>8, TailFacts
<1>11a. ToSet(w.k.stable_text) \union ToSet(tail) = ToSet(w.k.gated)
  BY <1>5, <1>10, <1>11, SealFacts
<1> HIDE DEF tail
<1>12. Fine(w, AfterTail(w, tail, text))
  BY <1>5, <1>9, <1>10, <1>11, <1>11a, AfterTailIsFine
<1>13. Fine(w, closed)  BY <1>8, <1>11, RaisedIsFine
<1>14. WorldInv(AfterTail(w, tail, text), Busy(c, q))  BY <1>5, <1>9, AfterTailKeeps
<1>15. WorldInv(closed, Busy(c, q))
  <2>1. "closed" \in Phases \ {"unborn"}  BY DEF Phases
  <2> QED  BY <1>5, <2>1, PhaseKeeps
<1>16. WorldInv(v, Busy(c, q)) /\ Fine(w, v)  BY <1>12, <1>13, <1>14, <1>15
<1> HIDE DEF v
<1> QED  BY <1>1, <1>6, <1>7, <1>16, BecomeIsFine DEF w

\* The fallback decode of the raw audio answers the stop, or raises.
LEMMA RawDecodedIsFine ==
  ASSUME IInv, PInv, NEW c \in Conns, NEW outcome, RawDecoded(c, outcome)
  PROVE  Faithful
<1> DEFINE q == Tail(gpu)
           w == World(c)
           text == Decoded(w.k.raw, outcome)
           closed == [w EXCEPT !.k.phase = "closed"]
           v == IF outcome = "unavailable" THEN closed ELSE AfterRaw(w, text)
<1>1. /\ Queue(q) /\ Waits(conns[c], "raw") /\ "raw" \notin Busy(c, q)
      /\ Busy(c, q) \subseteq JobKinds
  BY RunningIs DEF RawDecoded
<1>2. conns[c].phase = "raw"  BY <1>1 DEF Waits
<1>3. "tail" \notin Busy(c, q)
  <2>1. ~Waits(conns[c], "tail")  BY <1>2 DEF Waits
  <2> QED  BY <1>1, <2>1, BusyIsAwaited
<1>4. Busy(c, q) \subseteq {"commit", "partial"}  BY <1>1, <1>3 DEF JobKinds
<1>5. Calm(w, Busy(c, q))  BY <1>1, <1>2, <1>4, WorldIs
<1>6. Become(c, v, q) /\ UNCHANGED <<speech, held, created, answers>>
  BY DEF RawDecoded
<1>7. Live(c) /\ Born(c)  BY <1>2 DEF Live, Open, Born
<1>8. Fine(w, w) /\ w.k = conns[c] /\ w \in Worlds  BY <1>7, LiveIsFine
<1>9. text \in Audio /\ text \in {w.k.raw, << >>}
  <2>1. w.k \in Locals  BY <1>5, CalmWorld
  <2>2. w.k.raw \in Audio  BY <2>1, AudioFacts
  <2> QED  BY <2>2, DecodedType DEF Decoded
<1>10. speech \subseteq Units  BY DEF IInv, TypeOK
<1> HIDE DEF w, q, text
<1>11. AtSeal(w, w)  BY <1>2, <1>8, TailFacts
<1>12. Fine(w, AfterRaw(w, text))  BY <1>5, <1>9, <1>10, <1>11, AfterRawIsFine
<1>13. Fine(w, closed)  BY <1>8, <1>11, RaisedIsFine
<1>14. WorldInv(AfterRaw(w, text), Busy(c, q))  BY <1>5, <1>9, AfterRawKeeps
<1>15. WorldInv(closed, Busy(c, q))
  <2>1. "closed" \in Phases \ {"unborn"}  BY DEF Phases
  <2> QED  BY <1>5, <2>1, PhaseKeeps
<1>16. WorldInv(v, Busy(c, q)) /\ Fine(w, v)  BY <1>12, <1>13, <1>14, <1>15
<1> HIDE DEF v
<1> QED  BY <1>1, <1>6, <1>7, <1>16, BecomeIsFine DEF w

\* A partial has left, or its socket is dead.
LEMMA PartialSentIsFine ==
  ASSUME IInv, PInv, NEW c \in Conns, PartialSent(c)
  PROVE  Faithful
<1> DEFINE w == World(c)
           t == w.k.partial
           sent == Sync([w EXCEPT !.k.last_partial = t.text])
<1>1. conns[c].partial # None /\ conns[c].partial.stage = "send"  BY DEF PartialSent
<1>2. conns[c] \in Locals /\ LocalsInv(conns[c])  BY DEF IInv, TypeOK
<1>3. Born(c) /\ Live(c)  BY <1>1, <1>2 DEF LocalsInv, Born, Live
<1>4. Queue(gpu)  BY QueueIsQueue
<1>5. \A job \in Busy(c, gpu) : job \in JobKinds /\ Waits(conns[c], job)
  BY <1>4, BusyIsAwaited
<1>6. "partial" \notin Busy(c, gpu)  BY <1>1, <1>5 DEF Waits
<1>7. WorldInv(w, Busy(c, gpu)) /\ w.jobs = << >> /\ w.k = conns[c]
  BY <1>3, <1>4, WorldIs DEF Born
<1>8. Fine(w, w) /\ w \in Worlds  BY <1>3, LiveIsFine
<1>9. t \in Partials /\ t.text \in Audio
  <2>1. t \in Partials  BY <1>1, <1>2, <1>7 DEF Locals
  <2> QED  BY <2>1 DEF Partials
<1>10. \/ Become(c, Over(sent, t), gpu)
       \/ Become(c, Over(w, t), gpu)
  BY <1>7 DEF PartialSent, Over
<1>11. UNCHANGED <<speech, held, created, answers>>  BY DEF PartialSent
<1> HIDE DEF w
<1>12. Fine(w, sent) /\ sent \in Worlds  BY <1>1, <1>7, <1>8, SentIsFine
<1> HIDE DEF t
<1>13. WorldInv(sent, Busy(c, gpu)) /\ sent.jobs = << >>
  BY <1>5, <1>7, <1>9, SentKeeps
<1> HIDE DEF sent
<1>14. WorldInv(Over(sent, t), Busy(c, gpu)) /\ WorldInv(Over(w, t), Busy(c, gpu))
  BY <1>5, <1>6, <1>7, <1>9, <1>13, OverKeeps
<1>15. Fine(w, Over(sent, t)) /\ Fine(w, Over(w, t))
  BY <1>8, <1>9, <1>12, OverIsFine
<1> QED  BY <1>3, <1>10, <1>11, <1>14, <1>15, BecomeIsFine DEF w

\* run_partial after its decode.
LEMMA PartialDecodedIsFine ==
  ASSUME IInv, PInv, NEW c \in Conns, NEW outcome, PartialDecoded(c, outcome)
  PROVE  Faithful
<1> DEFINE q == Tail(gpu)
           w == World(c)
           t == w.k.partial
           text == Decoded(t.audio, outcome)
           shown == t.prefix \o text
           over == Over(w, t)
           sending == Sending(w, shown)
           d == [at |-> t.at, audio |-> t.audio, text |-> text]
           rest(v) == IF t.at = None THEN v ELSE [v EXCEPT !.k.partial_decode = d]
           v == IF outcome = "unavailable" THEN over
                ELSE IF w.k.closing \/ shown \in {<< >>, w.k.last_partial}
                THEN rest(over)
                ELSE rest(sending)
<1>1. /\ Queue(q) /\ Waits(conns[c], "partial") /\ "partial" \notin Busy(c, q)
      /\ Busy(c, q) \subseteq JobKinds
  BY RunningIs DEF PartialDecoded
<1>2. conns[c].partial # None  BY <1>1 DEF Waits
<1>3. conns[c] \in Locals /\ LocalsInv(conns[c])  BY DEF IInv, TypeOK
<1>4. Born(c) /\ Live(c)  BY <1>2, <1>3 DEF LocalsInv, Born, Live
<1>5. w.k = conns[c] /\ WorldInv(w, Busy(c, q)) /\ w.jobs = << >>
  BY <1>1, <1>4, WorldIs DEF Born
<1>6. Fine(w, w) /\ w \in Worlds  BY <1>4, LiveIsFine
<1>7. t \in Partials /\ t # None
  <2>1. t # None  BY <1>2, <1>5
  <2> QED  BY <1>3, <1>5, <2>1 DEF Locals
<1>8. Become(c, v, q) /\ UNCHANGED <<speech, held, created, answers>>
  BY <1>5 DEF PartialDecoded, Over, Sending
<1> HIDE DEF w, q
<1>9. /\ text \in {t.audio, << >>} /\ text \in Audio
      /\ shown \in Audio /\ Said(shown)
  <2>1. PartialsInv(w.k)  BY <1>6 DEF Fine, Sane
  <2> QED  BY <1>6, <1>7, <2>1, ShownIsSaid
<1> HIDE DEF t, text, shown
<1>10. t.at # None => /\ d \in [at: Nat, audio: Audio, text: Audio]
                      /\ d.text \in {d.audio, << >>}
  <2>1. t.audio \in Audio /\ t.at \in Nat \union {None}  BY <1>7 DEF Partials
  <2> QED  BY <1>9, <2>1
<1> HIDE DEF d
<1>11. WorldInv(over, Busy(c, q)) /\ over.jobs = << >> /\ Fine(w, over) /\ over \in Worlds
  BY <1>1, <1>5, <1>6, <1>7, OverKeeps, OverIsFine
<1>12. WorldInv(sending, Busy(c, q)) /\ sending.jobs = << >> /\ Fine(w, sending)
       /\ sending \in Worlds
  <2>1. w.k.partial # None  BY <1>7 DEF t
  <2> QED  BY <1>1, <1>5, <1>6, <1>9, <2>1, SendingKeeps, SendingIsFine
<1> HIDE DEF over, sending
<1>13. WorldInv(rest(over), Busy(c, q)) /\ WorldInv(rest(sending), Busy(c, q))
  BY <1>1, <1>10, <1>11, <1>12, RememberKeeps
<1>14. Fine(w, rest(over)) /\ Fine(w, rest(sending))
  BY <1>10, <1>11, <1>12, RememberIsFine
<1> HIDE DEF rest
<1>15. WorldInv(v, Busy(c, q)) /\ Fine(w, v)  BY <1>11, <1>13, <1>14
<1> HIDE DEF v
<1> QED  BY <1>4, <1>8, <1>15, BecomeIsFine DEF w

-----------------------------------------------------------------------------
(***************************************************************************)
(* Every action is fine: what only changes the locals.                     *)
(***************************************************************************)

\* A step that changes the locals of one live connection, and leaves its world
\* fine.
LEMMA LocalsStepIsFine ==
  ASSUME IInv, PInv, NEW c \in Conns, Live(c), Born(c), NEW k \in Locals, k.phase # "unborn",
         Fine(World(c), [World(c) EXCEPT !.k = k]),
         conns' = [conns EXCEPT ![c] = Settled(k)],
         UNCHANGED <<speech, held, created, journals, ledgers>>,
         \A a \in answers' : SoundFinal(a, speech)
  PROVE  Faithful
<1> DEFINE w == World(c)
           v == [w EXCEPT !.k = k]
<1>1. /\ w.k = conns[c] /\ w.l = ledgers[conns[c].ledger]
      /\ w.j = journals[1] /\ conns[c].journal = 1 /\ conns[c].ledger \in Conns
      /\ w \in Worlds
  BY LiveIsFine
<1>2. Fine(w, v)  OBVIOUS
<1>3. ledgers \in [Conns -> Ledger] /\ journals \in [Journals -> Sessions]
  BY DEF IInv, TypeOK
<1>4. v \in Worlds /\ v.k = k /\ v.l = w.l /\ v.j = w.j
  <2> HIDE DEF w
  <2> QED  BY <1>1 DEF Worlds
<1> HIDE DEF v, w
<1>5. ledgers' = [ledgers EXCEPT ![conns[c].ledger] = v.l]
  BY <1>1, <1>3, <1>4
<1>6. journals' = [journals EXCEPT ![conns[c].journal] = v.j]
  BY <1>1, <1>3, <1>4
<1>7. conns' = [conns EXCEPT ![c] = Settled(v.k)] /\ v.k.phase # "unborn"
      /\ UNCHANGED <<speech, held, created>>
  BY <1>4
<1>8. Fine(World(c), v)  BY <1>2 DEF w
<1> QED  BY <1>4, <1>5, <1>6, <1>7, <1>8, StepIsFine DEF Faithful

\* A duplicate has been acknowledged, and nothing is left to buffer.
LEMMA DuplicateAckedIsFine ==
  ASSUME IInv, PInv, NEW c \in Conns, DuplicateAcked(c)
  PROVE  Faithful
<1> DEFINE w == World(c)
           k == [conns[c] EXCEPT !.phase = "receive"]
           v == [w EXCEPT !.k = k]
<1>1. conns[c].phase = "ack" /\ conns[c].frame = None  BY DEF DuplicateAcked
<1>2. /\ Live(c) /\ Born(c) /\ Fine(w, w) /\ w.k = conns[c] /\ w \in Worlds
  BY <1>1, OpenIsCalm
<1>3. conns \in [Conns -> Locals] /\ conns[c] \in Locals  BY DEF IInv, TypeOK
<1>4. conns' = [conns EXCEPT ![c] = k]
      /\ UNCHANGED <<speech, held, created, journals, ledgers, answers>>
  BY <1>3 DEF DuplicateAcked
<1>5. "receive" \in Phases  BY DEF Phases
<1>6. k \in Locals  BY <1>3, <1>5 DEF Locals
<1>7. SameBuffers(k, conns[c]) /\ k.phase = "receive"  BY <1>3, <1>5, PhaseOnly
<1> HIDE DEF k, w
<1>8. v \in Worlds /\ v.k = k /\ v.l = w.l /\ v.j = w.j  BY <1>2, <1>6 DEF Worlds
<1> HIDE DEF v
<1>9. /\ Trust(w, w, w.k.events, Attack(w.k)) /\ Place(w.k, w.l, w.j, speech)
  BY <1>1, <1>2, OpenFacts
<1>10. w.k.events = << >> /\ Attack(w.k) = w.k.prev
  BY <1>1, <1>2, <1>9 DEF Place, Attack
<1>11. Trust(w, v, << >>, v.k.prev)
  BY <1>2, <1>7, <1>8, <1>9, <1>10, TrustStays DEF SameBuffers
<1>12. /\ v.k.frame = None /\ v.k.events = << >> /\ Len(v.k.staging) < GATE_WINDOW
       /\ v.k.stop = None /\ Synced(v.k, v.l, v.j) /\ v.k.phase = "receive"
  BY <1>1, <1>2, <1>7, <1>8, <1>9, <1>10 DEF Place, SameBuffers, SameAudio, SameRefs, Synced
<1>13. Fine(w, v)  BY <1>11, <1>12, ReceiveIsFine
<1>14. Settled(k) = k /\ k.phase # "unborn"  BY <1>7 DEF Settled
<1>15. \A a \in answers' : SoundFinal(a, speech)  BY <1>4 DEF PInv
<1>16. Fine(World(c), [World(c) EXCEPT !.k = k])  BY <1>13 DEF w, v
<1> QED  BY <1>2, <1>4, <1>6, <1>14, <1>15, <1>16, LocalsStepIsFine

\* The server does not look at a socket's death before its next await ends.
LEMMA SocketDiesIsFine ==
  ASSUME IInv, PInv, NEW c \in Conns, SocketDies(c)
  PROVE  Faithful
<1> DEFINE w == World(c)
           k == [conns[c] EXCEPT !.alive = FALSE]
           v == [w EXCEPT !.k = k]
<1>1. Open(c) /\ Live(c) /\ Born(c)  BY DEF SocketDies, Live, Open, Born
<1>2. Fine(w, w) /\ w.k = conns[c] /\ w \in Worlds  BY <1>1, LiveIsFine
<1>3. conns \in [Conns -> Locals] /\ conns[c] \in Locals  BY DEF IInv, TypeOK
<1>4. conns' = [conns EXCEPT ![c] = k]
      /\ UNCHANGED <<speech, held, created, journals, ledgers, answers>>
  BY <1>3 DEF SocketDies
<1>5. k \in Locals  BY <1>3, ZenonT(60) DEF Locals
<1>6. /\ SamePlace(k, conns[c]) /\ SamePartials(k, conns[c])
      /\ k.stable_text = conns[c].stable_text /\ k.stable_bytes = conns[c].stable_bytes
  BY <1>3, <1>5 DEF Locals, SamePlace, SameAudio, SameRefs, SamePartials
<1> HIDE DEF k, w
<1>7. PartialsInv(w.k)  BY <1>2 DEF Fine, Sane
<1>8. PartialsInv(k)  BY <1>2, <1>6, <1>7 DEF PartialsInv, SamePartials
<1>9. Fine(w, v)
  <2>1. SamePlace(k, w.k) /\ k.stable_text = w.k.stable_text
        /\ k.stable_bytes = w.k.stable_bytes
    BY <1>2, <1>6
  <2> HIDE DEF v
  <2>2. v = [w EXCEPT !.k = k]  BY DEF v
  <2> QED  BY <1>2, <1>5, <1>8, <2>1, <2>2, LocalsAreFine
<1>10. Settled(k) = k /\ k.phase # "unborn"
  BY <1>1, <1>6 DEF Settled, SamePlace, Open, Born
<1>11. \A a \in answers' : SoundFinal(a, speech)  BY <1>4 DEF PInv
<1>12. Fine(World(c), [World(c) EXCEPT !.k = k])  BY <1>9 DEF w
<1> QED  BY <1>1, <1>4, <1>5, <1>10, <1>11, <1>12, LocalsStepIsFine

\* A stop that has work to do: from here on the journal is this socket's alone.
LEMMA StopRequestedIsFine ==
  ASSUME IInv, PInv, NEW c \in Conns, NEW id \in StopIds, NEW captured \in Reports,
         StopRequested(c, id, captured)
  PROVE  Faithful
<1> DEFINE w == World(c)
           k == [conns[c] EXCEPT !.closing = TRUE, !.stop = id, !.captured = captured,
                                 !.phase = "coverage"]
           v == [w EXCEPT !.k = k]
<1>1. conns[c].phase = "receive"  BY DEF StopRequested, Receiving
<1>2. /\ Live(c) /\ Born(c) /\ Fine(w, w) /\ w.k = conns[c] /\ w \in Worlds
      /\ Calm(w, Busy(c, gpu))
  BY <1>1, OpenIsCalm
<1>3. conns \in [Conns -> Locals] /\ conns[c] \in Locals  BY DEF IInv, TypeOK
<1>4. conns' = [conns EXCEPT ![c] = k]
      /\ UNCHANGED <<speech, held, created, journals, ledgers, answers>>
  BY <1>3 DEF StopRequested
<1>5. k \in Locals
  <2>1. "coverage" \in Phases  BY DEF Phases
  <2>2. captured \in {None, Captured}  BY DEF Reports
  <2>3. id \in StopIds \union {None}  OBVIOUS
  <2> QED  BY <1>3, <2>1, <2>2, <2>3, ZenonT(60) DEF Locals
<1>6. id # None  BY NoneAssumption
<1>7. /\ SameAudio(k, conns[c]) /\ SameRefs(k, conns[c]) /\ SamePartials(k, conns[c])
      /\ k.stable_text = conns[c].stable_text /\ k.stable_bytes = conns[c].stable_bytes
      /\ k.events = conns[c].events /\ k.prev = conns[c].prev
      /\ k.phase = "coverage" /\ k.stop = id
  BY <1>3, <1>5 DEF Locals, SameAudio, SameRefs, SamePartials
<1> HIDE DEF k, w
<1>8. v \in Worlds /\ v.k = k /\ v.l = w.l /\ v.j = w.j  BY <1>2, <1>5 DEF Worlds
<1> HIDE DEF v
<1>9. w.k.frame = None /\ w.k.events = << >> /\ Trust(w, w, << >>, w.k.prev)
  BY <1>1, <1>2, PlainFacts
<1>10. Trust(w, v, << >>, v.k.prev)  BY <1>2, <1>7, <1>8, <1>9, TrustStays
<1>11. v.k.frame = None /\ v.k.events = << >>  BY <1>2, <1>7, <1>8, <1>9 DEF SameAudio
<1>12. Attack(v.k) = v.k.prev  BY <1>7, <1>8 DEF Attack
<1>13. Place(v.k, v.l, v.j, speech)  BY <1>6, <1>7, <1>8, <1>11 DEF Place
<1>14. OpenInv(v.k, v.l, v.j, speech)  BY <1>10, <1>11, <1>12, <1>13 DEF OpenInv, Trust
<1>15. Fine(w, v)  BY <1>7, <1>8, <1>10, <1>14 DEF Fine, Trust
<1>16. Settled(k) = k /\ k.phase # "unborn"  BY <1>7 DEF Settled
<1>17. \A a \in answers' : SoundFinal(a, speech)  BY <1>4 DEF PInv
<1>18. Fine(World(c), [World(c) EXCEPT !.k = k])  BY <1>15 DEF w, v
<1> QED  BY <1>2, <1>4, <1>5, <1>16, <1>17, <1>18, LocalsStepIsFine

-----------------------------------------------------------------------------
(***************************************************************************)
(* Every action is fine: the ends of a connection.                         *)
(***************************************************************************)

\* Closing forgets the phase a connection closes from.
LEMMA ClosedAgain ==
  ASSUME NEW k \in Locals
  PROVE  Closed([k EXCEPT !.phase = "closed"]) = Closed(k)
<1> DEFINE e == [k EXCEPT !.phase = "closed"]
<1>1. /\ e.commit = k.commit /\ e.partial = k.partial /\ e.ledger = k.ledger
      /\ e.journal = k.journal /\ e.stop = k.stop
  BY DEF Locals
<1>2. [e EXCEPT !.phase = "closed", !.alive = FALSE, !.closing = TRUE]
        = [k EXCEPT !.phase = "closed", !.alive = FALSE, !.closing = TRUE]
  BY DEF Locals
<1> HIDE DEF e
<1>3. Closed(e) = Closed(k)  BY <1>1, <1>2 DEF Closed
<1> QED  BY <1>3 DEF e

\* A connection that ends without a stop leaves its journal at rest.
LEMMA EndIsFine ==
  ASSUME IInv, PInv, NEW c \in Conns,
         conns[c].phase \in {"receive", "ack", "coverage", "final"},
         NEW k \in Locals, SameAudio(k, conns[c]), SameRefs(k, conns[c]),
         SamePartials(k, conns[c]), k.stable_text = conns[c].stable_text,
         k.stable_bytes = conns[c].stable_bytes,
         conns[c].stop # None => k.stop # None,
         conns' = [conns EXCEPT ![c] = Closed(k)],
         UNCHANGED <<speech, held, created, journals, ledgers>>,
         \A a \in answers' : SoundFinal(a, speech)
  PROVE  Faithful
<1> DEFINE w == World(c)
           e == [k EXCEPT !.phase = "closed"]
           v == [w EXCEPT !.k = e]
<1>1. /\ Live(c) /\ Born(c) /\ Fine(w, w) /\ w.k = conns[c] /\ w \in Worlds
      /\ Calm(w, Busy(c, gpu))
  BY OpenIsCalm
<1>4. "closed" \in Phases  BY DEF Phases
<1>5. e \in Locals  BY <1>4 DEF Locals
<1>6. SameBuffers(e, k) /\ e.phase = "closed"  BY <1>4, PhaseOnly
<1>7. Settled(e) = Closed(k)  BY <1>6, ClosedAgain DEF Settled
<1> HIDE DEF e, w
<1>8. v \in Worlds /\ v.k = e /\ v.l = w.l /\ v.j = w.j  BY <1>1, <1>5 DEF Worlds
<1> HIDE DEF v
<1>9. /\ SameAudio(v.k, w.k) /\ SameRefs(v.k, w.k) /\ SamePartials(v.k, w.k)
      /\ v.k.stable_text = w.k.stable_text /\ v.k.stable_bytes = w.k.stable_bytes
      /\ v.k.stop = k.stop /\ v.k.phase = "closed"
  BY <1>1, <1>6, <1>8 DEF SameBuffers, SameAudio, SameRefs, SamePartials
<1>10. /\ Trust(w, w, w.k.events, Attack(w.k)) /\ Place(w.k, w.l, w.j, speech)
  BY <1>1, OpenFacts
<1>11. Sane(w, v)
  <2>1. Trust(w, v, w.k.events, Attack(w.k))  BY <1>8, <1>9, <1>10, TrustStays
  <2> QED  BY <2>1 DEF Trust
<1>12. ASSUME v.k.stop = None  PROVE Synced(v.k, v.l, v.j) /\ Rest(v.l, v.j, speech)
  <2>1. w.k.stop = None  BY <1>1, <1>9, <1>12
  <2>2. w.k.phase \in {"receive", "ack"}  BY <1>1, <1>10, <2>1 DEF Place
  <2>3. Len(w.k.staging) < GATE_WINDOW /\ Synced(w.k, w.l, w.j) /\ w.k.events = << >>
    BY <1>10, <2>2 DEF Place
  <2>4. Synced(v.k, v.l, v.j)  BY <1>8, <1>9, <2>3 DEF Synced, SameAudio, SameRefs
  <2> DEFINE none == << >>
  <2>5. Books(w.k.gated, w.k.pending, none, none, w.k.staging, FrameSet(w.k), w.l,
              Arrived(w.j.chunks), speech)
    <3>1. Books(w.k.gated, w.k.pending, none, Attack(w.k), w.k.staging, FrameSet(w.k), w.l,
                Arrived(w.j.chunks), speech)
      BY <1>10, <2>3 DEF Trust
    <3> QED  BY <3>1, BooksForget
  <2>6. (Allow # {} \/ w.j.chunks = {}) =>
          Books(w.k.gated, w.k.pending, none, none, w.k.staging, {}, w.l, Arrived(w.j.chunks), speech)
    <3>1. CASE w.k.frame = None  BY <2>5, <3>1 DEF FrameSet
    <3>2. CASE w.k.frame # None
      <4>0. w.j.chunks # {}
        <5>1. w.k.frame \in w.j.chunks  BY <1>10, <3>2 DEF Trust, RawInv, FrameSet
        <5> QED  BY <5>1
      <4>1. /\ w.k.gated \in Audio /\ w.k.pending \in Audio /\ w.k.staging \in Audio
            /\ w.k.frame \in Seqs /\ w.l \in Ledger /\ Arrived(w.j.chunks) \in SUBSET Units
        BY <1>1, <3>2, WorldFields, ArrivedIs DEF Locals, Sessions
      <4>2. none \in Audio /\ none \in Seq(Events(Units))  BY DEF Audio
      <4>3. FrameSet(w.k) = Sent(w.k.frame)  BY <3>2 DEF FrameSet
      <4> HIDE DEF none
      <4>4. Allow # {} =>
              Books(w.k.gated, w.k.pending, none, none, w.k.staging, {}, w.l, Arrived(w.j.chunks), speech)
        BY <2>5, <4>1, <4>2, <4>3, BooksFrame, ZenonT(60)
      <4> QED  BY <4>0, <4>4
    <3> QED  BY <3>1, <3>2
  <2>7. Rest(w.l, w.j, speech)  BY <2>3, <2>6 DEF Rest, Synced
  <2> QED  BY <1>8, <2>4, <2>7
<1>13. Fine(w, v)  BY <1>9, <1>11, <1>12 DEF Fine
<1>14. e.phase # "unborn" /\ conns' = [conns EXCEPT ![c] = Settled(e)]
  BY <1>6, <1>7
<1>15. Fine(World(c), [World(c) EXCEPT !.k = e])  BY <1>13 DEF w, v
<1> QED  BY <1>1, <1>5, <1>14, <1>15, LocalsStepIsFine

\* The disconnect message, a send that raises, or an unknown control message.
LEMMA ConnectionEndsIsFine ==
  ASSUME IInv, PInv, NEW c \in Conns, ConnectionEnds(c)
  PROVE  Faithful
<1> DEFINE k == conns[c]
<1>1. conns \in [Conns -> Locals] /\ k \in Locals  BY DEF IInv, TypeOK
<1>2. /\ conns[c].phase \in {"receive", "ack", "coverage", "final"}
      /\ conns' = [conns EXCEPT ![c] = Closed(k)]
      /\ UNCHANGED <<speech, held, created, journals, ledgers, answers>>
  BY <1>1 DEF ConnectionEnds
<1>3. SameAudio(k, conns[c]) /\ SameRefs(k, conns[c]) /\ SamePartials(k, conns[c])
  BY DEF SameAudio, SameRefs, SamePartials
<1>4. \A a \in answers' : SoundFinal(a, speech)  BY <1>2 DEF PInv
<1>5. k.stable_text = conns[c].stable_text /\ k.stable_bytes = conns[c].stable_bytes
      /\ (conns[c].stop # None => k.stop # None)
  OBVIOUS
<1> HIDE DEF k
<1> QED  BY <1>1, <1>2, <1>3, <1>4, <1>5, EndIsFine

\* What a connection keeps when it ends on a stop.
LEMMA EndedKeeps ==
  ASSUME NEW k \in Locals, NEW id \in StopIds
  PROVE  LET v == [k EXCEPT !.stop = id] IN
         /\ v \in Locals /\ SameAudio(v, k) /\ SameRefs(v, k) /\ SamePartials(v, k)
         /\ v.stable_text = k.stable_text /\ v.stable_bytes = k.stable_bytes
         /\ v.stop # None
<1> DEFINE v == [k EXCEPT !.stop = id]
<1>1. v \in Locals  BY DEF Locals
<1>2. v.stop # None  BY NoneAssumption DEF Locals
<1>3. /\ SameAudio(v, k) /\ SameRefs(v, k) /\ SamePartials(v, k)
      /\ v.stable_text = k.stable_text /\ v.stable_bytes = k.stable_bytes
  BY DEF Locals, SameAudio, SameRefs, SamePartials
<1> QED  BY <1>1, <1>2, <1>3

\* The cached final was sound when it was cached.
LEMMA StopReplayedIsFine ==
  ASSUME IInv, PInv, NEW c \in Conns, NEW id \in StopIds, NEW captured \in Reports,
         StopReplayed(c, id, captured)
  PROVE  Faithful
<1> DEFINE k == [conns[c] EXCEPT !.stop = id]
<1>1. conns \in [Conns -> Locals] /\ conns[c] \in Locals  BY DEF IInv, TypeOK
<1>2. /\ conns' = [conns EXCEPT ![c] = Closed(k)]
      /\ conns[c].phase = "receive" /\ World(c).j.final # None
      /\ answers' = answers \union {World(c).j.final}
      /\ UNCHANGED <<speech, held, created, journals, ledgers>>
  BY <1>1 DEF StopReplayed, Receiving, Ended, Cached
<1>3. /\ k \in Locals /\ SameAudio(k, conns[c]) /\ SameRefs(k, conns[c])
      /\ SamePartials(k, conns[c])
      /\ k.stable_text = conns[c].stable_text /\ k.stable_bytes = conns[c].stable_bytes
      /\ k.stop # None
  BY <1>1, EndedKeeps
<1> HIDE DEF k
<1>4. Fine(World(c), World(c))  BY <1>2, OpenIsCalm
<1>5. SoundFinal(World(c).j.final, speech)
  BY <1>2, <1>4 DEF Fine, Sane, JournalInv
<1>6. \A a \in answers' : SoundFinal(a, speech)  BY <1>2, <1>5 DEF PInv
<1> QED  BY <1>2, <1>3, <1>6, EndIsFine

\* stopExpired: the connection ends on a stop, and says nothing.
LEMMA StopRefusedIsFine ==
  ASSUME IInv, PInv, NEW c \in Conns, NEW id \in StopIds, NEW captured \in Reports,
         StopRefused(c, id, captured)
  PROVE  Faithful
<1> DEFINE k == [conns[c] EXCEPT !.stop = id]
<1>1. conns \in [Conns -> Locals] /\ conns[c] \in Locals  BY DEF IInv, TypeOK
<1>2. /\ conns' = [conns EXCEPT ![c] = Closed(k)] /\ conns[c].phase = "receive"
      /\ UNCHANGED <<speech, held, created, journals, ledgers, answers>>
  BY <1>1 DEF StopRefused, Receiving, Ended
<1>3. /\ k \in Locals /\ SameAudio(k, conns[c]) /\ SameRefs(k, conns[c])
      /\ SamePartials(k, conns[c])
      /\ k.stable_text = conns[c].stable_text /\ k.stable_bytes = conns[c].stable_bytes
      /\ k.stop # None
  BY <1>1, EndedKeeps
<1> HIDE DEF k
<1>4. \A a \in answers' : SoundFinal(a, speech)  BY <1>2 DEF PInv
<1> QED  BY <1>2, <1>3, <1>4, EndIsFine

\* The final that is sent is the one that was found sound when it was cached.
LEMMA FinalSentIsFine ==
  ASSUME IInv, PInv, NEW c \in Conns, FinalSent(c)
  PROVE  Faithful
<1> DEFINE k == conns[c]
<1>1. conns \in [Conns -> Locals] /\ k \in Locals  BY DEF IInv, TypeOK
<1>2. /\ conns[c].phase = "final"
      /\ conns' = [conns EXCEPT ![c] = Closed(k)]
      /\ UNCHANGED <<speech, held, created, journals, ledgers>>
      /\ answers' = answers \/ answers' = answers \union {k.answer}
  BY <1>1 DEF FinalSent
<1>3. SameAudio(k, conns[c]) /\ SameRefs(k, conns[c]) /\ SamePartials(k, conns[c])
  BY DEF SameAudio, SameRefs, SamePartials
<1>4. Fine(World(c), World(c)) /\ World(c).k = k  BY <1>2, OpenIsCalm
<1>5. SoundFinal(k.answer, speech)
  <2>1. Place(World(c).k, World(c).l, World(c).j, speech)  BY <1>2, <1>4, OpenFacts
  <2> QED  BY <1>2, <1>4, <2>1 DEF Place
<1>6. \A a \in answers' : SoundFinal(a, speech)  BY <1>2, <1>5 DEF PInv
<1>7. k.stable_text = conns[c].stable_text /\ k.stable_bytes = conns[c].stable_bytes
      /\ (conns[c].stop # None => k.stop # None)
  OBVIOUS
<1> HIDE DEF k
<1> QED  BY <1>1, <1>2, <1>3, <1>6, <1>7, EndIsFine

-----------------------------------------------------------------------------
(***************************************************************************)
(* Every action is fine: a connection takes up the journal.                *)
(***************************************************************************)

\* What a connection starts with.
LEMMA HydrateTakes ==
  ASSUME NEW c \in Conns, NEW j \in Sessions, NEW id \in Journals
  PROVE  LET k == Hydrate([NewConn(c) EXCEPT !.phase = "receive", !.alive = TRUE], j, id) IN
         /\ k \in Locals /\ k.phase = "receive" /\ k.journal = id
         /\ k.ledger = (IF j.ledger # None THEN j.ledger ELSE c)
         /\ k.gated = j.gated /\ k.pending = j.pending /\ k.staging = j.staging
         /\ k.raw = RawAudio(j.chunks) /\ k.last_partial = j.last_partial
         /\ k.stable_text = j.stable_text /\ k.stable_bytes = j.stable_bytes
         /\ k.frame = None /\ k.events = << >> /\ k.prev = << >> /\ k.stop = None
         /\ k.commit = None /\ k.partial = None /\ k.partial_decode = None
<1> DEFINE n == [NewConn(c) EXCEPT !.phase = "receive", !.alive = TRUE]
           k == Hydrate(n, j, id)
<1>1. n \in Locals
  <2>1. "receive" \in Phases  BY DEF Phases
  <2>2. NewConn(c) \in Locals  BY NewConnIs
  <2> QED  BY <2>1, <2>2, ZenonT(60) DEF Locals
<1>2. /\ n.phase = "receive" /\ n.ledger = c
      /\ n.frame = None /\ n.events = << >> /\ n.prev = << >> /\ n.stop = None
      /\ n.commit = None /\ n.partial = None /\ n.partial_decode = None
  BY DEF NewConn
<1> HIDE DEF n
<1>3. k \in Locals  BY <1>1, HydrateType
<1>4. /\ k.phase = "receive" /\ k.journal = id
      /\ k.ledger = (IF j.ledger # None THEN j.ledger ELSE c)
      /\ k.gated = j.gated /\ k.pending = j.pending /\ k.staging = j.staging
      /\ k.raw = RawAudio(j.chunks) /\ k.last_partial = j.last_partial
      /\ k.stable_text = j.stable_text /\ k.stable_bytes = j.stable_bytes
      /\ k.frame = None /\ k.events = << >> /\ k.prev = << >> /\ k.stop = None
      /\ k.commit = None /\ k.partial = None /\ k.partial_decode = None
  <2> DEFINE raw == RawAudio(j.chunks)
             l == IF j.ledger # None THEN j.ledger ELSE n.ledger
  <2>1. k = [n EXCEPT !.journal = id, !.ledger = l,
                      !.gated = j.gated, !.pending = j.pending,
                      !.raw = raw, !.staging = j.staging,
                      !.gate = j.gate, !.enrolled = j.enrolled,
                      !.last_partial = j.last_partial, !.partial_at = j.partial_at,
                      !.stable_text = j.stable_text, !.stable_bytes = j.stable_bytes]
    BY DEF Hydrate
  <2>2. l = IF j.ledger # None THEN j.ledger ELSE c  BY <1>2
  <2> HIDE DEF raw, l, k
  <2>3. /\ k.phase = n.phase /\ k.journal = id /\ k.ledger = l
        /\ k.gated = j.gated /\ k.pending = j.pending /\ k.staging = j.staging
        /\ k.raw = raw /\ k.last_partial = j.last_partial
        /\ k.stable_text = j.stable_text /\ k.stable_bytes = j.stable_bytes
        /\ k.frame = n.frame /\ k.events = n.events /\ k.prev = n.prev /\ k.stop = n.stop
        /\ k.commit = n.commit /\ k.partial = n.partial /\ k.partial_decode = n.partial_decode
    BY <1>1, <2>1 DEF Locals
  <2> QED  BY <1>2, <2>2, <2>3 DEF raw
<1> QED  BY <1>3, <1>4 DEF n

\* raw_audio() has every chunk that has arrived, once and in order.
LEMMA RawAudioIsRaw ==
  ASSUME NEW k, NEW chunks \in SUBSET Seqs, k.raw = RawAudio(chunks), k.frame = None
  PROVE  RawInv(k, chunks)
<1> DEFINE z == RawAudio(chunks)
           heard == Arrived(chunks)
<1>1. /\ z \in Audio
      /\ \A i \in DOMAIN z : z[i] \in heard
      /\ \A x \in heard : \E i \in DOMAIN z : z[i] = x
      /\ \A i, j \in DOMAIN z : i < j => z[i] < z[j]
  BY RawAudioIs
<1>2. \A x \in heard : x \in Nat
  <2>1. heard \subseteq Units  BY ArrivedIs
  <2> HIDE DEF heard
  <2> QED  BY <2>1, ChunkStartIs DEF Units
<1> HIDE DEF z, heard
<1>3. Said(z)
  <2> SUFFICES ASSUME NEW i \in DOMAIN z, NEW n \in DOMAIN z, i < n
               PROVE  Before(z[i], z[n])
    BY DEF Said
  <2>1. z[i] < z[n] /\ z[i] \in Nat /\ z[n] \in Nat  BY <1>1, <1>2
  <2> QED  BY <2>1 DEF Before
<1>4. ToSet(z) = heard  BY <1>1 DEF ToSet
<1>5. FrameSet(k) = {} /\ AllBefore(heard, {})  BY DEF FrameSet, AllBefore
<1> QED  BY <1>3, <1>4, <1>5 DEF RawInv, z, heard

\* A connection that takes up a journal at rest: what was synced is all there is.
LEMMA AttachIsFine ==
  ASSUME IInv, PInv, NEW c \in Conns, ~Born(c),
         \A d \in Conns : ~Live(d) /\ conns[d].stop = None,
         created' = 1, Attach(c, 1, journals[1]),
         Allow # {} \/ journals[1].chunks = {}
  PROVE  Faithful
<1> DEFINE j == journals[1]
           k == Hydrate([NewConn(c) EXCEPT !.phase = "receive", !.alive = TRUE], j, 1)
           l == LedgerOf(j)
<1>1. /\ conns \in [Conns -> Locals] /\ ledgers \in [Conns -> Ledger]
      /\ journals \in [Journals -> Sessions] /\ 1 \in Journals /\ j \in Sessions
      /\ j.chunks \in SUBSET Seqs
  <2>1. journals \in [Journals -> Sessions] /\ 1 \in Journals
    BY SessionAssumption DEF IInv, TypeOK, Journals
  <2>2. j \in Sessions  BY <2>1
  <2> QED  BY <2>1, <2>2 DEF IInv, TypeOK, Sessions
<1>2. conns[c] = NewConn(c) /\ ledgers[c] = NewLedger  BY DEF PInv, UnbornInv
<1>3. /\ held' = 1 /\ conns' = [conns EXCEPT ![c] = k]
      /\ UNCHANGED <<speech, journals, ledgers, answers>>
  BY <1>2 DEF Attach
<1>4. /\ k \in Locals /\ k.phase = "receive" /\ k.journal = 1
      /\ k.ledger = (IF j.ledger # None THEN j.ledger ELSE c)
      /\ k.gated = j.gated /\ k.pending = j.pending /\ k.staging = j.staging
      /\ k.raw = RawAudio(j.chunks) /\ k.last_partial = j.last_partial
      /\ k.stable_text = j.stable_text /\ k.stable_bytes = j.stable_bytes
      /\ k.frame = None /\ k.events = << >> /\ k.prev = << >> /\ k.stop = None
      /\ k.commit = None /\ k.partial = None /\ k.partial_decode = None
  <2> HIDE DEF j
  <2> QED  BY <1>1, HydrateTakes, ZenonT(120)
<1> HIDE DEF k
<1>5. conns'[c] = k /\ \A d \in Conns \ {c} : conns'[d] = conns[d]
  BY <1>1, <1>3
<1>6. \A d \in Conns \ {c} : ~Live(d)' /\ ~Open(d)' /\ conns'[d].stop = None
  BY <1>5 DEF Live, Open
<1>7. Open(c)'  BY <1>4, <1>5 DEF Open
<1>8. k.ledger \in Conns /\ ledgers'[k.ledger] = l /\ conns'[k.ledger].phase # "unborn"
  <2>1. CASE j.ledger = None
    <3>1. k.ledger = c  BY <1>4, <2>1
    <3> QED  BY <1>2, <1>3, <1>4, <1>5, <2>1, <3>1 DEF LedgerOf
  <2>2. CASE j.ledger # None
    <3>1. k.ledger = j.ledger /\ j.ledger \in Conns  BY <1>1, <1>4, <2>2 DEF Sessions
    <3>2. Born(j.ledger)  BY <1>1, <2>2 DEF PInv, LedgersInv
    <3>3. conns'[j.ledger].phase # "unborn"  BY <1>4, <1>5, <3>1, <3>2 DEF Born
    <3> QED  BY <1>3, <2>2, <3>1, <3>3 DEF LedgerOf
  <2> QED  BY <2>1, <2>2
<1>9. Rest(l, j, speech)
  <2>1. \A d \in Conns : ~Open(d) /\ conns[d].stop = None  BY DEF Live
  <2> QED  BY <2>1 DEF PInv, RestInv
<1>10. JournalInv(j, speech)  BY <1>1 DEF PInv
<1>11. Synced(k, l, j)
  <2>1. j.ledger = None => l = NewLedger  BY DEF LedgerOf
  <2> HIDE DEF l, j
  <2> QED  BY <1>4, <2>1 DEF Synced
<1> HIDE DEF l
<1>12. OpenInv(k, l, j, speech)
  <2>1. FrameSet(k) = {} /\ Attack(k) = << >>  BY <1>4 DEF FrameSet, Attack
  <2>2. Books(k.gated, k.pending, k.events, Attack(k), k.staging, FrameSet(k), l, Arrived(j.chunks), speech)
    <3>1. Books(j.gated, j.pending, << >>, << >>, j.staging, {}, l, Arrived(j.chunks), speech)
      BY <1>9 DEF Rest
    <3> QED  BY <1>4, <2>1, <3>1
  <2>3. RawInv(k, j.chunks)  BY <1>1, <1>4, RawAudioIsRaw
  <2>4. Place(k, l, j, speech)  BY <1>4, <1>9, <1>11 DEF Place, Rest
  <2> QED  BY <2>2, <2>3, <2>4 DEF OpenInv
<1>13. PartialsInv(k)  BY <1>4, <1>10 DEF PartialsInv, JournalInv
<1>14. SameText(k, j)  BY <1>4 DEF SameText
<1>15. \A d \in Conns : Born(d) => conns'[d].phase # "unborn"
  BY <1>4, <1>5 DEF Born
<1>16. UnbornInv'
  <2> SUFFICES ASSUME NEW d \in Conns, ~Born(d)'
               PROVE  conns'[d] = NewConn(d) /\ ledgers'[d] = NewLedger
    BY DEF UnbornInv
  <2>1. d # c  BY <1>4, <1>5 DEF Born
  <2>2. ~Born(d)  BY <1>5, <2>1 DEF Born
  <2> QED  BY <1>3, <1>5, <2>1, <2>2 DEF PInv, UnbornInv
<1>17. LedgersInv'
  <2>1. ASSUME NEW d \in Conns, conns'[d].ledger # d
        PROVE  conns'[conns'[d].ledger].phase # "unborn"
    <3>1. CASE d = c  BY <1>5, <1>8, <3>1
    <3>2. CASE d # c
      <4>1. conns'[d].ledger = conns[d].ledger /\ conns[d].ledger \in Conns
        BY <1>1, <1>5, <3>2 DEF Locals
      <4>2. Born(conns[d].ledger)  BY <2>1, <4>1 DEF PInv, LedgersInv
      <4> QED  BY <1>15, <4>1, <4>2
    <3> QED  BY <3>1, <3>2
  <2>2. ASSUME NEW i \in Journals, journals'[i].ledger # None
        PROVE  conns'[journals'[i].ledger].phase # "unborn"
    <3>1. journals'[i].ledger = journals[i].ledger /\ journals[i].ledger # None
      BY <1>3, <2>2
    <3>2. journals[i].ledger \in Conns  BY <1>1, <3>1 DEF Sessions
    <3>3. Born(journals[i].ledger)  BY <3>1 DEF PInv, LedgersInv
    <3> QED  BY <1>15, <3>1, <3>2, <3>3
  <2> QED  BY <2>1, <2>2 DEF LedgersInv, Born
<1>18. OneJournal'
  <2>1. \A d \in Conns : Born(d)' => conns'[d].journal = 1
    BY <1>4, <1>5 DEF PInv, OneJournal, Born
  <2> QED  BY <1>3, <2>1 DEF OneJournal
<1>19. OneLive'
  <2>1. \A d \in Conns : d = c \/ (~Live(d)' /\ conns'[d].stop = None)  BY <1>6
  <2> QED  BY <2>1 DEF OneLive
<1>20. ConnsInv'
  <2>1. ASSUME NEW d \in Conns \ {c}
        PROVE  PartialsInv(conns'[d]) /\ ~Open(d)' /\ ~Live(d)'
    BY <1>5, <1>6 DEF PInv, ConnsInv
  <2>2. PartialsInv(conns'[c]) /\ SameText(conns'[c], journals'[1])
    BY <1>3, <1>5, <1>13, <1>14
  <2>3. OpenInv(conns'[c], ledgers'[conns'[c].ledger], journals'[1], speech')
    BY <1>3, <1>5, <1>8, <1>12
  <2> QED  BY <1>7, <2>1, <2>2, <2>3 DEF ConnsInv
<1>21. RestInv'  BY <1>7 DEF RestInv
<1>22. /\ \A i \in Journals : JournalInv(journals'[i], speech')
       /\ \A a \in answers' : SoundFinal(a, speech')
  BY <1>3 DEF PInv
<1>23. PInv'  BY <1>16, <1>17, <1>18, <1>19, <1>20, <1>21, <1>22 DEF PInv
<1> QED  BY <1>23 DEF Faithful

\* The peers of these theorems: frames may come in any order and sockets may die
\* and be resumed, but a client resumes only what no other socket still holds,
\* and neither time limit passes.
OnePeerAtATime == Allow \subseteq {"resume", "reorder"}

\* The first connection starts on a new journal.
LEMMA StartIsFine ==
  ASSUME IInv, PInv, NEW c \in Conns, Start(c)
  PROVE  Faithful
<1>1. ~Born(c) /\ created = 0 /\ created' = 1 /\ Attach(c, 1, NewJournal)
  BY DEF Start, Create, Born
<1>2. \A d \in Conns : ~Born(d)  BY <1>1 DEF PInv, OneJournal
<1>3. journals[1] = NewJournal
  <2>1. 1 \in Journals  BY SessionAssumption DEF Journals
  <2> QED  BY <1>1, <2>1 DEF PInv, OneJournal
<1>4. ASSUME NEW d \in Conns  PROVE ~Live(d) /\ conns[d].stop = None
  <2>1. conns[d] = NewConn(d)  BY <1>2 DEF PInv, UnbornInv
  <2>2. conns[d].stop = None  BY <2>1 DEF NewConn
  <2>3. conns[d].commit = None /\ conns[d].partial = None /\ conns[d].phase = "unborn"
    BY <2>1, NewConnIs
  <2> QED  BY <2>2, <2>3 DEF Live, Open
<1>5. journals[1].chunks = {}  BY <1>3 DEF NewJournal
<1> QED  BY <1>1, <1>3, <1>4, <1>5, AttachIsFine

\* A client that neither overlaps, nor leaves a decode behind, nor asks again
\* after a stop, finds the journal at rest.
LEMMA ResumeIsFine ==
  ASSUME OnePeerAtATime, IInv, PInv, NEW c \in Conns, Resume(c)
  PROVE  Faithful
<1>1. ~Born(c) /\ created > 0  BY DEF Resume, Born
<1>2. "expire" \notin Allow /\ "overlap" \notin Allow /\ "orphans" \notin Allow
      /\ "reissue" \notin Allow
  BY DEF OnePeerAtATime
<1>3. held # None /\ created' = created /\ Attach(c, held, journals[held])
  BY <1>2 DEF Resume
<1>4. held = 1 /\ created = 1  BY <1>3 DEF PInv, OneJournal
<1>5. ASSUME NEW d \in Conns  PROVE ~Live(d) /\ conns[d].stop = None
  <2>1. CASE d = c
    <3>1. conns[c] = NewConn(c)  BY <1>1 DEF PInv, UnbornInv
    <3>2. conns[c].stop = None  BY <3>1 DEF NewConn
    <3>3. conns[c].commit = None /\ conns[c].partial = None /\ conns[c].phase = "unborn"
      BY <3>1, NewConnIs
    <3> QED  BY <2>1, <3>2, <3>3 DEF Live, Open
  <2>2. CASE d # c  BY <1>2, <2>2 DEF Resume, PeersAllowResume, Live
  <2> QED  BY <2>1, <2>2
<1>6. Allow # {}  BY DEF Resume, PeersAllowResume
<1> QED  BY <1>1, <1>3, <1>4, <1>5, <1>6, AttachIsFine

-----------------------------------------------------------------------------
(***************************************************************************)
(* The theorems.                                                           *)
(***************************************************************************)

\* Nothing has arrived, and nothing is claimed.
LEMMA NewBooks ==
  Rest(NewLedger, NewJournal, speech) /\ JournalInv(NewJournal, speech)
<1> DEFINE none == << >>
           zero == Unapplied(none) + Len(none) + Cardinality({})
<1>1. Heard(none) = {} /\ EventsInLine(none, speech) /\ Unapplied(none) = 0  BY NoEvents
<1>2. Said(none) /\ ToSet(none) = {}  BY SaidNothing
<1>3. Len(none) = 0 /\ Cardinality({}) = 0  BY FS_EmptySet
<1>4. NewLedger.consumed = 0 /\ NewLedger.covered = 0 /\ NewLedger.frozen = FALSE
  BY DEF NewLedger
<1>5. Line({}, {}, {}, {}, {}, {})  BY DEF Line, AllBefore
<1>6. zero = 0  BY <1>1, <1>3
<1> HIDE DEF zero
<1>7. Accounted(NewLedger, zero, {}, {} \union {} \union {} \union {} \union {}, {}, speech)
  BY <1>3, <1>4, <1>6 DEF Accounted
<1>8. Books(none, none, none, none, none, {}, NewLedger, {}, speech)
  <2> HIDE DEF none
  <2>1. {} \union {} \union {} \union {} \union {} \union {} \subseteq {}  OBVIOUS
  <2>2. Stock(none, none, none, none, none, {}, NewLedger, {}, speech)
    BY <1>1, <1>2, <1>5, <1>7, <2>1 DEF Stock, zero
  <2>3. Segment(none, none, none, NewLedger)
    <3>1. NewLedger.segment_start = Unset  BY DEF NewLedger
    <3>2. Sounds(none) = {}  BY <1>3 DEF Sounds, none
    <3> QED  BY <3>1, <3>2 DEF Segment, Dated, SegmentOpen, none
  <2>4. Numbered(none, none, none, {}, NewLedger, {}, speech)
    <3>1. Passed(none, {}, {}) = 0  BY <1>3 DEF Passed
    <3>2. 0 .. 0 - 1 = {} /\ 1 .. 0 = {}  OBVIOUS
    <3>3. \A m \in 0 .. 0 : From(none, m) = none
      <4>1. From(none, 0) = none  BY <1>3 DEF From, none
      <4> QED  BY <4>1
    <3>4. \A m \in 0 .. Len(none), x \in speech :
            x \in Heard(From(none, m)) => x >= Passed(none, {}, {}) - Unapplied(From(none, m))
      BY <1>1, <1>3, <3>3
    <3> QED  BY <1>1, <1>2, <1>3, <1>4, <3>1, <3>2, <3>4 DEF Numbered
  <2> QED  BY <2>2, <2>3, <2>4 DEF Books
<1>9. /\ NewJournal.gated = none /\ NewJournal.pending = none /\ NewJournal.staging = none
      /\ NewJournal.chunks = {} /\ NewJournal.last_partial = none /\ NewJournal.final = None
  BY DEF NewJournal
<1>10. Len(none) < GATE_WINDOW  BY <1>3, GateAssumption
<1> HIDE DEF none
<1>11. Rest(NewLedger, NewJournal, speech)
  <2>1. Arrived(NewJournal.chunks) = {}  BY <1>9 DEF Arrived
  <2> QED  BY <1>8, <1>9, <1>10, <2>1 DEF Rest, none
<1>12. JournalInv(NewJournal, speech)  BY <1>2, <1>9 DEF JournalInv
<1> QED  BY <1>11, <1>12

\* A dictation begins with true books.
LEMMA InitIsFine ==
  ASSUME Init
  PROVE  PInv
<1>1. /\ held = None /\ created = 0 /\ journals = [j \in Journals |-> NewJournal]
      /\ ledgers = [c \in Conns |-> NewLedger] /\ conns = [c \in Conns |-> NewConn(c)]
      /\ answers = {}
  BY DEF Init
<1>2. ASSUME NEW c \in Conns
      PROVE  /\ ~Born(c) /\ ~Open(c) /\ ~Live(c) /\ conns[c] = NewConn(c)
             /\ conns[c].ledger = c /\ PartialsInv(conns[c])
  <2>1. conns[c] = NewConn(c)  BY <1>1
  <2>2. /\ conns[c].commit = None /\ conns[c].partial = None /\ conns[c].phase = "unborn"
        /\ conns[c].ledger = c
    BY <2>1, NewConnIs
  <2>3. conns[c].last_partial = << >> /\ conns[c].partial_decode = None
    BY <2>1 DEF NewConn
  <2> QED  BY <2>1, <2>2, <2>3, SaidNothing DEF Born, Open, Live, PartialsInv
<1>3. UnbornInv  BY <1>1, <1>2 DEF UnbornInv
<1>4. LedgersInv
  <2>1. \A j \in Journals : journals[j].ledger = None  BY <1>1 DEF NewJournal
  <2> QED  BY <1>2, <2>1 DEF LedgersInv
<1>5. OneJournal  BY <1>1, <1>2 DEF OneJournal
<1>6. OneLive  BY <1>2 DEF OneLive
<1>7. ConnsInv  BY <1>2 DEF ConnsInv
<1>8. 1 \in Journals  BY SessionAssumption DEF Journals
<1>9. RestInv
  <2>1. journals[1] = NewJournal  BY <1>1, <1>8
  <2>2. LedgerOf(NewJournal) = NewLedger  BY DEF LedgerOf, NewJournal
  <2> QED  BY <2>1, <2>2, NewBooks DEF RestInv
<1>10. \A j \in Journals : JournalInv(journals[j], speech)  BY <1>1, NewBooks
<1> QED  BY <1>1, <1>3, <1>4, <1>5, <1>6, <1>7, <1>9, <1>10 DEF PInv

\* A stutter changes nothing.
LEMMA StandingStillIsFine ==
  ASSUME IInv, PInv, UNCHANGED vars
  PROVE  Faithful
<1>1. UNCHANGED <<speech, held, created, journals, ledgers, conns, answers>>  BY DEF vars
<1>2. UnbornInv' /\ LedgersInv' /\ OneJournal' /\ OneLive' /\ ConnsInv' /\ RestInv'
  BY <1>1 DEF PInv, UnbornInv, LedgersInv, OneJournal, OneLive, ConnsInv, RestInv,
              Born, Live, Open, LedgerOf
<1>3. /\ \A j \in Journals : JournalInv(journals'[j], speech')
      /\ \A a \in answers' : SoundFinal(a, speech')
  BY <1>1 DEF PInv
<1> QED  BY <1>2, <1>3 DEF PInv, Faithful

\* Every step of a client is fine.
LEMMA ClientIsFine ==
  ASSUME OnePeerAtATime, IInv, PInv, NEW c \in Conns, Client(c)
  PROVE  Faithful
<1>1. CASE Start(c)  BY <1>1, StartIsFine
<1>2. CASE Resume(c)  BY <1>2, ResumeIsFine
<1>3. CASE SocketDies(c)  BY <1>3, SocketDiesIsFine
<1>4. ASSUME NEW s \in Seqs, AudioFrame(c, s)  PROVE Faithful  BY <1>4, AudioFrameIsFine
<1>5. ASSUME NEW s \in Seqs, LateFrame(c, s)  PROVE Faithful  BY <1>5, LateFrameIsFine
<1>6. ASSUME NEW id \in StopIds, NEW captured \in Reports, StopReplayed(c, id, captured)
      PROVE  Faithful
  BY <1>6, StopReplayedIsFine
<1>7. ASSUME NEW id \in StopIds, NEW captured \in Reports, StopRefused(c, id, captured)
      PROVE  Faithful
  BY <1>7, StopRefusedIsFine
<1>8. ASSUME NEW id \in StopIds, NEW captured \in Reports, StopRequested(c, id, captured)
      PROVE  Faithful
  BY <1>8, StopRequestedIsFine
<1> QED  BY <1>1, <1>2, <1>3, <1>4, <1>5, <1>6, <1>7, <1>8 DEF Client

\* Every step of the event loop is fine.
LEMMA ServerIsFine ==
  ASSUME IInv, PInv, NEW c \in Conns, Server(c)
  PROVE  Faithful
<1>1. CASE DuplicateAcked(c)  BY <1>1, DuplicateAckedIsFine
<1>2. CASE FrameAcked(c)  BY <1>2, FrameAckedIsFine
<1>3. CASE CoverageWaitEnds(c)  BY <1>3, CoverageWaitEndsIsFine
<1>4. ASSUME NEW e \in Embeddings, SpeakerChecked(c, e)  PROVE Faithful
  BY <1>4, SpeakerCheckedIsFine
<1>5. ASSUME NEW e \in Embeddings, TailSpeakerChecked(c, e)  PROVE Faithful
  BY <1>5, TailSpeakerCheckedIsFine
<1>6. CASE PartialAwaited(c)  BY <1>6, PartialAwaitedIsFine
<1>7. CASE BackgroundAwaited(c)  BY <1>7, BackgroundAwaitedIsFine
<1>8. CASE FinalSent(c)  BY <1>8, FinalSentIsFine
<1>9. CASE PartialSent(c)  BY <1>9, PartialSentIsFine
<1> QED  BY <1>1, <1>2, <1>3, <1>4, <1>5, <1>6, <1>7, <1>8, <1>9 DEF Server

\* Every decode that ends is fine.
LEMMA GpuIsFine ==
  ASSUME IInv, PInv, Gpu
  PROVE  Faithful
<1>1. ASSUME NEW c \in Conns, NEW outcome \in DecodeOutcomes, CommitDecoded(c, outcome)
      PROVE  Faithful
  BY <1>1, CommitDecodedIsFine
<1>2. ASSUME NEW c \in Conns, NEW outcome \in DecodeOutcomes, PartialDecoded(c, outcome)
      PROVE  Faithful
  BY <1>2, PartialDecodedIsFine
<1>3. ASSUME NEW c \in Conns, NEW outcome \in DecodeOutcomes, TailDecoded(c, outcome)
      PROVE  Faithful
  BY <1>3, TailDecodedIsFine
<1>4. ASSUME NEW c \in Conns, NEW outcome \in DecodeOutcomes, RawDecoded(c, outcome)
      PROVE  Faithful
  BY <1>4, RawDecodedIsFine
<1> QED  BY <1>1, <1>2, <1>3, <1>4 DEF Gpu

\* Every step is fine.
LEMMA NextIsFine ==
  ASSUME OnePeerAtATime, IInv, PInv, [Next]_vars
  PROVE  Faithful
<1>1. ASSUME NEW c \in Conns, Client(c)  PROVE Faithful  BY <1>1, ClientIsFine
<1>2. ASSUME NEW c \in Conns, Server(c)  PROVE Faithful  BY <1>2, ServerIsFine
<1>3. ASSUME NEW c \in Conns, ReceiveTimesOut(c)  PROVE Faithful
  BY <1>3, ReceiveTimesOutIsFine
<1>4. ASSUME NEW c \in Conns, ConnectionEnds(c)  PROVE Faithful
  BY <1>4, ConnectionEndsIsFine
<1>5. ~\E j \in Journals : StopResultExpires(j)
  BY DEF StopResultExpires, OnePeerAtATime
<1>6. CASE Gpu  BY <1>6, GpuIsFine
<1>7. CASE Finished \/ UNCHANGED vars  BY <1>7, StandingStillIsFine DEF Finished
<1> QED  BY <1>1, <1>2, <1>3, <1>4, <1>5, <1>6, <1>7 DEF Next

\* While sockets hand the journal over one at a time, the books of the dictation
\* stay true in every state.
THEOREM DictationInvariant ==
  ASSUME OnePeerAtATime
  PROVE  Spec => [](IInv /\ PInv)
<1>1. Init => IInv /\ PInv  BY InitIsInv, InitIsFine
<1>2. IInv /\ PInv /\ [Next]_vars => (IInv /\ PInv)'
  BY NextKeeps, NextIsFine DEF Faithful
<1> QED  BY <1>1, <1>2, PTL DEF Spec

\* recognizedThroughSeq: a final whose frontier reaches what the client captured
\* was decoded from audio that has every unit of speech in it.
THEOREM Promise ==
  ASSUME OnePeerAtATime
  PROVE  Spec => []CoveredFinalReadsAllSpeech
<1>1. IInv /\ PInv => CoveredFinalReadsAllSpeech
  BY DEF PInv, SoundFinal, CoveredFinalReadsAllSpeech
<1> QED  BY <1>1, DictationInvariant, PTL

\* No transcript says a unit of audio twice, whether it joins commits and a tail,
\* the raw audio, or the last partial that was sent.
THEOREM SaidOnce ==
  ASSUME OnePeerAtATime
  PROVE  Spec => []NothingSaidTwice
<1>1. ASSUME IInv, PInv  PROVE NothingSaidTwice
  <2> SUFFICES ASSUME NEW a \in answers  PROVE IsInjective(a.text)
    BY DEF NothingSaidTwice
  <2>1. a.text \in Audio  BY <1>1 DEF IInv, TypeOK, Finals
  <2>2. Said(a.text)  BY <1>1 DEF PInv, SoundFinal
  <2> DEFINE z == a.text
  <2>3. DOMAIN z = 1 .. Len(z) /\ Len(z) \in Nat  BY <2>1 DEF Audio
  <2> HIDE DEF z
  <2>4. \A i, n \in DOMAIN z : i < n => z[i] # z[n]  BY <2>2 DEF Said, Before, z
  <2>5. \A i, n \in DOMAIN z : i = n \/ i < n \/ n < i  BY <2>3
  <2>6. \A i, n \in DOMAIN z : z[i] = z[n] => i = n  BY <2>4, <2>5
  <2> QED  BY <2>6 DEF IsInjective, z
<1> QED  BY <1>1, DictationInvariant, PTL

\* Of a client that sends its chunks in order, a covered final has read all the
\* speech, and every transcript says it once and in order.
THEOREM SoundFinals ==
  ASSUME OnePeerAtATime, "reorder" \notin Allow
  PROVE  Spec => []FinalsAreSound
<1>1. IInv /\ PInv => SaidInOrder
  BY DEF PInv, SoundFinal, Said, Before, SaidInOrder
<1>2. CoveredFinalReadsAllSpeech /\ NothingSaidTwice /\ SaidInOrder => FinalsAreSound
  BY DEF FinalsAreSound
<1> QED  BY <1>1, <1>2, DictationInvariant, Promise, SaidOnce, PTL

\* The shared ledger never counts more audio than the journal has accepted, and
\* the recognized prefix is the decode of exactly the bytes it claims.
THEOREM TrueBuffers ==
  ASSUME OnePeerAtATime
  PROVE  Spec => []BuffersAreTrue
<1>1. ASSUME IInv, PInv  PROVE LedgerNeverOutrunsAudio
  <2> SUFFICES ASSUME NEW c \in Conns, Open(c)
               PROVE  ledgers[conns[c].ledger].consumed + Unapplied(conns[c].events)
                        + Len(conns[c].staging) <= Cardinality(Arrived(journals[conns[c].journal].chunks))
    BY DEF LedgerNeverOutrunsAudio
  <2> DEFINE k == conns[c]
             l == ledgers[k.ledger]
             C == Arrived(journals[1].chunks)
             U == Unapplied(k.events)
             n == Len(k.staging)
             f == Cardinality(FrameSet(k))
             m == Cardinality(C)
  <2>1. k.journal = 1  BY <1>1 DEF PInv, OneJournal, Open, Born
  <2>2. OpenInv(k, l, journals[1], speech)  BY <1>1 DEF PInv, ConnsInv
  <2>3. l.consumed + (U + n + f) <= m
    BY <2>2 DEF OpenInv, Books, Stock, Accounted
  <2>4. k \in Locals /\ 1 \in Journals  BY <1>1, SessionAssumption DEF IInv, TypeOK, Journals
  <2>5. l \in Ledger /\ C \in SUBSET Units
    <3>1. k.ledger \in Conns  BY <2>4 DEF Locals
    <3>2. journals[1] \in Sessions  BY <1>1, <2>4 DEF IInv, TypeOK
    <3>3. journals[1].chunks \in SUBSET Seqs  BY <3>2 DEF Sessions
    <3> QED  BY <1>1, <3>1, <3>3, ArrivedIs DEF IInv, TypeOK
  <2>6. l.consumed \in Nat  BY <2>5, LedgerFields
  <2>7. U \in Nat /\ n \in Nat /\ m \in Nat
    <3>1. /\ k.gated \in Audio /\ k.pending \in Audio /\ k.events \in Seq(Events(Units))
          /\ k.prev \in Audio /\ k.staging \in Audio
      BY <2>4 DEF Locals
    <3> HIDE DEF k, l, C
    <3> QED  BY <2>5, <3>1, BooksFacts
  <2>8. f \in Nat
    <3> DEFINE F == FrameSet(k)
               x == k.frame
    <3>1. F = {} \/ (x \in Seqs /\ F = Sent(x))  BY <2>4 DEF FrameSet, Locals
    <3>2. Cardinality({}) = 0  BY FS_EmptySet
    <3> HIDE DEF F, x
    <3>3. CASE F = {}  BY <3>2, <3>3 DEF F
    <3>4. CASE x \in Seqs /\ F = Sent(x)
      <4>1. Cardinality(Sent(x)) \in Nat
        <5>1. x \in Seqs  BY <3>4
        <5>2. Cardinality(Sent(x)) = Len(Payload(x)) /\ Len(Payload(x)) \in Nat  BY <5>1, SentIs
        <5> QED  BY <5>2
      <4> QED  BY <3>4, <4>1 DEF F
    <3> QED  BY <3>1, <3>3, <3>4
  <2> HIDE DEF U, n, f, m, l, k, C
  <2>9. l.consumed + U + n <= m  BY <2>3, <2>6, <2>7, <2>8
  <2> QED  BY <2>1, <2>9 DEF l, U, n, m, k, C
<1>2. StablePrefixIsDecoded /\ LedgerNeverOutrunsAudio => BuffersAreTrue
  BY DEF BuffersAreTrue
<1> QED  BY <1>1, <1>2, DictationInvariant, StablePrefix, PTL

\* append_gated, commit_segment and the gate's own pending_audio do not drift apart: the
\* ledger has a segment open exactly when there is audio for it, whatever a replayed
\* attack buffer, a boundary or a speaker check does to either of the two.
THEOREM OpenSegment ==
  ASSUME OnePeerAtATime
  PROVE  Spec => []SegmentIsPendingAudio
<1>1. ASSUME IInv, PInv  PROVE SegmentIsPendingAudio
  <2> SUFFICES ASSUME NEW c \in Conns, Open(c)
               PROVE  conns[c].pending # << >> <=> SegmentOpen(ledgers[conns[c].ledger])
    BY DEF SegmentIsPendingAudio
  <2>1. OpenInv(conns[c], ledgers[conns[c].ledger], journals[1], speech)
    BY <1>1 DEF PInv, ConnsInv
  <2> QED  BY <2>1 DEF OpenInv, Books, Segment
<1> QED  BY <1>1, DictationInvariant, PTL

\* Of a dictation on one socket whose frames come in order, every chunk below
\* recognizedThroughSeq is silence or in the decoded audio, also in the finals that
\* cover only a part of what was captured.
THEOREM NamedChunks ==
  ASSUME Allow = {}
  PROVE  Spec => []FrontierNamesDecodedChunks
<1>1. OnePeerAtATime  BY DEF OnePeerAtATime
<1>2. IInv /\ PInv => FrontierNamesDecodedChunks
  BY DEF PInv, SoundFinal, Names, FrontierNamesDecodedChunks
<1> QED  BY <1>1, <1>2, DictationInvariant, PTL

-----------------------------------------------------------------------------
(***************************************************************************)
(* One transcript per stop.  What a step of a connection does to the       *)
(* answer its journal caches, for any Allow: it leaves it alone, or it is  *)
(* the last one of the stop handler and puts its own answer there.         *)
(***************************************************************************)

\* The stop handler is at work on this connection.
InStop(k) ==
  \/ k.phase \in {"coverage", "waitPartial", "tailEmbed", "seal", "tail", "raw"}
  \/ k.phase = "embed" /\ k.then = "stop"

Untouched(w, v) ==
  /\ v.k.stop = w.k.stop /\ v.k.journal = w.k.journal
  /\ v.k.answer = w.k.answer /\ v.j.final = w.j.final

\* What decides whether the stop handler is at work stays too.
Onward(w, v) == Untouched(w, v) /\ v.k.phase = w.k.phase /\ v.k.then = w.k.then

Answered(w, v) ==
  /\ v.k.stop = w.k.stop /\ v.k.journal = w.k.journal /\ v.k.phase = "final"
  /\ v.k.answer # None /\ v.k.answer.stop = w.k.stop /\ v.j.final = v.k.answer

StopGoesOn(w, v) == (Untouched(w, v) /\ InStop(v.k)) \/ Answered(w, v)

\* From one await of a connection to the next, with what it was waiting for.
Goes(w, then, v) ==
  IF then = "stop" THEN StopGoesOn(w, v)
  ELSE Untouched(w, v) /\ v.k.phase \in {"receive", "embed"} /\ ~InStop(v.k)

\* What goes on after a step that leaves the answer alone goes on from before it.
LEMMA AfterOnward ==
  ASSUME NEW w, NEW u, NEW v, NEW then, Onward(w, u) \/ Untouched(w, u)
  PROVE  /\ StopGoesOn(u, v) => StopGoesOn(w, v)
         /\ Goes(u, then, v) => Goes(w, then, v)
BY DEF Onward, Untouched, StopGoesOn, Answered, Goes

\* A change of phase.
LEMMA PhaseOnward ==
  ASSUME NEW w \in Worlds, NEW p \in Phases
  PROVE  LET v == [w EXCEPT !.k.phase = p] IN
         Untouched(w, v) /\ v.k.phase = p /\ v.k.then = w.k.then
<1> DEFINE v == [w EXCEPT !.k.phase = p]
<1>1. v.j = w.j /\ v.k = [w.k EXCEPT !.phase = p] /\ w.k \in Locals
  BY PhaseMoves, WorldFields
<1> HIDE DEF v
<1>2. /\ v.k.stop = w.k.stop /\ v.k.journal = w.k.journal /\ v.k.answer = w.k.answer
      /\ v.k.phase = p /\ v.k.then = w.k.then
  BY <1>1 DEF Locals
<1> QED  BY <1>1, <1>2 DEF Untouched, v

\* The stop handler, from its coverage wait to its answer.
LEMMA AnswerGoesOn ==
  ASSUME NEW w, NEW busy, Calm(w, busy), NEW text \in Audio,
         NEW through \in Nat \union {None}, NEW read \in SUBSET Units
  PROVE  StopGoesOn(w, Answer(w, text, through, read))
<1> DEFINE final == [stop |-> w.k.stop, text |-> text,
                     through |-> IF w.k.complete THEN through ELSE None,
                     fresh |-> TRUE, read |-> read]
           k == [w.k EXCEPT !.answer = final, !.phase = "final"]
           j == [w.j EXCEPT !.final = final]
           v == Answer(w, text, through, read)
<1>1. w \in Worlds /\ w.k \in Locals /\ w.j \in Sessions  BY CalmWorld
<1>2. final.stop = w.k.stop  OBVIOUS
<1>3. v.k = k /\ v.j = j  BY <1>1 DEF Answer, Worlds
<1>4. v.k.answer # None  
  <2>1. Calm(v, busy)  BY AnswerKeeps
  <2>2. PhaseInv(v.k)  BY <2>1, CalmWorld
  <2>3. v.k.phase = "final"  BY <1>1, <1>3 DEF Locals
  <2> QED  BY <2>2, <2>3 DEF PhaseInv
<1> HIDE DEF final
<1>5. /\ k.stop = w.k.stop /\ k.journal = w.k.journal /\ k.phase = "final" /\ k.answer = final
      /\ j.final = final
  BY <1>1 DEF Locals, Sessions
<1> HIDE DEF k, j, v
<1>6. Answered(w, v)  BY <1>2, <1>3, <1>4, <1>5 DEF Answered
<1> QED  BY <1>6 DEF StopGoesOn, v

LEMMA SubmitGoesOn ==
  ASSUME NEW w \in Worlds, NEW p \in {"tail", "raw"}
  PROVE  StopGoesOn(w, [w EXCEPT !.k.phase = p, !.jobs = Append(@, p)])
<1> DEFINE k == [w.k EXCEPT !.phase = p]
           v == [w EXCEPT !.k.phase = p, !.jobs = Append(@, p)]
<1>1. w.k \in Locals  BY WorldFields
<1>2. v.k = k /\ v.j = w.j  BY DEF Worlds
<1>3. /\ k.stop = w.k.stop /\ k.journal = w.k.journal /\ k.answer = w.k.answer
      /\ k.phase = p
  BY <1>1 DEF Locals
<1> HIDE DEF k, v
<1>4. Untouched(w, v) /\ InStop(v.k)  BY <1>2, <1>3 DEF Untouched, InStop
<1> QED  BY <1>4 DEF StopGoesOn, v

LEMMA AfterRawGoesOn ==
  ASSUME NEW w, NEW busy, Calm(w, busy), NEW text \in Audio
  PROVE  StopGoesOn(w, AfterRaw(w, text))
<1>1. w \in Worlds /\ w.k \in Locals  BY CalmWorld
<1>2. Frontier(w) \in Nat  BY <1>1, FrontierOfWorld
<1>3. ToSet(w.k.raw) \in SUBSET Units /\ w.k.last_partial \in Audio /\ {} \in SUBSET Units
  BY <1>1, AudioFacts
<1>4. StopGoesOn(w, Answer(w, text, Frontier(w), ToSet(w.k.raw)))
  BY <1>2, <1>3, AnswerGoesOn
<1>5. StopGoesOn(w, Answer(w, w.k.last_partial, None, {}))
  BY <1>3, AnswerGoesOn
<1> QED  BY <1>4, <1>5 DEF AfterRaw

LEMMA AfterTailGoesOn ==
  ASSUME NEW w, NEW busy, Calm(w, busy), NEW tail \in Audio, NEW tail_text \in Audio
  PROVE  StopGoesOn(w, AfterTail(w, tail, tail_text))
<1> DEFINE text == w.k.stable_text \o tail_text
           read == ToSet(w.k.stable_text) \union ToSet(tail)
<1>1. w \in Worlds /\ w.k \in Locals  BY CalmWorld
<1>2. Frontier(w) \in Nat  BY <1>1, FrontierOfWorld
<1>3. w.k.last_partial \in Audio /\ {} \in SUBSET Units /\ w.k.stable_text \in Audio
  BY <1>1, AudioFacts
<1>4. text \in Audio /\ read \in SUBSET Units  BY <1>3, ConcatProperties DEF Audio, ToSet
<1> HIDE DEF text, read
<1>5. StopGoesOn(w, Answer(w, text, Frontier(w), read))  BY <1>2, <1>4, AnswerGoesOn
<1>6. StopGoesOn(w, Answer(w, w.k.last_partial, None, {}))
  BY <1>3, AnswerGoesOn
<1>7. StopGoesOn(w, [w EXCEPT !.k.phase = "raw", !.jobs = Append(@, "raw")])
  BY <1>1, SubmitGoesOn
<1>8. AfterTail(w, tail, tail_text)
        \in {Answer(w, text, Frontier(w), read),
             Answer(w, w.k.last_partial, None, {}),
             [w EXCEPT !.k.phase = "raw", !.jobs = Append(@, "raw")]}
  BY DEF AfterTail, text, read
<1> QED  BY <1>5, <1>6, <1>7, <1>8

LEMMA SealTailGoesOn ==
  ASSUME NEW w, NEW busy, Calm(w, busy)
  PROVE  StopGoesOn(w, SealTail(w))
<1> DEFINE submitted == [w EXCEPT !.k.phase = "tail", !.jobs = Append(@, "tail")]
           reused == /\ w.k.partial_decode # None
                     /\ w.k.partial_decode.at = w.k.stable_bytes
                     /\ w.k.partial_decode.audio = UnsealedTail(w.k)
<1>1. w \in Worlds /\ w.k \in Locals /\ << >> \in Audio  BY CalmWorld DEF Audio
<1>2. StopGoesOn(w, submitted)  BY <1>1, SubmitGoesOn
<1>3. w.k.partial_decode # None =>
        w.k.partial_decode.audio \in Audio /\ w.k.partial_decode.text \in Audio
  BY <1>1 DEF Locals
<1>4. \A tail, t \in Audio : StopGoesOn(w, AfterTail(w, tail, t))  BY AfterTailGoesOn
<1>5. \/ /\ reused
         /\ SealTail(w) = AfterTail(w, w.k.partial_decode.audio, w.k.partial_decode.text)
      \/ SealTail(w) = submitted
      \/ SealTail(w) = AfterTail(w, << >>, << >>)
  BY DEF SealTail
<1> HIDE DEF submitted
<1> QED  BY <1>1, <1>2, <1>3, <1>4, <1>5

LEMMA SealGoesOn ==
  ASSUME NEW w, NEW busy, Calm(w, busy)
  PROVE  StopGoesOn(w, Seal(w))
<1> DEFINE v == [w EXCEPT !.k.phase = "seal"]
<1>1. w \in Worlds /\ "seal" \in Phases  BY CalmWorld DEF Phases
<1>2. Untouched(w, v) /\ v.k.phase = "seal"  BY <1>1, PhaseOnward
<1> HIDE DEF v
<1>3. StopGoesOn(w, v)  BY <1>2 DEF StopGoesOn, InStop
<1> QED  BY <1>3, SealTailGoesOn DEF Seal, v

\* Whatever becomes of the last segment.
LEMMA DecideTailGoesOn ==
  ASSUME NEW w, NEW busy, Calm(w, busy)
  PROVE  /\ StopGoesOn(w, AcceptFinalTail(w))
         /\ StopGoesOn(w, RejectFinalTail(w))
         /\ StopGoesOn(w, DecideTail(w))
<1>1. w \in Worlds /\ w.k \in Locals  BY CalmWorld
<1>2. ASSUME NEW u, Calm(u, busy)  PROVE Onward(u, ClearPending(u))
  <2> DEFINE k == [u.k EXCEPT !.pending = << >>]
             v == ClearPending(u)
  <2>1. u \in Worlds /\ u.k \in Locals  BY <1>2, CalmWorld
  <2>2. v.k = k /\ v.j = u.j  BY <2>1 DEF ClearPending, Worlds
  <2>3. /\ k.stop = u.k.stop /\ k.journal = u.k.journal /\ k.answer = u.k.answer
        /\ k.phase = u.k.phase /\ k.then = u.k.then
    BY <2>1 DEF Locals
  <2> HIDE DEF k, v
  <2> QED  BY <2>2, <2>3 DEF Onward, Untouched, v
<1>3. StopGoesOn(w, AcceptFinalTail(w))
  <2> DEFINE kept == KeepSegment(w)
             synced == Sync(kept)
             v == ClearPending(synced)
  <2>1. AcceptFinalTail(w) = Seal(v)
    BY Zenon DEF AcceptFinalTail, KeepSegment, ClearPending
  <2>2. Onward(w, kept) /\ Calm(kept, busy)
    <3> DEFINE k == [w.k EXCEPT !.gated = @ \o w.k.pending]
    <3>1. kept.k = k /\ Calm(kept, busy)  BY KeepSegmentKeeps
    <3>2. kept.j = w.j  BY <1>1 DEF KeepSegment, Worlds
    <3>3. /\ k.stop = w.k.stop /\ k.journal = w.k.journal /\ k.answer = w.k.answer
          /\ k.phase = w.k.phase /\ k.then = w.k.then
      BY <1>1 DEF Locals
    <3> HIDE DEF k, kept
    <3> QED  BY <3>1, <3>2, <3>3 DEF Onward, Untouched
  <2> HIDE DEF kept
  <2>3. Onward(kept, synced) /\ Calm(synced, busy)
    <3>1. kept \in Worlds  BY <2>2, CalmWorld
    <3>2. synced.k = kept.k /\ synced.j.final = kept.j.final  BY <3>1, SyncCopies
    <3> QED  BY <2>2, <3>2, CalmSync DEF Onward, Untouched
  <2> HIDE DEF synced
  <2>4. Onward(synced, v) /\ Calm(v, busy)  BY <1>2, <2>3, ClearPendingKeeps
  <2> HIDE DEF v
  <2>5. StopGoesOn(v, Seal(v))  BY <2>4, SealGoesOn
  <2>6. StopGoesOn(synced, Seal(v))  BY <2>4, <2>5, AfterOnward
  <2>7. StopGoesOn(kept, Seal(v))  BY <2>3, <2>6, AfterOnward
  <2> QED  BY <2>1, <2>2, <2>7, AfterOnward
<1>4. StopGoesOn(w, RejectFinalTail(w))
  <2> DEFINE dropped == [w EXCEPT !.l = DiscardSegment(@)]
             v == ClearPending(dropped)
  <2>1. RejectFinalTail(w) = Seal(v)
    BY <1>1 DEF RejectFinalTail, ClearPending, Worlds
  <2>2. dropped.k = w.k /\ dropped.j = w.j  BY <1>1 DEF Worlds
  <2>3. Calm(dropped, busy)  BY DropSegmentKeeps
  <2> HIDE DEF dropped
  <2>4. Onward(w, dropped)  BY <2>2 DEF Onward, Untouched
  <2>5. Onward(dropped, v) /\ Calm(v, busy)  BY <1>2, <2>3, ClearPendingKeeps
  <2> HIDE DEF v
  <2>6. StopGoesOn(v, Seal(v))  BY <2>5, SealGoesOn
  <2>7. StopGoesOn(dropped, Seal(v))  BY <2>5, <2>6, AfterOnward
  <2> QED  BY <2>1, <2>4, <2>7, AfterOnward
<1>5. StopGoesOn(w, [w EXCEPT !.k.phase = "tailEmbed"])
  <2> DEFINE v == [w EXCEPT !.k.phase = "tailEmbed"]
  <2>1. "tailEmbed" \in Phases  BY DEF Phases
  <2>2. Untouched(w, v) /\ v.k.phase = "tailEmbed"  BY <1>1, <2>1, PhaseOnward
  <2> HIDE DEF v
  <2>3. StopGoesOn(w, v)  BY <2>2 DEF StopGoesOn, InStop
  <2> QED  BY <2>3 DEF v
<1>6. StopGoesOn(w, DecideTail(w))  BY <1>3, <1>5, SealGoesOn DEF DecideTail
<1> QED  BY <1>3, <1>4, <1>6

\* From the end of the coverage wait to the next await of the stop handler.
LEMMA FlushStagingGoesOn ==
  ASSUME NEW w, NEW busy, Calm(w, busy)
  PROVE  StopGoesOn(w, FlushStaging(w))
<1> DEFINE flushed == IF w.k.staging = << >> THEN w ELSE Flushed(w)
           waits == [flushed EXCEPT !.k.phase = "waitPartial"]
<1>1. w \in Worlds /\ w.k \in Locals  BY CalmWorld
<1>2. Calm(flushed, busy)  BY FlushedKeeps
<1>3. FlushStaging(w) = IF flushed.k.partial # None /\ FINAL_WAIT_PARTIAL
                        THEN waits ELSE DecideTail(flushed)
  BY DEF FlushStaging, Flushed
<1>4. Onward(w, flushed)
  <2> DEFINE k == [w.k EXCEPT !.staging = << >>, !.pending = @ \o w.k.staging]
  <2>1. Flushed(w).k = k /\ Flushed(w).j = w.j  BY <1>1 DEF Flushed, Worlds
  <2>2. /\ k.stop = w.k.stop /\ k.journal = w.k.journal /\ k.answer = w.k.answer
        /\ k.phase = w.k.phase /\ k.then = w.k.then
    BY <1>1 DEF Locals
  <2> HIDE DEF k
  <2> QED  BY <2>1, <2>2 DEF Onward, Untouched
<1> HIDE DEF flushed
<1>5. StopGoesOn(flushed, waits)
  <2>1. flushed \in Worlds /\ "waitPartial" \in Phases  BY <1>2, CalmWorld DEF Phases
  <2>2. Untouched(flushed, waits) /\ waits.k.phase = "waitPartial"  BY <2>1, PhaseOnward
  <2> HIDE DEF waits
  <2> QED  BY <2>2 DEF StopGoesOn, InStop
<1>6. StopGoesOn(flushed, DecideTail(flushed))  BY <1>2, DecideTailGoesOn
<1>7. StopGoesOn(flushed, FlushStaging(w))
  <2> HIDE DEF waits
  <2> QED  BY <1>3, <1>5, <1>6
<1> QED  BY <1>4, <1>7, AfterOnward

\* Submitting background decodes.
LEMMA BackgroundGoesOn ==
  ASSUME NEW w \in Worlds, NEW due
  PROVE  Onward(w, Background(w, due))
<1> DEFINE u == MaybeSendPartial(w, due)
           v == MaybeCommitStablePrefix(u)
<1>1. u \in Worlds /\ Onward(w, u)
  <2> DEFINE k == [w.k EXCEPT !.partial = NewPartial(w.k)]
  <2>1. \/ u = w
        \/ u \in Worlds /\ u.j = w.j /\ u.k = [w.k EXCEPT !.partial = NewPartial(w.k)]
    BY MaybeSendPartialDoes, ZenonT(60)
  <2>2. w.k \in Locals  BY WorldFields
  <2>3. /\ k.stop = w.k.stop /\ k.journal = w.k.journal /\ k.answer = w.k.answer
        /\ k.phase = w.k.phase /\ k.then = w.k.then
    BY <2>2 DEF Locals
  <2> HIDE DEF u
  <2>4. u = w \/ (u \in Worlds /\ u.j = w.j /\ u.k = k)  BY <2>1
  <2> HIDE DEF k
  <2> QED  BY <2>3, <2>4 DEF Onward, Untouched
<1> HIDE DEF u
<1>2. Onward(u, v)
  <2> DEFINE k == [u.k EXCEPT !.commit = NewCommit(u.k)]
  <2>1. \/ v = u
        \/ v.j = u.j /\ v.k = [u.k EXCEPT !.commit = NewCommit(u.k)]
    BY <1>1, MaybeCommitDoes, ZenonT(60)
  <2>2. u.k \in Locals  BY <1>1, WorldFields
  <2>3. /\ k.stop = u.k.stop /\ k.journal = u.k.journal /\ k.answer = u.k.answer
        /\ k.phase = u.k.phase /\ k.then = u.k.then
    BY <2>2 DEF Locals
  <2> HIDE DEF v
  <2>4. v = u \/ (v.j = u.j /\ v.k = k)  BY <2>1
  <2> HIDE DEF k
  <2> QED  BY <2>3, <2>4 DEF Onward, Untouched
<1> HIDE DEF v
<1>3. Onward(w, v)  BY <1>1, <1>2 DEF Onward, Untouched
<1> QED  BY <1>3 DEF Background, u, v

\* What follows once every event is applied.
LEMMA ContinueGoesOn ==
  ASSUME NEW w, NEW busy, NEW due, Calm(w, busy)
  PROVE  Goes(w, w.k.then, Continue(w, due))
<1> DEFINE v == [w EXCEPT !.k.phase = "receive"]
<1>1. w \in Worlds /\ w.k.then \in {"audio", "tick", "stop"} /\ "receive" \in Phases
  BY CalmWorld DEF Locals, Phases
<1>2. Untouched(w, v) /\ v.k.phase = "receive" /\ v \in Worlds
  BY <1>1, PhaseOnward, PhaseMoves
<1>3. ASSUME NEW u, Onward(v, u)  PROVE Untouched(w, u) /\ u.k.phase = "receive" /\ ~InStop(u.k)
  <2> HIDE DEF v
  <2> QED  BY <1>2, <1>3 DEF Onward, Untouched, InStop
<1>4. CASE w.k.then = "audio"
  <2>1. Continue(w, due) = Background(Sync(v), due)  BY <1>4 DEF Continue
  <2> HIDE DEF v
  <2>2. Sync(v) \in Worlds /\ Onward(v, Sync(v))
    BY <1>2, SyncCopies DEF Onward, Untouched
  <2>3. Onward(Sync(v), Background(Sync(v), due))  BY <2>2, BackgroundGoesOn
  <2>4. Onward(v, Background(Sync(v), due))  BY <2>2, <2>3 DEF Onward, Untouched
  <2> QED  BY <1>3, <1>4, <2>1, <2>4 DEF Goes
<1>5. CASE w.k.then = "tick"
  <2>1. Continue(w, due) = Background(v, due)  BY <1>5 DEF Continue
  <2> HIDE DEF v
  <2>2. Onward(v, Background(v, due))  BY <1>2, BackgroundGoesOn
  <2> QED  BY <1>3, <1>5, <2>1, <2>2 DEF Goes
<1>6. CASE w.k.then = "stop"  BY <1>6, FlushStagingGoesOn DEF Continue, Goes
<1> QED  BY <1>1, <1>4, <1>5, <1>6

LEMMA ApplyGoesOn ==
  ASSUME NEW w, NEW busy, NEW due, Calm(w, busy), NEW events \in Seq(Events(Units))
  PROVE  Goes(w, w.k.then, Apply(w, events, due))
<1> DEFINE a == ApplyEvents(w.l, w.k.pending, events)
           k == [w.k EXCEPT !.pending = a.pending, !.events = a.rest]
           v == AppliedWorld(w, events)
           waits == [v EXCEPT !.k.phase = "embed"]
<1>1. /\ Calm(v, busy) /\ v.k = k /\ v.j = w.j
      /\ Apply(w, events, due) = IF a.rest # << >> THEN waits ELSE Continue(v, due)
  BY AppliedIs
<1>2. w.k \in Locals  BY CalmWorld
<1>3. /\ k.stop = w.k.stop /\ k.journal = w.k.journal /\ k.answer = w.k.answer
      /\ k.phase = w.k.phase /\ k.then = w.k.then
  BY <1>2 DEF Locals
<1> HIDE DEF a, k, v
<1>4. Onward(w, v)  BY <1>1, <1>3 DEF Onward, Untouched
<1>5. Goes(v, v.k.then, Continue(v, due))  BY <1>1, ContinueGoesOn
<1>6. Goes(v, v.k.then, waits)
  <2>1. v \in Worlds /\ "embed" \in Phases  BY <1>1, CalmWorld DEF Phases
  <2>2. Untouched(v, waits) /\ waits.k.phase = "embed" /\ waits.k.then = v.k.then
    BY <2>1, PhaseOnward
  <2> HIDE DEF waits
  <2> QED  BY <2>2 DEF Goes, StopGoesOn, InStop
<1>7. Goes(v, v.k.then, Apply(w, events, due))
  <2> HIDE DEF waits
  <2> QED  BY <1>1, <1>5, <1>6
<1>8. v.k.then = w.k.then  BY <1>4 DEF Onward
<1> QED  BY <1>4, <1>7, <1>8, AfterOnward

LEMMA GateGoesOn ==
  ASSUME NEW w, NEW busy, NEW due, Calm(w, busy), NEW then \in {"audio", "tick", "stop"}
  PROVE  Goes(w, then, Gate(w, then, due))
<1> DEFINE g == ProcessStagedAudio(w.k.staging, w.k.prev, w.k.gate, speech)
           k == [w.k EXCEPT !.staging = Leftover(w.k.staging), !.prev = g.prev,
                            !.gate = g.gate, !.then = then]
           v == GatedWorld(w, then)
<1>1. /\ Calm(v, busy) /\ g.events \in Seq(Events(Units))
      /\ v.k = k /\ v.j = w.j
      /\ Gate(w, then, due) = Apply(v, g.events, due)
  <2>1. Gate(w, then, due) = Apply(v, g.events, due)  BY DEF Gate, GatedWorld
  <2>2. Calm(v, busy)  BY GatedIs
  <2>3. g.events \in Seq(Events(Units))  BY GatedIs
  <2>4. v.k = k  BY GatedIs
  <2>5. v.j = w.j  BY GatedIs
  <2> QED  BY <2>1, <2>2, <2>3, <2>4, <2>5
<1>2. w.k \in Locals  BY CalmWorld
<1> HIDE DEF g
<1>3. /\ k.stop = w.k.stop /\ k.journal = w.k.journal /\ k.answer = w.k.answer
      /\ k.then = then
  BY <1>2 DEF Locals
<1> HIDE DEF k, v
<1>4. Untouched(w, v) /\ v.k.then = then  BY <1>1, <1>3 DEF Untouched
<1>5. Goes(v, v.k.then, Apply(v, g.events, due))  BY <1>1, ApplyGoesOn
<1> QED  BY <1>1, <1>4, <1>5, AfterOnward

-----------------------------------------------------------------------------
(***************************************************************************)
(* The cached answer, while sockets do not overlap.                        *)
(***************************************************************************)

\* The cached final f says what the final a says.
Told(a, f) ==
  f # None /\ a.stop = f.stop /\ a.text = f.text /\ a.through = f.through

\* A connection has a stop id from the first to the last step of its handler.
StopIsNamed(k) ==
  k.phase # "closed" => (k.stop # None <=> (InStop(k) \/ k.phase = "final"))

OneSocket == \A c, d \in Conns : Open(c) /\ Open(d) => c = d

OfCreated ==
  /\ held \in (1 .. created) \union {None}
  /\ \A c \in Conns : conns[c].phase # "unborn" => conns[c].journal \in 1 .. created

\* What is cached when no other stop than id was asked for: every covering answer
\* of it, and nothing that covers while the handler is to find its answer.
CacheOf(id) ==
  LET f == journals[1].final
  IN  /\ \A a \in answers : a.stop = id /\ (Covers(a) => Told(a, f))
      /\ f # None => f.stop = id
      /\ \A c \in Conns :
           /\ InStop(conns[c]) => f = None \/ ~Covers(f)
           /\ conns[c].phase = "final" => Told(conns[c].answer, f)

CacheInv ==
  /\ OneSocket
  /\ OfCreated
  /\ \A c \in Conns : StopIsNamed(conns[c])
  /\ \A id \in StopIds \union {None} : OnlyStop(id) => CacheOf(id)

\* What one step of a connection means for the cache.
CacheStep(w, v) ==
  /\ v.k.stop = w.k.stop /\ v.k.journal = w.k.journal
  /\ \/ v.j.final = w.j.final /\ v.k.phase = "closed"
     \/ /\ v.j.final = w.j.final /\ v.k.answer = w.k.answer
        /\ w.k.phase # "closed"
        /\ InStop(v.k) <=> InStop(w.k)
        /\ v.k.phase = "final" <=> w.k.phase = "final"
     \/ InStop(w.k) /\ Answered(w, v)

\* A step of the stop handler.
LEMMA StopStep ==
  ASSUME NEW w, NEW v, InStop(w.k), StopGoesOn(w, v)
  PROVE  CacheStep(w, v)
<1>1. w.k.phase # "closed" /\ w.k.phase # "final"  BY DEF InStop
<1>2. CASE Untouched(w, v) /\ InStop(v.k)
  <2>1. v.k.phase # "final"  BY <1>2 DEF InStop
  <2> QED  BY <1>1, <1>2, <2>1 DEF CacheStep, Untouched
<1>3. CASE Answered(w, v)  BY <1>3 DEF CacheStep, Answered
<1> QED  BY <1>2, <1>3 DEF StopGoesOn

\* Audio is gated for a receive, or by the stop handler.
LEMMA GoesStep ==
  ASSUME NEW w, NEW v, NEW then, Goes(w, then, v),
         then = "stop" <=> InStop(w.k), w.k.phase \notin {"closed", "final"}
  PROVE  CacheStep(w, v)
<1>1. CASE then = "stop"  BY <1>1, StopStep DEF Goes
<1>2. CASE then # "stop"
  <2>1. Untouched(w, v) /\ v.k.phase # "final" /\ ~InStop(v.k) /\ ~InStop(w.k)
    BY <1>2 DEF Goes
  <2> QED  BY <2>1 DEF CacheStep, Untouched
<1> QED  BY <1>1, <1>2

\* A step that leaves the answer alone.
LEMMA OnwardStep ==
  ASSUME NEW w, NEW v, Onward(w, v)
  PROVE  CacheStep(w, v)
BY DEF Onward, Untouched, CacheStep, InStop

\* Of a dictation on one journal, that is the journal of every connection.
LEMMA TheJournal ==
  ASSUME IInv, CacheInv, NEW c \in Conns, conns[c].phase # "unborn", created <= 1
  PROVE  conns[c].journal = 1 /\ World(c).j = journals[1] /\ 1 \in Journals
<1>1. created \in 0 .. MaxJournals /\ MaxJournals \in Nat \ {0}
  BY SessionAssumption DEF IInv, TypeOK
<1>2. conns[c].journal \in 1 .. created  BY DEF CacheInv, OfCreated
<1>3. conns[c].journal = 1  BY <1>1, <1>2
<1> QED  BY <1>1, <1>3 DEF World, Journals

\* A step of one connection, with its locals k and its journal j after it.
LEMMA CacheStepKeeps ==
  ASSUME IInv, CacheInv, NEW c \in Conns, conns[c].phase # "unborn", NEW k, NEW j,
         CacheStep(World(c), [k |-> k, j |-> j]),
         conns' = [conns EXCEPT ![c] = k],
         journals' = [journals EXCEPT ![conns[c].journal] = j],
         UNCHANGED <<held, created, answers>>
  PROVE  CacheInv'
<1> DEFINE w == World(c)
           v == [k |-> k, j |-> j]
<1>1. conns \in [Conns -> Locals] /\ journals \in [Journals -> Sessions]
  BY DEF IInv, TypeOK
<1>2. w.k = conns[c] /\ v.k = k /\ v.j = j  BY DEF World
<1>3. CacheStep(w, v)  OBVIOUS
<1> HIDE DEF w, v
<1>4. conns'[c] = k /\ \A d \in Conns : d # c => conns'[d] = conns[d]  BY <1>1
<1>5. k.stop = conns[c].stop /\ k.journal = conns[c].journal  BY <1>2, <1>3 DEF CacheStep
<1>6. Open(c)' => Open(c)
  <2>1. k.phase = "closed" \/ conns[c].phase # "closed"
    BY <1>2, <1>3 DEF CacheStep, InStop
  <2> QED  BY <1>4, <2>1 DEF Open
<1>7. OneSocket'
  <2>1. \A d \in Conns : Open(d)' => Open(d)  BY <1>4, <1>6 DEF Open
  <2> QED  BY <2>1 DEF CacheInv, OneSocket
<1>8. OfCreated'
  BY <1>4, <1>5 DEF CacheInv, OfCreated
<1>9. \A d \in Conns : StopIsNamed(conns'[d])
  <2>1. StopIsNamed(conns[c])  BY DEF CacheInv
  <2>2. StopIsNamed(k)
    BY <1>2, <1>3, <2>1 DEF CacheStep, Answered, StopIsNamed, InStop
  <2> QED  BY <1>4, <2>2 DEF CacheInv
<1>10. ASSUME NEW id \in StopIds \union {None}, OnlyStop(id)'  PROVE CacheOf(id)'
  <2>1. OnlyStop(id)
    <3>1. \A d \in Conns : conns[d].stop = conns'[d].stop  BY <1>4, <1>5
    <3> QED  BY <1>10, <3>1 DEF OnlyStop
  <2>2. CacheOf(id)  BY <2>1 DEF CacheInv
  <2>3. conns[c].journal = 1 /\ w.j = journals[1] /\ 1 \in Journals
    BY <2>1, TheJournal DEF OnlyStop, w
  <2> DEFINE f == journals[1].final
             g == journals'[1].final
  <2>4. w.j.final = f /\ g = j.final  BY <1>1, <2>3
  <2> HIDE DEF f, g
  <2>5. /\ \A a \in answers : a.stop = id /\ (Covers(a) => Told(a, f))
        /\ f # None => f.stop = id
        /\ \A d \in Conns :
             /\ InStop(conns[d]) => f = None \/ ~Covers(f)
             /\ conns[d].phase = "final" => Told(conns[d].answer, f)
    BY <2>2 DEF CacheOf, f
  <2>6. SUFFICES /\ \A a \in answers : a.stop = id /\ (Covers(a) => Told(a, g))
                 /\ g # None => g.stop = id
                 /\ \A d \in Conns :
                      /\ InStop(conns'[d]) => g = None \/ ~Covers(g)
                      /\ conns'[d].phase = "final" => Told(conns'[d].answer, g)
    BY DEF CacheOf, g, Covers, Told, InStop
  <2>7. CASE v.j.final = w.j.final /\ k.phase = "closed"
    <3>1. g = f  BY <1>2, <2>4, <2>7
    <3>2. ~InStop(k) /\ k.phase # "final"  BY <2>7 DEF InStop
    <3> QED  BY <1>4, <2>5, <3>1, <3>2
  <2>8. CASE /\ v.j.final = w.j.final /\ k.answer = conns[c].answer
             /\ InStop(k) <=> InStop(conns[c])
             /\ k.phase = "final" <=> conns[c].phase = "final"
    <3>1. g = f  BY <1>2, <2>4, <2>8
    <3> QED  BY <1>4, <2>5, <2>8, <3>1
  <2>9. CASE InStop(w.k) /\ Answered(w, v)
    <3>1. f = None \/ ~Covers(f)  BY <1>2, <2>5, <2>9
    <3>2. \A a \in answers : ~Covers(a)  
      BY <2>5, <3>1 DEF Told, Covers, Reaches
    <3>3. g = k.answer /\ g # None /\ g.stop = conns[c].stop /\ k.phase = "final"
      BY <1>2, <2>4, <2>9 DEF Answered
    <3>4. conns[c].stop = id
      <4>1. StopIsNamed(conns[c]) /\ conns[c].phase # "closed"
        BY <1>2, <2>9 DEF CacheInv, InStop
      <4>2. conns[c].stop # None  BY <1>2, <2>9, <4>1 DEF StopIsNamed
      <4> QED  BY <2>1, <4>2 DEF OnlyStop
    <3>5. ASSUME NEW d \in Conns, d # c  PROVE ~InStop(conns[d]) /\ conns[d].phase # "final"
      <4>1. Open(c)  BY <1>2, <2>9 DEF Open, InStop
      <4>2. ~Open(d)  BY <3>5, <4>1 DEF CacheInv, OneSocket
      <4> QED  BY <4>2 DEF Open, InStop
    <3>6. Told(k.answer, g) /\ ~InStop(k)  BY <3>3 DEF Told, InStop
    <3> QED  BY <1>4, <2>5, <3>2, <3>3, <3>4, <3>5, <3>6
  <2> QED  BY <1>2, <1>3, <2>7, <2>8, <2>9 DEF CacheStep
<1> QED  BY <1>7, <1>8, <1>9, <1>10 DEF CacheInv

\* The locals of a connection, whatever their values.
Shaped(k) == DOMAIN k = DOMAIN NewConn(None)

LEMMA LocalsAreShaped ==
  ASSUME NEW k \in Locals
  PROVE  Shaped(k)
BY DEF Locals, Shaped, NewConn

\* What is left of a connection that closes.
LEMMA ClosedIs ==
  ASSUME NEW k, Shaped(k)
  PROVE  Closed(k).phase = "closed" /\ Closed(k).stop = k.stop /\ Closed(k).journal = k.journal
<1> DEFINE n == NewConn(k.ledger)
<1>1. /\ {"phase", "alive", "closing", "stop", "journal"} \subseteq DOMAIN k
      /\ {"phase", "alive", "closing", "stop", "journal"} \subseteq DOMAIN n
  BY DEF Shaped, NewConn
<1> HIDE DEF n
<1>2. \/ Closed(k) = [n EXCEPT !.phase = "closed", !.journal = k.journal,
                               !.closing = TRUE, !.stop = k.stop]
      \/ Closed(k) = [k EXCEPT !.phase = "closed", !.alive = FALSE, !.closing = TRUE]
  BY DEF Closed, n
<1> QED  BY <1>1, <1>2

\* A step that installs a world.
LEMMA BecomeKeepsCache ==
  ASSUME IInv, CacheInv, NEW c \in Conns, conns[c].phase # "unborn", NEW v, NEW q,
         Shaped(v.k), Become(c, v, q), CacheStep(World(c), v),
         UNCHANGED <<held, created, answers>>
  PROVE  CacheInv'
<1> DEFINE w == World(c)
           k == Settled(v.k)
           u == [k |-> k, j |-> v.j]
<1>1. /\ conns' = [conns EXCEPT ![c] = k]
      /\ journals' = [journals EXCEPT ![conns[c].journal] = v.j]
  BY DEF Become
<1>2. u.k = k /\ u.j = v.j  OBVIOUS
<1>3. /\ k.phase = v.k.phase /\ k.stop = v.k.stop /\ k.journal = v.k.journal
      /\ v.k.phase # "closed" => k = v.k
  BY ClosedIs DEF Settled
<1>4. CacheStep(w, v)  OBVIOUS
<1> HIDE DEF k, u, w
<1>5. CacheStep(w, u)
  <2>1. CASE v.k.phase = "closed"
    <3>1. v.j.final = w.j.final  BY <1>4, <2>1 DEF CacheStep, Answered, InStop
    <3> QED  BY <1>2, <1>3, <1>4, <2>1, <3>1 DEF CacheStep
  <2>2. CASE v.k.phase # "closed"
    <3>1. u.k = v.k /\ u.j = v.j  BY <1>2, <1>3, <2>2
    <3> QED  BY <1>4, <3>1 DEF CacheStep, Answered
  <2> QED  BY <2>1, <2>2
<1> QED  BY <1>1, <1>5, CacheStepKeeps, ZenonT(60) DEF w, u

\* A step that changes only the locals.
LEMMA LocalsKeepCache ==
  ASSUME IInv, CacheInv, NEW c \in Conns, conns[c].phase # "unborn", NEW k,
         k.stop = conns[c].stop, k.journal = conns[c].journal, k.answer = conns[c].answer,
         conns[c].phase # "closed", InStop(k) <=> InStop(conns[c]),
         k.phase = "final" <=> conns[c].phase = "final",
         conns' = [conns EXCEPT ![c] = k], UNCHANGED <<journals, held, created, answers>>
  PROVE  CacheInv'
<1> DEFINE w == World(c)
           j == journals[conns[c].journal]
           u == [k |-> k, j |-> j]
<1>1. w.k = conns[c] /\ w.j = j /\ u.k = k /\ u.j = j  BY DEF World
<1>2. journals' = [journals EXCEPT ![conns[c].journal] = j]
  BY DEF IInv, TypeOK
<1> HIDE DEF w, u, j
<1>3. CacheStep(w, u)  BY <1>1 DEF CacheStep
<1> QED  BY <1>2, <1>3, CacheStepKeeps, ZenonT(60) DEF w, u

\* A connection closes; it has its stop id now, and may have told what is cached.
LEMMA CloseKeepsCache ==
  ASSUME IInv, CacheInv, NEW c \in Conns, conns[c].phase # "unborn", NEW k,
         k.phase = "closed", k.journal = conns[c].journal,
         conns[c].stop \in {None, k.stop},
         conns' = [conns EXCEPT ![c] = k], UNCHANGED <<journals, held, created>>,
         \A a \in answers' : \/ a \in answers
                             \/ /\ k.stop # None
                                /\ OnlyStop(k.stop) =>
                                     a.stop = k.stop /\ Told(a, World(c).j.final)
  PROVE  CacheInv'
<1>1. conns \in [Conns -> Locals]  BY DEF IInv, TypeOK
<1>2. conns'[c] = k /\ \A d \in Conns : d # c => conns'[d] = conns[d]  BY <1>1
<1>3. ~InStop(k) /\ k.phase # "final"  BY DEF InStop
<1>4. OneSocket'  BY <1>2 DEF CacheInv, OneSocket, Open
<1>5. OfCreated'  BY <1>2 DEF CacheInv, OfCreated
<1>6. \A d \in Conns : StopIsNamed(conns'[d])  BY <1>2 DEF CacheInv, StopIsNamed
<1>7. ASSUME NEW id \in StopIds \union {None}, OnlyStop(id)'  PROVE CacheOf(id)'
  <2>1. OnlyStop(id) /\ k.stop \in {None, id}
    <3>1. k.stop \in {None, id}  BY <1>2, <1>7 DEF OnlyStop
    <3>2. \A d \in Conns : conns[d].stop \in {None, id}  BY <1>2, <1>7, <3>1 DEF OnlyStop
    <3> QED  BY <1>7, <3>1, <3>2 DEF OnlyStop
  <2>2. CacheOf(id)  BY <2>1 DEF CacheInv
  <2>3. World(c).j = journals[1]  BY <2>1, TheJournal DEF OnlyStop
  <2>4. \A a \in answers' : a.stop = id /\ (Covers(a) => Told(a, journals[1].final))
    <3> SUFFICES ASSUME NEW a \in answers', a \notin answers
                 PROVE  a.stop = id /\ Told(a, journals[1].final)
      BY <2>2 DEF CacheOf
    <3>1. k.stop = id  BY <2>1
    <3> QED  BY <2>1, <2>3, <3>1
  <2>5. \A d \in Conns :
          /\ InStop(conns'[d]) => journals[1].final = None \/ ~Covers(journals[1].final)
          /\ conns'[d].phase = "final" => Told(conns'[d].answer, journals[1].final)
    BY <1>2, <1>3, <2>2 DEF CacheOf
  <2> QED  BY <2>2, <2>4, <2>5 DEF CacheOf, Covers, Told, InStop
<1> QED  BY <1>4, <1>5, <1>6, <1>7 DEF CacheInv

\* What arrives on a socket, or does not.
LEMMA SocketCaches ==
  ASSUME IInv, CacheInv, NEW c \in Conns,
         \/ \E s \in Seqs : AudioFrame(c, s) \/ LateFrame(c, s)
         \/ FrameAcked(c) \/ ReceiveTimesOut(c) \/ CoverageWaitEnds(c)
  PROVE  CacheInv'
<1> DEFINE w == World(c)
           b == Busy(c, gpu)
<1>1. conns[c].phase \in {"receive", "ack", "coverage"}
  BY DEF AudioFrame, Receiving, LateFrame, FrameAcked, ReceiveTimesOut, CoverageWaitEnds
<1>2. Calm(w, b) /\ w.k = conns[c]  BY <1>1, QueueIsQueue, WorldIs
<1>3. UNCHANGED <<held, created, answers>>
  BY DEF AudioFrame, LateFrame, FrameAcked, ReceiveTimesOut, CoverageWaitEnds
<1> HIDE DEF w, b
<1>4. SUFFICES ASSUME NEW v, WorldInv(v, b), Become(c, v, gpu), CacheStep(w, v)
               PROVE  CacheInv'
  <2>1. ASSUME NEW s \in Seqs, AudioFrame(c, s)  PROVE CacheInv'
    <3> DEFINE frame == IF s \in w.j.chunks THEN None ELSE s
               k == [w.k EXCEPT !.phase = "ack", !.frame = frame]
               j == [w.j EXCEPT !.chunks = @ \union {s}]
               v == Acked(w, s, frame)
    <3>1. Become(c, v, gpu) /\ w.k.phase = "receive"
      BY <1>2, <2>1 DEF AudioFrame, Acked, Receiving, w
    <3>2. frame \in Seqs \union {None}  OBVIOUS
    <3> HIDE DEF frame
    <3>3. WorldInv(v, b)  BY <1>2, <3>2, AckedKeeps
    <3>4. w \in Worlds /\ w.k \in Locals /\ w.j \in Sessions  BY <1>2, CalmWorld
    <3>5. v.k = k /\ v.j = j  BY <3>4 DEF Acked, Accept, Worlds
    <3>6. /\ k.stop = w.k.stop /\ k.journal = w.k.journal /\ k.answer = w.k.answer
          /\ k.phase = "ack" /\ j.final = w.j.final
      BY <3>4 DEF Locals, Sessions
    <3> HIDE DEF k, j, v
    <3>7. CacheStep(w, v)  BY <3>1, <3>5, <3>6 DEF CacheStep, InStop
    <3> QED  BY <1>4, <3>1, <3>3, <3>7
  <2>2. ASSUME NEW s \in Seqs, LateFrame(c, s)  PROVE CacheInv'
    <3> DEFINE k == [w.k EXCEPT !.raw = @ \o Payload(s), !.staging = @ \o Payload(s)]
               j == [w.j EXCEPT !.chunks = @ \union {s}]
               v == Late(w, s)
    <3>1. Become(c, v, gpu) /\ w.k.phase = "coverage"  BY <1>2, <2>2 DEF LateFrame, Late, w
    <3>2. Calm(v, b) /\ v.k = k /\ v.j = j  BY <1>2, LateKeeps, ZenonT(60)
    <3>3. w.k \in Locals /\ w.j \in Sessions  BY <1>2, CalmWorld
    <3>4. /\ k.stop = w.k.stop /\ k.journal = w.k.journal /\ k.answer = w.k.answer
          /\ k.phase = w.k.phase /\ k.then = w.k.then /\ j.final = w.j.final
      BY <3>3 DEF Locals, Sessions
    <3> HIDE DEF k, j, v
    <3>5. CacheStep(w, v)  BY <3>2, <3>4, OnwardStep DEF Onward, Untouched
    <3>6. WorldInv(v, b)  BY <3>1, <3>2, <3>4 DEF Calm, WorldInv, EmbedInv
    <3> QED  BY <1>4, <3>1, <3>5, <3>6
  <2>3. CASE FrameAcked(c)
    <3> DEFINE s == conns[c].frame
               k == [w.k EXCEPT !.frame = None, !.raw = @ \o Payload(s), !.staging = @ \o Payload(s)]
               v == Buffered(w, s, None)
    <3>1. PICK due \in Due : Become(c, Gate(v, "audio", due), gpu)
      BY <2>3 DEF FrameAcked, Buffered, w
    <3>2. s \in Seqs /\ w.k.phase = "ack"
      <4>1. conns[c] \in Locals /\ s # None  BY <2>3 DEF IInv, TypeOK, FrameAcked
      <4> QED  BY <1>2, <2>3, <4>1 DEF Locals, FrameAcked
    <3>3. Calm(v, b) /\ v.k = k /\ v.j = w.j
      <4>1. None \in Seqs \union {None}  OBVIOUS
      <4> HIDE DEF s
      <4>2. Calm(v, b)  BY <1>2, <3>2, <4>1, BufferedKeeps
      <4>3. v.k = k  BY <1>2, CalmWorld DEF Buffered, Worlds
      <4>4. v.j = w.j  BY <1>2, <3>2, <4>1, BufferedKeeps
      <4> QED  BY <4>2, <4>3, <4>4
    <3>4. w.k \in Locals  BY <1>2, CalmWorld
    <3>5. k.stop = w.k.stop /\ k.journal = w.k.journal /\ k.answer = w.k.answer
      BY <3>4 DEF Locals
    <3> HIDE DEF s, k, v
    <3>6. Untouched(w, v)  BY <3>3, <3>5 DEF Untouched
    <3>7. Goes(v, "audio", Gate(v, "audio", due)) /\ WorldInv(Gate(v, "audio", due), b)
      BY <3>3, GateGoesOn, GateKeeps
    <3>8. Goes(w, "audio", Gate(v, "audio", due))  BY <3>6, <3>7, AfterOnward
    <3>9. CacheStep(w, Gate(v, "audio", due))
      <4>1. ~InStop(w.k)  BY <3>2 DEF InStop
      <4> QED  BY <3>2, <3>8, <4>1, GoesStep
    <3> QED  BY <1>4, <3>1, <3>7, <3>9
  <2>4. CASE ReceiveTimesOut(c)
    <3>1. PICK due \in Due : Become(c, Gate(w, "tick", due), gpu)
      BY <2>4 DEF ReceiveTimesOut, w
    <3>2. Goes(w, "tick", Gate(w, "tick", due)) /\ WorldInv(Gate(w, "tick", due), b)
      BY <1>2, GateGoesOn, GateKeeps
    <3>3. w.k.phase = "receive"  BY <1>2, <2>4 DEF ReceiveTimesOut
    <3>4. CacheStep(w, Gate(w, "tick", due))
      <4>1. ~InStop(w.k)  BY <3>3 DEF InStop
      <4> QED  BY <3>2, <3>3, <4>1, GoesStep
    <3> QED  BY <1>4, <3>1, <3>2, <3>4
  <2>5. CASE CoverageWaitEnds(c)
    <3> DEFINE complete == ~ShortOfCaptured(c)
               k == [w.k EXCEPT !.complete = complete]
               v == [w EXCEPT !.k.complete = complete]
    <3>1. Become(c, Gate(v, "stop", FALSE), gpu)  BY <2>5 DEF CoverageWaitEnds, w
    <3>2. complete \in BOOLEAN  OBVIOUS
    <3> HIDE DEF complete
    <3>3. w \in Worlds /\ w.k \in Locals  BY <1>2, CalmWorld
    <3>4. v.j = w.j  BY <3>3 DEF Worlds
    <3>5. Calm(v, b) /\ v.k = k  BY <1>2, <3>2, CompleteKeeps
    <3>6. k.stop = w.k.stop /\ k.journal = w.k.journal /\ k.answer = w.k.answer
      BY <3>3 DEF Locals
    <3> HIDE DEF k, v
    <3>7. Untouched(w, v)  BY <3>4, <3>5, <3>6 DEF Untouched
    <3>8. Goes(v, "stop", Gate(v, "stop", FALSE)) /\ WorldInv(Gate(v, "stop", FALSE), b)
      BY <3>5, GateGoesOn, GateKeeps
    <3>9. Goes(w, "stop", Gate(v, "stop", FALSE))  BY <3>7, <3>8, AfterOnward
    <3>10. CacheStep(w, Gate(v, "stop", FALSE))
      <4>1. InStop(w.k) /\ w.k.phase \notin {"closed", "final"}
        BY <1>2, <2>5 DEF InStop, CoverageWaitEnds
      <4> QED  BY <3>9, <4>1, GoesStep
    <3> QED  BY <1>4, <3>1, <3>8, <3>10
  <2> QED  BY <2>1, <2>2, <2>3, <2>4, <2>5
<1>5. Shaped(v.k)  BY <1>4, WorldFields, LocalsAreShaped DEF WorldInv, WorldCore
<1> QED  BY <1>1, <1>3, <1>4, <1>5, BecomeKeepsCache DEF w

\* What the handlers awaited besides a decode.
LEMMA StopCaches ==
  ASSUME IInv, CacheInv, NEW c \in Conns,
         \/ \E e \in Embeddings : SpeakerChecked(c, e) \/ TailSpeakerChecked(c, e)
         \/ PartialAwaited(c) \/ BackgroundAwaited(c)
  PROVE  CacheInv'
<1> DEFINE w == World(c)
           b == Busy(c, gpu)
<1>1. conns[c].phase \in {"embed", "tailEmbed", "waitPartial", "seal"}
  BY DEF SpeakerChecked, TailSpeakerChecked, PartialAwaited, BackgroundAwaited
<1>2. Calm(w, b) /\ w.k = conns[c]  BY <1>1, QueueIsQueue, WorldIs
<1>3. UNCHANGED <<held, created, answers>>
  BY DEF SpeakerChecked, TailSpeakerChecked, PartialAwaited, BackgroundAwaited
<1> HIDE DEF w, b
<1>4. w \in Worlds /\ w.k \in Locals  BY <1>2, CalmWorld
<1>5. SUFFICES ASSUME NEW v, WorldInv(v, b), Become(c, v, gpu), CacheStep(w, v)
               PROVE  CacheInv'
  <2>1. ASSUME NEW e \in Embeddings, SpeakerChecked(c, e)  PROVE CacheInv'
    <3> DEFINE accept == e # "other" \/ ~w.k.enrolled
               enrolled == w.k.enrolled \/ e # "none"
               k == [w.k EXCEPT !.pending = << >>, !.enrolled = enrolled,
                                !.gated = IF accept THEN @ \o w.k.pending ELSE @]
               v == Decided(w, accept, enrolled)
               rest == Tail(w.k.events)
    <3>1. PICK due \in Due : Become(c, Apply(v, rest, due), gpu)
      BY <2>1 DEF SpeakerChecked, Decided, w
    <3>2. w.k.phase = "embed"  BY <1>2, <2>1 DEF SpeakerChecked
    <3>3. rest \in Seq(Events(Units))
      <4>1. w.k.events \in Seq(Events(Units))  BY <1>4 DEF Locals
      <4>2. EmbedInv(conns[c])  BY DEF IInv
      <4>3. w.k.events # << >>  BY <1>2, <3>2, <4>2 DEF EmbedInv
      <4> QED  BY <4>1, <4>3, HeadTailProperties
    <3>4. accept \in BOOLEAN /\ enrolled \in BOOLEAN  OBVIOUS
    <3> HIDE DEF accept, enrolled, rest
    <3>5. Calm(v, b) /\ v.k = k /\ v.j = w.j  BY <1>2, <3>4, DecidedKeeps, ZenonT(60)
    <3>6. /\ k.stop = w.k.stop /\ k.journal = w.k.journal /\ k.answer = w.k.answer
          /\ k.then = w.k.then
      BY <1>4 DEF Locals
    <3> HIDE DEF k, v
    <3>7. Untouched(w, v) /\ v.k.then = w.k.then  BY <3>5, <3>6 DEF Untouched
    <3>8. Goes(v, v.k.then, Apply(v, rest, due)) /\ WorldInv(Apply(v, rest, due), b)
      BY <3>3, <3>5, ApplyGoesOn, ApplyKeeps
    <3>9. Goes(w, w.k.then, Apply(v, rest, due))  BY <3>7, <3>8, AfterOnward
    <3>10. CacheStep(w, Apply(v, rest, due))
      <4>1. w.k.then = "stop" <=> InStop(w.k)  BY <3>2 DEF InStop
      <4> QED  BY <3>2, <3>9, <4>1, GoesStep
    <3> QED  BY <1>5, <3>1, <3>8, <3>10
  <2>2. ASSUME NEW e \in Embeddings, TailSpeakerChecked(c, e)  PROVE CacheInv'
    <3>1. /\ InStop(w.k)
          /\ \/ Become(c, RejectFinalTail(w), gpu)
             \/ Become(c, AcceptFinalTail(w), gpu)
      BY <1>2, <2>2 DEF TailSpeakerChecked, InStop, w
    <3>2. /\ CacheStep(w, AcceptFinalTail(w)) /\ WorldInv(AcceptFinalTail(w), b)
          /\ CacheStep(w, RejectFinalTail(w)) /\ WorldInv(RejectFinalTail(w), b)
      BY <1>2, <3>1, DecideTailGoesOn, StopStep, AcceptFinalTailKeeps, RejectFinalTailKeeps
    <3> QED  BY <1>5, <3>1, <3>2
  <2>3. CASE PartialAwaited(c)
    <3>1. InStop(w.k) /\ Become(c, DecideTail(w), gpu)
      BY <1>2, <2>3 DEF PartialAwaited, InStop, w
    <3>2. CacheStep(w, DecideTail(w)) /\ WorldInv(DecideTail(w), b)
      BY <1>2, <3>1, DecideTailGoesOn, StopStep, DecideTailKeeps
    <3> QED  BY <1>5, <3>1, <3>2
  <2>4. CASE BackgroundAwaited(c)
    <3>1. InStop(w.k) /\ Become(c, SealTail(w), gpu)
      BY <1>2, <2>4 DEF BackgroundAwaited, InStop, w
    <3>2. CacheStep(w, SealTail(w)) /\ WorldInv(SealTail(w), b)
      BY <1>2, <3>1, SealTailGoesOn, StopStep, SealTailKeeps
    <3> QED  BY <1>5, <3>1, <3>2
  <2> QED  BY <2>1, <2>2, <2>3, <2>4
<1>6. Shaped(v.k)  BY <1>5, WorldFields, LocalsAreShaped DEF WorldInv, WorldCore
<1> QED  BY <1>1, <1>3, <1>5, <1>6, BecomeKeepsCache DEF w

\* The end of a commit or of a partial is nothing to the stop handler.
LEMMA CommittedGoesOn ==
  ASSUME NEW w \in Worlds, NEW t, NEW outcome
  PROVE  Onward(w, Committed([w EXCEPT !.k.commit = None], t, outcome))
<1> DEFINE n == [w.k EXCEPT !.commit = None]
           u == [w EXCEPT !.k.commit = None]
<1>1. w.k \in Locals /\ w.j \in Sessions  BY WorldFields
<1>2. u = [w EXCEPT !.k = n]  OBVIOUS
<1>3. /\ n.stop = w.k.stop /\ n.journal = w.k.journal /\ n.answer = w.k.answer
      /\ n.phase = w.k.phase /\ n.then = w.k.then /\ n \in Locals
  BY <1>1 DEF Locals
<1> HIDE DEF n, u
<1>4. u \in Worlds /\ u.k = n /\ u.j = w.j  BY <1>2, <1>3, UpdateK
<1>5. Onward(w, u)  BY <1>3, <1>4 DEF Onward, Untouched
<1>6. Onward(w, [u EXCEPT !.k.empty_upto = t.upto])
  <2> DEFINE k == [n EXCEPT !.empty_upto = t.upto]
             v == [u EXCEPT !.k.empty_upto = t.upto]
  <2>1. v = [u EXCEPT !.k = k]  BY <1>4
  <2>2. /\ k.stop = n.stop /\ k.journal = n.journal /\ k.answer = n.answer
        /\ k.phase = n.phase /\ k.then = n.then
    BY <1>3 DEF Locals
  <2> HIDE DEF k, v
  <2>3. v.k = k /\ v.j = w.j  BY <1>4, <2>1 DEF Worlds
  <2> QED  BY <1>3, <2>2, <2>3 DEF Onward, Untouched, v
<1>7. Onward(w, Sync([u EXCEPT !.k.stable_bytes = t.upto,
                               !.k.stable_text = @ \o t.audio]))
  <2> DEFINE k == [n EXCEPT !.stable_bytes = t.upto, !.stable_text = n.stable_text \o t.audio]
             v == [u EXCEPT !.k.stable_bytes = t.upto, !.k.stable_text = @ \o t.audio]
  <2>1. v = [u EXCEPT !.k = k]  BY <1>4
  <2>2. /\ k.stop = n.stop /\ k.journal = n.journal /\ k.answer = n.answer
        /\ k.phase = n.phase /\ k.then = n.then
    BY <1>3 DEF Locals
  <2> HIDE DEF k, v
  <2>3. v.k = k /\ v.j = w.j /\ DOMAIN v = {"k", "l", "j", "jobs"}  BY <1>4, <2>1 DEF Worlds
  <2>4. Sync(v).k = k /\ Sync(v).j.final = w.j.final
    BY <1>1, <2>3 DEF Sync, Sessions
  <2> QED  BY <1>3, <2>2, <2>4 DEF Onward, Untouched, v
<1>8. Onward(w, Committed(u, t, outcome))  BY <1>5, <1>6, <1>7 DEF Committed
<1> QED  BY <1>8 DEF u

\* A partial of w that is over, being sent, or remembered.
LEMMA PartialGoesOn ==
  ASSUME NEW w, NEW v, DOMAIN w = {"k", "l", "j", "jobs"}, Shaped(w.k),
         NEW t,
         \/ v = Over(w, t) \/ v = Sending(w, t)
         \/ v = [w EXCEPT !.k.partial_decode = t] \/ v = [w EXCEPT !.k.last_partial = t]
  PROVE  Onward(w, v) /\ DOMAIN v = DOMAIN w /\ Shaped(v.k)
<1> DEFINE fields == {"stop", "journal", "answer", "phase", "then",
                      "partial", "partial_at", "partial_decode", "last_partial"}
<1>1. fields \subseteq DOMAIN w.k  BY DEF NewConn, Shaped
<1>2. PICK k : /\ v = [w EXCEPT !.k = k] /\ DOMAIN k = DOMAIN w.k
               /\ k.stop = w.k.stop /\ k.journal = w.k.journal /\ k.answer = w.k.answer
               /\ k.phase = w.k.phase /\ k.then = w.k.then
  <2>1. CASE v = Over(w, t)
    <3> DEFINE k == [w.k EXCEPT !.partial = None, !.partial_at = AtLeast(@, t.signal)]
    <3>1. v = [w EXCEPT !.k = k]  BY <2>1 DEF Over
    <3>2. /\ DOMAIN k = DOMAIN w.k /\ k.stop = w.k.stop /\ k.journal = w.k.journal
          /\ k.answer = w.k.answer /\ k.phase = w.k.phase /\ k.then = w.k.then
      BY <1>1
    <3> HIDE DEF k
    <3> QED  BY <3>1, <3>2
  <2>2. CASE v = Sending(w, t)
    <3> DEFINE k == [w.k EXCEPT !.partial.stage = "send", !.partial.text = t]
    <3>1. v = [w EXCEPT !.k = k]  BY <2>2 DEF Sending
    <3>2. /\ DOMAIN k = DOMAIN w.k /\ k.stop = w.k.stop /\ k.journal = w.k.journal
          /\ k.answer = w.k.answer /\ k.phase = w.k.phase /\ k.then = w.k.then
      BY <1>1
    <3> HIDE DEF k
    <3> QED  BY <3>1, <3>2
  <2>3. CASE v = [w EXCEPT !.k.partial_decode = t]
    <3> DEFINE k == [w.k EXCEPT !.partial_decode = t]
    <3>1. v = [w EXCEPT !.k = k]  BY <2>3
    <3>2. /\ DOMAIN k = DOMAIN w.k /\ k.stop = w.k.stop /\ k.journal = w.k.journal
          /\ k.answer = w.k.answer /\ k.phase = w.k.phase /\ k.then = w.k.then
      BY <1>1
    <3> HIDE DEF k
    <3> QED  BY <3>1, <3>2
  <2>4. CASE v = [w EXCEPT !.k.last_partial = t]
    <3> DEFINE k == [w.k EXCEPT !.last_partial = t]
    <3>1. v = [w EXCEPT !.k = k]  BY <2>4
    <3>2. /\ DOMAIN k = DOMAIN w.k /\ k.stop = w.k.stop /\ k.journal = w.k.journal
          /\ k.answer = w.k.answer /\ k.phase = w.k.phase /\ k.then = w.k.then
      BY <1>1
    <3> HIDE DEF k
    <3> QED  BY <3>1, <3>2
  <2> QED  BY <2>1, <2>2, <2>3, <2>4
<1>3. v.k = k /\ v.j = w.j /\ DOMAIN v = DOMAIN w  BY <1>2
<1> QED  BY <1>2, <1>3 DEF Onward, Untouched, Shaped

\* A decode ends, or its partial is sent: the end of a commit or a partial is
\* nothing to the cache, also when its socket has closed.
LEMMA DecodeCaches ==
  ASSUME IInv, CacheInv, NEW c \in Conns, NEW outcome,
         \/ CommitDecoded(c, outcome) \/ PartialDecoded(c, outcome)
         \/ TailDecoded(c, outcome) \/ RawDecoded(c, outcome) \/ PartialSent(c)
  PROVE  CacheInv'
<1> DEFINE w == World(c)
<1>1. conns[c].phase # "unborn"
  <2>1. conns[c].commit # None \/ conns[c].partial # None \/ conns[c].phase \in {"tail", "raw"}
    BY RunningIs DEF CommitDecoded, PartialDecoded, TailDecoded, RawDecoded, PartialSent, Waits
  <2> QED  BY <2>1 DEF IInv, LocalsInv
<1>2. w.k = conns[c] /\ w \in Worlds  BY <1>1, QueueIsQueue, WorldIs DEF WorldInv, WorldCore
<1>3. UNCHANGED <<held, created, answers>>
  BY DEF CommitDecoded, PartialDecoded, TailDecoded, RawDecoded, PartialSent
<1> HIDE DEF w
<1>4. w.k \in Locals  BY <1>2, WorldFields
<1>5. Shaped(w.k) /\ DOMAIN w = {"k", "l", "j", "jobs"}  BY <1>2, <1>4, LocalsAreShaped DEF Worlds
<1>6. SUFFICES ASSUME NEW v, NEW q, Shaped(v.k), Become(c, v, q), CacheStep(w, v)
               PROVE  CacheInv'
  <2>1. ASSUME NEW v, NEW q, Shaped(v.k), Become(c, v, q), Onward(w, v)  PROVE CacheInv'
    BY <1>6, <2>1, OnwardStep
  <2>2. CASE CommitDecoded(c, outcome)
    <3> DEFINE t == w.k.commit
               v == Committed([w EXCEPT !.k.commit = None], t, outcome)
    <3>1. Become(c, v, Tail(gpu)) /\ t # None
      BY <1>2, <2>2, RunningIs DEF CommitDecoded, Waits, w
    <3>2. v \in Worlds
      <4>1. /\ Queue(Tail(gpu)) /\ "commit" \notin Busy(c, Tail(gpu))
            /\ Busy(c, Tail(gpu)) \subseteq JobKinds
        BY <2>2, RunningIs DEF CommitDecoded
      <4>2. WorldInv(w, Busy(c, Tail(gpu))) /\ w.jobs = << >>
        BY <1>1, <4>1, WorldIs DEF w
      <4>3. WorldInv(v, Busy(c, Tail(gpu)))
        BY <3>1, <4>1, <4>2, CommittedKeeps
      <4> QED  BY <4>3 DEF WorldInv, WorldCore
    <3>3. Onward(w, v)  BY <1>2, CommittedGoesOn
    <3> HIDE DEF v
    <3> QED  BY <2>1, <3>1, <3>2, <3>3, WorldFields, LocalsAreShaped
  <2>3. CASE PartialDecoded(c, outcome)
    <3> DEFINE t == w.k.partial
               text == Decoded(t.audio, outcome)
               shown == t.prefix \o text
               d == [at |-> t.at, audio |-> t.audio, text |-> text]
               over == Over(w, t)
               sending == Sending(w, shown)
    <3>1. \/ Become(c, over, Tail(gpu))
          \/ Become(c, [over EXCEPT !.k.partial_decode = d], Tail(gpu))
          \/ Become(c, sending, Tail(gpu))
          \/ Become(c, [sending EXCEPT !.k.partial_decode = d], Tail(gpu))
      BY <2>3 DEF PartialDecoded, Over, Sending, w
    <3> HIDE DEF d, shown
    <3>2. /\ Onward(w, over) /\ DOMAIN over = DOMAIN w /\ Shaped(over.k)
          /\ Onward(w, sending) /\ DOMAIN sending = DOMAIN w /\ Shaped(sending.k)
      BY <1>5, PartialGoesOn
    <3> HIDE DEF over, sending
    <3>3. ASSUME NEW u, Onward(w, u), DOMAIN u = DOMAIN w, Shaped(u.k)
          PROVE  Onward(w, [u EXCEPT !.k.partial_decode = d])
                 /\ Shaped([u EXCEPT !.k.partial_decode = d].k)
      <4> DEFINE v == [u EXCEPT !.k.partial_decode = d]
      <4>1. v = [u EXCEPT !.k.partial_decode = d]  OBVIOUS
      <4> HIDE DEF v
      <4>2. Onward(u, v) /\ Shaped(v.k)  BY <1>5, <3>3, <4>1, PartialGoesOn
      <4>3. Onward(w, v)  BY <3>3, <4>2 DEF Onward, Untouched
      <4> QED  BY <4>2, <4>3 DEF v
    <3> QED  BY <2>1, <3>1, <3>2, <3>3
  <2>4. CASE PartialSent(c)
    <3> DEFINE t == w.k.partial
               told == [w EXCEPT !.k.last_partial = t.text]
               sent == Sync(told)
    <3>1. Become(c, Over(sent, t), gpu) \/ Become(c, Over(w, t), gpu)
      BY <2>4 DEF PartialSent, Over, w
    <3>2. Onward(w, told) /\ DOMAIN told = DOMAIN w /\ Shaped(told.k)
      <4>1. told = [w EXCEPT !.k.last_partial = t.text]  OBVIOUS
      <4> HIDE DEF told
      <4> QED  BY <1>5, <4>1, PartialGoesOn
    <3>3. told.j = w.j /\ w.j \in Sessions  BY <1>2, WorldFields DEF Worlds
    <3> HIDE DEF told
    <3>4. Onward(told, sent) /\ DOMAIN sent = DOMAIN w /\ Shaped(sent.k)
      <4>1. sent.k = told.k /\ sent.j.final = told.j.final /\ DOMAIN sent = DOMAIN told
        BY <1>5, <3>2, <3>3 DEF Sync, Sessions
      <4> QED  BY <3>2, <4>1 DEF Onward, Untouched
    <3> HIDE DEF sent, t
    <3>5. Onward(sent, Over(sent, t)) /\ Shaped(Over(sent, t).k)
      BY <1>5, <3>4, PartialGoesOn
    <3>6. Onward(w, Over(w, t)) /\ Shaped(Over(w, t).k)  BY <1>5, PartialGoesOn
    <3>7. Onward(w, Over(sent, t))  BY <3>2, <3>4, <3>5 DEF Onward, Untouched
    <3> QED  BY <2>1, <3>1, <3>5, <3>6, <3>7
  <2>5. ASSUME Waits(conns[c], "tail") \/ Waits(conns[c], "raw"), gpu # << >>,
               Head(gpu) = <<c, "tail">> \/ Head(gpu) = <<c, "raw">>
        PROVE  /\ InStop(w.k) /\ Calm(w, Busy(c, Tail(gpu)))
               /\ Shaped([w EXCEPT !.k.phase = "closed"].k)
               /\ CacheStep(w, [w EXCEPT !.k.phase = "closed"])
    <3>1. /\ Queue(Tail(gpu)) /\ Busy(c, Tail(gpu)) \subseteq {"commit", "partial"}
      <4>1. PICK job \in {"tail", "raw"} : Running(c, job)  BY <2>5 DEF Running
      <4>2. /\ Queue(Tail(gpu)) /\ Waits(conns[c], job) /\ job \notin Busy(c, Tail(gpu))
            /\ Busy(c, Tail(gpu)) \subseteq JobKinds
        BY <4>1, RunningIs DEF JobKinds
      <4>3. \A other \in {"tail", "raw"} : other # job => ~Waits(conns[c], other)
        BY <4>2 DEF Waits
      <4>4. \A other \in Busy(c, Tail(gpu)) : Waits(conns[c], other)
        BY <4>2, BusyIsAwaited
      <4> QED  BY <4>2, <4>3, <4>4 DEF JobKinds
    <3>2. conns[c].phase \in {"tail", "raw"}  BY <2>5 DEF Waits
    <3>3. Calm(w, Busy(c, Tail(gpu)))  BY <3>1, <3>2, WorldIs DEF w
    <3>4. InStop(w.k)  BY <1>2, <3>2 DEF InStop
    <3> DEFINE closed == [w EXCEPT !.k.phase = "closed"]
               k == [w.k EXCEPT !.phase = "closed"]
    <3>5. closed = [w EXCEPT !.k = k]  OBVIOUS
    <3>6. k.phase = "closed" /\ k.stop = w.k.stop /\ k.journal = w.k.journal /\ Shaped(k)
      BY <1>4, <1>5 DEF Locals, Shaped
    <3> HIDE DEF k, closed
    <3>7. closed.k = k /\ closed.j = w.j  BY <1>5, <3>5
    <3>8. CacheStep(w, closed) /\ Shaped(closed.k)  BY <3>6, <3>7 DEF CacheStep
    <3> QED  BY <3>3, <3>4, <3>8 DEF closed
  <2>6. CASE TailDecoded(c, outcome)
    <3> DEFINE tail == UnsealedTail(w.k)
               text == Decoded(tail, outcome)
               closed == [w EXCEPT !.k.phase = "closed"]
               v == AfterTail(w, tail, text)
    <3>1. Become(c, closed, Tail(gpu)) \/ Become(c, v, Tail(gpu))
      BY <2>6 DEF TailDecoded, w
    <3>2. /\ InStop(w.k) /\ Calm(w, Busy(c, Tail(gpu))) /\ Shaped(closed.k)
          /\ CacheStep(w, closed)
      BY <2>5, <2>6, RunningIs DEF TailDecoded, Running
    <3> HIDE DEF closed
    <3>3. tail \in Audio /\ text \in Audio
      BY <1>4, TailIsAudio, DecodedType
    <3> HIDE DEF tail, text
    <3>4. StopGoesOn(w, v) /\ WorldInv(v, Busy(c, Tail(gpu)))
      BY <3>2, <3>3, AfterTailGoesOn, AfterTailKeeps
    <3> HIDE DEF v
    <3>5. CacheStep(w, v) /\ Shaped(v.k)
      BY <3>2, <3>4, StopStep, WorldFields, LocalsAreShaped DEF WorldInv, WorldCore
    <3> QED  BY <1>6, <3>1, <3>2, <3>5
  <2>7. CASE RawDecoded(c, outcome)
    <3> DEFINE text == Decoded(w.k.raw, outcome)
               closed == [w EXCEPT !.k.phase = "closed"]
               v == AfterRaw(w, text)
    <3>1. Become(c, closed, Tail(gpu)) \/ Become(c, v, Tail(gpu))
      BY <2>7 DEF RawDecoded, w
    <3>2. /\ InStop(w.k) /\ Calm(w, Busy(c, Tail(gpu))) /\ Shaped(closed.k)
          /\ CacheStep(w, closed)
      BY <2>5, <2>7, RunningIs DEF RawDecoded, Running
    <3> HIDE DEF closed
    <3>3. text \in Audio
      <4>1. w.k.raw \in Audio  BY <1>4, AudioFacts
      <4> QED  BY <4>1, DecodedType
    <3> HIDE DEF text
    <3>4. StopGoesOn(w, v) /\ WorldInv(v, Busy(c, Tail(gpu)))
      BY <3>2, <3>3, AfterRawGoesOn, AfterRawKeeps
    <3> HIDE DEF v
    <3>5. CacheStep(w, v) /\ Shaped(v.k)
      BY <3>2, <3>4, StopStep, WorldFields, LocalsAreShaped DEF WorldInv, WorldCore
    <3> QED  BY <1>6, <3>1, <3>2, <3>5
  <2> QED  BY <2>2, <2>3, <2>4, <2>6, <2>7
<1> QED  BY <1>1, <1>3, <1>6, BecomeKeepsCache DEF w

\* An ack or the death of a socket.
LEMMA LocalsCache ==
  ASSUME IInv, CacheInv, NEW c \in Conns, DuplicateAcked(c) \/ SocketDies(c)
  PROVE  CacheInv'
<1>1. conns \in [Conns -> Locals] /\ conns[c] \in Locals  BY DEF IInv, TypeOK
<1>2. CASE DuplicateAcked(c)
  <2> DEFINE k == [conns[c] EXCEPT !.phase = "receive"]
  <2>1. /\ conns' = [conns EXCEPT ![c] = k] /\ conns[c].phase = "ack"
        /\ UNCHANGED <<journals, held, created, answers>>
    BY <1>1, <1>2 DEF DuplicateAcked
  <2>2. /\ k.phase = "receive" /\ k.stop = conns[c].stop
        /\ k.journal = conns[c].journal /\ k.answer = conns[c].answer
    BY <1>1 DEF Locals
  <2> HIDE DEF k
  <2>3. ~InStop(k) /\ ~InStop(conns[c])  BY <2>1, <2>2 DEF InStop
  <2> QED  BY <2>1, <2>2, <2>3, LocalsKeepCache
<1>3. CASE SocketDies(c)
  <2> DEFINE k == [conns[c] EXCEPT !.alive = FALSE]
  <2>1. /\ conns' = [conns EXCEPT ![c] = k] /\ Open(c)
        /\ UNCHANGED <<journals, held, created, answers>>
    BY <1>1, <1>3 DEF SocketDies
  <2>2. /\ k.phase = conns[c].phase /\ k.then = conns[c].then /\ k.stop = conns[c].stop
        /\ k.journal = conns[c].journal /\ k.answer = conns[c].answer
    BY <1>1 DEF Locals
  <2> HIDE DEF k
  <2>3. InStop(k) <=> InStop(conns[c])  BY <2>2 DEF InStop
  <2> QED  BY <2>1, <2>2, <2>3, LocalsKeepCache DEF Open
<1> QED  BY <1>2, <1>3

\* A connection that ends with no stop, or with the one it asked for.
LEMMA EndCaches ==
  ASSUME IInv, CacheInv, NEW c \in Conns, ConnectionEnds(c) \/ FinalSent(c)
  PROVE  CacheInv'
<1> DEFINE k == Closed(conns[c])
<1>1. conns \in [Conns -> Locals] /\ conns[c] \in Locals  BY DEF IInv, TypeOK
<1>2. /\ conns' = [conns EXCEPT ![c] = k] /\ conns[c].phase # "unborn"
      /\ UNCHANGED <<journals, held, created>>
  BY <1>1 DEF ConnectionEnds, FinalSent
<1>3. k.phase = "closed" /\ k.stop = conns[c].stop /\ k.journal = conns[c].journal
  BY <1>1, LocalsAreShaped, ClosedIs
<1> HIDE DEF k
<1>4. ASSUME NEW a \in answers', a \notin answers
      PROVE  /\ k.stop # None
             /\ OnlyStop(k.stop) => a.stop = k.stop /\ Told(a, World(c).j.final)
  <2>1. conns[c].phase = "final" /\ a = conns[c].answer
    BY <1>4 DEF ConnectionEnds, FinalSent
  <2>2. conns[c].stop # None  BY <2>1 DEF CacheInv, StopIsNamed
  <2>3. ASSUME OnlyStop(k.stop)  PROVE a.stop = k.stop /\ Told(a, World(c).j.final)
    <3>1. k.stop \in StopIds \union {None}  BY <1>1, <1>3 DEF Locals
    <3>2. CacheOf(k.stop)  BY <2>3, <3>1 DEF CacheInv
    <3>3. World(c).j = journals[1]  BY <1>2, <2>3, TheJournal DEF OnlyStop
    <3>4. Told(a, journals[1].final)  BY <2>1, <3>2 DEF CacheOf
    <3>5. journals[1].final.stop = k.stop  BY <3>2, <3>4 DEF CacheOf, Told
    <3> QED  BY <3>3, <3>4, <3>5 DEF Told
  <2> QED  BY <1>3, <2>2, <2>3
<1> QED  BY <1>2, <1>3, <1>4, CloseKeepsCache

\* A stop that is answered at once: from the cache, or not at all.
LEMMA StopEndCaches ==
  ASSUME IInv, CacheInv, NEW c \in Conns, NEW id \in StopIds, NEW captured \in Reports,
         StopReplayed(c, id, captured) \/ StopRefused(c, id, captured)
  PROVE  CacheInv'
<1> DEFINE n == [conns[c] EXCEPT !.stop = id]
           k == Closed(n)
<1>1. conns \in [Conns -> Locals] /\ conns[c] \in Locals  BY DEF IInv, TypeOK
<1>2. /\ conns' = [conns EXCEPT ![c] = k] /\ conns[c].phase = "receive"
      /\ UNCHANGED <<journals, held, created>>
  BY <1>1 DEF StopReplayed, StopRefused, Receiving, Ended
<1>3. Shaped(n) /\ n.stop = id /\ n.journal = conns[c].journal
  BY <1>1, LocalsAreShaped DEF Locals, Shaped
<1> HIDE DEF n
<1>4. k.phase = "closed" /\ k.stop = id /\ k.journal = conns[c].journal
  BY <1>3, ClosedIs
<1> HIDE DEF k
<1>5. conns[c].stop = None
  BY <1>2 DEF CacheInv, StopIsNamed, InStop
<1>6. ASSUME NEW a \in answers', a \notin answers
      PROVE  a.stop = id /\ Told(a, World(c).j.final)
  BY <1>6 DEF StopReplayed, StopRefused, Cached, Told
<1>7. id # None  BY NoneAssumption
<1> QED  BY <1>2, <1>4, <1>5, <1>6, <1>7, CloseKeepsCache

\* A stop that is not answered at once has no covering answer in the cache.
LEMMA StopRequestCaches ==
  ASSUME IInv, CacheInv, NEW c \in Conns, NEW id \in StopIds, NEW captured \in Reports,
         StopRequested(c, id, captured)
  PROVE  CacheInv'
<1> DEFINE k == [conns[c] EXCEPT !.closing = TRUE, !.stop = id, !.captured = captured,
                                 !.phase = "coverage"]
<1>1. conns \in [Conns -> Locals] /\ conns[c] \in Locals  BY DEF IInv, TypeOK
<1>2. /\ conns' = [conns EXCEPT ![c] = k] /\ conns[c].phase = "receive"
      /\ UNCHANGED <<journals, held, created, answers>>
      /\ Cached(World(c).j, id) => CachedShort(World(c).j, id, captured)
  BY <1>1 DEF StopRequested, Receiving
<1>3. k.phase = "coverage" /\ k.stop = id /\ k.journal = conns[c].journal
  BY <1>1 DEF Locals
<1> HIDE DEF k
<1>4. conns'[c] = k /\ \A d \in Conns : d # c => conns'[d] = conns[d]  BY <1>1, <1>2
<1>5. conns[c].stop = None
  BY <1>2 DEF CacheInv, StopIsNamed, InStop
<1>6. id # None  BY NoneAssumption
<1>7. OneSocket'
  <2>1. \A d \in Conns : Open(d)' => Open(d)  BY <1>2, <1>4 DEF Open
  <2> QED  BY <2>1 DEF CacheInv, OneSocket
<1>8. OfCreated'  BY <1>2, <1>3, <1>4 DEF CacheInv, OfCreated
<1>9. \A d \in Conns : StopIsNamed(conns'[d])
  BY <1>3, <1>4, <1>6 DEF CacheInv, StopIsNamed, InStop
<1>10. ASSUME NEW ii \in StopIds \union {None}, OnlyStop(ii)'  PROVE CacheOf(ii)'
  <2>1. OnlyStop(ii)
    BY <1>2, <1>4, <1>5, <1>10 DEF OnlyStop
  <2>2. ii = id  BY <1>3, <1>4, <1>6, <1>10 DEF OnlyStop
  <2>3. CacheOf(ii)  BY <2>1 DEF CacheInv
  <2>4. World(c).j = journals[1]  BY <1>2, <2>1, TheJournal DEF OnlyStop
  <2> DEFINE f == journals[1].final
  <2>5. f = None \/ ~Covers(f)
    <3>1. CASE f = None  BY <3>1
    <3>2. CASE f # None
      <4>1. Cached(World(c).j, id)  BY <2>2, <2>3, <2>4, <3>2 DEF CacheOf, Cached
      <4>2. captured # None /\ ~Reaches(f, captured)  BY <1>2, <2>4, <4>1 DEF CachedShort
      <4>3. captured = Captured  BY <4>2 DEF Reports
      <4> QED  BY <4>2, <4>3 DEF Covers
    <3> QED  BY <3>1, <3>2
  <2>6. k.phase # "final"  BY <1>3
  <2>7. journals'[1].final = f  BY <1>2
  <2>8. /\ \A a \in answers : a.stop = ii /\ (Covers(a) => Told(a, f))
        /\ f # None => f.stop = ii
        /\ \A d \in Conns :
             /\ InStop(conns[d]) => f = None \/ ~Covers(f)
             /\ conns[d].phase = "final" => Told(conns[d].answer, f)
    BY <2>3 DEF CacheOf
  <2> HIDE DEF f
  <2>9. \A d \in Conns :
          /\ InStop(conns'[d]) => f = None \/ ~Covers(f)
          /\ conns'[d].phase = "final" => Told(conns'[d].answer, f)
    BY <1>4, <2>5, <2>6, <2>8
  <2> QED  BY <1>2, <2>7, <2>8, <2>9 DEF CacheOf, Covers, Told, InStop
<1> QED  BY <1>7, <1>8, <1>9, <1>10 DEF CacheInv

\* A cached result that ages out says what it said.
LEMMA ExpiryCaches ==
  ASSUME IInv, CacheInv, NEW j \in Journals, StopResultExpires(j)
  PROVE  CacheInv'
<1> DEFINE n == [journals[j].final EXCEPT !.fresh = FALSE]
           s == [journals[j] EXCEPT !.final = n]
<1>1. journals \in [Journals -> Sessions] /\ journals[j] \in Sessions
  BY DEF IInv, TypeOK
<1>2. /\ journals[j].final # None /\ journals' = [journals EXCEPT ![j] = s]
      /\ UNCHANGED <<held, created, conns, answers>>
  BY <1>1 DEF StopResultExpires
<1>3. n # None /\ n.stop = journals[j].final.stop /\ n.text = journals[j].final.text
      /\ n.through = journals[j].final.through
  <2>1. journals[j].final \in Finals  BY <1>1, <1>2 DEF Sessions
  <2>2. n \in Finals  BY <2>1 DEF Finals
  <2>3. n.stop = journals[j].final.stop /\ n.text = journals[j].final.text
        /\ n.through = journals[j].final.through
    BY <2>1 DEF Finals
  <2> HIDE DEF n
  <2>4. n # None  BY <2>2, NoneAssumption
  <2> QED  BY <2>3, <2>4
<1> HIDE DEF n
<1>4. s.final = n  BY <1>1 DEF Sessions
<1> HIDE DEF s
<1>5. OneSocket' /\ OfCreated' /\ \A d \in Conns : StopIsNamed(conns'[d])
  BY <1>2 DEF CacheInv, OneSocket, OfCreated, Open
<1>6. ASSUME NEW id \in StopIds \union {None}, OnlyStop(id)'  PROVE CacheOf(id)'
  <2>1. CacheOf(id)  BY <1>2, <1>6 DEF OnlyStop, CacheInv
  <2> DEFINE f == journals[1].final
             g == journals'[1].final
  <2>2. \/ g = f
        \/ f # None /\ g # None /\ g.stop = f.stop /\ g.text = f.text /\ g.through = f.through
    <3>1. CASE j = 1
      <4>1. g = n  BY <1>1, <1>2, <1>4, <3>1
      <4> QED  BY <1>2, <1>3, <3>1, <4>1
    <3>2. CASE j # 1
      <4>1. journals'[1] = journals[1]  BY <1>1, <1>2, <3>2
      <4> QED  BY <4>1
    <3> QED  BY <3>1, <3>2
  <2>3. /\ \A a \in answers : a.stop = id /\ (Covers(a) => Told(a, f))
        /\ f # None => f.stop = id
        /\ \A d \in Conns :
             /\ InStop(conns[d]) => f = None \/ ~Covers(f)
             /\ conns[d].phase = "final" => Told(conns[d].answer, f)
    BY <2>1 DEF CacheOf
  <2>4. SUFFICES /\ \A a \in answers : a.stop = id /\ (Covers(a) => Told(a, g))
                 /\ g # None => g.stop = id
                 /\ \A d \in Conns :
                      /\ InStop(conns[d]) => g = None \/ ~Covers(g)
                      /\ conns[d].phase = "final" => Told(conns[d].answer, g)
    BY <1>2 DEF CacheOf, Covers, Told, InStop
  <2> HIDE DEF f, g
  <2>5. \A a : Told(a, f) => Told(a, g)  BY <2>2 DEF Told
  <2>6. f = None \/ ~Covers(f) => g = None \/ ~Covers(g)  BY <2>2 DEF Covers, Reaches
  <2> QED  BY <2>2, <2>3, <2>5, <2>6
<1> QED  BY <1>5, <1>6 DEF CacheInv

\* A connection attaches to a journal while no other is open.
LEMMA AttachCaches ==
  ASSUME IInv, CacheInv, NEW c \in Conns, conns[c].phase = "unborn",
         \A d \in Conns \ {c} : ~Open(d), NEW j, NEW id,
         created' \in Nat, created <= created', id \in 1 .. created', Attach(c, id, j)
  PROVE  CacheInv'
<1> DEFINE n == [conns[c] EXCEPT !.phase = "receive", !.alive = TRUE]
           k == Hydrate(n, j, id)
<1>1. conns \in [Conns -> Locals] /\ conns[c] \in Locals /\ created \in 0 .. MaxJournals
  BY DEF IInv, TypeOK
<1>2. /\ held' = id /\ conns' = [conns EXCEPT ![c] = k]
      /\ UNCHANGED <<journals, answers>>
  BY <1>1 DEF Attach
<1>3. conns[c].stop = None
  <2>1. StopIsNamed(conns[c])  BY DEF CacheInv
  <2> QED  BY <2>1 DEF StopIsNamed, InStop
<1>4. n.phase = "receive" /\ n.stop = None /\ {"phase", "stop", "journal"} \subseteq DOMAIN n
  BY <1>1, <1>3 DEF Locals
<1> HIDE DEF n
<1>5. k.phase = "receive" /\ k.stop = None /\ k.journal = id
  BY <1>4 DEF Hydrate
<1> HIDE DEF k
<1>6. ~InStop(k) /\ k.phase # "final"  BY <1>5 DEF InStop
<1>7. conns'[c] = k /\ \A d \in Conns : d # c => conns'[d] = conns[d]  BY <1>1, <1>2
<1>8. OneSocket'
  <2>1. \A d \in Conns : Open(d)' => d = c  BY <1>7 DEF Open
  <2> QED  BY <2>1 DEF OneSocket
<1>9. OfCreated'
  <2>1. 1 .. created \subseteq 1 .. created'  BY <1>1, SessionAssumption
  <2>2. conns'[c].journal \in 1 .. created' /\ held' \in 1 .. created'  BY <1>2, <1>5, <1>7
  <2>3. ASSUME NEW d \in Conns, d # c, conns'[d].phase # "unborn"
        PROVE  conns'[d].journal \in 1 .. created'
    BY <1>7, <2>1, <2>3 DEF CacheInv, OfCreated
  <2> QED  BY <2>2, <2>3 DEF OfCreated
<1>10. \A d \in Conns : StopIsNamed(conns'[d])
  BY <1>5, <1>6, <1>7 DEF CacheInv, StopIsNamed
<1>11. ASSUME NEW ii \in StopIds \union {None}, OnlyStop(ii)'  PROVE CacheOf(ii)'
  <2>1. OnlyStop(ii)
    <3>1. created <= 1  BY <1>1, <1>11, SessionAssumption DEF OnlyStop
    <3> QED  BY <1>3, <1>7, <1>11, <3>1 DEF OnlyStop
  <2>2. CacheOf(ii)  BY <2>1 DEF CacheInv
  <2> DEFINE f == journals[1].final
  <2>3. journals'[1].final = f  BY <1>2
  <2>4. /\ \A a \in answers : a.stop = ii /\ (Covers(a) => Told(a, f))
        /\ f # None => f.stop = ii
        /\ \A d \in Conns :
             /\ InStop(conns[d]) => f = None \/ ~Covers(f)
             /\ conns[d].phase = "final" => Told(conns[d].answer, f)
    BY <2>2 DEF CacheOf
  <2> HIDE DEF f
  <2>5. \A d \in Conns :
          /\ InStop(conns'[d]) => f = None \/ ~Covers(f)
          /\ conns'[d].phase = "final" => Told(conns'[d].answer, f)
    BY <1>6, <1>7, <2>4
  <2> QED  BY <1>2, <2>3, <2>4, <2>5 DEF CacheOf, Covers, Told, InStop
<1> QED  BY <1>8, <1>9, <1>10, <1>11 DEF CacheInv

\* A client takes up its dictation once the earlier socket is closed.
LEMMA ConnectCaches ==
  ASSUME "overlap" \notin Allow, IInv, CacheInv, NEW c \in Conns, Start(c) \/ Resume(c)
  PROVE  CacheInv'
<1>1. created \in Nat
  <2>1. created \in 0 .. MaxJournals /\ MaxJournals \in Nat
    BY SessionAssumption DEF IInv, TypeOK
  <2> QED  BY <2>1
<1>2. conns[c].phase = "unborn"  BY DEF Start, Resume
<1>3. \A d \in Conns \ {c} : ~Open(d)
  <2>1. CASE created = 0
    <3>1. 1 .. created = {}  BY <2>1
    <3> QED  BY <3>1 DEF CacheInv, OfCreated, Open
  <2>2. CASE created # 0
    BY <2>2 DEF Start, Resume, PeersAllowResume
  <2> QED  BY <2>1, <2>2
<1>4. CASE Create(c)
  <2>1. created' = created + 1 /\ Attach(c, created', NewJournal)  BY <1>4 DEF Create
  <2>2. created' \in Nat /\ created <= created' /\ created' \in 1 .. created'
    BY <1>1, <2>1
  <2> QED  BY <1>2, <1>3, <2>1, <2>2, AttachCaches
<1>5. CASE held # None /\ created' = created /\ Attach(c, held, journals[held])
  <2>1. held \in 1 .. created'  BY <1>5 DEF CacheInv, OfCreated
  <2>2. created' \in Nat /\ created <= created'  BY <1>1, <1>5
  <2> QED  BY <1>2, <1>3, <1>5, <2>1, <2>2, AttachCaches
<1> QED  BY <1>4, <1>5 DEF Start, Resume

\* Nothing is cached at the start.
LEMMA InitIsCached ==
  ASSUME Init
  PROVE  CacheInv
<1>1. \A c \in Conns : conns[c].phase = "unborn" /\ conns[c].stop = None
  BY DEF Init, NewConn
<1>2. OneSocket  BY <1>1 DEF OneSocket, Open
<1>3. OfCreated  BY <1>1 DEF Init, OfCreated
<1>4. \A c \in Conns : StopIsNamed(conns[c])  BY <1>1 DEF StopIsNamed, InStop
<1>5. ASSUME NEW id \in StopIds \union {None}  PROVE CacheOf(id)
  <2>1. 1 \in Journals  BY SessionAssumption DEF Journals
  <2>2. journals[1].final = None  BY <2>1 DEF Init, NewJournal
  <2>3. answers = {}  BY DEF Init
  <2> QED  BY <1>1, <2>2, <2>3 DEF CacheOf, InStop
<1> QED  BY <1>2, <1>3, <1>4, <1>5 DEF CacheInv

\* No step, no change.
LEMMA StandingStillCaches ==
  ASSUME CacheInv, UNCHANGED vars
  PROVE  CacheInv'
<1>1. OneSocket' /\ OfCreated' /\ \A c \in Conns : StopIsNamed(conns'[c])
  BY DEF CacheInv, OneSocket, OfCreated, Open, vars
<1>2. ASSUME NEW id \in StopIds \union {None}, OnlyStop(id)'  PROVE CacheOf(id)'
  <2>1. CacheOf(id)  BY <1>2 DEF CacheInv, OnlyStop, vars
  <2> QED  BY <2>1 DEF CacheOf, vars
<1> QED  BY <1>1, <1>2 DEF CacheInv

\* Every step.
LEMMA NextCaches ==
  ASSUME "overlap" \notin Allow, IInv, CacheInv, [Next]_vars
  PROVE  CacheInv'
<1>1. ASSUME NEW c \in Conns, Client(c)  PROVE CacheInv'
  <2>1. CASE Start(c) \/ Resume(c)  BY <2>1, ConnectCaches
  <2>2. CASE SocketDies(c)  BY <2>2, LocalsCache
  <2>3. CASE \E s \in Seqs : AudioFrame(c, s) \/ LateFrame(c, s)  BY <2>3, SocketCaches
  <2>4. ASSUME NEW id \in StopIds, NEW captured \in Reports,
               StopReplayed(c, id, captured) \/ StopRefused(c, id, captured)
        PROVE  CacheInv'
    BY <2>4, StopEndCaches
  <2>5. ASSUME NEW id \in StopIds, NEW captured \in Reports, StopRequested(c, id, captured)
        PROVE  CacheInv'
    BY <2>5, StopRequestCaches
  <2> QED  BY <1>1, <2>1, <2>2, <2>3, <2>4, <2>5 DEF Client
<1>2. ASSUME NEW c \in Conns, Server(c)  PROVE CacheInv'
  <2>1. CASE DuplicateAcked(c)  BY <2>1, LocalsCache
  <2>2. CASE FrameAcked(c) \/ CoverageWaitEnds(c)  BY <2>2, SocketCaches
  <2>3. CASE \/ \E e \in Embeddings : SpeakerChecked(c, e) \/ TailSpeakerChecked(c, e)
             \/ PartialAwaited(c) \/ BackgroundAwaited(c)
    BY <2>3, StopCaches
  <2>4. CASE FinalSent(c)  BY <2>4, EndCaches
  <2>5. CASE PartialSent(c)  BY <2>5, DecodeCaches
  <2> QED  BY <1>2, <2>1, <2>2, <2>3, <2>4, <2>5 DEF Server
<1>3. ASSUME NEW c \in Conns, ReceiveTimesOut(c)  PROVE CacheInv'  BY <1>3, SocketCaches
<1>4. ASSUME NEW c \in Conns, ConnectionEnds(c)  PROVE CacheInv'  BY <1>4, EndCaches
<1>5. ASSUME NEW j \in Journals, StopResultExpires(j)  PROVE CacheInv'
  BY <1>5, ExpiryCaches
<1>6. CASE Gpu  BY <1>6, DecodeCaches DEF Gpu
<1>7. CASE Finished \/ UNCHANGED vars  BY <1>7, StandingStillCaches DEF Finished
<1> QED  BY <1>1, <1>2, <1>3, <1>4, <1>5, <1>6, <1>7 DEF Next

\* While a client reconnects only after its earlier socket has closed, whatever
\* else it does and whatever is still decoding, two finals of one stop id that
\* both cover the captured audio have the same text.
THEOREM OneTranscript ==
  ASSUME "overlap" \notin Allow
  PROVE  Spec => []OneTranscriptPerStop
<1>1. Init => IInv /\ CacheInv  BY InitIsInv, InitIsCached
<1>2. IInv /\ CacheInv /\ [Next]_vars => (IInv /\ CacheInv)'  BY NextKeeps, NextCaches
<1>3. ASSUME IInv, CacheInv  PROVE OneTranscriptPerStop
  <2> SUFFICES ASSUME NEW a \in answers, NEW b \in answers, a.stop = b.stop,
                      Covers(a), Covers(b), OnlyStop(a.stop)
               PROVE  a.text = b.text
    BY DEF OneTranscriptPerStop
  <2>1. a.stop \in StopIds \union {None}  BY <1>3 DEF IInv, TypeOK, Finals
  <2>2. CacheOf(a.stop)  BY <1>3, <2>1 DEF CacheInv
  <2> QED  BY <2>2 DEF CacheOf, Told
<1> QED  BY <1>1, <1>2, <1>3, PTL DEF Spec
=============================================================================
