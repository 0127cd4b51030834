------------------------------- MODULE AsrGate -------------------------------
(***************************************************************************)
(* The path of audio from `staging` to a decision, as pure functions:      *)
(* _process_staged_audio cuts whole windows and classifies them, and       *)
(* apply_events feeds ledger and buffers until it must wait for a speaker  *)
(* embedding.  The VAD hears the recording as it is: a window is speech    *)
(* exactly when it holds a unit of `speech`.                               *)
(***************************************************************************)
EXTENDS Integers, Sequences, SequencesExt, LedgerOps

CONSTANTS
  GATE_WINDOW,             \* units in one VAD window
  COMMIT_SILENCE_WINDOWS,  \* silent windows that close a segment
  MIN_COMMIT               \* shortest segment the speaker check is run on

ASSUME GateAssumption ==
  /\ GATE_WINDOW \in Nat \ {0}
  /\ COMMIT_SILENCE_WINDOWS \in Nat \ {0}
  /\ MIN_COMMIT \in Nat

Gates == [silence_run: Nat, gate_was_open: BOOLEAN]

ClosedGate == [silence_run |-> 0, gate_was_open |-> FALSE]

AudioEvent(audio, replayed) ==
  [kind |-> "audio", audio |-> audio, replayed |-> replayed]
SilenceEvent(audio) == [kind |-> "silence", audio |-> audio, replayed |-> FALSE]
BoundaryEvent == [kind |-> "boundary", audio |-> << >>, replayed |-> FALSE]

Events(Units) ==
  [kind: {"audio", "silence", "boundary"}, audio: Seq(Units), replayed: BOOLEAN]

WholeWindows(staging) == Len(staging) \div GATE_WINDOW

WindowAt(staging, i) == SubSeq(staging, (i - 1) * GATE_WINDOW + 1, i * GATE_WINDOW)

\* Mutant: the attack buffer is not cleared by its replay.
SpeechKeepsAttack(g, window) ==
  [prev |-> g.prev,
   gate |-> [silence_run |-> 0, gate_was_open |-> TRUE],
   events |-> g.events
              \o (IF g.prev # << >> THEN <<AudioEvent(g.prev, TRUE)>> ELSE << >>)
              \o <<AudioEvent(window, FALSE)>>]

\* g holds the gate between windows: prev (the attack buffer, << >> if empty),
\* the gate_state dict, and the events emitted so far.
SpeechWindow(g, window) ==
  [prev |-> << >>,
   gate |-> [silence_run |-> 0, gate_was_open |-> TRUE],
   events |-> g.events
              \o (IF g.prev # << >> THEN <<AudioEvent(g.prev, TRUE)>> ELSE << >>)
              \o <<AudioEvent(window, FALSE)>>]

SilentWindow(g, window) ==
  LET run == g.gate.silence_run + 1
      ends == g.gate.gate_was_open /\ run >= COMMIT_SILENCE_WINDOWS
  IN  [prev |-> window,
       gate |-> IF ends THEN ClosedGate
                ELSE IF g.gate.gate_was_open
                     THEN [g.gate EXCEPT !.silence_run = run]
                     ELSE g.gate,
       events |-> g.events \o <<SilenceEvent(window)>>
                  \o (IF ends THEN <<BoundaryEvent>> ELSE << >>)]

GateWindow(g, window, speech) ==
  IF ToSet(window) \intersect speech # {} THEN SpeechWindow(g, window)
  ELSE SilentWindow(g, window)

\* Returns the gate after every whole window of staging, with its events.
ProcessStagedAudio(staging, prev, gate, speech) ==
  LET after[i \in 0 .. WholeWindows(staging)] ==
        IF i = 0 THEN [prev |-> prev, gate |-> gate, events |-> << >>]
        ELSE GateWindow(after[i - 1], WindowAt(staging, i), speech)
  IN  after[WholeWindows(staging)]

Leftover(staging) ==
  SubSeq(staging, WholeWindows(staging) * GATE_WINDOW + 1, Len(staging))

\* Mutant: a boundary after a short segment deletes it instead of deferring.
ApplyEventDeletes(a, e) ==
  IF a.rest # << >> THEN [a EXCEPT !.rest = Append(@, e)]
  ELSE CASE e.kind = "silence" ->
              [a EXCEPT !.ledger = NoteSilence(@, Len(e.audio))]
         [] e.kind = "audio" ->
              [a EXCEPT !.ledger = NoteSpeech(@, Len(e.audio), e.replayed),
                        !.pending = @ \o e.audio]
         [] e.kind = "boundary" /\ Len(a.pending) < MIN_COMMIT ->
              [a EXCEPT !.pending = << >>]
         [] OTHER -> [a EXCEPT !.rest = <<e>>]

\* a is what apply_events changes: the ledger, pending_audio, and the events
\* it has yet to apply.
ApplyEvent(a, e) ==
  IF a.rest # << >> THEN [a EXCEPT !.rest = Append(@, e)]
  ELSE CASE e.kind = "silence" ->
              [a EXCEPT !.ledger = NoteSilence(@, Len(e.audio))]
         [] e.kind = "audio" ->
              [a EXCEPT !.ledger = NoteSpeech(@, Len(e.audio), e.replayed),
                        !.pending = @ \o e.audio]
         [] e.kind = "boundary" /\ Len(a.pending) < MIN_COMMIT -> a
         [] OTHER -> [a EXCEPT !.rest = <<e>>]

\* Applies events up to the first boundary that needs a speaker embedding;
\* rest then starts with that boundary.
ApplyEvents(ledger, pending, events) ==
  LET applied[n \in 0 .. Len(events)] ==
        IF n = 0 THEN [ledger |-> ledger, pending |-> pending, rest |-> << >>]
        ELSE ApplyEvent(applied[n - 1], events[n])
  IN  applied[Len(events)]

=============================================================================
