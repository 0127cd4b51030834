----------------------------- MODULE AsrSession -----------------------------
(***************************************************************************)
(* One dictation through /ws/transcribe (server.py): the sockets that      *)
(* carry it, the in-memory journal that outlives them, the background      *)
(* decodes of each socket, and the stop handler that seals it.             *)
(*                                                                         *)
(* The server runs on one event loop, so a step of this module is what     *)
(* runs between two awaits.  Audio is counted in units: a unit is named by *)
(* its offset in the recording, a chunk is a stretch of units that may be  *)
(* empty, a buffer is a sequence of units, and a text is the sequence of   *)
(* units whose decode it joins (<<>> is the empty string).                 *)
(***************************************************************************)
EXTENDS AsrGate, FiniteSets

CONSTANTS
  Conns,               \* connections: how often a client may connect
  MaxJournals,         \* bound: journals created under the one session id
  StopIds,
  LastSeq,             \* bound: the client records chunks 0 .. LastSeq
  ChunkStart,          \* ChunkStart[s]: units of the recording before chunk s
  Controls,            \* control protocols spoken: 2 sends finalCapturedSeq
  STABLE_COMMIT_MIN,   \* units that make a stable commit worth it
  PARTIAL_WINDOW,      \* longest tail a partial decodes
  MIN_AUDIO,           \* 0.3 s: shortest buffer a partial or fallback decodes
  PARTIALS_ENABLED, FINAL_WAIT_PARTIAL,
  DecodeOutcomes,      \* what _transcribe_buffer may do, see Decoded
  Allow,               \* what the peers of the server may do, see PeerFaults
  None

(***************************************************************************)
(* reorder:  chunks arrive in any order                                    *)
(* resume:   a client resumes after a socket closed without a stop         *)
(* orphans:  ... while a decode of the closed socket still runs            *)
(* reissue:  ... after a socket that had begun a stop has closed           *)
(* overlap:  ... while the server has not yet noticed the old socket die   *)
(* expire:   the resume and the stop-result time limits pass               *)
(***************************************************************************)
PeerFaults ==
  {"reorder", "resume", "orphans", "reissue", "overlap", "expire"}

ASSUME SessionAssumption ==
  /\ {LastSeq, PARTIAL_WINDOW, MIN_AUDIO} \subseteq Nat
  /\ {MaxJournals, STABLE_COMMIT_MIN} \subseteq Nat \ {0}
  /\ Controls \subseteq {1, 2}
  /\ {PARTIALS_ENABLED, FINAL_WAIT_PARTIAL} \subseteq BOOLEAN
  /\ DecodeOutcomes \subseteq {"words", "empty", "unavailable"}
  /\ Allow \subseteq PeerFaults

ASSUME RecordingAssumption ==
  /\ ChunkStart \in [0 .. LastSeq + 1 -> Nat]
  /\ ChunkStart[0] = 0
  /\ \A m, n \in 0 .. LastSeq + 1 : m <= n => ChunkStart[m] <= ChunkStart[n]

VARIABLES
  speech,    \* what the client recorded: the units that hold speech
  held,      \* the journal _protocol_sessions maps the session id to, or None
  created,   \* how many journals have been created
  journals,  \* journals[j]: an AsrProtocolSession
  ledgers,   \* ledgers[c]: the CoverageLedger that connection c created
  conns,     \* conns[c]: the locals of one run of ws_transcribe
  gpu,       \* decodes queued on the one GPU thread, first come first served
  answers    \* history: the final messages a client has received

vars == <<speech, held, created, journals, ledgers, conns, gpu, answers>>

Journals == 1 .. MaxJournals
Seqs == 0 .. LastSeq
Captured == LastSeq + 1   \* finalCapturedSeq: an exclusive count
Recorded == ChunkStart[Captured]
Units == 0 .. Recorded - 1
Reports == {IF control = 1 THEN None ELSE Captured : control \in Controls}

-----------------------------------------------------------------------------
(***************************************************************************)
(* The journal.                                                            *)
(***************************************************************************)
NewJournal ==
  [chunks |-> {}, gated |-> << >>, pending |-> << >>, staging |-> << >>,
   gate |-> ClosedGate, enrolled |-> FALSE, last_partial |-> << >>,
   partial_at |-> 0, stable_text |-> << >>, stable_bytes |-> 0,
   ledger |-> None, final |-> None]

HighestContiguous(chunks) ==
  CHOOSE h \in -1 .. LastSeq : 0 .. h \subseteq chunks /\ h + 1 \notin chunks

\* The audio of a frame; a frame may be a bare header.
Payload(s) ==
  [i \in 1 .. ChunkStart[s + 1] - ChunkStart[s] |-> ChunkStart[s] + i - 1]

Arrived(chunks) == UNION {ToSet(Payload(s)) : s \in chunks}

\* raw_audio(): the chunks joined in the order of their numbers.
RawAudio(chunks) ==
  LET joined[n \in 0 .. Captured] ==
        IF n = 0 THEN << >>
        ELSE IF n - 1 \in chunks THEN joined[n - 1] \o Payload(n - 1)
        ELSE joined[n - 1]
  IN  joined[Captured]

\* Mutant: a chunk that straddles the covered bytes is rounded up.
SeqRoundedUp(chunks, covered) ==
  LET arrived == HighestContiguous(chunks) + 1
  IN  CHOOSE n \in 0 .. arrived :
        /\ n > 0 => ChunkStart[n - 1] < covered
        /\ n < arrived => ChunkStart[n] >= covered

\* _seq_for_covered_bytes: how many contiguous chunks lie fully inside the
\* covered bytes; the first that does not fit ends the count.
SeqForCoveredBytes(chunks, covered) ==
  LET arrived == HighestContiguous(chunks) + 1
  IN  CHOOSE n \in 0 .. arrived :
        /\ ChunkStart[n] <= covered
        /\ n < arrived => ChunkStart[n + 1] > covered

\* A final's frontier reaches what the client says it captured.
Reaches(final, captured) == final.through # None /\ final.through >= captured

Cached(j, id) == j.final # None /\ j.final.stop = id

-----------------------------------------------------------------------------
(***************************************************************************)
(* The locals of a connection.                                             *)
(***************************************************************************)
NewConn(c) ==
  [phase |-> "unborn", alive |-> FALSE, journal |-> None, ledger |-> c,
   gated |-> << >>, pending |-> << >>, raw |-> << >>, staging |-> << >>,
   prev |-> << >>, gate |-> ClosedGate, enrolled |-> FALSE,
   last_partial |-> << >>, partial_at |-> 0,
   stable_text |-> << >>, stable_bytes |-> 0, empty_upto |-> 0,
   commit |-> None, partial |-> None, partial_decode |-> None,
   closing |-> FALSE, stop |-> None, captured |-> None, complete |-> FALSE,
   frame |-> None, events |-> << >>, then |-> "audio", answer |-> None]

\* A world is what one connection can touch in a step: its locals, the ledger
\* and the journal it refers to, and the decodes it submits.
World(c) ==
  [k |-> conns[c], l |-> ledgers[conns[c].ledger],
   j |-> journals[conns[c].journal], jobs |-> << >>]

\* The end of ws_transcribe.  Its background decodes are not cancelled: the
\* locals live on for as long as one of them runs.
Closed(k) ==
  IF k.commit = None /\ k.partial = None
  THEN [NewConn(k.ledger) EXCEPT !.phase = "closed", !.journal = k.journal,
                                 !.closing = TRUE, !.stop = k.stop]
  ELSE [k EXCEPT !.phase = "closed", !.alive = FALSE, !.closing = TRUE]

Settled(k) == IF k.phase = "closed" THEN Closed(k) ELSE k

\* Makes w the world of connection c, q being the decodes already queued.
Become(c, w, q) ==
  /\ conns' = [conns EXCEPT ![c] = Settled(w.k)]
  /\ ledgers' = [ledgers EXCEPT ![conns[c].ledger] = w.l]
  /\ journals' = [journals EXCEPT ![conns[c].journal] = w.j]
  /\ gpu' = q \o [i \in DOMAIN w.jobs |-> <<c, w.jobs[i]>>]

\* Mutant: the journal gets the recognized text without its length.
SyncForgetsBytes(w) ==
  [w EXCEPT !.j =
     [w.j EXCEPT !.gated = w.k.gated, !.pending = w.k.pending,
                 !.staging = w.k.staging, !.gate = w.k.gate,
                 !.enrolled = w.k.enrolled, !.last_partial = w.k.last_partial,
                 !.partial_at = w.k.partial_at,
                 !.stable_text = w.k.stable_text, !.ledger = w.k.ledger]]

\* sync_protocol_session: the journal gets a copy of the buffers, and the
\* ledger itself.
Sync(w) ==
  [w EXCEPT !.j =
     [w.j EXCEPT !.gated = w.k.gated, !.pending = w.k.pending,
                 !.staging = w.k.staging, !.gate = w.k.gate,
                 !.enrolled = w.k.enrolled, !.last_partial = w.k.last_partial,
                 !.partial_at = w.k.partial_at,
                 !.stable_text = w.k.stable_text,
                 !.stable_bytes = w.k.stable_bytes, !.ledger = w.k.ledger]]

\* Mutant: the open segment does not come back, though its ledger does.
HydrateForgetsPending(k, j, id) ==
  [k EXCEPT !.journal = id,
            !.ledger = IF j.ledger # None THEN j.ledger ELSE k.ledger,
            !.gated = j.gated,
            !.raw = RawAudio(j.chunks), !.staging = j.staging,
            !.gate = j.gate, !.enrolled = j.enrolled,
            !.last_partial = j.last_partial, !.partial_at = j.partial_at,
            !.stable_text = j.stable_text, !.stable_bytes = j.stable_bytes]

\* hydrate_from_protocol_session: everything synced comes back except the
\* attack buffer, which the journal does not keep.
Hydrate(k, j, id) ==
  [k EXCEPT !.journal = id,
            !.ledger = IF j.ledger # None THEN j.ledger ELSE k.ledger,
            !.gated = j.gated, !.pending = j.pending,
            !.raw = RawAudio(j.chunks), !.staging = j.staging,
            !.gate = j.gate, !.enrolled = j.enrolled,
            !.last_partial = j.last_partial, !.partial_at = j.partial_at,
            !.stable_text = j.stable_text, !.stable_bytes = j.stable_bytes]

\* accept() keeps the payload; what reads it is a later step.
Accept(w, s) == [w EXCEPT !.j.chunks = @ \union {s}]

\* What _transcribe_buffer returns for this audio: a swallowed failure and a
\* decode without words are the same empty string.
Decoded(audio, outcome) == IF outcome = "words" THEN audio ELSE << >>

-----------------------------------------------------------------------------
(***************************************************************************)
(* Background decodes.                                                     *)
(***************************************************************************)
Suffix(s, n) == IF Len(s) <= n THEN s ELSE SubSeq(s, Len(s) - n + 1, Len(s))

UnsealedTail(k) == SubSeq(k.gated, k.stable_bytes + 1, Len(k.gated))

\* partial_snapshot: the unsealed tail, or a sliding window if it is too long.
PartialSnapshot(k) ==
  LET tail == UnsealedTail(k) \o k.pending
  IN  IF Len(tail) <= PARTIAL_WINDOW
      THEN [audio |-> tail, at |-> k.stable_bytes, prefix |-> k.stable_text]
      ELSE [audio |-> Suffix(k.raw, PARTIAL_WINDOW), at |-> None, prefix |-> << >>]

\* maybe_send_partial; due abstracts partial_due's clocks and signal gate.
MaybeSendPartial(w, due) ==
  LET snap == PartialSnapshot(w.k)
  IN  IF /\ PARTIALS_ENABLED /\ due
         /\ ~w.k.closing
         /\ w.k.partial = None
         /\ Len(w.k.raw) > w.k.partial_at
         /\ Len(snap.audio) >= MIN_AUDIO
      THEN [w EXCEPT !.k.partial =
                       [audio |-> snap.audio, at |-> snap.at,
                        prefix |-> snap.prefix, signal |-> Len(w.k.raw),
                        text |-> << >>, stage |-> "decode"],
                     !.jobs = Append(@, "partial")]
      ELSE w

\* maybe_commit_stable_prefix
MaybeCommitStablePrefix(w) ==
  LET k == w.k
      upto == Len(k.gated)
      uncommitted == upto - k.stable_bytes
  IN  IF /\ ~k.closing
         /\ k.commit = None
         /\ uncommitted >= STABLE_COMMIT_MIN
         /\ upto - k.empty_upto >= STABLE_COMMIT_MIN
         /\ k.partial = None \/ uncommitted >= 2 * STABLE_COMMIT_MIN
      THEN [w EXCEPT !.k.commit = [start |-> k.stable_bytes, upto |-> upto,
                                   audio |-> UnsealedTail(k)],
                     !.jobs = Append(@, "commit")]
      ELSE w

Due == IF PARTIALS_ENABLED THEN BOOLEAN ELSE {FALSE}

Background(w, due) == MaybeCommitStablePrefix(MaybeSendPartial(w, due))

-----------------------------------------------------------------------------
(***************************************************************************)
(* The stop handler after its coverage wait, up to its next await.         *)
(***************************************************************************)

\* send_covered_final caches the answer before it sends it.  read is history:
\* the units the decoder was handed for this text.
Answer(w, text, through, read) ==
  LET final == [stop |-> w.k.stop, text |-> text,
                through |-> IF w.k.complete THEN through ELSE None,
                fresh |-> TRUE, read |-> read]
  IN  [w EXCEPT !.j.final = final, !.k.answer = final, !.k.phase = "final"]

Frontier(w) == SeqForCoveredBytes(w.j.chunks, w.l.covered)

AfterRaw(w, text) ==
  IF text # << >> THEN Answer(w, text, Frontier(w), ToSet(w.k.raw))
  ELSE Answer(w, w.k.last_partial, None, {})

\* tail is the audio that tail_text is the decode of; the stable text has the
\* units of the segments its commits decoded.
AfterTail(w, tail, tail_text) ==
  LET text == w.k.stable_text \o tail_text
      read == ToSet(w.k.stable_text) \union ToSet(tail)
  IN  IF text # << >> THEN Answer(w, text, Frontier(w), read)
      ELSE IF Len(w.k.raw) >= MIN_AUDIO
      THEN [w EXCEPT !.k.phase = "raw", !.jobs = Append(@, "raw")]
      ELSE Answer(w, w.k.last_partial, None, {})

\* Mutant: the partial is reused for where it begins, whatever audio it decoded.
SealTailByOffset(w) ==
  LET d == w.k.partial_decode
      tail == UnsealedTail(w.k)
  IN  IF d # None /\ d.at = w.k.stable_bytes THEN AfterTail(w, d.audio, d.text)
      ELSE IF tail # << >>
      THEN [w EXCEPT !.k.phase = "tail", !.jobs = Append(@, "tail")]
      ELSE AfterTail(w, << >>, << >>)

\* finalize_with_stable_prefix once its commit and its partial are done.
SealTail(w) ==
  LET d == w.k.partial_decode
      tail == UnsealedTail(w.k)
      reused == d # None /\ d.at = w.k.stable_bytes /\ d.audio = tail
  IN  IF reused THEN AfterTail(w, d.audio, d.text)
      ELSE IF tail # << >>
      THEN [w EXCEPT !.k.phase = "tail", !.jobs = Append(@, "tail")]
      ELSE AfterTail(w, << >>, << >>)

Seal(w) ==
  IF w.k.commit = None /\ w.k.partial = None THEN SealTail(w)
  ELSE [w EXCEPT !.k.phase = "seal"]

\* The open segment joins the gated audio; the journal is synced before
\* pending_audio is cleared.
AcceptFinalTail(w) ==
  LET kept == [w EXCEPT !.k.gated = @ \o w.k.pending, !.l = CommitSegment(@)]
  IN  Seal([Sync(kept) EXCEPT !.k.pending = << >>])

RejectFinalTail(w) ==
  Seal([w EXCEPT !.l = DiscardSegment(@), !.k.pending = << >>])

DecideTail(w) ==
  IF w.k.pending = << >> THEN Seal(w)
  ELSE IF w.k.enrolled THEN [w EXCEPT !.k.phase = "tailEmbed"]
  ELSE AcceptFinalTail(w)

\* What is left in staging is less than a window: it joins the open segment.
FlushStaging(w) ==
  LET rest == w.k.staging
      flushed == IF rest = << >> THEN w
                 ELSE [w EXCEPT !.k.staging = << >>,
                                !.k.pending = @ \o rest,
                                !.l = NoteSpeech(@, Len(rest), FALSE)]
  IN  IF flushed.k.partial # None /\ FINAL_WAIT_PARTIAL
      THEN [flushed EXCEPT !.k.phase = "waitPartial"]
      ELSE DecideTail(flushed)

-----------------------------------------------------------------------------
(***************************************************************************)
(* Gating, and what follows once every event is applied.                   *)
(***************************************************************************)
Continue(w, due) ==
  CASE w.k.then = "audio" ->
         Background(Sync([w EXCEPT !.k.phase = "receive"]), due)
    [] w.k.then = "tick" -> Background([w EXCEPT !.k.phase = "receive"], due)
    [] w.k.then = "stop" -> FlushStaging(w)

Apply(w, events, due) ==
  LET a == ApplyEvents(w.l, w.k.pending, events)
      applied == [w EXCEPT !.l = a.ledger, !.k.pending = a.pending,
                           !.k.events = a.rest]
  IN  IF a.rest # << >> THEN [applied EXCEPT !.k.phase = "embed"]
      ELSE Continue(applied, due)

Gate(w, then, due) ==
  LET k == w.k
      g == ProcessStagedAudio(k.staging, k.prev, k.gate, speech)
  IN  Apply([w EXCEPT !.k = [k EXCEPT !.staging = Leftover(k.staging),
                                      !.prev = g.prev, !.gate = g.gate,
                                      !.then = then]],
            g.events, due)

-----------------------------------------------------------------------------
(***************************************************************************)
(* Actions: what arrives on a socket.                                      *)
(***************************************************************************)
Init ==
  /\ speech \in SUBSET Units
  /\ held = None
  /\ created = 0
  /\ journals = [j \in Journals |-> NewJournal]
  /\ ledgers = [c \in Conns |-> NewLedger]
  /\ conns = [c \in Conns |-> NewConn(c)]
  /\ gpu = << >>
  /\ answers = {}

Open(c) == conns[c].phase \notin {"unborn", "closed"}
Receiving(c) == conns[c].phase = "receive" /\ conns[c].alive

Attach(c, id, journal) ==
  /\ held' = id
  /\ conns' = [conns EXCEPT ![c] =
       Hydrate([@ EXCEPT !.phase = "receive", !.alive = TRUE], journal, id)]
  /\ UNCHANGED <<speech, journals, ledgers, gpu, answers>>

Create(c) ==
  /\ created < MaxJournals
  /\ created' = created + 1
  /\ Attach(c, created', NewJournal)

\* start makes a new journal.  A client starts a session id once.
Start(c) ==
  /\ conns[c].phase = "unborn"
  /\ created = 0
  /\ Create(c)

\* A client resumes over a connection d only as far as Allow lets it.
PeersAllowResume(c) ==
  /\ "resume" \in Allow
  /\ \A d \in Conns \ {c} :
       /\ Open(d) => "overlap" \in Allow
       /\ conns[d].commit # None \/ conns[d].partial # None => "orphans" \in Allow
       /\ conns[d].stop # None => "reissue" \in Allow

\* resume finds the journal, unless it has been idle past ASR_RESUME_TTL_SEC.
Resume(c) ==
  /\ conns[c].phase = "unborn"
  /\ created > 0
  /\ PeersAllowResume(c)
  /\ \/ held # None /\ created' = created /\ Attach(c, held, journals[held])
     \/ "expire" \in Allow /\ Create(c)

\* The time limit on a cached stop result passes.
StopResultExpires(j) ==
  /\ "expire" \in Allow
  /\ journals[j].final # None
  /\ journals[j].final.fresh
  /\ journals' = [journals EXCEPT ![j].final.fresh = FALSE]
  /\ UNCHANGED <<speech, held, created, ledgers, conns, gpu, answers>>

InOrder(c, s) ==
  "reorder" \in Allow \/ s <= HighestContiguous(World(c).j.chunks) + 1

\* Mutant: a duplicate goes into the buffers like any other frame.
AudioFrameTwice(c, s) ==
  /\ Receiving(c)
  /\ InOrder(c, s)
  /\ Become(c, [Accept(World(c), s) EXCEPT !.k.phase = "ack", !.k.frame = s], gpu)
  /\ UNCHANGED <<speech, held, created, answers>>

\* An audio frame: accept() first, then the ack, and only then the buffers.
AudioFrame(c, s) ==
  /\ Receiving(c)
  /\ InOrder(c, s)
  /\ LET w == World(c)
     IN  Become(c, [Accept(w, s) EXCEPT
                      !.k.phase = "ack",
                      !.k.frame = IF s \in w.j.chunks THEN None ELSE s], gpu)
  /\ UNCHANGED <<speech, held, created, answers>>

DuplicateAcked(c) ==
  /\ conns[c].phase = "ack"
  /\ conns[c].frame = None
  /\ conns' = [conns EXCEPT ![c].phase = "receive"]
  /\ UNCHANGED <<speech, held, created, journals, ledgers, gpu, answers>>

FrameAcked(c) ==
  /\ conns[c].phase = "ack"
  /\ conns[c].frame # None
  /\ LET s == conns[c].frame
         w == [World(c) EXCEPT !.k.frame = None, !.k.raw = @ \o Payload(s),
                               !.k.staging = @ \o Payload(s)]
     IN  \E due \in Due : Become(c, Gate(w, "audio", due), gpu)
  /\ UNCHANGED <<speech, held, created, answers>>

\* A receive that times out looks at the staged audio again.
ReceiveTimesOut(c) ==
  /\ conns[c].phase = "receive"
  /\ \E due \in Due : Become(c, Gate(World(c), "tick", due), gpu)
  /\ UNCHANGED <<speech, held, created, answers>>

\* The socket dies; the server finds out at its next receive or send.
SocketDies(c) ==
  /\ Open(c)
  /\ conns[c].alive
  /\ conns' = [conns EXCEPT ![c].alive = FALSE]
  /\ UNCHANGED <<speech, held, created, journals, ledgers, gpu, answers>>

\* Closed by the disconnect message, by a send that raises, or by a control
\* message the protocol does not know.
ConnectionEnds(c) ==
  /\ \/ conns[c].phase = "receive"
     \/ conns[c].phase \in {"ack", "coverage"} /\ ~conns[c].alive
  /\ conns' = [conns EXCEPT ![c] = Closed(@)]
  /\ UNCHANGED <<speech, held, created, journals, ledgers, gpu, answers>>

-----------------------------------------------------------------------------
(***************************************************************************)
(* Actions: the stop handler.                                              *)
(***************************************************************************)

\* Mutant: any cached final counts as short, and is never replayed.
CachedAlwaysShort(j, id, captured) == Cached(j, id) /\ captured # None

\* The cached final of this stop id falls short of what the client captured.
CachedShort(j, id, captured) ==
  /\ Cached(j, id)
  /\ captured # None
  /\ ~Reaches(j.final, captured)

Ended(k, id) == Closed([k EXCEPT !.stop = id])

\* The same stop id again: answered from the cache.
StopReplayed(c, id, captured) ==
  LET w == World(c)
  IN  /\ Receiving(c)
      /\ Cached(w.j, id)
      /\ ~CachedShort(w.j, id, captured)
      /\ w.j.final.fresh
      /\ conns' = [conns EXCEPT ![c] = Ended(@, id)]
      /\ answers' = answers \union {w.j.final}
      /\ UNCHANGED <<speech, held, created, journals, ledgers, gpu>>

\* stopExpired: the result has aged out, or this process holds no audio.
StopRefused(c, id, captured) ==
  LET w == World(c)
  IN  /\ Receiving(c)
      /\ IF Cached(w.j, id) /\ ~CachedShort(w.j, id, captured)
         THEN ~w.j.final.fresh
         ELSE captured # None /\ captured > 0 /\ w.j.chunks = {}
      /\ conns' = [conns EXCEPT ![c] = Ended(@, id)]
      /\ UNCHANGED <<speech, held, created, journals, ledgers, gpu, answers>>

StopRequested(c, id, captured) ==
  LET w == World(c)
  IN  /\ Receiving(c)
      /\ Cached(w.j, id) => CachedShort(w.j, id, captured)
      /\ captured # None /\ captured > 0 => w.j.chunks # {}
      /\ conns' = [conns EXCEPT ![c].closing = TRUE, ![c].stop = id,
                                ![c].captured = captured,
                                ![c].phase = "coverage"]
      /\ UNCHANGED <<speech, held, created, journals, ledgers, gpu, answers>>

ShortOfCaptured(c) ==
  /\ conns[c].captured # None
  /\ HighestContiguous(World(c).j.chunks) < conns[c].captured - 1

\* await_audio_coverage takes late frames into staging, without a sync.
LateFrame(c, s) ==
  /\ conns[c].phase = "coverage"
  /\ conns[c].alive
  /\ ShortOfCaptured(c)
  /\ s \notin World(c).j.chunks
  /\ InOrder(c, s)
  /\ Become(c, [Accept(World(c), s) EXCEPT !.k.raw = @ \o Payload(s),
                                           !.k.staging = @ \o Payload(s)], gpu)
  /\ UNCHANGED <<speech, held, created, answers>>

\* The wait ends with all the audio, at its deadline, or on a dead socket.
CoverageWaitEnds(c) ==
  /\ conns[c].phase = "coverage"
  /\ LET w == [World(c) EXCEPT !.k.complete = ~ShortOfCaptured(c)]
     IN  Become(c, Gate(w, "stop", FALSE), gpu)
  /\ UNCHANGED <<speech, held, created, answers>>

Embeddings == {"none", "match", "other"}

\* The speaker check at a boundary returns; the rest of the events follow.
SpeakerChecked(c, embedding) ==
  /\ conns[c].phase = "embed"
  /\ LET w == World(c)
         accept == embedding # "other" \/ ~w.k.enrolled
         heard == [w EXCEPT !.k.pending = << >>,
                            !.k.enrolled = @ \/ embedding # "none"]
         decided == IF accept
                    THEN [heard EXCEPT !.k.gated = @ \o w.k.pending,
                                       !.l = CommitSegment(@)]
                    ELSE [heard EXCEPT !.l = DiscardSegment(@)]
     IN  \E due \in Due : Become(c, Apply(decided, Tail(w.k.events), due), gpu)
  /\ UNCHANGED <<speech, held, created, answers>>

PartialAwaited(c) ==
  /\ conns[c].phase = "waitPartial"
  /\ conns[c].partial = None
  /\ Become(c, DecideTail(World(c)), gpu)
  /\ UNCHANGED <<speech, held, created, answers>>

TailSpeakerChecked(c, embedding) ==
  /\ conns[c].phase = "tailEmbed"
  /\ Become(c, IF embedding = "other" THEN RejectFinalTail(World(c))
               ELSE AcceptFinalTail(World(c)), gpu)
  /\ UNCHANGED <<speech, held, created, answers>>

BackgroundAwaited(c) ==
  /\ conns[c].phase = "seal"
  /\ conns[c].commit = None /\ conns[c].partial = None
  /\ Become(c, SealTail(World(c)), gpu)
  /\ UNCHANGED <<speech, held, created, answers>>

FinalSent(c) ==
  /\ conns[c].phase = "final"
  /\ answers' = IF conns[c].alive THEN answers \union {conns[c].answer} ELSE answers
  /\ conns' = [conns EXCEPT ![c] = Closed(@)]
  /\ UNCHANGED <<speech, held, created, journals, ledgers, gpu>>

-----------------------------------------------------------------------------
(***************************************************************************)
(* Actions: a decode on the GPU thread ends.                               *)
(***************************************************************************)
Running(c, job) == gpu # << >> /\ Head(gpu) = <<c, job>>

\* Mutant: an empty decode advances the recognized prefix.
CommitAdvancesOnEmpty(w, t, outcome) ==
  IF outcome = "unavailable" \/ w.k.stable_bytes # t.start THEN w
  ELSE Sync([w EXCEPT !.k.stable_bytes = t.upto,
                      !.k.stable_text = @ \o Decoded(t.audio, outcome)])

\* Mutant: a commit whose decode raises is never marked done.
CommitStuck(w, t, outcome) ==
  IF outcome = "unavailable" THEN [w EXCEPT !.k.commit = t]
  ELSE Sync([w EXCEPT !.k.stable_bytes = t.upto, !.k.stable_text = @ \o t.audio])

\* run_stable_commit after its decode: a superseded commit and one without
\* words leave the prefix alone.  A model that cannot be loaded raises.
Committed(w, t, outcome) ==
  CASE outcome = "unavailable" \/ w.k.stable_bytes # t.start -> w
    [] outcome = "empty" -> [w EXCEPT !.k.empty_upto = t.upto]
    [] OTHER -> Sync([w EXCEPT !.k.stable_bytes = t.upto,
                               !.k.stable_text = @ \o t.audio])

CommitDecoded(c, outcome) ==
  /\ Running(c, "commit")
  /\ Become(c, Committed([World(c) EXCEPT !.k.commit = None], conns[c].commit, outcome),
            Tail(gpu))
  /\ UNCHANGED <<speech, held, created, answers>>

AtLeast(a, b) == IF a >= b THEN a ELSE b

\* run_partial after its decode; emit_partial sends only news, and not while
\* the socket is closing.
PartialDecoded(c, outcome) ==
  /\ Running(c, "partial")
  /\ LET w == World(c)
         t == w.k.partial
         text == Decoded(t.audio, outcome)
         shown == t.prefix \o text
         over == [w EXCEPT !.k.partial = None,
                           !.k.partial_at = AtLeast(@, t.signal)]
         remembered(v) == IF t.at = None THEN v
                          ELSE [v EXCEPT !.k.partial_decode =
                                  [at |-> t.at, audio |-> t.audio, text |-> text]]
         done == IF outcome = "unavailable" THEN over
                 ELSE IF w.k.closing \/ shown \in {<< >>, w.k.last_partial}
                 THEN remembered(over)
                 ELSE remembered([w EXCEPT !.k.partial.stage = "send",
                                           !.k.partial.text = shown])
     IN  Become(c, done, Tail(gpu))
  /\ UNCHANGED <<speech, held, created, answers>>

\* The partial leaves for the client, or the send raises on a dead socket.
PartialSent(c) ==
  /\ conns[c].partial # None
  /\ conns[c].partial.stage = "send"
  /\ LET w == World(c)
         t == w.k.partial
         sent == Sync([w EXCEPT !.k.last_partial = t.text])
         over(v) == [v EXCEPT !.k.partial = None,
                              !.k.partial_at = AtLeast(@, t.signal)]
     IN  \/ Become(c, over(sent), gpu)
         \/ ~w.k.alive /\ Become(c, over(w), gpu)
  /\ UNCHANGED <<speech, held, created, answers>>

TailDecoded(c, outcome) ==
  /\ Running(c, "tail")
  /\ LET w == World(c)
     IN  Become(c, IF outcome = "unavailable" THEN [w EXCEPT !.k.phase = "closed"]
                   ELSE AfterTail(w, UnsealedTail(w.k), Decoded(UnsealedTail(w.k), outcome)),
                Tail(gpu))
  /\ UNCHANGED <<speech, held, created, answers>>

RawDecoded(c, outcome) ==
  /\ Running(c, "raw")
  /\ LET w == World(c)
     IN  Become(c, IF outcome = "unavailable" THEN [w EXCEPT !.k.phase = "closed"]
                   ELSE AfterRaw(w, Decoded(w.k.raw, outcome)),
                Tail(gpu))
  /\ UNCHANGED <<speech, held, created, answers>>

-----------------------------------------------------------------------------
Client(c) ==
  \/ Start(c) \/ Resume(c) \/ SocketDies(c)
  \/ \E s \in Seqs : AudioFrame(c, s) \/ LateFrame(c, s)
  \/ \E id \in StopIds, captured \in Reports :
       \/ StopReplayed(c, id, captured)
       \/ StopRefused(c, id, captured)
       \/ StopRequested(c, id, captured)

\* Steps the server takes by itself once they are enabled.
Server(c) ==
  \/ DuplicateAcked(c) \/ FrameAcked(c) \/ CoverageWaitEnds(c)
  \/ \E e \in Embeddings : SpeakerChecked(c, e) \/ TailSpeakerChecked(c, e)
  \/ PartialAwaited(c) \/ BackgroundAwaited(c) \/ FinalSent(c) \/ PartialSent(c)

Gpu ==
  \E c \in Conns, outcome \in DecodeOutcomes :
    \/ CommitDecoded(c, outcome) \/ PartialDecoded(c, outcome)
    \/ TailDecoded(c, outcome) \/ RawDecoded(c, outcome)

\* Every connection has come and gone.
Finished ==
  /\ \A c \in Conns : ~Open(c)
  /\ gpu = << >>
  /\ UNCHANGED vars

Next ==
  \/ \E c \in Conns : Client(c) \/ Server(c) \/ ReceiveTimesOut(c) \/ ConnectionEnds(c)
  \/ \E j \in Journals : StopResultExpires(j)
  \/ Gpu
  \/ Finished

Spec == Init /\ [][Next]_vars

-----------------------------------------------------------------------------
(***************************************************************************)
(* Properties.                                                             *)
(***************************************************************************)
Phases ==
  {"unborn", "receive", "ack", "embed", "coverage", "waitPartial",
   "tailEmbed", "seal", "tail", "raw", "final", "closed"}

Audio == Seq(Units)

Commits == [start: Nat, upto: Nat, audio: Audio]

Partials == [audio: Audio, at: Nat \union {None}, prefix: Audio, signal: Nat,
             text: Audio, stage: {"decode", "send"}]

Finals == [stop: StopIds \union {None}, text: Audio, through: Nat \union {None},
           fresh: BOOLEAN, read: SUBSET Units]

Sessions ==
  [chunks: SUBSET Seqs, gated: Audio, pending: Audio, staging: Audio,
   gate: Gates, enrolled: BOOLEAN, last_partial: Audio, partial_at: Nat,
   stable_text: Audio, stable_bytes: Nat, ledger: Conns \union {None},
   final: Finals \union {None}]

Locals ==
  [phase: Phases, alive: BOOLEAN, journal: Journals \union {None}, ledger: Conns,
   gated: Audio, pending: Audio, raw: Audio, staging: Audio, prev: Audio,
   gate: Gates, enrolled: BOOLEAN, last_partial: Audio, partial_at: Nat,
   stable_text: Audio, stable_bytes: Nat, empty_upto: Nat,
   commit: Commits \union {None}, partial: Partials \union {None},
   partial_decode: [at: Nat, audio: Audio, text: Audio] \union {None},
   closing: BOOLEAN, stop: StopIds \union {None}, captured: {None, Captured},
   complete: BOOLEAN, frame: Seqs \union {None}, events: Seq(Events(Units)),
   then: {"audio", "tick", "stop"}, answer: Finals \union {None}]

JobKinds == {"commit", "partial", "tail", "raw"}

\* None is what Python's None is: no number, no identifier and no record.
ASSUME NoneAssumption ==
  /\ None \notin Nat \union Conns \union StopIds
  /\ None \notin Commits \union Partials \union Finals

\* Type invariant.
TypeOK ==
  /\ speech \subseteq Units
  /\ held \in Journals \union {None}
  /\ created \in 0 .. MaxJournals
  /\ journals \in [Journals -> Sessions]
  /\ ledgers \in [Conns -> Ledger]
  /\ conns \in [Conns -> Locals]
  /\ gpu \in Seq(Conns \X JobKinds)
  /\ answers \subseteq Finals

Covers(a) == Reaches(a, Captured)

\* "recognizedThroughSeq is a promise to the client that the returned text is a
\* decode of the audio it captured": a final whose frontier reaches what the
\* client captured was decoded from audio that has every unit of speech in it,
\* whatever was rejected, late, duplicated or carried by an earlier socket.
CoveredFinalReadsAllSpeech ==
  \A a \in answers : Covers(a) => speech \subseteq a.read

\* Such a final also has the words of all that speech in its text.
CoveredFinalTellsAllSpeech ==
  \A a \in answers : Covers(a) => speech \subseteq ToSet(a.text)

\* No transcript says a unit of audio twice ("decoded exactly once").
NothingSaidTwice ==
  \A a \in answers : IsInjective(a.text)

\* Of a client that sends its chunks in order, a transcript has them in order.
SaidInOrder ==
  \A a \in answers : \A i, j \in DOMAIN a.text : i < j => a.text[i] < a.text[j]

\* What a final of one socket owes its client: a covered one was decoded from all
\* the speech, and no text repeats or reorders it.
FinalsAreSound ==
  CoveredFinalReadsAllSpeech /\ NothingSaidTwice /\ SaidInOrder

\* While the dictation is on one journal, no socket has asked for another stop
\* than id.
OnlyStop(id) ==
  /\ created <= 1
  /\ \A c \in Conns : conns[c].stop \in {None, id}

\* "a reconnecting client gets the SAME transcript": two finals of one stop id
\* that both cover the captured audio have the same text, as long as the journal
\* does not expire and no other stop takes the one place of its cache.
OneTranscriptPerStop ==
  \A a, b \in answers :
    a.stop = b.stop /\ Covers(a) /\ Covers(b) /\ OnlyStop(a.stop) => a.text = b.text

\* "chunks 0..N-1 are mine": every single chunk below recognizedThroughSeq is
\* silence or in the decoded audio, for partial coverage too, whatever the
\* lengths of the chunks and wherever the covered bytes end in one.
FrontierNamesDecodedChunks ==
  \A a \in answers :
    a.through # None => Arrived(0 .. a.through - 1) \intersect speech \subseteq a.read

\* The stable prefix is the decode of exactly the bytes it claims, however
\* commits, partials, reconnects and boundaries interleave.
StablePrefixIsDecoded ==
  \A c \in Conns : Open(c) =>
    LET k == conns[c]
    IN  /\ k.stable_bytes <= Len(k.gated)
        /\ k.stable_text = SubSeq(k.gated, 1, k.stable_bytes)

\* The ledger's open segment and pending_audio are two views of one thing.
SegmentIsPendingAudio ==
  \A c \in Conns : Open(c) =>
    (conns[c].pending # << >> <=> SegmentOpen(ledgers[conns[c].ledger]))

\* The audio of these events that the ledger has not counted: a replayed attack
\* buffer was counted when it passed as silence.
Uncounted(e) == IF e.kind = "boundary" \/ e.replayed THEN 0 ELSE Len(e.audio)

Unapplied(events) ==
  LET sum[n \in 0 .. Len(events)] ==
        IF n = 0 THEN 0 ELSE sum[n - 1] + Uncounted(events[n])
  IN  sum[Len(events)]

\* The ledger and the staging buffer together never count more audio than the
\* journal has accepted: a frontier can lag what arrived, never outrun it.
LedgerNeverOutrunsAudio ==
  \A c \in Conns : Open(c) =>
    LET k == conns[c]
    IN  ledgers[k.ledger].consumed + Unapplied(k.events) + Len(k.staging)
          <= Cardinality(Arrived(journals[k.journal].chunks))

\* What a connection works on stays true of the audio it stands for: the prefix
\* of its own bytes, and the shared ledger of what the journal has accepted.
BuffersAreTrue == StablePrefixIsDecoded /\ LedgerNeverOutrunsAudio

(***************************************************************************)
(* Fairness: the event loop runs what is ready, the GPU thread finishes    *)
(* decodes in order; clients owe nothing.  ServerReady(c) and a non-empty  *)
(* queue say when a step is enabled: the two conjuncts are weak fairness   *)
(* of Server(c) and of Gpu, with ENABLED written out.                      *)
(***************************************************************************)
ServerReady(c) ==
  \/ conns[c].phase \in {"ack", "embed", "coverage", "tailEmbed", "final"}
  \/ conns[c].phase = "waitPartial" /\ conns[c].partial = None
  \/ conns[c].phase = "seal" /\ conns[c].commit = None /\ conns[c].partial = None
  \/ conns[c].partial # None /\ conns[c].partial.stage = "send"

Fairness ==
  /\ <>[](gpu # << >>) => []<><<Gpu>>_vars
  /\ \A c \in Conns : <>[]ServerReady(c) => []<><<Server(c)>>_vars

FairSpec == Spec /\ Fairness

\* Every stop that is accepted is settled: the handler never waits forever on
\* its audio, its background decodes or the GPU queue.
EveryStopIsSettled ==
  \A c \in Conns : conns[c].phase = "coverage" ~> conns[c].phase = "closed"

=============================================================================
