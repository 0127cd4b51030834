# polyasr in TLA+

A model of polyasr, the streaming speech recognizer: what a dictation through
`/ws/transcribe` promises its client, and what its servers do to keep it. The
modules are translated from `server.py` (Apple, MLX), `cuda/server.py` (Linux,
CUDA) and the classes they use. TLC checks them on small instances; TLAPS proves,
for every instance, the promise of a dictation whose sockets come one at a time, the
coverage ledger below it, the model manager's books, the text of an R2T2 stream, the
CUDA server's switch of backends and that a native stream's answer is never short of
what its stop asked for.

## The system

| component | state | operations | hard behaviour |
|---|---|---|---|
| **coverage ledger** (`server.py` `CoverageLedger`) | `consumed`, `covered`, open segment, attack buffer, frozen flag | note silence, note speech (maybe a replay), commit, discard | a claim must be neither too long nor too short after any sequence of windows and decisions |
| **VAD gate** (`_process_staged_audio`, `apply_events`) | staging buffer, attack buffer, silence run, open segment | cut windows, classify, replay, decide a segment by speaker | remainders, deferred short segments, an await in the middle of a list of events |
| **journal** (`AsrProtocolSession`) | accepted chunks, copies of the buffers, recognized prefix, cached final | accept, sync, hydrate, prune | outlives sockets; written whole, by whoever syncs last |
| **connection** (`ws_transcribe`) | about twenty locals, one partial task, one commit task | start, resume, audio, timeout, stop | every await lets background decodes, other sockets and disconnects in |
| **GPU thread** (`_gpu_executor`) | a queue | decode | one at a time, in order; results arrive after the world has moved on |
| **model manager** (`polyasr_manager.py`) | resident units, last use | ensure, touch, evict, unload | idle sweeps race use; a load may fail half way |
| **self-heal** (`_keepwarm_loop`, probe, live rot, `/health`) | probe and witness counters, weights state | probe, reload, exit, report | must act exactly when things are broken, and not otherwise |
| **native streaming** (`init/feed/finish_native_stream`) | a decoder stream inside the journal, or one of the socket's own | feed, seal, decode anew | chunks are accepted, acknowledged and fed in three steps; several sockets share one stream |
| **CUDA server** (`cuda/server.py`) | the table of journals, their backend and age | admit, start, resume, evict, prune, health | making room without losing a dictation |
| **backend controller** (`cuda/backend_config.py`) | desired, current, active, error, retry time, gate | poll, activate, admit a request | a switch under load, failed activations and their retry |
| **R2T2 stream** (`cuda/asr_backends.py`) | committed, base and shown text, window position | feed, seal, finish | text may grow, never be revised, across windows and exceptions |
| **Dart client** (`client/dart`) | local audio, sockets, retries | record, stop, reconnect, fall back to HTTP | callbacks of an old socket in a new recording |
| **alignment, diarization, batch HTTP, session log, evidence, preflight** | little or none | pure functions and I/O | resynchronisation of an alignment |

A client starts a session, sends numbered audio chunks and, at the end, a stop
with the number of chunks it captured. The server answers with a final text and
`recognizedThroughSeq`, "a promise to the client that the returned text is a
decode of the audio it captured" (`server.py:1512`). If the promise reaches what
the client captured, the client types the text; otherwise it uploads the whole
recording again. So the worst thing this system can do is to promise too much,
and the next worst to promise too little.

What makes it correct, component by component:

* ledger: the claim is exactly the longest prefix without undecided or discarded
  speech; a discard freezes it for good;
* gate: every unit of audio is counted once and handed on once, the replayed
  attack buffer included;
* session: a final that claims the captured audio was decoded from all of its
  speech; nothing is said twice or out of order; the recognized prefix is the
  decode of exactly its bytes; one stop id has one transcript; every stop ends;
* manager and self-heal: what is resident is loaded, an idle model is evicted, rot
  is healed or the process exits, a requested reload happens, health never hides an
  outage and recovers from it;
* controller and CUDA server: no backend is swapped under a request, health says what
  is loaded, a configuration that stays is loaded in the end, and no live dictation is
  evicted;
* R2T2 stream: committed text is append-only, and no call of it spins;
* native streaming: a claim was decoded from all audio its socket brought, and an
  answer is enough for the stop that asked.

## Modules

| module | models | built on |
|---|---|---|
| `LedgerOps` | the methods of `CoverageLedger` that are called, as operators on a record with its attributes | |
| `ExactCoverage` | abstract specification: every unit of audio has a fate, and the claim is the longest clean prefix | |
| `CoverageLedger` | one ledger driven by silence, speech, replay, commit and discard; refines `ExactCoverage` | `LedgerOps` |
| `CoverageLedger_proofs` | the theorems about it | `CoverageLedger` |
| `AsrGate` | `_process_staged_audio` and `apply_events` as functions over windows and events | `LedgerOps` |
| `AsrGate_proofs` | lemmas about the ledger's methods, one window, one event, and sequences of them | `AsrGate` |
| `AsrSession` | journals, connections, background decodes, GPU queue and stop handler | `AsrGate` |
| `MC_AsrSession` | recordings: how long each chunk is | `AsrSession` |
| `AsrSession_proofs` | types, the queue of decodes, the recognized prefix | `AsrSession`, `AsrGate_proofs` |
| `AsrPromise_proofs` | frozen ledgers, the books of a dictation: what a final promises, and the one transcript of a stop | `AsrSession_proofs` |
| `ModelManager` | the methods of `AsrModelManager`, as operators on a record with its attributes | |
| `SelfHeal` | process, idle sweep, keep-warm loop, probe, live rot, `/health`, dictations and requests as they use the model | `ModelManager` |
| `SelfHeal_proofs` | the theorems about residency and the types | `SelfHeal` |
| `AppendOnlyText` | abstract specification: a text that only grows and is then final | |
| `R2T2Stream` | `R2T2Stream` and what `R2T2Backend` does with it; refines `AppendOnlyText` | |
| `R2T2Stream_proofs` | the theorems about it | `R2T2Stream` |
| `BackendController` | the methods of `BackendController`, as operators on a record with its attributes | |
| `CudaServer` | requests, the table of journals, the configuration loop | `BackendController` |
| `MC_CudaServer` | an instance: configuration files and what they say | `CudaServer` |
| `CudaServer_proofs` | the theorems about it | `CudaServer` |
| `NativeDictation` | one dictation of the CUDA server with a native stream: its sockets, journals and streams | |
| `MC_NativeDictation` | an instance with interchangeable sockets | `NativeDictation` |
| `NativeDictation_proofs` | the theorems about it: types, that an answer is enough, that its text was decoded from the audio it names | `NativeDictation` |

Names are those of the code where TLA+ allows it. A buffer is a sequence of
*units*, numbered as they were recorded, so a buffer says exactly which audio it
holds, and a text is the sequence of units whose words it has. A chunk is a stretch
of units: `ChunkStart` says where each begins, chunks may be of any length, and a
frame that is a bare header is an empty one. `speech`, chosen freely in `Init`, says
which units hold speech.

`note_undecided` (1577) is the one method of `CoverageLedger` without an operator: neither
server calls it.

### How AsrSession corresponds to ws_transcribe

The server is one event loop, so one action is everything that runs between two
awaits. `conns[c].phase` is the await a connection stands at:

| phase | the code is at | left by |
|---|---|---|
| `receive` | `ws.receive()` (2266) | `AudioFrame`, `ReceiveTimesOut`, `StopReplayed`, `StopRefused`, `StopRequested`, `ConnectionEnds` |
| `ack` | the ack of a frame (2297) | `DuplicateAcked`, `FrameAcked`, `ConnectionEnds` |
| `embed` | the speaker embedding in `apply_events` (1983) | `SpeakerChecked` |
| `coverage` | `await_audio_coverage` (2497) | `LateFrame`, `CoverageWaitEnds` |
| `waitPartial` | a running partial, at stop (2567) | `PartialAwaited` |
| `tailEmbed` | the speaker embedding of the tail (2582) | `TailSpeakerChecked` |
| `seal` | commit and partial of `finalize_with_stable_prefix` (2183, 2190) | `BackgroundAwaited` |
| `tail`, `raw` | the decode of the tail, or of everything (2209, 2225) | `TailDecoded`, `RawDecoded` |
| `final` | sending the final (1869) | `FinalSent` |

A step builds the next *world* of its connection (its locals, the ledger and the
journal it refers to, the decodes it submits) by composing operators named
after the functions it calls, and `Become` installs it. `conns[c].ledger` names
a ledger rather than holding it, because journal and connection share the one
object (1770) while every buffer is copied. `gpu` is the queue of the GPU
thread: only its head may end, as `CommitDecoded`, `PartialDecoded`,
`TailDecoded` or `RawDecoded`, with words, without words (a failed decode and
silence are the same empty string, 3018-3022) or with `ModelUnavailable`. A closed
connection's background tasks are not cancelled; its locals live while one runs.

What peers may do is the constant `Allow`: chunks in any order, a resume after
a silent death, a resume while an old decode runs, a stop reissued, a resume
before the server noticed the old socket die, and passing time limits. `Controls`
says which control protocols clients speak; a v1 client stops without a count.

Abstractions: the VAD hears the recording as it is, one answer per window (the
real one is a shared recurrent model that is never reset); the speaker check
answers anything; `partial_due`'s clocks and the signal gate of
`raw_partial_audio` are one free choice (`due`); text joins are concatenation;
byte lengths are unit counts, so a frame, a window and a threshold need not fit each
other. `read`, in a final, is history: the units the decoder was handed for its text, in the
commits, the tail or the reused partial that made it. Logging, evidence counters and the live-rot verdict
at the end of a session are left out, as are a text frame sent during the
coverage wait (dropped by the code), a second start and a resume on a socket that is
already attached, and the MLX branch of native streaming, which is off by default.

### How SelfHeal corresponds to the loops

`warm.at` is the await the keep-warm loop stands at: its sleep (2909), the weights check
(2918, read off the loop by `WarmReadsDisk`, stored by `WarmChecked`), a live reload
(2948), the probe's decode (2850) or the probe's reload (2887). `Gate` is everything between the
check and the next await (2923-2957). `gpu` is the one GPU thread's queue: sweeps, unloads,
reloads, decodes and requests run first come first served, and a job a loop has queued may
find another manager than the one the loop looked at. `talk` is one dictation at a time, reduced to what
the detectors see of it: whether it had speech, whether a partial had text, how it ended.

Time is counted in ticks of one keep-warm interval. A time stamp is kept as its age, so
`last_used`, saved before an await and written back after it (2848-2856), is a
saved age that has grown meanwhile. A session is `rotted` when its short-window decode is
blank while a final over the whole buffer still has text, the fault the probe and the detector
exist for. `Fault`s are the only causes of trouble: the cache is wiped or restored, a session
rots, a load or a decode raises; `MaxFaults` bounds how many a behaviour has. A start loads the unit and
probes it: `Started` is what a start leaves, and `StartedBlank` what it does when that probe comes back
blank, which may be a reload or the next exit where one blank is enough (2879-2890).

`server.py` imports its manager from `livestack_node`, which is not in the repository;
`ModelManager` is translated from `polyasr_manager.py`, the class of the same name and calls. Left out:
a cache that cannot be read at startup (no loop is started, `/health` is degraded for good), a missing
probe clip (the loop then warms with silence and detects nothing), and leases of the broker.

### How R2T2Stream corresponds to asr_backends.py

`stream` has the fields of the class `R2T2Stream` that decide about text (65-84), and `left` the
audio of the running `feed_stream` call. A text is a sequence of characters, compared character by character as
`startswith` does, so that a word which grows ("the", "then") still extends what is committed. One step is one turn of its loop (187-236): a piece
of audio that fits the window (`Take`), the decoder's fixed and full text, the commit
(`_stable_prefix`, `_require_prefix`), the display, and the seal. The decoder is external and may
return any text up to `MaxLocal` characters, revisions of what it said included, but for one assumption, `WellSpaced`: its words
have single blanks between them. `_stable_prefix` splits a text and joins it with single blanks (56-58), so that of a text
with two the committed prefix would be no prefix at all, and the next turn would raise. What can raise does
so where the code raises, with the fields as far as they were assigned by then (`FeedRaises`,
`FeedSealRaises`, `FinishRaises`). The lock of the server lets one call in at a time, so calls do not
interleave. `_join` puts a blank between windows unless the first ends in a letter of a script that has none, and `_stable_prefix`
holds back the last `GUARD` words (3 in the code), or characters where there are not so many words and some are not ASCII.
Left out: token budgets and loading a model.

### How CudaServer corresponds to cuda/server.py

`backend_controller` has the attributes of the class; every operator in `BackendController`
is a method, or the part of one before an await. A request waits for the gate
(`Enter`), is admitted or refused by `request()`, and a web socket then starts or resumes. `_protocol_sessions`
holds indices into `journals`, which never forgets: a handler goes on with its journal
when the table has dropped it. `updated` ranks journals by their last update, `stale` says that the TTL has
passed since, and `Pruned` is applied wherever the code calls
`_prune_protocol_sessions`. `Poll` is one second of the configuration loop: the file is read, and then the controller
waits for requests and unfinished dictations or begins an activation, which `ActivationEnds`
ends, either way. Time before a retry is counted down by `RetryNears`.

### How NativeDictation corresponds to the handler

An action is what one handler does between two awaits:

| phase | the handler is at | left by |
|---|---|---|
| `new` | no socket yet | `Begin`, `Resume` |
| `receive` | `ws.receive()` | `Audio`, `Stop`, `Lost` |
| `ack` | the acknowledgement of a frame the journal has accepted (2188), and `apply_events` (2207) | `Acked`, `Lost` |
| `feed` | the feed of a frame, waiting for the lock (767-779) | `Feed`, `Lost` |
| `coverage` | `await_audio_coverage` (1770) | `LateAudio`, `CoverageEnds`, `Lost` |
| `seal` | the feed of late frames, or of the whole recording into a new stream (2413-2424) | `Feed`, `Lost` |
| `finish` | `finish_native_stream` (2425), waiting for the lock (782-791) | `Finish`, `Lost` |
| `sealed` | the stream is sealed, its text on the way back (2425) | `Sealed`, `Lost` |
| `raw` | the fallback decode of the raw recording (2432) | `RawFallback` |
| `closed` | nothing: it answered, or was lost | |

A stream is reduced to the chunks it heard and whether it is sealed: what it makes of them is
`R2T2Stream`'s subject. `Finish` seals the stream, and `text` is what it gave; `Sealed` is the handler that
has the text and only now reads `received_frontier()` (2429), so that between the two other sockets may bring chunks. Whether a
stream is sealed is looked at when a frame's own awaits are over (`Acked`), not when it is accepted. `own_stream` is the one of a stop that decodes anew, which never enters the
journal. A journal is one object shared by its sockets; `held` is the one the table has, and `Forget`
is a prune, an eviction or a restart. `answer` is what a socket's final claimed, with the
`want` of its stop. A last partial is a final without a claim. Accept limits and failed sends end the
handler, as `Lost`. Only one session id is modelled, and a socket is used once. The stream is R2T2's, which
knows that it is sealed; Qwen's forwards to the vendor's library and has no such flag.

## Runs

| run | instance | question |
|---|---|---|
| `coverage_ledger` | windows of 1 and 2 units, streams to 7 | is the claim honest, tight, frozen by a discard, and an implementation of `ExactCoverage`? |
| `session_one` | 1 connection, 4 chunks, all outcomes, partials on, fair | does everything agree whatever background decodes do, and does every stop end? |
| `session_windows` | 1 connection, 6 chunks of 0 to 3 units, 11 in all, windows of 2 | remainders, deferral, replay, enrolment, rejection, audio after a rejection, and a frontier that ends inside a chunk |
| `session_resume` | 2 connections, 4 chunks of 0 to 2 units in any order | does everything survive a socket that dies between any two steps? |
| `session_reissue` | 2 connections, 2 stop ids, 2 journals | do reissued stops agree, with caches and journals expiring and orphaned decodes? |
| `self_heal` | 2 units, 2 faults, 1 dictation or request, idle-evict on and off, fair | residency, and the liveness of health, reload, healing and eviction |
| `r2t2_stream` | a letter, one of a script without blanks, a blank and a full stop; windows of 3, feeds of 1 to 4 | is committed text append-only, shown and final, and does every call end? |
| `cuda_server` | 2 connections, 2 journals, 2 session ids, 3 configurations of 2 backends and an invalid file, 2 edits, 1 failed load, fair | backends under requests, health, room for dictations, and does a switch happen? |
| `native_dictation` | 3 sockets, 1 stop id, 2 chunks, 1 journal | does a claim follow from what was decoded, and is an answer enough? |
| `v_native_unheard` | 2 sockets | a native final claims a chunk its stream never heard |
| `v_unsynced_late_audio` | 2 connections, 4 chunks | a reissued stop claims late audio it did not decode |
| `v_swallowed_failure` | 1 connection, 3 chunks | an empty decode of the tail is still claimed |

Bounds. Four chunks hold an enrolment, a rejection and a tail; eleven units in windows
of two hold an enrolled speaker, a rejected segment, a window after it and a
remainder, the shortest recording in which later audio could carry a claim past a
loss. Its chunks of 1, 3, 0, 2, 3 and 2 units end inside windows, at their ends and nowhere, so that
a rejection can leave a claim in the middle of a chunk, which `_seq_for_covered_bytes` must round down (1604),
or at an empty one; `session_resume` has chunks of 1, 2, 0 and 1 units, and the other runs, which are about the
order of events, one unit each. Two connections hold one hand-over, which is what every resume is: a third
could only repeat it, since all a connection leaves behind is the journal, its ledger
and its running decodes. Two journals and two stop ids hold an expired journal beside a
live one, and a stop that must not be answered from another's cache. The thresholds
are small so that each is crossed several times; `STABLE_COMMIT_MIN` of three units
in `session_windows` makes commits span windows.

Fairness (`session_one`). `Fairness` is weak fairness of each connection's server-side steps
and of the GPU thread, with their enabling conditions written out: an event loop runs what is ready,
and the token budget (2986) bounds every decode. Nothing is asked of clients. The coverage
wait has a deadline (1894), so it ends without any frame arriving.

`self_heal` has two faults, so that one may hit while the loop deals with the other (a wiped
cache restored, a rotted session whose reload raises), and one client, since the gate looks only at the time
of the last transcription. One blank probe for the reload, one more for the exit, and one witness
make every threshold reachable, and let the probe of a start reload the unit; co-load is off, the case in which a load evicts. Periods are one tick, but
events come at any point of a tick, so loops meet in every order.

Fairness (`self_heal`). Time passes, the GPU thread serves its queue, a coroutine whose await is over runs on, the
loops wake, launchd restarts the process (`KeepAlive`), and a dictation ends: weak fairness of each. The one strong
fairness, `SweepInTheGap`, says that not every sweep can fall between the queueing of a probe and its end: sweeps come
every 10 s and the loop sleeps for 45 s. Without it a probe could hide an idle model from every sweep. Clients
are finite, so every behaviour ends in an idle gap: without one a requested reload waits, as the code intends.

`r2t2_stream`: with a letter, one of a script without blanks, a full stop and blanks, a revision differs from a
continuation, a finished sentence from an open one, and a word that grows from a new one. `GUARD` is one: the last word is held back, or
the last character, and windows are joined with a blank or without. The decoder says up to two characters for a window of 3, which is sealed early at 2
or when it is full; a call of 4 units crosses a window, and a limit of 3 characters is passed by the second one. Texts of
several words arise by the joins.

`cuda_server`: two connections meet at the gate, one may hold a request while the other waits, and both may follow
each other into a journal; two edits let a file change, become invalid or change back while a load
runs or waits for its retry; one failed load is retried. `wide` and `wide2` say the same in other bytes, `narrow` has
the other backend and a lower limit.

Fairness (`cuda_server`). The loop polls (its task runs for the life of the process), a load that has begun ends, time
passes, and the gate, an `asyncio.Lock`, lets requests in in turn: weak fairness of each. Nothing is asked of
clients or of the operator. `SwitchHappens` is about a configuration that stays and requests that end, because the code promises no
more: a switch that waits does not stop admission, so that steady traffic starves it. It also says `error = None`, so it
includes that a retry succeeds after an invalid edit has been replaced.

`native_dictation`: two chunks are one that is fed before a stop and one that is late; three sockets are one
whose feed still waits, one that stops and one that reissues the stop. One journal is enough: it may be forgotten at any time, its sockets
go on with it, and a journal made anew shares nothing with it.
Sockets are used once and otherwise alike, so the run uses symmetry, which is sound as it has
no temporal property.

Every property of a passing run is also checked against a mutant, an operator beside the
one it replaces with a plausible slip in it: a forgotten reset, a field not synced, an
inclusive for an exclusive index, a bound rounded up.

## What the violations show

Races of a few steps which the tests do not reach, and a failure that looks like silence:

* `v_native_unheard`: a chunk is accepted (`cuda/server.py:2187`) before it is acknowledged (2188) and fed to the
  native stream (2210). If the acknowledgement raises, or the feed still waits for the lock when another socket
  stops, the stream has never heard the chunk; the final claims `received_frontier()`, so the client keeps it. A resume
  rebuilds `raw_audio` and feeds nothing again. The comment says "The native decoder consumes every chunk it is
  fed, so what it read IS what arrived" (2426). `ClaimsReadTheirAudio`, which passes, says how much does hold: what the answering socket
  itself brought was decoded, once and in order.
* `v_unsynced_late_audio`: frames taken by `await_audio_coverage` are accepted by the journal
  and counted by the ledger it shares, but the buffers are synced much later. If the socket
  dies between, a reissued stop finds the ledger ahead of the buffers and claims all.
* `v_swallowed_failure`: an empty decode of the tail after a stable prefix yields the prefix
  with the full frontier. `run_stable_commit` (2113) guards against exactly this.

Facts the models show and no run keeps; the passing runs leave them out in their `Allow` or
in what they ask. In the session:

* At 2593-2607 the tail joins `gated_audio`, the journal is synced, and only then is `pending_audio`
  cleared. If the socket dies before another sync, the journal holds the tail in both buffers, and a
  reissued stop decodes it twice (`session_resume` with `reissue` in `Allow` violates `NothingSaidTwice`).
* The stop cache is filled when a final is sent, not when it is begun (2440). A client that reconnects before the
  server noticed its old socket die gets a second finalization, over buffers that may differ (`overlap` in `Allow`).
* The cache has one place, and it is the journal's. A stop that another stop id displaced, or whose journal was made
  anew after its time limit, is finalized a second time when it is reissued, and may then read differently, also within
  `ASR_STOP_RESULT_TTL_SEC` (251, 2425). It takes three connections; `OneTranscriptPerStop` leaves it out (`OnlyStop`).
* A decode of a dead socket that still runs when the client resumes is not cancelled, and its commit syncs the closed connection's
  prefix over the journal (2126), while the resumed connection syncs its own; the check for a superseded commit (2109) looks at the
  closed connection's frontier, which nobody has moved. So the journal's "Immutable recognized prefix" (331) may go back, and what it
  had recognized is decoded again (`session_reissue` allows it and shows what survives: in each connection the prefix is the decode of its own bytes).
* Bytes are counted in the order they arrive and turned into chunks in the order of the numbers (1600). Where chunk 2 comes
  before chunk 1 and chunk 1 is rejected, the bytes of chunks 0 and 2 are taken for 0 and 1, against the "safe direction" of the docstring (1595).
  Only partial claims go wrong; `session_resume` allows any order and does not ask `FrontierNamesDecodedChunks`.
* The same happens to a chunk whose socket died between its acceptance (2296) and the staging buffer (2315): the journal has its bytes
  and the resumed connection does not, so that the byte count of the next chunk names this one (same run and property).
* A second start on a used socket keeps the old ledger (1775; not a behaviour of the modelled client).

In self-healing:

* The live rot detector counts a dictation with speech, a final and no partial as a witness.
  `POLYASR_PARTIALS_ENABLED` is off by default and the detector on, so two ordinary dictations request a reload
  of a sound model at the next idle gap (`self_heal` with `PARTIALS_ENABLED = FALSE` violates `ReloadMeansRot`).
* A probe that writes `last_used` back (2856) undoes the touch of a frame that arrived during its decode, so until the next
  frame a sweep may evict the model of an active dictation, against the docstring of `touch`.
* The reload of a probe streak happens at one count exactly (2884): if that blank falls while the weights are
  missing, or rot follows a reload before a good probe, only the exit is left; with `POLYASR_PROBE_FAIL_EXIT=0`
  and idle-evict off such a session stays rotted, and the log line "still blank after reload" may be
  written where none was tried.

In the CUDA server:

* While the file is invalid, a failed activation is not retried: `poll` reports the file and returns (178).
* Any change of the configuration loads the model again, also where it names the same backend.
* An error is cleared as soon as a changed file is read, so `/health` reports none while the new load still runs.
* A journal that has a short final and then received late audio counts as finished: it may be evicted and does not hold up a
  switch, though it has "live resumable audio" (369). An empty journal may be evicted while its socket is attached, and
  what the socket then records cannot be resumed; until its TTL it holds up a switch.
* `_join` of `asr_backends.py` (27-38) takes a window that begins with all of the text before it for a repetition and
  drops that beginning, which `join_transcript` (`cuda/server.py:206`) calls the mistake not to make.
* A stop that decodes a sealed recording anew does so on a stream of its own: the journal keeps the old
  one, so every further stop of it decodes everything again.

In the Dart client, read and not modelled: it sends raw audio without a start, which both servers refuse
(`server.py:2280`, `2289`). Its comment says a recording is never lost (`asr_client.dart:109`), yet a socket that closes after the
stop clears the local chunks (188-191) before the fallback upload, one failed reconnect ends the
attempt, and the timer of an earlier recording's stop may end a later one.

## Proofs

`CoverageLedger_proofs` proves, for every set of positive window lengths and every bound
(`LengthsAssumption`, `BoundAssumption`):

| theorem | says |
|---|---|
| `LedgerInvariant` | `LedgerInv` is invariant |
| `TypeCorrect` | every unit is counted exactly once |
| `Honest` | the claim covers only silence and kept speech |
| `Tight` | it stops only at undecided or discarded speech |
| `FrozenIsForever` | no step thaws a frozen ledger or moves its claim |
| `Refinement` | the ledger implements `ExactCoverage` |

Honesty alone is not inductive: a commit moves the claim to the end of the stream, which is
honest only if nothing before the segment was dropped and nothing after it is open. `LedgerInv`
adds what relates the flags to the fates: no unit is open unless a segment is, none is
dropped unless the ledger is frozen, and the claim stops exactly at the first unit of the open segment,
at the first dropped unit, or at the end. The proof has one lemma per action; what
appending to a stream and deciding it do are lemmas of their own (`GrownStream`, `DecidedStream`), and the refinement
follows from the invariant in both states of a step. `coverage_ledger` checks `LedgerInv` itself.

`SelfHeal_proofs` proves `ResidencyIsTrue`: for any units, periods and number of faults and clients, what the manager
calls resident is what holds a model, and with co-load off at most one unit does. It assumes `ManagerAssumption` and
`SelfHealAssumption` (periods are positive, unit names are not job names). Its inductive invariant `ResidencyInv`
adds that the queue holds known jobs, since a job decides which operation runs, and that the loop's saved time is one the
manager may be given back. There is one lemma for each operation of the manager, also for a load that
raises after it has evicted, and one for each group of steps.
`TypeCorrect` proves `TypeOK`, which says more than types: a job that the keep-warm loop or the dictation awaits is in the queue
exactly when it is awaited, so that no exit, restart or other job leaves a coroutine waiting for nothing. `TypeOK` is not inductive:
were a job queued twice, serving it once would leave a copy that nobody awaits. `TypeInv` adds `AwaitedOnce`, that an awaited
job is queued once, and the lemmas `Joined` and `Served` say what joining and leaving the queue do to it.

`R2T2Stream_proofs`, for any symbols, guard, window and limits (`StreamAssumption`): `TypeCorrect`, `ShownIsCommitted`,
`TurnsProgress` and `StreamImplementsAppendOnlyText`. The assumption on the decoder (`WellSpaced`) is in the specification, as what
it may return. The invariant `IInv` adds to the types that the base text
is a prefix of the committed one, which is one of the shown text unless the limit was passed. The lemmas below it say
what `Join` and `StablePrefix` preserve of a prefix; a commit is checked against the committed text and a
display against it too, and that is why an exception between the two leaves no gap.

`CudaServer_proofs`, for any files, limits, connections and session ids (`ControllerAssumption`, `ServerAssumption`):
`TypeCorrect`, `SessionsKeepBackend`, `HealthHonest`, `SessionsFit` and the action property `AudioIsKept`. The invariant relates the controller's count
to the connections that are inside (a set of that size, so that an activation, which needs a count of zero, finds nobody),
every attached connection to the backend of its journal, every table entry to a journal, an error
to what is loaded, and a failure to its retry. The steps that make room need cardinalities of the
table, which `FiniteSetTheorems` provides.

`NativeDictation_proofs`, for any sockets, stop ids, chunks and journals (`NativeAssumption`; `NoneAssumption`: `None` is not a
stream): `TypeCorrectness`, `EveryAnswerIsEnough`, `FinalsReadTheirAudio` and the invariant below it, `ReadInvariance`.

* First, `received_frontier` is the first missing chunk and never goes back as more is accepted (from the well-foundedness of the
  naturals). A handler past its coverage wait that found its audio complete still has it, because every step of any
  handler only adds to a journal (`Grows`): one lemma says so for each way a journal changes, and one turns a handler's own
  step into the invariant of all (`OneHandler`).
* `FinalsReadTheirAudio` (the property `ClaimsReadTheirAudio`) is about the stream, which is fed chunk by chunk by any socket of the
  dictation and sealed by one, while the claim is read off the journal. A text is sound for a socket if it was decoded from
  audio of the journal without repetition, that has each chunk this socket accepted, in its order (`Reads`). The invariant
  says for each live handler (`Listens`) that its own recording is sound for it, that the journal's stream will be when the chunks
  that wait to be fed are (`WillHear`), and that a stream of its own, made where the journal's was sealed by another,
  gets that recording. What a handler may assume of a step of another one is `Evolves`; a handler that answered is gone (`Leaves`).
* `RawAudio` joins the chunks in order of their numbers. It is a recursive function; `RawAudioIs`, that it has exactly the chunks
  up to its bound and in ascending order, is proved by a well-founded induction on that bound (`NatSetInduction`).

The session has three proof modules. They assume `GateAssumption`, `SessionAssumption`, `RecordingAssumption` and `NoneAssumption` (`None` is
no number, identifier or record): a window is not empty, and otherwise the sizes and thresholds, the sockets,
journals, stop ids, chunks, their lengths and decode outcomes are free.

`AsrGate_proofs` says what each method of the ledger assigns, what one window and one event do, and that the
results of `ProcessStagedAudio` and `ApplyEvents` have their types. Both loops of the code are recursive
functions in `AsrGate`, and `RawAudio` and `Unapplied` in `AsrSession` are too: an invariant of the loop is proved for
one turn and carried along `0 .. n` by well-foundedness, without an induction theorem.

`AsrSession_proofs` holds for every `Allow`, so also for orphaned decodes and overlapping sockets:

| theorem | says |
|---|---|
| `SessionInvariant` | `IInv` is invariant |
| `TypeCorrectness` | `TypeOK`: every local, journal, ledger, cached answer and queued decode has its type |
| `StablePrefix` | `stable_text` is the decode of exactly the first `stable_bytes` of `gated_audio` |

The prefix alone is not inductive. A commit replaces `stable_bytes` by the end it was submitted with, so `IInv` says that
a commit in flight is of a stretch of audio that `gated_audio` still has, and (`QueueInv`) that every queued decode
finds its connection still waiting for it, each kind at most once. A step is proved on its *world*: one lemma for each operator
that transforms a world, and one that installs it (`Become`).

`AsrPromise_proofs` first proves `FrozenLedgers`, that no step of a session thaws a ledger or moves a frozen claim, for every `Allow`: `FrozenIsForever` says so of the
ledger's own methods, this of all that connections which share one do with it. Its last theorem, `OneTranscript`, is described below. The others assume
`OnePeerAtATime`, that is `Allow \subseteq {"resume", "reorder"}`: sockets die between any two steps, others resume,
chunks arrive late, twice and in any order, decodes fail; but a socket resumes when the one before it is gone with its decodes, a stop is
not asked again after its socket died, and no time limit passes. It is the regime of `session_one`, `session_windows` and
`session_resume`. Without it they do not all hold, as TLC shows: `v_unsynced_late_audio`
for a reissued stop, and what is said above of orphans and overlaps.

| theorem | says | also assumes |
|---|---|---|
| `DictationInvariant` | `IInv /\ PInv` is invariant | |
| `Promise` | a final that covers the captured audio was decoded from all speech | |
| `SaidOnce` | no transcript says a unit twice | |
| `SoundFinals` | both, and every transcript is in order | `"reorder" \notin Allow` |
| `TrueBuffers` | the shared ledger never counts more audio than was accepted | |
| `OpenSegment` | the ledger has a segment open exactly while there is pending audio | |
| `NamedChunks` | the chunks below any claimed frontier, of whatever lengths, are silence or decoded, unit by unit | `Allow = {}` |

The argument. A final claims a frontier that the ledger computed from *counts*, and it was decoded from *buffers*, so an invariant
must say where the audio is that the counts stand for. `Books` does, for a connection, its ledger and its journal:

* `gated`, `pending`, the events that wait for the speaker check, the attack buffer, `staging` and a frame not yet
  buffered follow one another, without a unit in two of them (`Line`, `Said`);
* what the ledger has counted and what waits to be counted is at most what the journal accepted, and when it is all of that and the ledger
  withholds no claim, every accepted unit of speech is in one of these places (`Accounted`);
* an attack buffer holds no speech, and an open segment with speech keeps the claim short of the end;
* the ledger's segment is open exactly when `pending` is not empty, and a window that may be replayed is one whose beginning
  the ledger has noted, or will have by then (`Segment`, `Dated`): `note_speech` opens a segment at `attack_start`, which may be unset;
* with `Allow = {}`, units keep their numbers: counting back from the last one accepted, the numbers of what is staged, of the
  events and of what the ledger has counted follow from the counts, and every speech unit below the claim is gated (`Numbered`).
  Rounding the claim down to whole chunks keeps it below (`SeqForCoveredBytes`).

The second is the heart of the promise: a discard breaks the right side but freezes the ledger below its count, so that the left side is false
from then on. A window of silence leaves the buffers and takes no speech with it; a replay puts units back that were
counted before. Around `Books`, `PInv` says which connection it holds for: one connection is live (`OneLive`), all are of one journal (`OneJournal`), a
ledger is used by those that share the journal's (`LedgersInv`), a live connection has the journal's buffers or owes it a
sync (`ConnsInv`), and between connections the journal's own copies satisfy it (`RestInv`), which is what a
resume builds on. `JournalInv` and `SoundFinal` carry the conclusion to cached and sent answers. Each handler is
proved by following its world: `Trust` is what holds between two calls, `Fine` what must hold at the next await.
`PInv` was model-checked in the three regimes before it was proved.

`OneTranscript` (`OneTranscriptPerStop`) assumes only `"overlap" \notin Allow`: decodes of dead sockets may still run,
stops are reissued, cached results and journals expire. There `PInv` does not hold, and need not: nothing has to be known of
what a text was decoded from, only of who writes the cached answer. The invariant is `CacheInv`. One socket is open at a time
(`OneSocket`), a socket has a stop id from the first to the last step of its handler (`StopIsNamed`), and while a
dictation is on one journal with one stop id (`OnlyStop`), every covering answer a client got is the cached one, a socket
about to send has it, and a handler is at work only if nothing cached covers (`CacheOf`). `StopRequested` establishes the last part,
by `cached_short`. Of all other steps the proof says one thing (`CacheStep`): they leave the cached answer
and the phase of the stop alone, or they are the last of the handler and put its own answer there. So
a decode that ends late, for a closed socket, may sync old buffers over the journal but not another final.
`CacheInv` was model-checked with `session_reissue` and with three connections before it was proved.

Model-checked only: the liveness properties, which are out of TLAPS's reach under fairness. Every invariant and
every other action property of the passing runs is stated by a theorem.

## Plan

1. (done) ledger, gate, session; the ledger's theorems.
2. (done) `SelfHeal` over `ModelManager`; residency proved.
3. (done) `R2T2Stream` over `AppendOnlyText`, `BackendController` and `CudaServer`, proved.
4. (done) `NativeDictation`, the native stop branch; its types, `EveryAnswerIsEnough` and `ClaimsReadTheirAudio` proved.
5. (done) The session proved: types, recognized prefix, and the promise of a final.
6. (done) `SegmentIsPendingAudio` and `FrontierNamesDecodedChunks` proved, from `Books`; `OneTranscriptPerStop`, from `CacheInv`.
7. Alignment as a pure function; Qwen's stream; a client of the current protocol, if one comes into the repository.

## Not modelled

Forced alignment and Qwen's stream are planned. The Dart client in the repository speaks an earlier protocol that neither
server accepts, so that composing it with them would show nothing; a client of today's protocol is anything `Allow` and
`Controls` permit. Not planned, because there is little for a model checker in them: batch transcription,
diarization, session logs, evidence counters, preflight and evaluation scripts, deployment files,
and `server.py.pre-whole-buffer`, an earlier server nothing runs.
