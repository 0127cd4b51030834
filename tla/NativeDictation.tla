--------------------------- MODULE NativeDictation ---------------------------
(***************************************************************************)
(* One dictation of the CUDA server through a native stream                *)
(* (cuda/server.py, _ws_transcribe_impl where using_native_stream()): its  *)
(* sockets, each with a handler of its own, the journal they share and the *)
(* decoder stream inside it.                                               *)
(*                                                                         *)
(* The handlers run on one event loop and give way where they await: the   *)
(* socket, and the jobs that decode in threads, one at a time under        *)
(* _transcribe_lock but in any order.  An action is what a handler does    *)
(* from one such point to the next.  A stream is R2T2Stream's, of which    *)
(* only what it has been handed and whether it is sealed matters here.     *)
(***************************************************************************)
EXTENDS Integers, FiniteSets, SequencesExt

CONSTANTS
  Conns,         \* bound: sockets, each used once
  Stops,         \* stop ids
  MaxChunks,     \* bound: audio frames of the recording
  MaxJournals,   \* bound: journals made for its session id
  None

ASSUME NativeAssumption ==
  /\ IsFiniteSet(Conns) /\ MaxChunks \in Nat /\ MaxJournals \in Nat
  /\ None \notin Conns \union Stops \union Nat

VARIABLES
  journals,   \* every AsrProtocolSession made for the session id
  held,       \* the one the server's table holds, or None
  conns

vars == <<journals, held, conns>>

Chunks == 0 .. MaxChunks - 1

Stream == [heard: Seq(Chunks), finished: BOOLEAN]

ASSUME NoneAssumption == None \notin Stream

NewStream == [heard |-> <<>>, finished |-> FALSE]

\* through is recognizedThroughSeq, a count of chunks; decoded is the audio the
\* text was decoded from, <<>> for a text that is a last partial, or none.
Final ==
  [stop: Stops, through: 0 .. MaxChunks \union {None}, decoded: Seq(Chunks),
   by: Conns, fresh: BOOLEAN]

\* chunks says which socket each chunk was accepted on.
Journal ==
  [chunks: [Chunks -> Conns \union {None}], stream: Stream,
   final: Final \union {None}]

\* next is the frame its client sends next; feeding is the audio in hand, on its
\* way to the stream; own_stream replaces the journal's stream where a stop decodes
\* anew; text is what the sealed stream gave; answer is what its final claims.
Conn ==
  [phase: {"new", "receive", "ack", "feed", "coverage", "seal", "finish", "sealed",
           "raw", "closed"},
   journal: 1 .. MaxJournals \union {None},
   next: 0 .. MaxChunks,
   raw_audio: Seq(Chunks), native_pending_feed: Seq(Chunks), feeding: Seq(Chunks),
   own_stream: Stream \union {None},
   stop: Stops \union {None}, want: 0 .. MaxChunks \union {None},
   audio_complete: BOOLEAN, text: Seq(Chunks),
   answer: 0 .. MaxChunks \union {None}]

TypeOK ==
  /\ journals \in Seq(Journal) /\ Len(journals) <= MaxJournals
  /\ held \in DOMAIN journals \union {None}
  /\ conns \in [Conns -> Conn]
  /\ \A c \in Conns : conns[c].phase \notin {"new", "closed"} =>
       conns[c].journal \in DOMAIN journals

NewConn ==
  [phase |-> "new", journal |-> None, next |-> 0, raw_audio |-> <<>>,
   native_pending_feed |-> <<>>, feeding |-> <<>>, own_stream |-> None,
   stop |-> None, want |-> None, audio_complete |-> FALSE, text |-> <<>>,
   answer |-> None]

-----------------------------------------------------------------------------
(***************************************************************************)
(* The journal.                                                            *)
(***************************************************************************)
NewJournal ==
  [chunks |-> [k \in Chunks |-> None], stream |-> NewStream, final |-> None]

Accepted(j) == {k \in Chunks : j.chunks[k] # None}

\* raw_audio(): the chunks in the order of their numbers.
RawAudio(j) ==
  LET joined[n \in 0 .. MaxChunks] ==
        IF n = 0 THEN <<>>
        ELSE IF n - 1 \in Accepted(j) THEN Append(joined[n - 1], n - 1)
        ELSE joined[n - 1]
  IN  joined[MaxChunks]

\* Mutant: the number of the next chunk to come is counted as received.
CountsOneMore(j) ==
  1 + CHOOSE n \in 0 .. MaxChunks : 0 .. n - 1 \subseteq Accepted(j) /\ n \notin Accepted(j)

\* highest_contiguous_seq + 1
received_frontier(j) ==
  CHOOSE n \in 0 .. MaxChunks : 0 .. n - 1 \subseteq Accepted(j) /\ n \notin Accepted(j)

JournalOf(c) == journals[conns[c].journal]

\* native_stream_state
StreamOf(c) ==
  IF conns[c].own_stream = None THEN JournalOf(c).stream ELSE conns[c].own_stream

\* The stream of c becomes s.
SetsStream(c, s) ==
  IF conns[c].own_stream = None
  THEN /\ journals' = [journals EXCEPT ![conns[c].journal].stream = s]
       /\ UNCHANGED <<held>>
  ELSE UNCHANGED <<journals, held>>

-----------------------------------------------------------------------------
Init == journals = <<>> /\ held = None /\ conns = [c \in Conns |-> NewConn]

\* The handler has ended: its final claims answer, where its stop asked for want.
Ended(want, answer) ==
  [NewConn EXCEPT !.phase = "closed", !.answer = answer,
                  !.want = IF answer = None THEN None ELSE want]

Ends(c, want, answer) == conns' = [conns EXCEPT ![c] = Ended(want, answer)]

\* A start, or the resume of a journal the table lost.  A client that resumes
\* may no longer have the chunks an earlier journal acknowledged.
Begin(c) ==
  /\ conns[c].phase = "new"
  /\ Len(journals) < MaxJournals
  /\ journals' = Append(journals, NewJournal)
  /\ held' = Len(journals) + 1
  /\ \E next \in IF journals = <<>> THEN {0} ELSE Chunks :
       conns' = [conns EXCEPT ![c].phase = "receive", ![c].journal = held',
                              ![c].next = next]

\* hydrate_from_protocol_session; the client goes on after ackSeq.
Resume(c) ==
  /\ conns[c].phase = "new"
  /\ held # None
  /\ conns' = [conns EXCEPT ![c].phase = "receive", ![c].journal = held,
                            ![c].next = received_frontier(journals[held]),
                            ![c].raw_audio = RawAudio(journals[held])]
  /\ UNCHANGED <<journals, held>>

\* The journal is pruned or evicted, or the server restarts.
Forget ==
  /\ held # None
  /\ held' = None
  /\ UNCHANGED <<journals, conns>>

\* The socket is lost, or a decode or a send raises, the acknowledgement of a
\* frame that the journal has among them: the handler ends without an answer.
\* A feed that raises may have handed its audio over.
Lost(c) ==
  /\ conns[c].phase \in {"receive", "ack", "feed", "coverage", "seal", "finish"}
  /\ \/ UNCHANGED <<journals, held>>
     \/ /\ conns[c].phase \in {"feed", "seal"} /\ ~StreamOf(c).finished
        /\ SetsStream(c, [StreamOf(c) EXCEPT !.heard = @ \o conns[c].feeding])
  /\ Ends(c, None, None)

-----------------------------------------------------------------------------
(***************************************************************************)
(* Audio.                                                                  *)
(***************************************************************************)
Duplicate(c) == conns[c].next \in Accepted(JournalOf(c))

Accepts(c) ==
  /\ journals' = [journals EXCEPT ![conns[c].journal].chunks[conns[c].next] = c]
  /\ UNCHANGED held

\* A frame while the user dictates: accept, and the acknowledgement begins.
Audio(c) ==
  /\ conns[c].phase = "receive"
  /\ conns[c].next < MaxChunks
  /\ \/ /\ Duplicate(c)
        /\ conns' = [conns EXCEPT ![c].next = @ + 1]
        /\ UNCHANGED <<journals, held>>
     \/ /\ ~Duplicate(c)
        /\ Accepts(c)
        /\ conns' = [conns EXCEPT ![c].phase = "ack",
                                  ![c].next = @ + 1,
                                  ![c].feeding = <<conns[c].next>>]

\* The acknowledgement is sent and the gate's events are applied, a speaker check
\* among them; feed_native_partial passes over a stream that is sealed by then.
Acked(c) ==
  LET sealed == StreamOf(c).finished
  IN /\ conns[c].phase = "ack"
     /\ conns' = [conns EXCEPT
                    ![c].phase = IF sealed THEN "receive" ELSE "feed",
                    ![c].raw_audio = @ \o conns[c].feeding,
                    ![c].feeding = IF sealed THEN <<>> ELSE @]
     /\ UNCHANGED <<journals, held>>

\* run_feed: the job has the lock.  A stream sealed since the handler looked
\* raises, which ends the handler.
Feed(c) ==
  LET s == StreamOf(c)
      fed == [s EXCEPT !.heard = @ \o conns[c].feeding]
  IN /\ conns[c].phase \in {"feed", "seal"}
     /\ \/ /\ s.finished
           /\ Ends(c, None, None)
           /\ UNCHANGED <<journals, held>>
        \/ /\ ~s.finished
           /\ SetsStream(c, fed)
           /\ conns' = [conns EXCEPT
                          ![c].phase = IF @ = "feed" THEN "receive" ELSE "finish",
                          ![c].feeding = <<>>,
                          ![c].own_stream = IF @ = None THEN @ ELSE fed]

-----------------------------------------------------------------------------
(***************************************************************************)
(* The stop.                                                               *)
(***************************************************************************)

\* Mutant: a short answer is replayed like any other.
NeverShort(final, want) == FALSE

\* cached_short, for a final of the same stop
CachedShort(final, want) == want # None /\ final.through \notin want .. MaxChunks

\* The stop arrives.  The client says how many chunks it captured, or not; some
\* of them may still be on their way.
Stop(c, stop, want) ==
  LET j == JournalOf(c)
      known == j.final # None /\ j.final.stop = stop
      refinalize == known /\ CachedShort(j.final, want)
      session_lost == want # None /\ want > 0 /\ Accepted(j) = {}
  IN /\ conns[c].phase = "receive"
     /\ want # None => want >= conns[c].next
     /\ \/ /\ known /\ ~refinalize   \* replayed, or expired
           /\ Ends(c, want, IF j.final.fresh THEN j.final.through ELSE None)
        \/ /\ known => refinalize
           /\ session_lost
           /\ Ends(c, None, None)
        \/ /\ known => refinalize
           /\ ~session_lost
           /\ conns' = [conns EXCEPT ![c].phase = "coverage",
                                     ![c].stop = stop, ![c].want = want]
     /\ UNCHANGED <<journals, held>>

Covered(c) ==
  conns[c].want = None \/ received_frontier(JournalOf(c)) >= conns[c].want

\* A frame that the stop had overtaken; it is in the buffers before it is
\* acknowledged.
LateAudio(c) ==
  LET n == conns[c].next
  IN /\ conns[c].phase = "coverage" /\ ~Covered(c)
     /\ n < conns[c].want
     /\ \/ /\ Duplicate(c)
           /\ conns' = [conns EXCEPT ![c].next = @ + 1]
           /\ UNCHANGED <<journals, held>>
        \/ /\ ~Duplicate(c)
           /\ Accepts(c)
           /\ conns' = [conns EXCEPT ![c].next = @ + 1,
                                     ![c].raw_audio = Append(@, n),
                                     ![c].native_pending_feed = Append(@, n)]

\* Mutant: what waits to be fed is also in what is decoded anew.
KeepsPending(conn) == conn.raw_audio \o conn.native_pending_feed

\* The whole recording goes to a new stream, and pending frames with it.
Redecoded(conn) == conn.raw_audio

\* What a stream that is still open has yet to hear.
LateFrames(conn) == conn.native_pending_feed

\* await_audio_coverage returns: all is there, or 2 seconds are over or the
\* socket failed.  A sealed stream is replaced by a new one.  What the client
\* would send next is not read any more.
CoverageEnds(c) ==
  LET sealed == StreamOf(c).finished
      feeding == IF sealed THEN Redecoded(conns[c]) ELSE LateFrames(conns[c])
  IN /\ conns[c].phase = "coverage"
     /\ conns' = [conns EXCEPT
                    ![c].phase = IF feeding = <<>> THEN "finish" ELSE "seal",
                    ![c].audio_complete = Covered(c),
                    ![c].feeding = feeding,
                    ![c].native_pending_feed = <<>>,
                    ![c].next = 0,
                    ![c].own_stream = IF sealed THEN NewStream ELSE @]
     /\ UNCHANGED <<journals, held>>

\* recognized_through: what arrived, unless the text is no decode of the audio
\* or some audio is missing.
RecognizedThrough(c, decoded) ==
  IF decoded = <<>> \/ ~conns[c].audio_complete THEN None
  ELSE received_frontier(JournalOf(c))

\* send_covered_final
Answers(c, decoded) ==
  LET final == [stop |-> conns[c].stop, through |-> RecognizedThrough(c, decoded),
                decoded |-> decoded, by |-> c, fresh |-> TRUE]
  IN /\ journals' = [journals EXCEPT ![conns[c].journal].final = final]
     /\ Ends(c, conns[c].want, final.through)
     /\ UNCHANGED held

\* run_finish: the job has the lock and seals the stream, which gives a text or
\* none.  The handler does not look at its stream again.
Finish(c) ==
  LET heard == StreamOf(c).heard
      sealed == [StreamOf(c) EXCEPT !.finished = TRUE]
  IN /\ conns[c].phase = "finish"
     /\ SetsStream(c, sealed)
     /\ \E text \in {heard, <<>>} :
          conns' = [conns EXCEPT ![c].phase = "sealed", ![c].text = text,
                                 ![c].own_stream = None]

\* The handler has the text, and only now reads how far the audio has come.
\* Without one a raw recording that is long enough is decoded, and else a last
\* partial has to do.
Sealed(c) ==
  /\ conns[c].phase = "sealed"
  /\ \/ Answers(c, conns[c].text)
     \/ /\ conns[c].text = <<>> /\ conns[c].raw_audio # <<>>
        /\ conns' = [conns EXCEPT ![c].phase = "raw"]
        /\ UNCHANGED <<journals, held>>

\* _transcribe_buffer of the raw recording, which may find no text and hides
\* its errors.
RawFallback(c) ==
  /\ conns[c].phase = "raw"
  /\ \E decoded \in {<<>>, conns[c].raw_audio} : Answers(c, decoded)

\* ASR_STOP_RESULT_TTL_SEC after the final.
Expire(i) ==
  /\ journals[i].final # None /\ journals[i].final.fresh
  /\ journals' = [journals EXCEPT ![i].final.fresh = FALSE]
  /\ UNCHANGED <<held, conns>>

-----------------------------------------------------------------------------
Handler(c) ==
  \/ Begin(c) \/ Resume(c) \/ Audio(c) \/ Acked(c) \/ Feed(c) \/ Lost(c)
  \/ \E stop \in Stops, want \in 0 .. MaxChunks \union {None} : Stop(c, stop, want)
  \/ LateAudio(c) \/ CoverageEnds(c) \/ Finish(c) \/ Sealed(c) \/ RawFallback(c)

Next ==
  \/ \E c \in Conns : Handler(c)
  \/ Forget
  \/ \E i \in DOMAIN journals : Expire(i)

Spec == Init /\ [][Next]_vars

-----------------------------------------------------------------------------
(***************************************************************************)
(* Properties.                                                             *)
(***************************************************************************)

\* The finals made so far that claim to cover audio, with their journal.
Claims ==
  {<<i, journals[i].final>> : i \in {k \in DOMAIN journals :
      journals[k].final # None /\ journals[k].final.through # None}}

\* The members of S in s come in their order.
Ascends(s, S) ==
  \A p, q \in DOMAIN s : p < q /\ {s[p], s[q]} \subseteq S => s[p] < s[q]

\* A final that claims chunks 0 .. through-1 was decoded from every one of them
\* that its own socket brought, once and in their order, whether they came before
\* the stop, after it, or after an earlier stop had sealed the stream; and no
\* chunk at all was decoded twice.
ClaimsReadTheirAudio ==
  \A claim \in Claims :
    LET own == {k \in 0 .. claim[2].through - 1 :
                  journals[claim[1]].chunks[k] = claim[2].by}
        decoded == claim[2].decoded
    IN /\ own \subseteq ToSet(decoded)
       /\ Ascends(decoded, own)
       /\ IsInjective(decoded)

\* Whatever was cached, replayed or decoded again on the way, an answer either
\* covers all the chunks its own stop said were captured or claims nothing.
AnswersAreEnough ==
  \A c \in Conns :
    conns[c].answer # None /\ conns[c].want # None => conns[c].answer >= conns[c].want

\* "The native decoder consumes every chunk it is fed, so what it read IS what
\* arrived": a final that claims a chunk was decoded from it.  (It is not: a
\* chunk is accepted before it is fed, and neither a failed acknowledgement nor
\* another socket's stop waits for the feed.)
WhatItReadIsWhatArrived ==
  \A claim \in Claims :
    0 .. claim[2].through - 1 \subseteq ToSet(claim[2].decoded)

=============================================================================
