------------------------------ MODULE R2T2Stream ------------------------------
(***************************************************************************)
(* R2T2Backend and R2T2Stream (cuda/asr_backends.py): how the texts a      *)
(* streaming decoder returns for one window of audio after another become  *)
(* a committed text that is never revised and a displayed text that runs   *)
(* ahead of it.                                                            *)
(*                                                                         *)
(* A text is a sequence of characters, as startswith compares them.  The   *)
(* decoder is external: whatever text it returns for a window is possible, *)
(* a revision of an earlier one too, as long as it has one blank between   *)
(* its words and none around them.                                         *)
(* One step is one turn of the loop of feed_stream; the transcribe lock    *)
(* keeps every other call out until the loop has ended.                    *)
(***************************************************************************)
EXTENDS Integers, FiniteSets, Sequences, SequencesExt

CONSTANTS
  Symbols,         \* characters
  Blank,           \* the one between words
  Terminal,        \* those that end a sentence: . ! ?
  NonAscii, Alnum, \* as isascii and isalnum know them
  GUARD,           \* how many words, or characters, _stable_prefix holds back
  WINDOW,          \* window_samples, in units of audio
  SEAL_EARLY,      \* SEAL_EARLY_FRACTION of a window, in units
  SEAL_QUIET,      \* SEAL_QUIET_SEC, in units
  MAX_TRANSCRIPT,  \* max_transcript_chars, in characters
  MaxLocal,        \* bound: characters the decoder returns for one window
  MaxFeed          \* bound: units of audio handed over by one call

ASSUME StreamAssumption ==
  /\ Blank \in Symbols
  /\ {Terminal, NonAscii, Alnum} \subseteq SUBSET (Symbols \ {Blank})
  /\ {GUARD, WINDOW, SEAL_EARLY, SEAL_QUIET} \subseteq Nat \ {0}
  /\ {MAX_TRANSCRIPT, MaxLocal, MaxFeed} \subseteq Nat

VARIABLES
  stream,    \* the R2T2Stream
  left       \* units of the running feed_stream call that are not yet decoded

vars == <<stream, left>>

Texts == Seq(Symbols)

\* strip() and a split() that is joined with single blanks leave such a text alone;
\* of any other _stable_prefix would commit what it has re-spaced.
WellSpaced(text) ==
  \A i \in DOMAIN text : text[i] = Blank =>
    i \notin {1, Len(text)} /\ text[i + 1] # Blank

\* What the decoder may return for a window.
Decodes == {text \in BoundedSeq(Symbols, MaxLocal) : WellSpaced(text)}

Streams ==
  [base_text: Texts,            \* the text of the windows sealed so far
   committed_text: Texts,
   display_text: Texts,
   samples_in_window: 0 .. WINDOW,
   quiet_samples: 0 .. WINDOW,
   finished: BOOLEAN]

NewStream ==
  [base_text |-> <<>>, committed_text |-> <<>>, display_text |-> <<>>,
   samples_in_window |-> 0, quiet_samples |-> 0, finished |-> FALSE]

TypeOK ==
  /\ stream \in Streams
  /\ left \in 0 .. MaxFeed

-----------------------------------------------------------------------------
(***************************************************************************)
(* The text helpers.                                                       *)
(***************************************************************************)

\* _join: a suffix that already begins with the prefix stands for both.  No
\* blank follows the characters of a script that has none.
Join(prefix, suffix) ==
  LET separator == IF Last(prefix) \in Alnum \intersect NonAscii THEN <<>> ELSE <<Blank>>
  IN  IF IsPrefix(prefix, suffix) THEN suffix
      ELSE IF suffix = <<>> THEN prefix
      ELSE prefix \o (separator \o suffix)

Blanks(text) == {i \in DOMAIN text : text[i] = Blank}

\* The blanks with so many words after them as are held back.
GuardBlanks(text) ==
  {i \in Blanks(text) : Cardinality({k \in Blanks(text) : k >= i}) = GUARD}

\* How much of a text is stable: a finished sentence all of it, of anything else
\* what is before the last words, or where it has no so many words and is not
\* ASCII, before the last characters and the blank before them.
StableLength(text) ==
  LET rest == Len(text) - GUARD
  IN  IF text = <<>> \/ Last(text) \in Terminal THEN Len(text)
      ELSE IF GuardBlanks(text) # {} THEN (CHOOSE i \in GuardBlanks(text) : TRUE) - 1
      ELSE IF rest > 0 /\ \E i \in DOMAIN text : text[i] \in NonAscii
      THEN IF text[rest] = Blank THEN rest - 1 ELSE rest
      ELSE 0

\* _stable_prefix
StablePrefix(text) == SubSeq(text, 1, StableLength(text))

\* Mutant: the committed text is not compared.
AnyExtends(s, text) == TRUE

\* _require_prefix does not raise.
Extends(s, text) == IsPrefix(s.committed_text, text)

TooLong(s) == Len(s.committed_text) > MAX_TRANSCRIPT

-----------------------------------------------------------------------------
(***************************************************************************)
(* One turn of the loop: take units are decoded, full and fixed returned.  *)
(***************************************************************************)
Take == IF WINDOW - stream.samples_in_window < left
        THEN WINDOW - stream.samples_in_window ELSE left

Heard(s, take, silent) ==
  [s EXCEPT !.samples_in_window = @ + take,
            !.quiet_samples = IF silent THEN @ + take ELSE 0]

\* Mutant: what is stable now is committed, though it be less than before.
CommitsLess(s, fixed) ==
  IF fixed # <<>>
  THEN [s EXCEPT !.committed_text = StablePrefix(Join(s.base_text, fixed))] ELSE s

\* The fixed text moves the committed one forward, never back.
Commits(s, fixed) ==
  LET stable == StablePrefix(Join(s.base_text, fixed))
  IN IF fixed # <<>> /\ IsPrefix(s.committed_text, stable)
     THEN [s EXCEPT !.committed_text = stable] ELSE s

\* The full text is shown where it extends what is committed, else the fixed
\* one; with neither the display stays.
Shows(s, full, fixed) ==
  LET unfixed == Join(s.base_text, full)
  IN IF full # <<>> /\ Extends(s, unfixed) THEN [s EXCEPT !.display_text = unfixed]
     ELSE IF fixed # <<>>
     THEN [s EXCEPT !.display_text = Join(s.base_text, fixed)]
     ELSE s

SealDue(s) ==
  \/ s.samples_in_window = WINDOW
  \/ s.samples_in_window >= SEAL_EARLY /\ s.quiet_samples >= SEAL_QUIET

\* _publish of the window's final text, where it does not revise.
Published(s, final) ==
  LET candidate == Join(s.base_text, final)
  IN [s EXCEPT !.committed_text = candidate, !.display_text = candidate]

\* Mutant: the new window starts in the pause that ended the last one.
NewWindowKeepsQuiet(s) ==
  [s EXCEPT !.base_text = s.committed_text, !.samples_in_window = 0]

\* Mutant: the new window starts full.
NewWindowKeepsCount(s) == [s EXCEPT !.base_text = s.committed_text, !.quiet_samples = 0]

\* _seal_window after its seal: a fresh decoder state.
NewWindow(s) ==
  [s EXCEPT !.base_text = s.committed_text,
            !.samples_in_window = 0, !.quiet_samples = 0]

-----------------------------------------------------------------------------
Init == stream = NewStream /\ left = 0

\* feed_stream is called with one or more units of audio; on a finished stream
\* it raises at once.
Feed ==
  /\ left = 0 /\ ~stream.finished
  /\ \E n \in 1 .. MaxFeed : left' = n
  /\ UNCHANGED stream

\* An exception: what is left of the call is never decoded.
Raises == left' = 0

\* The fixed text of a turn neither revises nor grows past the limit.
Sound(s, fixed) ==
  fixed = <<>> \/ /\ Extends(s, Join(s.base_text, fixed))
                  /\ ~TooLong(Commits(s, fixed))

Units(silent) == Heard(stream, Take, silent)

\* The stream after a turn that raises at the fixed text: only a text that is
\* too long has been committed by then.
BadTurns ==
  UNION {{IF Extends(Units(silent), Join(stream.base_text, fixed))
          THEN Commits(Units(silent), fixed) ELSE Units(silent) :
            fixed \in {f \in Decodes : ~Sound(Units(silent), f)}} :
         silent \in BOOLEAN}

\* The stream after a turn that goes well, up to the seal.
Turns ==
  UNION {{Shows(Commits(Units(silent), fixed), full, fixed) :
            full \in Decodes, fixed \in {f \in Decodes : Sound(Units(silent), f)}} :
         silent \in BOOLEAN}

FeedRaises ==
  /\ left > 0
  /\ stream' \in BadTurns
  /\ Raises

FeedShows ==
  /\ left > 0
  /\ \E s \in Turns : ~SealDue(s) /\ stream' = s
  /\ left' = left - Take

FeedSeals ==
  /\ left > 0
  /\ \E s \in Turns, final \in Decodes :
       /\ SealDue(s)
       /\ Extends(s, Join(s.base_text, final)) /\ ~TooLong(Published(s, final))
       /\ stream' = NewWindow(Published(s, final))
  /\ left' = left - Take

\* The stream where the final text of a window raises: a revision is not
\* published, a text that is too long is.  The window stays as it is.
SealRaises(s, final) ==
  \/ ~Extends(s, Join(s.base_text, final)) /\ stream' = s
  \/ /\ Extends(s, Join(s.base_text, final)) /\ TooLong(Published(s, final))
     /\ stream' = Published(s, final)

FeedSealRaises ==
  /\ left > 0
  /\ \E s \in Turns, final \in Decodes : SealDue(s) /\ SealRaises(s, final)
  /\ Raises

\* finish_stream: the seal of the last window; a finished stream only gives
\* its text again.
Finish ==
  /\ left = 0 /\ ~stream.finished
  /\ \E final \in Decodes :
       /\ Extends(stream, Join(stream.base_text, final))
       /\ ~TooLong(Published(stream, final))
       /\ stream' = [Published(stream, final) EXCEPT !.finished = TRUE]
  /\ UNCHANGED left

FinishRaises ==
  /\ left = 0 /\ ~stream.finished
  /\ \E final \in Decodes : SealRaises(stream, final)
  /\ UNCHANGED left

FeedTurn == FeedRaises \/ FeedShows \/ FeedSeals \/ FeedSealRaises

Next == Feed \/ FeedTurn \/ Finish \/ FinishRaises

Spec == Init /\ [][Next]_vars

-----------------------------------------------------------------------------
(***************************************************************************)
(* Properties.                                                             *)
(***************************************************************************)

\* What a partial shows never takes back committed text, and the committed text
\* begins with all sealed windows, whatever the decoder revises; only a text
\* over the limit is committed without being shown.
ShownExtendsCommitted ==
  /\ IsPrefix(stream.base_text, stream.committed_text)
  /\ TooLong(stream) \/ IsPrefix(stream.committed_text, stream.display_text)

\* The committed text grows and is never revised, across revisions, windows and
\* exceptions, and is final when the stream is finished (_require_prefix: "R2T2
\* committed-prefix regression").
Committed == INSTANCE AppendOnlyText WITH
  text <- stream.committed_text, done <- stream.finished

ImplementsAppendOnlyText == Committed!Spec

\* Every call of feed_stream ends: each turn uses up audio, or, where the window
\* was full because its seal had raised, empties the window or raises.
EveryTurnProgresses ==
  [][left > 0 => left' < left \/ stream'.samples_in_window = 0]_vars

=============================================================================
