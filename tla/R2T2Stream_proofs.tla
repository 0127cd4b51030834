-------------------------- MODULE R2T2Stream_proofs --------------------------
(***************************************************************************)
(* Proofs about R2T2Stream, for every alphabet, guard, window and limit:   *)
(* the committed text is append-only, what is shown extends it, and every  *)
(* turn of the feed loop makes progress.                                   *)
(***************************************************************************)
EXTENDS R2T2Stream, SequenceTheorems, TLAPS

-----------------------------------------------------------------------------
(***************************************************************************)
(* Prefixes.                                                               *)
(***************************************************************************)

\* A prefix agrees with the whole at each of its places.
LEMMA PrefixPointwise ==
  ASSUME NEW S, NEW s \in Seq(S), NEW t \in Seq(S)
  PROVE  IsPrefix(s, t) <=> /\ Len(s) <= Len(t)
                            /\ \A i \in 1 .. Len(s) : s[i] = t[i]
PROOF
  <1>1. CASE Len(s) <= Len(t)
    <2>1. /\ SubSeq(s, 1, Len(s)) \in Seq(S) /\ Len(SubSeq(s, 1, Len(s))) = Len(s)
          /\ SubSeq(t, 1, Len(s)) \in Seq(S) /\ Len(SubSeq(t, 1, Len(s))) = Len(s)
          /\ \A i \in 1 .. Len(s) : SubSeq(s, 1, Len(s))[i] = s[i]
          /\ \A i \in 1 .. Len(s) : SubSeq(t, 1, Len(s))[i] = t[i]
      BY <1>1
    <2>2. SubSeq(s, 1, Len(s)) = SubSeq(t, 1, Len(s))
            <=> \A i \in 1 .. Len(s) : s[i] = t[i]
      BY <2>1, SeqEqual
    <2> QED BY <1>1, <2>2 DEF IsPrefix
  <1>2. CASE ~(Len(s) <= Len(t))
    BY <1>2 DEF IsPrefix
  <1> QED BY <1>1, <1>2

\* The empty text begins every text, and every text itself.
LEMMA PrefixBounds ==
  ASSUME NEW S, NEW s \in Seq(S)
  PROVE  IsPrefix(<<>>, s) /\ IsPrefix(s, s)
PROOF
  <1>1. <<>> \in Seq(S) /\ Len(<<>>) = 0 /\ Len(s) \in Nat
    OBVIOUS
  <1>2. IsPrefix(<<>>, s)
    <2>1. PICK e \in Seq(S) : e = <<>> /\ Len(e) = 0
      BY <1>1
    <2>2. Len(e) <= Len(s) /\ \A i \in 1 .. Len(e) : e[i] = s[i]
      BY <1>1, <2>1
    <2>3. IsPrefix(e, s)
      BY <2>2, PrefixPointwise
    <2> QED BY <2>1, <2>3
  <1>3. IsPrefix(s, s)
    BY <1>1, PrefixPointwise
  <1> QED BY <1>2, <1>3

\* Extending is transitive.
LEMMA PrefixTransitive ==
  ASSUME NEW S, NEW s \in Seq(S), NEW t \in Seq(S), NEW u \in Seq(S),
         IsPrefix(s, t), IsPrefix(t, u)
  PROVE  IsPrefix(s, u)
BY PrefixPointwise

\* What is joined on extends.
LEMMA PrefixOfConcat ==
  ASSUME NEW S, NEW s \in Seq(S), NEW t \in Seq(S)
  PROVE  IsPrefix(s, s \o t)
PROOF
  <1>1. /\ s \o t \in Seq(S) /\ Len(s) <= Len(s \o t)
        /\ \A i \in 1 .. Len(s) : (s \o t)[i] = s[i]
    BY ConcatProperties
  <1> QED BY <1>1, PrefixPointwise

\* The front of a text begins it.
LEMMA PrefixOfFront ==
  ASSUME NEW S, NEW s \in Seq(S), NEW n \in 0 .. Len(s)
  PROVE  SubSeq(s, 1, n) \in Seq(S) /\ IsPrefix(SubSeq(s, 1, n), s)
PROOF
  <1>1. /\ SubSeq(s, 1, n) \in Seq(S) /\ Len(SubSeq(s, 1, n)) = n
        /\ \A i \in 1 .. n : SubSeq(s, 1, n)[i] = s[i]
    OBVIOUS
  <1>2. PICK f \in Seq(S) : f = SubSeq(s, 1, n)
    BY <1>1
  <1>3. Len(f) <= Len(s) /\ \A i \in 1 .. Len(f) : f[i] = s[i]
    BY <1>1, <1>2
  <1>4. IsPrefix(f, s)
    BY <1>3, PrefixPointwise
  <1> QED BY <1>1, <1>2, <1>4

\* Of two beginnings of a text the shorter begins the longer.
LEMMA PrefixesCompare ==
  ASSUME NEW S, NEW s \in Seq(S), NEW t \in Seq(S), NEW u \in Seq(S),
         IsPrefix(s, u), IsPrefix(t, u), Len(s) <= Len(t)
  PROVE  IsPrefix(s, t)
BY PrefixPointwise

-----------------------------------------------------------------------------
(***************************************************************************)
(* The text helpers.                                                       *)
(***************************************************************************)

\* A join extends what it joins to.
LEMMA JoinExtends ==
  ASSUME NEW p \in Texts, NEW s \in Texts
  PROVE  Join(p, s) \in Texts /\ IsPrefix(p, Join(p, s))
PROOF
  <1> DEFINE separator == IF Last(p) \in Alnum \intersect NonAscii THEN <<>> ELSE <<Blank>>
             tail == separator \o s
  <1>1. separator \in Texts
    <2>1. <<>> \in Seq(Symbols) /\ <<Blank>> \in Seq(Symbols)
      BY StreamAssumption
    <2> QED BY <2>1 DEF Texts
  <1> HIDE DEF separator
  <1>2. tail \in Texts
    BY <1>1, ConcatProperties DEF Texts
  <1>3. p \o tail \in Texts /\ IsPrefix(p, p \o tail)
    <2> HIDE DEF tail
    <2> QED BY <1>2, PrefixOfConcat, ConcatProperties DEF Texts
  <1>4. IsPrefix(p, p)
    BY PrefixBounds DEF Texts
  <1>5. Join(p, s) = IF IsPrefix(p, s) THEN s ELSE IF s = <<>> THEN p ELSE p \o tail
    BY DEF Join, separator
  <1> HIDE DEF tail
  <1> QED BY <1>3, <1>4, <1>5

\* No more than the text is stable.
LEMMA StableFits ==
  ASSUME NEW t \in Texts
  PROVE  StableLength(t) \in 0 .. Len(t)
PROOF
  <1>1. Len(t) \in Nat /\ DOMAIN t = 1 .. Len(t) /\ GUARD \in Nat
    BY StreamAssumption DEF Texts
  <1>2. ASSUME GuardBlanks(t) # {}
        PROVE  (CHOOSE i \in GuardBlanks(t) : TRUE) - 1 \in 0 .. Len(t)
    <2>1. PICK i \in GuardBlanks(t) : i = CHOOSE k \in GuardBlanks(t) : TRUE
      BY <1>2
    <2>2. i \in 1 .. Len(t)
      BY <1>1 DEF GuardBlanks, Blanks
    <2> QED BY <1>1, <2>1, <2>2
  <1>3. Len(t) - GUARD > 0 => /\ Len(t) - GUARD \in 0 .. Len(t)
                              /\ (Len(t) - GUARD) - 1 \in 0 .. Len(t)
    BY <1>1
  <1>4. Len(t) \in 0 .. Len(t) /\ 0 \in 0 .. Len(t)
    BY <1>1
  <1> QED BY <1>2, <1>3, <1>4 DEF StableLength

\* What is stable begins the text, which then extends it.
LEMMA StableIsPrefix ==
  ASSUME NEW t \in Texts
  PROVE  StablePrefix(t) \in Texts /\ IsPrefix(StablePrefix(t), t)
BY StableFits, PrefixOfFront DEF StablePrefix, Texts

\* The decoder returns texts.
LEMMA DecodesAreTexts == Decodes \subseteq Texts
PROOF
  <1> SUFFICES ASSUME NEW m \in 0 .. MaxLocal, NEW d \in [1 .. m -> Symbols]
               PROVE  d \in Texts
    BY DEF Decodes, BoundedSeq, SeqOf
  <1>1. m \in Nat BY StreamAssumption
  <1> QED BY <1>1 DEF Texts

-----------------------------------------------------------------------------
(***************************************************************************)
(* The inductive invariant: besides its type and what is shown, a stream   *)
(* has heard no more silence than audio, so its silence fits the window.   *)
(***************************************************************************)
Stands(s) ==
  /\ s \in Streams
  /\ s.quiet_samples <= s.samples_in_window
  /\ IsPrefix(s.base_text, s.committed_text)
  /\ TooLong(s) \/ IsPrefix(s.committed_text, s.display_text)

\* t is s a step later: nothing committed is lost.
Grows(s, t) ==
  /\ IsPrefix(s.committed_text, t.committed_text)
  /\ t.finished = s.finished

IInv ==
  /\ Stands(stream)
  /\ left \in 0 .. MaxFeed
  /\ stream.finished => left = 0

\* Audio counts towards the window, the texts stay.
LEMMA HeardStands ==
  ASSUME NEW s, Stands(s), NEW take \in Nat, NEW silent \in BOOLEAN,
         s.samples_in_window + take <= WINDOW
  PROVE  /\ Stands(Heard(s, take, silent))
         /\ Grows(s, Heard(s, take, silent))
         /\ Heard(s, take, silent).samples_in_window = s.samples_in_window + take
PROOF
  <1> DEFINE h == Heard(s, take, silent)
  <1>1. WINDOW \in Nat /\ GUARD \in Nat BY StreamAssumption
  <1>2. s \in Streams /\ s.committed_text \in Texts
    BY DEF Stands, Streams
  <1>3. h \in Streams /\ h.quiet_samples <= h.samples_in_window
    <2>1. /\ s.samples_in_window \in 0 .. WINDOW /\ s.quiet_samples \in 0 .. WINDOW
          /\ s.quiet_samples <= s.samples_in_window
      BY <1>2 DEF Stands, Streams
    <2>2. PICK m \in 0 .. WINDOW : m = s.samples_in_window + take
      BY <1>1, <2>1
    <2>3. PICK q \in 0 .. WINDOW :
            q <= m /\ q = IF silent THEN s.quiet_samples + take ELSE 0
      BY <1>1, <2>1, <2>2
    <2>4. h = [s EXCEPT !.samples_in_window = m, !.quiet_samples = q]
      BY <1>2, <2>2, <2>3 DEF Heard, Streams
    <2> QED BY <1>2, <2>3, <2>4 DEF Streams
  <1>4. /\ h.base_text = s.base_text /\ h.committed_text = s.committed_text
        /\ h.display_text = s.display_text /\ h.finished = s.finished
        /\ h.samples_in_window = s.samples_in_window + take
    BY <1>2 DEF Streams, Heard
  <1>5. IsPrefix(s.committed_text, s.committed_text)
    BY <1>2, PrefixBounds DEF Texts
  <1> QED BY <1>3, <1>4, <1>5 DEF Stands, Grows, TooLong

\* Committing a fixed text leaves everything but the committed text alone, and
\* that begins the fixed text if it did before.
LEMMA CommitsGrows ==
  ASSUME NEW s, Stands(s), NEW fixed \in Texts
  PROVE  LET c == Commits(s, fixed)
         IN /\ c \in Streams /\ Grows(s, c)
            /\ IsPrefix(s.base_text, c.committed_text)
            /\ c.base_text = s.base_text /\ c.display_text = s.display_text
            /\ c.samples_in_window = s.samples_in_window
            /\ c.quiet_samples = s.quiet_samples
            /\ fixed = <<>> => c = s
            /\ Extends(s, Join(s.base_text, fixed))
                 => Extends(c, Join(s.base_text, fixed))
PROOF
  <1> DEFINE joined == Join(s.base_text, fixed)
             stable == StablePrefix(joined)
             c == Commits(s, fixed)
  <1>1. /\ s \in Streams /\ s.base_text \in Texts /\ s.committed_text \in Texts
        /\ IsPrefix(s.base_text, s.committed_text)
    BY DEF Stands, Streams
  <1>2. joined \in Texts /\ stable \in Texts /\ IsPrefix(stable, joined)
    BY <1>1, JoinExtends, StableIsPrefix
  <1>3. IsPrefix(s.committed_text, s.committed_text)
    BY <1>1, PrefixBounds DEF Texts
  <1>4. CASE fixed # <<>> /\ IsPrefix(s.committed_text, stable)
    <2> HIDE DEF stable, joined
    <2>1. c = [s EXCEPT !.committed_text = stable]
      BY <1>4 DEF Commits, stable, joined
    <2>2. /\ c \in Streams /\ c.committed_text = stable
          /\ c.base_text = s.base_text /\ c.display_text = s.display_text
          /\ c.samples_in_window = s.samples_in_window
          /\ c.quiet_samples = s.quiet_samples /\ c.finished = s.finished
      BY <1>1, <1>2, <2>1 DEF Streams
    <2>3. IsPrefix(s.base_text, stable)
      BY <1>1, <1>2, <1>4, PrefixTransitive DEF Texts
    <2> QED BY <1>2, <1>4, <2>2, <2>3 DEF Grows, Extends, joined
  <1>5. CASE ~(fixed # <<>> /\ IsPrefix(s.committed_text, stable))
    <2>1. c = s
      BY <1>5 DEF Commits
    <2> QED BY <1>1, <1>3, <2>1 DEF Grows, Extends
  <1> QED BY <1>4, <1>5

\* A turn that goes well.
LEMMA ShowsStands ==
  ASSUME NEW s, Stands(s), NEW fixed \in Texts, NEW full \in Texts, Sound(s, fixed)
  PROVE  LET t == Shows(Commits(s, fixed), full, fixed)
         IN Stands(t) /\ Grows(s, t) /\ t.samples_in_window = s.samples_in_window
PROOF
  <1> DEFINE c == Commits(s, fixed)
             t == Shows(c, full, fixed)
  <1>1. /\ c \in Streams /\ Grows(s, c)
        /\ IsPrefix(s.base_text, c.committed_text)
        /\ c.base_text = s.base_text /\ c.display_text = s.display_text
        /\ c.samples_in_window = s.samples_in_window
        /\ c.quiet_samples = s.quiet_samples
        /\ fixed = <<>> => c = s
        /\ Extends(s, Join(s.base_text, fixed))
             => Extends(c, Join(s.base_text, fixed))
    BY CommitsGrows
  <1>2. c.quiet_samples <= c.samples_in_window
    BY <1>1 DEF Stands
  <1>3. ASSUME NEW shown \in Texts, t = [c EXCEPT !.display_text = shown],
               IsPrefix(c.committed_text, shown)
        PROVE  Stands(t) /\ Grows(s, t) /\ t.samples_in_window = s.samples_in_window
    <2> HIDE DEF t, c
    <2>1. /\ t \in Streams /\ t.display_text = shown
          /\ t.base_text = c.base_text /\ t.committed_text = c.committed_text
          /\ t.samples_in_window = c.samples_in_window
          /\ t.quiet_samples = c.quiet_samples /\ t.finished = c.finished
      BY <1>1, <1>3 DEF Streams
    <2> QED BY <1>1, <1>2, <1>3, <2>1 DEF Stands, Grows
  <1>4. c.base_text \in Texts
    BY <1>1 DEF Streams
  <1>5. Join(c.base_text, full) \in Texts /\ Join(c.base_text, fixed) \in Texts
    BY <1>4, JoinExtends
  <1>6. CASE full # <<>> /\ Extends(c, Join(c.base_text, full))
    BY <1>3, <1>5, <1>6 DEF Shows, Extends
  <1>7. CASE ~(full # <<>> /\ Extends(c, Join(c.base_text, full))) /\ fixed # <<>>
    <2>1. Extends(c, Join(c.base_text, fixed))
      BY <1>1, <1>7 DEF Sound
    <2> QED BY <1>3, <1>5, <1>7, <2>1 DEF Shows, Extends
  <1>8. CASE ~(full # <<>> /\ Extends(c, Join(c.base_text, full))) /\ fixed = <<>>
    <2>1. t = c BY <1>8 DEF Shows
    <2> QED BY <1>1, <1>8, <2>1
  <1> QED BY <1>6, <1>7, <1>8

\* A turn that raises at the fixed text has committed at most a text over the
\* limit.
LEMMA BadTurnStands ==
  ASSUME NEW s, Stands(s), NEW fixed \in Texts, ~Sound(s, fixed),
         Extends(s, Join(s.base_text, fixed))
  PROVE  LET c == Commits(s, fixed)
         IN Stands(c) /\ Grows(s, c) /\ c.samples_in_window = s.samples_in_window
PROOF
  <1>1. TooLong(Commits(s, fixed))
    BY DEF Sound
  <1> QED BY <1>1, CommitsGrows DEF Stands

\* The final text of a window, where it does not revise.
LEMMA PublishedStands ==
  ASSUME NEW s, Stands(s), NEW final \in Texts,
         Extends(s, Join(s.base_text, final))
  PROVE  LET p == Published(s, final)
         IN /\ Stands(p) /\ Grows(s, p)
            /\ p.samples_in_window = s.samples_in_window
            /\ p.committed_text \in Texts
PROOF
  <1> DEFINE candidate == Join(s.base_text, final)
             p == Published(s, final)
  <1>1. s \in Streams /\ s.base_text \in Texts
    BY DEF Stands, Streams
  <1>2. candidate \in Texts /\ IsPrefix(s.base_text, candidate)
    BY <1>1, JoinExtends
  <1>3. IsPrefix(candidate, candidate)
    BY <1>2, PrefixBounds DEF Texts
  <1>4. p = [s EXCEPT !.committed_text = candidate, !.display_text = candidate]
    BY DEF Published
  <1> HIDE DEF candidate, p
  <1>5. /\ p \in Streams /\ p.committed_text = candidate
        /\ p.display_text = candidate /\ p.base_text = s.base_text
        /\ p.samples_in_window = s.samples_in_window
        /\ p.quiet_samples = s.quiet_samples /\ p.finished = s.finished
    BY <1>1, <1>2, <1>4 DEF Streams
  <1>6. IsPrefix(s.committed_text, candidate)
    BY DEF Extends, candidate
  <1> QED BY <1>2, <1>3, <1>5, <1>6 DEF Stands, Grows, p

\* A sealed window leaves its text as the base of the next.
LEMMA NewWindowStands ==
  ASSUME NEW s, Stands(s)
  PROVE  /\ Stands(NewWindow(s)) /\ Grows(s, NewWindow(s))
         /\ NewWindow(s).samples_in_window = 0
PROOF
  <1> DEFINE w == NewWindow(s)
  <1>1. 0 \in 0 .. WINDOW BY StreamAssumption
  <1>2. s \in Streams /\ s.committed_text \in Texts
    BY DEF Stands, Streams
  <1>3. IsPrefix(s.committed_text, s.committed_text)
    BY <1>2, PrefixBounds DEF Texts
  <1>4. w = [s EXCEPT !.base_text = s.committed_text,
                      !.samples_in_window = 0, !.quiet_samples = 0]
    BY DEF NewWindow
  <1> HIDE DEF w
  <1>5. /\ w \in Streams /\ w.base_text = s.committed_text
        /\ w.committed_text = s.committed_text /\ w.display_text = s.display_text
        /\ w.samples_in_window = 0 /\ w.quiet_samples = 0
        /\ w.finished = s.finished
    BY <1>1, <1>2, <1>4 DEF Streams
  <1> QED BY <1>3, <1>5 DEF Stands, Grows, TooLong, w

LEMMA GrowsTransitive ==
  ASSUME NEW s, NEW t, NEW u, Stands(s), Stands(t), Stands(u),
         Grows(s, t), Grows(t, u)
  PROVE  Grows(s, u)
BY PrefixTransitive DEF Grows, Stands, Streams, Texts

-----------------------------------------------------------------------------
(***************************************************************************)
(* The steps.                                                              *)
(***************************************************************************)

\* A turn takes no more than the window or the call has left, and something
\* unless the window is full.
LEMMA TakeFits ==
  ASSUME IInv, left > 0
  PROVE  /\ Take \in Nat /\ Take <= left
         /\ stream.samples_in_window \in Nat
         /\ stream.samples_in_window + Take <= WINDOW
         /\ Take > 0 \/ stream.samples_in_window = WINDOW
PROOF
  <1>1. WINDOW \in Nat /\ MaxFeed \in Nat BY StreamAssumption
  <1>2. stream.samples_in_window \in 0 .. WINDOW
    BY DEF IInv, Stands, Streams
  <1> QED BY <1>1, <1>2 DEF IInv, Take

\* The audio of a turn.
LEMMA UnitsStand ==
  ASSUME IInv, left > 0, NEW silent \in BOOLEAN
  PROVE  /\ Stands(Units(silent)) /\ Grows(stream, Units(silent))
         /\ Units(silent).samples_in_window = stream.samples_in_window + Take
         /\ Units(silent).base_text = stream.base_text
PROOF
  <1>1. Stands(stream) /\ stream \in Streams
    BY DEF IInv, Stands
  <1>2. Units(silent).base_text = stream.base_text
    BY <1>1 DEF Units, Heard, Streams
  <1> QED BY <1>1, <1>2, TakeFits, HeardStands DEF Units

\* What a turn that goes well makes of the stream, up to the seal.
LEMMA TurnsStand ==
  ASSUME IInv, left > 0, NEW s \in Turns
  PROVE  /\ Stands(s) /\ Grows(stream, s)
         /\ s.samples_in_window = stream.samples_in_window + Take
PROOF
  <1>1. PICK silent \in BOOLEAN, full \in Decodes, fixed \in Decodes :
          /\ Sound(Units(silent), fixed)
          /\ s = Shows(Commits(Units(silent), fixed), full, fixed)
    BY DEF Turns
  <1>2. full \in Texts /\ fixed \in Texts
    BY DecodesAreTexts
  <1>3. /\ Stands(Units(silent)) /\ Grows(stream, Units(silent))
        /\ Units(silent).samples_in_window = stream.samples_in_window + Take
    BY UnitsStand
  <1>4. /\ Stands(s) /\ Grows(Units(silent), s)
        /\ s.samples_in_window = Units(silent).samples_in_window
    BY <1>1, <1>2, <1>3, ShowsStands
  <1>5. Stands(stream)
    BY DEF IInv
  <1> QED BY <1>3, <1>4, <1>5, GrowsTransitive

\* What a turn that raises makes of it.
LEMMA BadTurnsStand ==
  ASSUME IInv, left > 0, NEW s \in BadTurns
  PROVE  Stands(s) /\ Grows(stream, s)
PROOF
  <1>1. PICK silent \in BOOLEAN, fixed \in Decodes :
          /\ ~Sound(Units(silent), fixed)
          /\ s = IF Extends(Units(silent), Join(stream.base_text, fixed))
                 THEN Commits(Units(silent), fixed) ELSE Units(silent)
    BY DEF BadTurns
  <1>2. fixed \in Texts
    BY DecodesAreTexts
  <1>3. /\ Stands(Units(silent)) /\ Grows(stream, Units(silent))
        /\ Units(silent).base_text = stream.base_text
    BY UnitsStand
  <1>4. CASE Extends(Units(silent), Join(stream.base_text, fixed))
    <2>1. Stands(s) /\ Grows(Units(silent), s)
      BY <1>1, <1>2, <1>3, <1>4, BadTurnStands
    <2>2. Stands(stream)
      BY DEF IInv
    <2> QED BY <1>3, <2>1, <2>2, GrowsTransitive
  <1>5. CASE ~Extends(Units(silent), Join(stream.base_text, fixed))
    BY <1>1, <1>3, <1>5
  <1> QED BY <1>4, <1>5

LEMMA InitStands == Init => IInv
PROOF
  <1> SUFFICES ASSUME Init PROVE IInv
    OBVIOUS
  <1>1. WINDOW \in Nat /\ MaxFeed \in Nat BY StreamAssumption
  <1>2. <<>> \in Texts /\ IsPrefix(<<>>, <<>>)
    <2>1. <<>> \in Seq(Symbols)
      OBVIOUS
    <2>2. ASSUME NEW e \in Seq(Symbols) PROVE IsPrefix(e, e)
      BY PrefixBounds
    <2> QED BY <2>1, <2>2 DEF Texts
  <1>3. stream \in Streams /\ stream.quiet_samples = 0 /\ stream.samples_in_window = 0
    BY <1>1, <1>2 DEF Init, NewStream, Streams
  <1>4. /\ stream.base_text = <<>> /\ stream.committed_text = <<>>
        /\ stream.display_text = <<>> /\ ~stream.finished /\ left = 0
    BY DEF Init, NewStream
  <1> QED BY <1>1, <1>2, <1>3, <1>4 DEF IInv, Stands

\* What every step keeps and does: the invariant, the committed text as a
\* beginning of the next one, and progress through the audio of a call.
Progress == left > 0 => left' < left \/ stream'.samples_in_window = 0

Moves == IsPrefix(stream.committed_text, stream.committed_text')

LEMMA TurnStep ==
  ASSUME IInv, FeedTurn
  PROVE  IInv' /\ Moves /\ Progress /\ ~stream.finished
PROOF
  <1>1. left > 0 /\ left \in Nat /\ ~stream.finished /\ MaxFeed \in Nat
    BY StreamAssumption
       DEF IInv, FeedTurn, FeedRaises, FeedShows, FeedSeals, FeedSealRaises
  <1>2. SUFFICES /\ Stands(stream') /\ Grows(stream, stream')
                 /\ left' \in 0 .. left /\ Progress
    BY <1>1 DEF IInv, Stands, Grows, Moves
  <1>3. /\ Take \in Nat /\ Take <= left
        /\ Take > 0 \/ stream.samples_in_window = WINDOW
        /\ stream.samples_in_window \in Nat
    BY <1>1, TakeFits
  <1>4. Stands(stream)
    BY DEF IInv
  <1>5. CASE FeedRaises
    BY <1>1, <1>5, BadTurnsStand DEF FeedRaises, Raises, Progress
  <1>6. CASE FeedShows
    <2>1. PICK s \in Turns : ~SealDue(s) /\ stream' = s
      BY <1>6 DEF FeedShows
    <2>2. /\ Stands(s) /\ Grows(stream, s)
          /\ s.samples_in_window = stream.samples_in_window + Take
      BY <1>1, TurnsStand
    <2>3. Take > 0
      BY <1>3, <2>1, <2>2 DEF SealDue
    <2>4. left' = left - Take
      BY <1>6 DEF FeedShows
    <2> QED BY <1>1, <1>3, <2>1, <2>2, <2>3, <2>4 DEF Progress
  <1>7. CASE FeedSeals
    <2>1. PICK s \in Turns, final \in Decodes :
            /\ Extends(s, Join(s.base_text, final))
            /\ stream' = NewWindow(Published(s, final))
      BY <1>7 DEF FeedSeals
    <2>2. Stands(s) /\ Grows(stream, s)
      BY <1>1, TurnsStand
    <2>3. Stands(Published(s, final)) /\ Grows(s, Published(s, final))
      BY <2>1, <2>2, DecodesAreTexts, PublishedStands
    <2>4. /\ Stands(stream') /\ Grows(Published(s, final), stream')
          /\ stream'.samples_in_window = 0
      BY <2>1, <2>3, NewWindowStands
    <2>5. Grows(stream, Published(s, final))
      BY <1>4, <2>2, <2>3, GrowsTransitive
    <2>6. Grows(stream, stream')
      BY <1>4, <2>3, <2>4, <2>5, GrowsTransitive
    <2>7. left' = left - Take
      BY <1>7 DEF FeedSeals
    <2> QED BY <1>1, <1>3, <2>4, <2>6, <2>7 DEF Progress
  <1>8. CASE FeedSealRaises
    <2>1. PICK s \in Turns, final \in Decodes : SealRaises(s, final)
      BY <1>8 DEF FeedSealRaises
    <2>2. Stands(s) /\ Grows(stream, s)
      BY <1>1, TurnsStand
    <2>3. left' = 0
      BY <1>8 DEF FeedSealRaises, Raises
    <2>4. CASE stream' = s
      BY <1>1, <2>2, <2>3, <2>4 DEF Progress
    <2>5. CASE Extends(s, Join(s.base_text, final)) /\ stream' = Published(s, final)
      <3>1. Stands(stream') /\ Grows(s, stream')
        BY <2>2, <2>5, DecodesAreTexts, PublishedStands
      <3>2. Grows(stream, stream')
        BY <1>4, <2>2, <3>1, GrowsTransitive
      <3> QED BY <1>1, <2>3, <3>1, <3>2 DEF Progress
    <2> QED BY <2>1, <2>4, <2>5 DEF SealRaises
  <1> QED BY <1>5, <1>6, <1>7, <1>8 DEF FeedTurn

\* Finishing publishes the last window's text.
LEMMA FinishStep ==
  ASSUME IInv, Finish \/ FinishRaises
  PROVE  IInv' /\ Moves /\ Progress /\ ~stream.finished
PROOF
  <1>1. left = 0 /\ left' = 0 /\ ~stream.finished /\ Stands(stream)
    BY DEF IInv, Finish, FinishRaises
  <1>2. left' \in 0 .. MaxFeed
    BY <1>1 DEF IInv
  <1>3. CASE Finish
    <2>1. PICK final \in Decodes :
            /\ Extends(stream, Join(stream.base_text, final))
            /\ stream' = [Published(stream, final) EXCEPT !.finished = TRUE]
      BY <1>3 DEF Finish
    <2> DEFINE p == Published(stream, final)
    <2>2. Stands(p) /\ Grows(stream, p)
      BY <1>1, <2>1, DecodesAreTexts, PublishedStands
    <2> HIDE DEF p
    <2>3. stream' = [p EXCEPT !.finished = TRUE]
      BY <2>1 DEF p
    <2>4. /\ stream' \in Streams /\ stream'.base_text = p.base_text
          /\ stream'.committed_text = p.committed_text
          /\ stream'.display_text = p.display_text
          /\ stream'.samples_in_window = p.samples_in_window
          /\ stream'.quiet_samples = p.quiet_samples
      BY <2>2, <2>3 DEF Stands, Streams
    <2>5. Stands(stream')
      BY <2>2, <2>4 DEF Stands, TooLong
    <2>6. Moves
      BY <2>2, <2>4 DEF Grows, Moves
    <2> QED BY <1>1, <1>2, <2>5, <2>6 DEF IInv, Stands, Progress
  <1>4. CASE FinishRaises
    <2>1. PICK final \in Decodes : SealRaises(stream, final)
      BY <1>4 DEF FinishRaises
    <2>2. CASE stream' = stream
      <3>1. stream.committed_text \in Texts
        BY <1>1 DEF Stands, Streams
      <3> QED BY <1>1, <1>2, <2>2, <3>1, PrefixBounds
              DEF IInv, Stands, Moves, Progress, Texts
    <2>3. CASE /\ Extends(stream, Join(stream.base_text, final))
               /\ stream' = Published(stream, final)
      <3>1. Stands(stream') /\ Grows(stream, stream')
        BY <1>1, <2>3, DecodesAreTexts, PublishedStands
      <3> QED BY <1>1, <1>2, <3>1 DEF IInv, Stands, Grows, Moves, Progress
    <2> QED BY <2>1, <2>2, <2>3 DEF SealRaises
  <1> QED BY <1>3, <1>4

\* Every step, by the action that takes it.
LEMMA Step ==
  ASSUME IInv, Next
  PROVE  IInv' /\ Moves /\ Progress /\ ~stream.finished
PROOF
  <1>1. CASE Feed
    <2>1. PICK n \in 1 .. MaxFeed : left' = n
      BY <1>1 DEF Feed
    <2>2. stream' = stream /\ ~stream.finished /\ left = 0 /\ left' \in 0 .. MaxFeed
      BY <1>1, <2>1, StreamAssumption DEF Feed
    <2>3. stream.committed_text \in Texts
      BY DEF IInv, Stands, Streams
    <2> QED BY <2>2, <2>3, PrefixBounds DEF IInv, Stands, Moves, Progress, Texts
  <1> QED BY <1>1, TurnStep, FinishStep DEF Next

LEMMA Inductive == IInv /\ [Next]_vars => IInv'
PROOF
  <1>1. ASSUME IInv, UNCHANGED vars PROVE IInv'
    BY <1>1 DEF IInv, Stands, TooLong, vars
  <1> QED BY <1>1, Step

-----------------------------------------------------------------------------
(***************************************************************************)
(* The theorems.                                                           *)
(***************************************************************************)

\* The strengthening IInv holds in every state: types, and the order of the sealed,
\* the committed and the shown text.
THEOREM Invariance == Spec => []IInv
PROOF
  <1> QED BY InitStands, Inductive, PTL DEF Spec

\* The counts stay within the window and the texts stay texts.
THEOREM TypeCorrect == Spec => []TypeOK
PROOF
  <1>1. IInv => TypeOK BY DEF IInv, Stands, TypeOK
  <1> QED BY <1>1, Invariance, PTL

\* What is shown extends what is committed, which extends the sealed windows.
THEOREM ShownIsCommitted == Spec => []ShownExtendsCommitted
PROOF
  <1>1. IInv => ShownExtendsCommitted BY DEF IInv, Stands, ShownExtendsCommitted
  <1> QED BY <1>1, Invariance, PTL

\* Every turn of feed_stream's loop makes progress, so every call ends.
THEOREM TurnsProgress == Spec => EveryTurnProgresses
PROOF
  <1>1. IInv /\ [Next]_vars => [Progress]_vars
    BY Step
  <1> QED BY <1>1, Invariance, PTL DEF Spec, EveryTurnProgresses, Progress

\* The stream implements the append-only text.
THEOREM StreamImplementsAppendOnlyText == Spec => ImplementsAppendOnlyText
PROOF
  <1>1. Init => Committed!Init
    BY DEF Init, NewStream, Committed!Init
  <1>2. ASSUME IInv, [Next]_vars
        PROVE  [Committed!Next]_<<stream.committed_text, stream.finished>>
    <2>1. CASE Next
      <3>1. IInv' /\ Moves /\ ~stream.finished
        BY <1>2, <2>1, Step
      <3>2. stream'.committed_text \in Seq(Symbols) /\ stream'.finished \in BOOLEAN
        BY <3>1 DEF IInv, Stands, Streams, Texts
      <3> QED BY <3>1, <3>2
              DEF Committed!Next, Committed!Extend, Committed!IsPrefix, IsPrefix, Moves
    <2>2. CASE UNCHANGED vars
      BY <2>2 DEF vars
    <2> QED BY <1>2, <2>1, <2>2
  <1> QED BY <1>1, <1>2, Invariance, PTL
      DEF Spec, ImplementsAppendOnlyText, Committed!Spec

=============================================================================
