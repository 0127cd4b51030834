------------------------ MODULE NativeDictation_proofs ------------------------
(***************************************************************************)
(* Proofs about NativeDictation, for any sockets, stop ids, journals and   *)
(* length of the recording: an answer covers what its own stop asked for,  *)
(* or claims nothing, and a final that claims chunks was decoded from all  *)
(* of them that its own socket brought.                                    *)
(***************************************************************************)
EXTENDS NativeDictation, SequenceTheorems, WellFoundedInduction, TLAPS

-----------------------------------------------------------------------------
(***************************************************************************)
(* received_frontier: the first chunk that is missing.                     *)
(***************************************************************************)

\* Some chunk number is the first that the journal has not accepted.
LEMMA SomethingIsMissing ==
  ASSUME NEW j
  PROVE  \E n \in 0 .. MaxChunks : 0 .. n - 1 \subseteq Accepted(j) /\ n \notin Accepted(j)
<1> DEFINE Missing == {n \in 0 .. MaxChunks : n \notin Accepted(j)}
<1>1. Missing \subseteq Nat /\ Missing # {}
  <2>1. MaxChunks \in Missing  BY NativeAssumption DEF Accepted, Chunks
  <2> QED  BY <2>1, NativeAssumption
<1>2. PICK n \in Missing : \A m \in Missing : ~(<<m, n>> \in OpToRel(<, Nat))
  <2> HIDE DEF Missing
  <2> QED  BY <1>1, WFMin, NatLessThanWellFounded
<1>3. \A m \in Missing : ~(m < n)
  <2>1. TAKE m \in Missing
  <2>2. m \in Nat /\ n \in Nat  BY <1>1
  <2>3. m < n => <<m, n>> \in OpToRel(<, Nat)  BY <2>2 DEF OpToRel
  <2> QED  BY <1>2, <2>3
<1>4. \A m \in 0 .. n - 1 : m \in Accepted(j)
  BY <1>3, NativeAssumption
<1> QED  BY <1>4

LEMMA FrontierIsFirstMissing ==
  ASSUME NEW j
  PROVE  /\ received_frontier(j) \in 0 .. MaxChunks
         /\ 0 .. received_frontier(j) - 1 \subseteq Accepted(j)
         /\ received_frontier(j) \notin Accepted(j)
BY SomethingIsMissing DEF received_frontier

\* The frontier has reached n when all chunks below n are there.
LEMMA FrontierReaches ==
  ASSUME NEW j, NEW n \in 0 .. MaxChunks
  PROVE  received_frontier(j) >= n <=> 0 .. n - 1 \subseteq Accepted(j)
<1> DEFINE f == received_frontier(j)
<1>1. f \in 0 .. MaxChunks /\ 0 .. f - 1 \subseteq Accepted(j) /\ f \notin Accepted(j)
  BY FrontierIsFirstMissing
<1> HIDE DEF f
<1>2. f >= n => 0 .. n - 1 \subseteq Accepted(j)
  BY <1>1, NativeAssumption
<1>3. f < n => f \in 0 .. n - 1
  BY <1>1, NativeAssumption
<1>4. f >= n \/ f < n
  BY <1>1, NativeAssumption
<1> QED  BY <1>1, <1>2, <1>3, <1>4 DEF f

\* Accepting more never takes the frontier back.
LEMMA FrontierGrows ==
  ASSUME NEW i, NEW j, Accepted(i) \subseteq Accepted(j)
  PROVE  \A n \in 0 .. MaxChunks :
           received_frontier(i) >= n => received_frontier(j) >= n
BY FrontierReaches

-----------------------------------------------------------------------------
(***************************************************************************)
(* The invariant.  Of the types only those that the answers depend on are  *)
(* in it; the fields they do not depend on may hold anything.  A handler   *)
(* that has seen all its audio arrive finds it there until it answers.     *)
(***************************************************************************)
Claim == 0 .. MaxChunks \union {None}

FinalShape(f) ==
  f \in [stop : {f.stop}, through : Claim, decoded : {f.decoded}, by : {f.by},
         fresh : BOOLEAN]

JournalShape(j) ==
  /\ j \in [chunks : [Chunks -> Conns \union {None}], stream : {j.stream},
            final : {j.final}]
  /\ j.final # None => FinalShape(j.final)

Journals ==
  /\ journals \in Seq({journals[i] : i \in DOMAIN journals})
  /\ Len(journals) <= MaxJournals
  /\ \A i \in DOMAIN journals : JournalShape(journals[i])
  /\ held \in DOMAIN journals \union {None}

ConnShape(k) ==
  k \in [phase : {"new", "receive", "ack", "feed", "coverage", "seal", "finish", "sealed",
                  "raw", "closed"},
         journal : 1 .. MaxJournals \union {None}, next : 0 .. MaxChunks,
         raw_audio : {k.raw_audio}, native_pending_feed : {k.native_pending_feed},
         feeding : {k.feeding}, own_stream : {k.own_stream},
         stop : Stops \union {None}, want : Claim,
         audio_complete : BOOLEAN, text : {k.text}, answer : Claim]

\* The handler has all the audio its stop asked for, if it says so.
HasItsAudio(c) ==
  LET k == conns[c]
  IN k.phase \in {"seal", "finish", "sealed", "raw"} /\ k.audio_complete /\ k.want # None
       => received_frontier(journals[k.journal]) >= k.want

IsEnough(c) ==
  conns[c].answer # None /\ conns[c].want # None => conns[c].answer >= conns[c].want

ConnInv(c) ==
  /\ ConnShape(conns[c])
  /\ conns[c].phase \notin {"new", "closed"} => conns[c].journal \in DOMAIN journals
  /\ conns[c].phase # "closed" => conns[c].answer = None
  /\ HasItsAudio(c)
  /\ IsEnough(c)

IInv == Journals /\ DOMAIN conns = Conns /\ \A c \in Conns : ConnInv(c)

\* A sequence is one over the set of its elements.
LEMMA OfItsElements ==
  ASSUME NEW S, NEW s \in Seq(S)
  PROVE  s \in Seq({s[k] : k \in DOMAIN s})
<1>1. DOMAIN s = 1 .. Len(s) /\ Len(s) \in Nat /\ s = [k \in 1 .. Len(s) |-> s[k]]
  OBVIOUS
<1> QED
  BY <1>1

LEMMA NoneIsNone == None \notin Conns /\ None \notin Stops /\ None \notin Nat
BY NativeAssumption

LEMMA InitInv == Init => IInv
<1> SUFFICES ASSUME Init PROVE IInv
  OBVIOUS
<1>1. Journals
  BY NativeAssumption DEF Init, Journals
<1>2. DOMAIN conns = Conns /\ \A c \in Conns : conns[c] = NewConn
  BY DEF Init
<1>3. ConnShape(NewConn)
  BY NativeAssumption DEF NewConn, ConnShape, Claim
<1>4. ASSUME NEW c \in Conns  PROVE ConnInv(c)
  <2>1. conns[c] = NewConn /\ ConnShape(conns[c])
    BY <1>2, <1>3
  <2>2. conns[c].phase = "new" /\ conns[c].answer = None
    BY <2>1 DEF NewConn
  <2> QED
    BY <2>1, <2>2 DEF ConnInv, HasItsAudio, IsEnough
<1> QED
  BY <1>1, <1>2, <1>4 DEF IInv

\* Journals that keep their shape and accept more.
Grows ==
  /\ Journals'
  /\ DOMAIN journals \subseteq DOMAIN journals'
  /\ \A i \in DOMAIN journals : Accepted(journals[i]) \subseteq Accepted(journals'[i])

\* A step of one handler, seen from the others.
LEMMA OneHandler ==
  ASSUME IInv, Grows, NEW c \in Conns, ConnInv(c)', DOMAIN conns' = Conns,
         \A d \in Conns \ {c} : conns'[d] = conns[d]
  PROVE  IInv'
<1>1. ASSUME NEW d \in Conns, d # c  PROVE ConnInv(d)'
  <2>1. conns'[d] = conns[d] /\ ConnInv(d)
    BY <1>1 DEF IInv
  <2>2. HasItsAudio(d)'
    <3>1. ASSUME conns[d].phase \in {"seal", "finish", "sealed", "raw"}, conns[d].audio_complete,
                 conns[d].want # None
          PROVE  received_frontier(journals'[conns[d].journal]) >= conns[d].want
      <4>1. conns[d].journal \in DOMAIN journals
        BY <2>1, <3>1 DEF ConnInv
      <4>2. conns[d].want \in 0 .. MaxChunks
        BY <2>1, <3>1 DEF ConnInv, ConnShape, Claim
      <4>3. received_frontier(journals[conns[d].journal]) >= conns[d].want
        BY <2>1, <3>1 DEF ConnInv, HasItsAudio
      <4> QED
        BY <4>1, <4>2, <4>3, FrontierGrows DEF Grows
    <3> QED  BY <2>1, <3>1 DEF HasItsAudio
  <2> QED
    BY <2>1, <2>2 DEF ConnInv, IsEnough, Grows
<1> QED
  BY <1>1 DEF IInv, Grows

\* The journals do not change, or one of them is replaced, or a new one comes.
LEMMA SameJournals ==
  ASSUME IInv, UNCHANGED journals, held' \in {held, None}
  PROVE  Grows
BY DEF IInv, Journals, Grows

LEMMA ReplacedJournal ==
  ASSUME IInv, NEW i \in DOMAIN journals, NEW j, JournalShape(j),
         Accepted(journals[i]) \subseteq Accepted(j),
         journals' = [journals EXCEPT ![i] = j], UNCHANGED held
  PROVE  Grows /\ journals'[i] = j
<1> DEFINE S == {journals[k] : k \in DOMAIN journals} \union {j}
<1>1. journals \in Seq(S)
  <2>1. journals \in Seq({journals[k] : k \in DOMAIN journals})
    BY DEF IInv, Journals
  <2> QED  BY <2>1
<1>2. journals' \in Seq(S) /\ Len(journals') = Len(journals)
  BY <1>1
<1>3. DOMAIN journals' = DOMAIN journals
  BY DEF IInv
<1>4. journals'[i] = j /\ \A k \in DOMAIN journals : k # i => journals'[k] = journals[k]
  OBVIOUS
<1> HIDE DEF S
<1>5. journals' \in Seq({journals'[k] : k \in DOMAIN journals'})
  <2>1. \A t \in Seq(S) : t \in Seq({t[k] : k \in DOMAIN t})
    BY OfItsElements
  <2> QED  BY <1>2, <2>1
<1> QED
  BY <1>2, <1>3, <1>4, <1>5 DEF IInv, Journals, Grows

LEMMA AnotherJournal ==
  ASSUME IInv, Len(journals) < MaxJournals, journals' = Append(journals, NewJournal),
         held' = Len(journals) + 1
  PROVE  Grows /\ held' \in DOMAIN journals' /\ held' \in 1 .. MaxJournals
<1> DEFINE S == {journals[k] : k \in DOMAIN journals} \union {NewJournal}
<1>1. journals \in Seq(S)
  <2>1. journals \in Seq({journals[k] : k \in DOMAIN journals})
    BY DEF IInv, Journals
  <2> QED  BY <2>1
<1>2. JournalShape(NewJournal)
  BY DEF JournalShape, NewJournal
<1>3. /\ journals' \in Seq(S) /\ Len(journals') = Len(journals) + 1
      /\ \A k \in 1 .. Len(journals) : journals'[k] = journals[k]
      /\ journals'[Len(journals) + 1] = NewJournal
  BY <1>1, AppendProperties
<1>4. DOMAIN journals = 1 .. Len(journals) /\ Len(journals) \in Nat
  BY <1>1
<1>5. DOMAIN journals' = 1 .. Len(journals) + 1
  BY <1>3, <1>4
<1>6. journals' \in Seq({journals'[k] : k \in DOMAIN journals'})
  BY <1>3, OfItsElements
<1>7. \A k \in DOMAIN journals' : JournalShape(journals'[k])
  BY <1>2, <1>3, <1>4, <1>5 DEF IInv, Journals
<1> HIDE DEF S
<1> QED
  BY <1>3, <1>4, <1>5, <1>6, <1>7, NativeAssumption DEF IInv, Journals, Grows

-----------------------------------------------------------------------------
(***************************************************************************)
(* Each action.                                                            *)
(***************************************************************************)

\* A handler that goes on.
LEMMA GoesOn ==
  ASSUME IInv, Grows, NEW c \in Conns, NEW k,
         conns' = [conns EXCEPT ![c] = k], ConnShape(k),
         k.journal \in DOMAIN journals', k.answer = None,
         k.phase \in {"seal", "finish", "sealed", "raw"} /\ k.audio_complete /\ k.want # None
           => received_frontier(journals'[k.journal]) >= k.want
  PROVE  IInv'
<1>1. conns'[c] = k /\ DOMAIN conns' = Conns /\ \A d \in Conns \ {c} : conns'[d] = conns[d]
  BY DEF IInv
<1>2. ConnInv(c)'
  BY <1>1 DEF ConnInv, HasItsAudio, IsEnough
<1> QED
  BY <1>1, <1>2, OneHandler

\* A handler that ends, its final claiming k.answer of the k.want chunks asked for.
LEMMA EndsWith ==
  ASSUME IInv, Grows, NEW c \in Conns, NEW a \in Claim, NEW w \in Claim,
         a # None /\ w # None => a >= w,
         Ends(c, w, a)
  PROVE  IInv'
<1> DEFINE k == Ended(w, a)
<1>1. conns'[c] = k /\ DOMAIN conns' = Conns /\ \A d \in Conns \ {c} : conns'[d] = conns[d]
  BY DEF IInv, Ends
<1>2. ConnShape(k) /\ k.phase = "closed" /\ k.answer = a
      /\ k.want = (IF a = None THEN None ELSE w)
  <2> DEFINE K == [phase : {"new", "closed"}, journal : {None}, next : {0},
                   raw_audio : {<<>>}, native_pending_feed : {<<>>}, feeding : {<<>>},
                   own_stream : {None}, stop : {None}, want : Claim,
                   audio_complete : BOOLEAN, text : {<<>>}, answer : Claim]
  <2>1. NewConn \in K
    BY DEF NewConn, Claim
  <2>2. (IF a = None THEN None ELSE w) \in Claim
    BY DEF Claim
  <2>3. k \in K /\ k.phase = "closed" /\ k.answer = a
        /\ k.want = (IF a = None THEN None ELSE w)
    BY <2>1, <2>2 DEF Ended
  <2> HIDE DEF k
  <2> QED  BY <2>3, NativeAssumption DEF ConnShape
<1> HIDE DEF k
<1>3. ConnInv(c)'
  BY <1>1, <1>2 DEF ConnInv, HasItsAudio, IsEnough
<1> QED
  BY <1>1, <1>3, OneHandler

LEMMA EndsWithout ==
  ASSUME IInv, Grows, NEW c \in Conns, Ends(c, None, None)
  PROVE  IInv'
BY EndsWith DEF Claim

\* What an action sees of its own handler.
LEMMA ItsConn ==
  ASSUME IInv, NEW c \in Conns
  PROVE  /\ ConnShape(conns[c])
         /\ conns[c].phase \notin {"new", "closed"} =>
              conns[c].journal \in DOMAIN journals /\ JournalShape(JournalOf(c))
         /\ conns[c].phase # "closed" => conns[c].answer = None
         /\ HasItsAudio(c)
         /\ DOMAIN conns = Conns
BY DEF IInv, ConnInv, Journals, JournalOf

LEMMA BeginInv ==
  ASSUME IInv, NEW c \in Conns, Begin(c)
  PROVE  IInv'
<1>1. Grows /\ held' \in DOMAIN journals' /\ held' \in 1 .. MaxJournals
  BY AnotherJournal DEF Begin
<1>2. PICK next \in 0 .. MaxChunks :
        conns' = [conns EXCEPT ![c].phase = "receive", ![c].journal = held', ![c].next = next]
  <2>1. (IF journals = <<>> THEN {0} ELSE Chunks) \subseteq 0 .. MaxChunks
    BY NativeAssumption DEF Chunks
  <2> QED  BY <2>1, Zenon DEF Begin
<1> DEFINE k == [conns[c] EXCEPT !.phase = "receive", !.journal = held', !.next = next]
<1>3. conns' = [conns EXCEPT ![c] = k]
  BY <1>2, ItsConn
<1>4. ConnShape(k) /\ k.phase = "receive" /\ k.journal = held' /\ k.answer = None
  BY <1>1, ItsConn, ZenonT(60) DEF ConnShape, Begin
<1> HIDE DEF k
<1> QED
  BY <1>1, <1>3, <1>4, GoesOn

LEMMA ResumeInv ==
  ASSUME IInv, NEW c \in Conns, Resume(c)
  PROVE  IInv'
<1> DEFINE k == [conns[c] EXCEPT !.phase = "receive", !.journal = held,
                   !.next = received_frontier(journals[held]),
                   !.raw_audio = RawAudio(journals[held])]
<1>1. held \in DOMAIN journals /\ held \in 1 .. MaxJournals
  BY NativeAssumption DEF Resume, IInv, Journals
<1>2. conns' = [conns EXCEPT ![c] = k]
  BY DEF Resume, IInv
<1>3. ConnShape(k) /\ k.phase = "receive" /\ k.journal = held /\ k.answer = None
  BY <1>1, ItsConn, FrontierIsFirstMissing, ZenonT(60) DEF ConnShape, Resume
<1>4. Grows
  BY SameJournals DEF Resume
<1> HIDE DEF k
<1> QED
  BY <1>1, <1>2, <1>3, <1>4, GoesOn DEF Resume

\* The journals' lengths are kept and no handler acts.
LEMMA ForgetInv ==
  ASSUME IInv, Forget
  PROVE  IInv'
BY DEF IInv, Forget, Journals, ConnInv, HasItsAudio, IsEnough

LEMMA ExpireInv ==
  ASSUME IInv, NEW i \in DOMAIN journals, Expire(i)
  PROVE  IInv'
<1> DEFINE j == [journals[i] EXCEPT !.final.fresh = FALSE]
<1>1. JournalShape(journals[i]) /\ journals[i].final # None
  BY DEF IInv, Journals, Expire
<1>2. JournalShape(j) /\ Accepted(j) = Accepted(journals[i])
  BY <1>1 DEF JournalShape, FinalShape, Accepted
<1>3. journals' = [journals EXCEPT ![i] = j]
  BY DEF Expire
<1> HIDE DEF j
<1>4. Grows
  BY <1>2, <1>3, ReplacedJournal DEF Expire
<1>5. CASE Conns = {}
  BY <1>4, <1>5 DEF IInv, Grows, Expire
<1>6. ASSUME NEW c \in Conns  PROVE IInv'
  <2>1. ConnInv(c)'
    <3>1. ConnInv(c) /\ conns' = conns
      BY DEF IInv, Expire
    <3> QED
      BY <3>1, <1>4, FrontierGrows DEF ConnInv, HasItsAudio, IsEnough, Grows, ConnShape, Claim
  <2> QED
    BY <2>1, <1>4, OneHandler DEF IInv, Expire
<1> QED
  BY <1>5, <1>6

\* The stream of a handler's journal may become any other.
LEMMA SetsStreamGrows ==
  ASSUME IInv, NEW c \in Conns, conns[c].phase \notin {"new", "closed"}, NEW s,
         SetsStream(c, s)
  PROVE  Grows
<1>1. CASE UNCHANGED <<journals, held>>
  BY <1>1, SameJournals
<1>2. CASE journals' = [journals EXCEPT ![conns[c].journal].stream = s] /\ UNCHANGED held
  <2> DEFINE i == conns[c].journal
             j == [journals[i] EXCEPT !.stream = s]
  <2>1. i \in DOMAIN journals /\ JournalShape(journals[i])
    BY ItsConn DEF JournalOf
  <2>2. JournalShape(j) /\ Accepted(j) = Accepted(journals[i])
    BY <2>1 DEF JournalShape, Accepted
  <2>3. journals' = [journals EXCEPT ![i] = j]
    BY <1>2
  <2> HIDE DEF i, j
  <2> QED
    BY <2>1, <2>2, <2>3, <1>2, ReplacedJournal
<1> QED
  BY <1>1, <1>2 DEF SetsStream

\* A chunk is added to a handler's journal.
LEMMA AcceptsGrows ==
  ASSUME IInv, NEW c \in Conns, conns[c].phase \notin {"new", "closed"},
         conns[c].next < MaxChunks, Accepts(c)
  PROVE  Grows
<1> DEFINE i == conns[c].journal
           n == conns[c].next
           j == [journals[i] EXCEPT !.chunks[n] = c]
<1>1. i \in DOMAIN journals /\ JournalShape(journals[i]) /\ n \in Chunks
  BY ItsConn, NativeAssumption DEF JournalOf, ConnShape, Chunks
<1>2. JournalShape(j) /\ Accepted(journals[i]) \subseteq Accepted(j)
  BY <1>1, NoneIsNone DEF JournalShape, Accepted
<1>3. journals' = [journals EXCEPT ![i] = j] /\ UNCHANGED held
  BY DEF Accepts
<1> HIDE DEF i, n, j
<1> QED
  BY <1>1, <1>2, <1>3, ReplacedJournal

LEMMA LostInv ==
  ASSUME IInv, NEW c \in Conns, Lost(c)
  PROVE  IInv'
<1>1. Grows
  BY SameJournals, SetsStreamGrows DEF Lost
<1> QED
  BY <1>1, EndsWithout DEF Lost

LEMMA AudioInv ==
  ASSUME IInv, NEW c \in Conns, Audio(c)
  PROVE  IInv'
<1> DEFINE n == conns[c].next
           k1 == [conns[c] EXCEPT !.next = @ + 1]
           k2 == [conns[c] EXCEPT !.phase = "ack", !.next = @ + 1, !.feeding = <<n>>]
<1>1. /\ conns[c].phase = "receive" /\ n \in 0 .. MaxChunks - 1 /\ n + 1 \in 0 .. MaxChunks
      /\ ConnShape(conns[c]) /\ conns[c].answer = None /\ DOMAIN conns = Conns
      /\ conns[c].journal \in DOMAIN journals
  BY ItsConn, NativeAssumption DEF Audio, ConnShape
<1>2. /\ ConnShape(k1) /\ k1.phase = "receive" /\ k1.answer = None
      /\ k1.journal = conns[c].journal
  BY <1>1 DEF ConnShape
<1>3. /\ ConnShape(k2) /\ k2.phase = "ack" /\ k2.answer = None
      /\ k2.journal = conns[c].journal
  BY <1>1 DEF ConnShape
<1>4. CASE /\ conns' = [conns EXCEPT ![c].next = @ + 1] /\ UNCHANGED <<journals, held>>
  <2>1. conns' = [conns EXCEPT ![c] = k1]
    BY <1>1, <1>4
  <2>2. Grows
    BY <1>4, SameJournals
  <2> HIDE DEF k1
  <2> QED
    BY <1>1, <1>2, <1>4, <2>1, <2>2, GoesOn
<1>5. CASE /\ Accepts(c)
           /\ conns' = [conns EXCEPT ![c].phase = "ack", ![c].next = @ + 1,
                                     ![c].feeding = <<n>>]
  <2>1. Grows
    BY <1>1, <1>5, AcceptsGrows, NativeAssumption
  <2>2. conns' = [conns EXCEPT ![c] = k2]
    BY <1>1, <1>5
  <2> HIDE DEF k2
  <2> QED
    BY <1>1, <1>3, <2>1, <2>2, GoesOn DEF Grows
<1> QED
  BY <1>4, <1>5 DEF Audio

LEMMA AckedInv ==
  ASSUME IInv, NEW c \in Conns, Acked(c)
  PROVE  IInv'
<1> DEFINE sealed == StreamOf(c).finished
           raw == conns[c].raw_audio \o conns[c].feeding
           k == [conns[c] EXCEPT !.phase = IF sealed THEN "receive" ELSE "feed",
                                 !.raw_audio = raw,
                                 !.feeding = IF sealed THEN <<>> ELSE @]
<1>1. /\ conns[c].phase = "ack" /\ ConnShape(conns[c])
      /\ conns[c].answer = None /\ DOMAIN conns = Conns
      /\ conns[c].journal \in DOMAIN journals
  BY ItsConn DEF Acked
<1>2. Grows
  BY SameJournals DEF Acked
<1>3. conns' = [conns EXCEPT ![c] = k] /\ UNCHANGED journals
  BY <1>1 DEF Acked
<1>4. /\ ConnShape(k) /\ k.phase \in {"receive", "feed"} /\ k.answer = None
      /\ k.journal = conns[c].journal
  <2> HIDE DEF sealed, raw
  <2> QED  BY <1>1, ZenonT(60) DEF ConnShape
<1> HIDE DEF k
<1> QED
  BY <1>1, <1>2, <1>3, <1>4, GoesOn

LEMMA FeedInv ==
  ASSUME IInv, NEW c \in Conns, Feed(c)
  PROVE  IInv'
<1> DEFINE fed == [StreamOf(c) EXCEPT !.heard = @ \o conns[c].feeding]
           k == [conns[c] EXCEPT !.phase = IF @ = "feed" THEN "receive" ELSE "finish",
                                 !.feeding = <<>>,
                                 !.own_stream = IF @ = None THEN @ ELSE fed]
<1>1. /\ conns[c].phase \in {"feed", "seal"} /\ ConnShape(conns[c])
      /\ conns[c].answer = None /\ DOMAIN conns = Conns /\ HasItsAudio(c)
      /\ conns[c].journal \in DOMAIN journals
  BY ItsConn DEF Feed
<1>2. CASE Ends(c, None, None) /\ UNCHANGED <<journals, held>>
  BY <1>2, SameJournals, EndsWithout
<1>3. CASE /\ SetsStream(c, fed)
           /\ conns' = [conns EXCEPT
                          ![c].phase = IF @ = "feed" THEN "receive" ELSE "finish",
                          ![c].feeding = <<>>,
                          ![c].own_stream = IF @ = None THEN @ ELSE fed]
  <2>1. Grows
    BY <1>1, <1>3, SetsStreamGrows
  <2>2. conns' = [conns EXCEPT ![c] = k]
    BY <1>1, <1>3
  <2>3. /\ ConnShape(k) /\ k.answer = None /\ k.journal = conns[c].journal
        /\ k.phase = IF conns[c].phase = "feed" THEN "receive" ELSE "finish"
        /\ k.want = conns[c].want /\ k.audio_complete = conns[c].audio_complete
    BY <1>1, ZenonT(60) DEF ConnShape
  <2> HIDE DEF k
  <2>4. ASSUME k.phase \in {"seal", "finish", "sealed", "raw"}, k.audio_complete, k.want # None
        PROVE  received_frontier(journals'[k.journal]) >= k.want
    <3>1. received_frontier(journals[conns[c].journal]) >= conns[c].want
      BY <1>1, <2>3, <2>4 DEF HasItsAudio
    <3>2. conns[c].want \in 0 .. MaxChunks
      BY <1>1, <2>3, <2>4 DEF ConnShape, Claim
    <3> QED
      BY <1>1, <2>1, <2>3, <3>1, <3>2, FrontierGrows DEF Grows
  <2> QED
    BY <1>1, <2>1, <2>2, <2>3, <2>4, GoesOn DEF Grows
<1> QED
  BY <1>2, <1>3 DEF Feed

LEMMA StopInv ==
  ASSUME IInv, NEW c \in Conns, NEW stop \in Stops, NEW want \in Claim,
         Stop(c, stop, want)
  PROVE  IInv'
<1> DEFINE j == JournalOf(c)
           k == [conns[c] EXCEPT !.phase = "coverage", !.stop = stop, !.want = want]
<1>1. /\ conns[c].phase = "receive" /\ ConnShape(conns[c]) /\ JournalShape(j)
      /\ conns[c].answer = None /\ DOMAIN conns = Conns
      /\ conns[c].journal \in DOMAIN journals
  BY ItsConn DEF Stop
<1>2. Grows
  BY SameJournals DEF Stop
<1>3. CASE /\ j.final # None /\ ~CachedShort(j.final, want)
           /\ Ends(c, want, IF j.final.fresh THEN j.final.through ELSE None)
  <2>1. j.final.through \in Claim
    BY <1>1, <1>3 DEF JournalShape, FinalShape
  <2>2. want # None /\ j.final.through # None => j.final.through >= want
    BY <1>3, <2>1, NativeAssumption DEF CachedShort, Claim
  <2>3. (IF j.final.fresh THEN j.final.through ELSE None) \in Claim
    BY <2>1 DEF Claim
  <2> QED
    BY <1>2, <1>3, <2>2, <2>3, EndsWith
<1>4. CASE Ends(c, None, None)
  BY <1>2, <1>4, EndsWithout
<1>5. CASE conns' = [conns EXCEPT ![c].phase = "coverage",
                                  ![c].stop = stop, ![c].want = want]
  <2>1. conns' = [conns EXCEPT ![c] = k]
    BY <1>1, <1>5
  <2>2. ConnShape(k) /\ k.answer = None /\ k.phase = "coverage"
        /\ k.journal = conns[c].journal
    BY <1>1 DEF ConnShape
  <2> HIDE DEF k
  <2> QED
    BY <1>1, <1>2, <2>1, <2>2, GoesOn DEF Grows
<1> QED
  BY <1>3, <1>4, <1>5 DEF Stop

LEMMA LateAudioInv ==
  ASSUME IInv, NEW c \in Conns, LateAudio(c)
  PROVE  IInv'
<1> DEFINE n == conns[c].next
           k1 == [conns[c] EXCEPT !.next = @ + 1]
           k2 == [conns[c] EXCEPT
                    !.next = @ + 1, !.raw_audio = Append(@, n),
                    !.native_pending_feed = Append(@, n)]
<1>1. /\ conns[c].phase = "coverage" /\ conns[c].want # None /\ n < conns[c].want
      /\ ConnShape(conns[c]) /\ conns[c].answer = None /\ DOMAIN conns = Conns
      /\ conns[c].journal \in DOMAIN journals
  BY ItsConn DEF LateAudio, Covered
<1>2. n \in 0 .. MaxChunks - 1 /\ n + 1 \in 0 .. MaxChunks
  BY <1>1, NativeAssumption DEF ConnShape, Claim
<1>3. /\ ConnShape(k1) /\ k1.phase = "coverage" /\ k1.answer = None
      /\ k1.journal = conns[c].journal
  BY <1>1, <1>2 DEF ConnShape
<1>4. /\ ConnShape(k2) /\ k2.phase = "coverage" /\ k2.answer = None
      /\ k2.journal = conns[c].journal
  BY <1>1, <1>2 DEF ConnShape
<1>5. CASE /\ conns' = [conns EXCEPT ![c].next = @ + 1] /\ UNCHANGED <<journals, held>>
  <2>1. conns' = [conns EXCEPT ![c] = k1]
    BY <1>1, <1>5
  <2>2. Grows
    BY <1>5, SameJournals
  <2> HIDE DEF k1
  <2> QED
    BY <1>1, <1>3, <1>5, <2>1, <2>2, GoesOn
<1>6. CASE /\ Accepts(c)
           /\ conns' = [conns EXCEPT
                          ![c].next = @ + 1, ![c].raw_audio = Append(@, n),
                          ![c].native_pending_feed = Append(@, n)]
  <2>1. Grows
    BY <1>1, <1>2, <1>6, AcceptsGrows, NativeAssumption
  <2>2. conns' = [conns EXCEPT ![c] = k2]
    BY <1>1, <1>6
  <2> HIDE DEF k2
  <2> QED
    BY <1>1, <1>4, <2>1, <2>2, GoesOn DEF Grows
<1> QED
  BY <1>5, <1>6 DEF LateAudio

LEMMA CoverageEndsInv ==
  ASSUME IInv, NEW c \in Conns, CoverageEnds(c)
  PROVE  IInv'
<1> DEFINE sealed == StreamOf(c).finished
           feeding == IF sealed THEN Redecoded(conns[c]) ELSE LateFrames(conns[c])
           k == [conns[c] EXCEPT
                   !.phase = IF feeding = <<>> THEN "finish" ELSE "seal",
                   !.audio_complete = Covered(c), !.feeding = feeding,
                   !.native_pending_feed = <<>>, !.next = 0,
                   !.own_stream = IF sealed THEN NewStream ELSE @]
<1>1. /\ ConnShape(conns[c]) /\ conns[c].answer = None /\ DOMAIN conns = Conns
      /\ conns[c].journal \in DOMAIN journals
  BY ItsConn DEF CoverageEnds
<1>2. Covered(c) \in BOOLEAN /\ 0 \in 0 .. MaxChunks
  BY NativeAssumption DEF Covered
<1>3. conns' = [conns EXCEPT ![c] = k] /\ UNCHANGED <<journals, held>>
  BY <1>1 DEF CoverageEnds
<1>4. /\ ConnShape(k) /\ k.answer = None /\ k.journal = conns[c].journal
      /\ k.audio_complete = Covered(c) /\ k.want = conns[c].want
  <2> HIDE DEF feeding
  <2> QED  BY <1>1, <1>2, ZenonT(60) DEF ConnShape
<1>5. Grows
  BY <1>3, SameJournals
<1> HIDE DEF k
<1>6. k.audio_complete /\ k.want # None => received_frontier(journals'[k.journal]) >= k.want
  BY <1>3, <1>4 DEF Covered, JournalOf
<1> QED
  BY <1>1, <1>3, <1>4, <1>5, <1>6, GoesOn

LEMMA AnswersInv ==
  ASSUME IInv, NEW c \in Conns, conns[c].phase \in {"sealed", "raw"},
         NEW decoded, Answers(c, decoded)
  PROVE  IInv'
<1> DEFINE i == conns[c].journal
           claim == RecognizedThrough(c, decoded)
           final == [stop |-> conns[c].stop, through |-> claim, decoded |-> decoded,
                     by |-> c, fresh |-> TRUE]
           j == [journals[i] EXCEPT !.final = final]
<1>1. /\ i \in DOMAIN journals /\ ConnShape(conns[c]) /\ HasItsAudio(c)
      /\ JournalShape(journals[i])
  BY ItsConn DEF JournalOf
<1>2. claim \in Claim
  BY FrontierIsFirstMissing DEF RecognizedThrough, Claim
<1>3. claim # None /\ conns[c].want # None => claim >= conns[c].want
  BY <1>1 DEF RecognizedThrough, HasItsAudio, JournalOf
<1>4. journals' = [journals EXCEPT ![i] = j] /\ Ends(c, conns[c].want, claim) /\ UNCHANGED held
  BY DEF Answers
<1>5. FinalShape(final)
  <2> HIDE DEF claim
  <2> QED  BY <1>2 DEF FinalShape, Claim
<1> HIDE DEF claim, final
<1>6. JournalShape(j) /\ Accepted(j) = Accepted(journals[i])
  BY <1>1, <1>5 DEF JournalShape, Accepted
<1> HIDE DEF i, j
<1>7. Grows
  BY <1>1, <1>4, <1>6, ReplacedJournal
<1> QED
  BY <1>1, <1>2, <1>3, <1>4, <1>7, EndsWith DEF ConnShape

\* A handler that has its audio still has it when it has gone on.
LEMMA KeepsItsAudio ==
  ASSUME IInv, Grows, NEW c \in Conns,
         conns[c].phase \in {"seal", "finish", "sealed", "raw"},
         NEW k, conns' = [conns EXCEPT ![c] = k], ConnShape(k), k.answer = None,
         k.journal = conns[c].journal, k.want = conns[c].want,
         k.audio_complete = conns[c].audio_complete
  PROVE  IInv'
<1>1. /\ ConnShape(conns[c]) /\ HasItsAudio(c) /\ conns[c].journal \in DOMAIN journals
  BY ItsConn
<1>2. ASSUME k.audio_complete, k.want # None
      PROVE  received_frontier(journals'[k.journal]) >= k.want
  <2>1. received_frontier(journals[conns[c].journal]) >= conns[c].want
    BY <1>1, <1>2 DEF HasItsAudio
  <2>2. conns[c].want \in 0 .. MaxChunks
    BY <1>1, <1>2 DEF ConnShape, Claim
  <2> QED
    BY <1>1, <2>1, <2>2, FrontierGrows DEF Grows
<1> QED
  BY <1>1, <1>2, GoesOn DEF Grows

LEMMA FinishInv ==
  ASSUME IInv, NEW c \in Conns, Finish(c)
  PROVE  IInv'
<1>1. /\ conns[c].phase = "finish" /\ ConnShape(conns[c]) /\ conns[c].answer = None
      /\ DOMAIN conns = Conns
  BY ItsConn DEF Finish
<1>2. Grows
  BY <1>1, SetsStreamGrows DEF Finish
<1>3. PICK text : conns' = [conns EXCEPT ![c].phase = "sealed", ![c].text = text,
                                         ![c].own_stream = None]
  BY DEF Finish
<1> DEFINE k == [conns[c] EXCEPT !.phase = "sealed", !.text = text, !.own_stream = None]
<1>4. conns' = [conns EXCEPT ![c] = k]
  BY <1>1, <1>3
<1>5. /\ ConnShape(k) /\ k.answer = None /\ k.journal = conns[c].journal
      /\ k.want = conns[c].want /\ k.audio_complete = conns[c].audio_complete
  BY <1>1, ZenonT(60) DEF ConnShape
<1> HIDE DEF k
<1> QED
  BY <1>1, <1>2, <1>4, <1>5, KeepsItsAudio

LEMMA SealedInv ==
  ASSUME IInv, NEW c \in Conns, Sealed(c)
  PROVE  IInv'
<1>1. /\ conns[c].phase = "sealed" /\ ConnShape(conns[c]) /\ conns[c].answer = None
      /\ DOMAIN conns = Conns
  BY ItsConn DEF Sealed
<1>2. CASE Answers(c, conns[c].text)
  BY <1>1, <1>2, AnswersInv
<1>3. CASE conns' = [conns EXCEPT ![c].phase = "raw"] /\ UNCHANGED <<journals, held>>
  <2> DEFINE k == [conns[c] EXCEPT !.phase = "raw"]
  <2>1. conns' = [conns EXCEPT ![c] = k]
    BY <1>1, <1>3
  <2>2. /\ ConnShape(k) /\ k.answer = None /\ k.journal = conns[c].journal
        /\ k.want = conns[c].want /\ k.audio_complete = conns[c].audio_complete
    BY <1>1, ZenonT(60) DEF ConnShape
  <2>3. Grows
    BY <1>3, SameJournals
  <2> HIDE DEF k
  <2> QED
    BY <1>1, <2>1, <2>2, <2>3, KeepsItsAudio
<1> QED
  BY <1>2, <1>3 DEF Sealed

LEMMA RawFallbackInv ==
  ASSUME IInv, NEW c \in Conns, RawFallback(c)
  PROVE  IInv'
BY AnswersInv DEF RawFallback

-----------------------------------------------------------------------------
\* The invariant holds in every state of every instance: the journals keep what
\* was accepted, and a stop that found its audio complete still has it when it
\* answers, whatever the other sockets did in between.
THEOREM Invariance == Spec => []IInv
<1>1. IInv /\ [Next]_vars => IInv'
  <2> SUFFICES ASSUME IInv, [Next]_vars  PROVE IInv'
    OBVIOUS
  <2>1. ASSUME NEW c \in Conns, Handler(c)  PROVE IInv'
    <3>1. CASE Begin(c)
      BY <3>1, BeginInv
    <3>2. CASE Resume(c)
      BY <3>2, ResumeInv
    <3>3. CASE Audio(c)
      BY <3>3, AudioInv
    <3>4. CASE Feed(c)
      BY <3>4, FeedInv
    <3>5. CASE Lost(c)
      BY <3>5, LostInv
    <3>6. CASE \E stop \in Stops, want \in 0 .. MaxChunks \union {None} :
                 Stop(c, stop, want)
      BY <3>6, StopInv DEF Claim
    <3>7. CASE LateAudio(c)
      BY <3>7, LateAudioInv
    <3>8. CASE CoverageEnds(c)
      BY <3>8, CoverageEndsInv
    <3>9. CASE Finish(c)
      BY <3>9, FinishInv
    <3>10. CASE RawFallback(c)
      BY <3>10, RawFallbackInv
    <3>11. CASE Acked(c)
      BY <3>11, AckedInv
    <3>12. CASE Sealed(c)
      BY <3>12, SealedInv
    <3> QED
      BY <2>1, <3>1, <3>2, <3>3, <3>4, <3>5, <3>6, <3>7, <3>8, <3>9, <3>10,
         <3>11, <3>12 DEF Handler
  <2>2. CASE Forget
    BY <2>2, ForgetInv
  <2>3. ASSUME NEW i \in DOMAIN journals, Expire(i)  PROVE IInv'
    BY <2>3, ExpireInv
  <2>4. CASE UNCHANGED vars
    BY <2>4 DEF vars, IInv, Journals, ConnInv, HasItsAudio, IsEnough
  <2> QED
    BY <2>1, <2>2, <2>3, <2>4 DEF Next
<1> QED
  BY <1>1, InitInv, PTL DEF Spec

\* Every answer, fresh, cached, replayed or decoded again, covers the chunks its
\* own stop asked for or claims none (server.py's cached_short and
\* recognized_through together), for any number of sockets and stops.
THEOREM EveryAnswerIsEnough == Spec => []AnswersAreEnough
<1>1. IInv => AnswersAreEnough
  BY DEF IInv, ConnInv, IsEnough, AnswersAreEnough
<1> QED
  BY <1>1, Invariance, PTL

-----------------------------------------------------------------------------
(***************************************************************************)
(* What a decode was read from.  Reads says of a text's audio all that     *)
(* ClaimsReadTheirAudio says, of every chunk its socket brought.  The      *)
(* journal's stream has heard a socket's chunks, but for those that wait   *)
(* to be fed, as long as it is open; the socket's own recording has them   *)
(* all, and that is what a stop decodes that finds the stream sealed.      *)
(***************************************************************************)
Own(j, c) == {n \in Chunks : j.chunks[n] = c}

Reads(s, j, c) ==
  /\ IsInjective(s)
  /\ ToSet(s) \subseteq Accepted(j)
  /\ Own(j, c) \subseteq ToSet(s)
  /\ Ascends(s, Own(j, c))

\* The audio that is on its way from a handler to the stream.
Waiting(k) == IF k.phase = "coverage" THEN k.native_pending_feed ELSE k.feeding

\* With w after what it heard, a stream has each chunk of c in its place.
WillHear(c, j, heard, w) ==
  /\ IsInjective(w) /\ ToSet(w) \subseteq Own(j, c) /\ Ascends(w, Own(j, c))
  /\ Own(j, c) \subseteq ToSet(heard) \union ToSet(w)
  /\ Ascends(heard, Own(j, c))
  /\ \A m \in ToSet(heard) \intersect Own(j, c), n \in ToSet(w) : m < n

Live(k) == k.phase \notin {"new", "closed"}

\* The recording of a handler, with the frame that it is acknowledging.
Recording(k) == IF k.phase = "ack" THEN k.raw_audio \o k.feeding ELSE k.raw_audio

Listens(c, k, j) ==
  /\ Reads(Recording(k), j, c)
  /\ k.phase \in {"receive", "ack", "feed", "coverage"} => \A n \in Own(j, c) : n < k.next
  /\ k.phase \in {"receive", "coverage", "finish", "sealed", "raw"} => k.feeding = <<>>
  /\ k.phase # "coverage" => k.native_pending_feed = <<>>
  /\ k.phase \in {"receive", "ack", "feed", "coverage", "sealed", "raw"} => k.own_stream = None
  /\ k.phase \in {"coverage", "seal", "finish", "sealed", "raw"} => k.stop # None
  /\ k.phase = "sealed" /\ k.text # <<>> => Reads(k.text, j, c)
  /\ /\ k.own_stream = None /\ k.phase \notin {"sealed", "raw"}
     /\ ~j.stream.finished \/ k.phase = "finish"
     => WillHear(c, j, j.stream.heard, Waiting(k))
  /\ k.own_stream # None =>
       k.own_stream.heard \o k.feeding = k.raw_audio /\ ~k.own_stream.finished

FinalReads(j) ==
  j.final # None /\ j.final.through # None => Reads(j.final.decoded, j, j.final.by)

JournalReads(j) ==
  /\ IsInjective(j.stream.heard)
  /\ ToSet(j.stream.heard) \subseteq Accepted(j)
  /\ FinalReads(j)

\* A socket that is new has left nothing in a journal, one with a final is gone.
Leaves(c, k, j) ==
  /\ k.phase = "new" => Own(j, c) = {}
  /\ j.final # None /\ j.final.by = c => k.phase = "closed"

ReadInv ==
  /\ TypeOK
  /\ \A i \in DOMAIN journals : JournalReads(journals[i])
  /\ \A c \in Conns :
       /\ conns[c].phase = "new" => conns[c] = NewConn
       /\ Live(conns[c]) => Listens(c, conns[c], JournalOf(c))
       /\ \A i \in DOMAIN journals : Leaves(c, conns[c], journals[i])

\* Sequences that follow one another.
LEMMA Follow ==
  ASSUME NEW S, NEW s \in Seq(S), NEW t \in Seq(S)
  PROVE  /\ s \o t \in Seq(S)
         /\ ToSet(s \o t) = ToSet(s) \union ToSet(t)
         /\ \A O : /\ Ascends(s, O) /\ Ascends(t, O)
                   /\ \A m \in ToSet(s) \intersect O, n \in ToSet(t) \intersect O : m < n
                   => Ascends(s \o t, O)
         /\ /\ IsInjective(s) /\ IsInjective(t) /\ ToSet(s) \intersect ToSet(t) = {}
            => IsInjective(s \o t)
<1> DEFINE r == s \o t
<1>1. /\ r \in Seq(S) /\ Len(s) \in Nat /\ Len(t) \in Nat
      /\ DOMAIN r = 1 .. Len(s) + Len(t) /\ DOMAIN s = 1 .. Len(s) /\ DOMAIN t = 1 .. Len(t)
      /\ \A p \in 1 .. Len(s) : r[p] = s[p]
      /\ \A p \in 1 .. Len(t) : r[Len(s) + p] = t[p]
  OBVIOUS
<1> HIDE DEF r
\* A place of r is one of s, or one of t.
<1>2. ASSUME NEW p \in DOMAIN r
      PROVE  \/ p \in DOMAIN s /\ r[p] = s[p] /\ r[p] \in ToSet(s)
             \/ /\ p - Len(s) \in DOMAIN t /\ r[p] = t[p - Len(s)] /\ r[p] \in ToSet(t)
                /\ p > Len(s) /\ p \in Int
  <2>1. CASE p <= Len(s)
    <3>1. p \in DOMAIN s  BY <1>1, <2>1
    <3> QED  BY <3>1, <1>1 DEF ToSet
  <2>2. CASE p > Len(s)
    <3> DEFINE q == p - Len(s)
    <3>1. q \in 1 .. Len(t) /\ p = Len(s) + q /\ p \in Int  BY <1>1, <2>2
    <3> HIDE DEF q
    <3>2. r[p] = t[q] /\ q \in DOMAIN t  BY <3>1, <1>1
    <3> QED  BY <3>1, <3>2, <2>2 DEF ToSet, q
  <2>3. p \in Int  BY <1>1
  <2> QED  BY <2>1, <2>2, <2>3, <1>1
<1>3. ToSet(r) = ToSet(s) \union ToSet(t)
  <2>1. ToSet(r) \subseteq ToSet(s) \union ToSet(t)  BY <1>2, Zenon DEF ToSet
  <2>2. ASSUME NEW p \in DOMAIN s  PROVE s[p] \in ToSet(r)
    <3>1. p \in DOMAIN r /\ r[p] = s[p]  BY <1>1
    <3> QED  BY <3>1, Zenon DEF ToSet
  <2>3. ASSUME NEW p \in DOMAIN t  PROVE t[p] \in ToSet(r)
    <3>1. Len(s) + p \in DOMAIN r /\ r[Len(s) + p] = t[p]  BY <1>1
    <3> QED  BY <3>1, Zenon DEF ToSet
  <2> QED  BY <2>1, <2>2, <2>3, Zenon DEF ToSet
<1>4. ASSUME NEW O, Ascends(s, O), Ascends(t, O),
             \A m \in ToSet(s) \intersect O, n \in ToSet(t) \intersect O : m < n
      PROVE  Ascends(r, O)
  <2> SUFFICES ASSUME NEW p \in DOMAIN r, NEW q \in DOMAIN r, p < q, {r[p], r[q]} \subseteq O
               PROVE  r[p] < r[q]
    BY DEF Ascends
  <2>1. CASE q \in DOMAIN s /\ r[q] = s[q]
    <3>1. p \in DOMAIN s /\ r[p] = s[p]  BY <2>1, <1>1
    <3> QED  BY <3>1, <2>1, <1>4 DEF Ascends
  <2>2. CASE q - Len(s) \in DOMAIN t /\ r[q] = t[q - Len(s)] /\ r[q] \in ToSet(t) /\ q \in Int
    <3>1. CASE r[p] \in ToSet(s)  BY <3>1, <2>2, <1>4
    <3>2. CASE p - Len(s) \in DOMAIN t /\ r[p] = t[p - Len(s)] /\ p \in Int
      <4>1. p - Len(s) < q - Len(s)  BY <3>2, <2>2, <1>1
      <4> QED  BY <4>1, <3>2, <2>2, <1>4 DEF Ascends
    <3> QED  BY <3>1, <3>2, <1>2
  <2> QED  BY <2>1, <2>2, <1>2
<1>5. ASSUME IsInjective(s), IsInjective(t), ToSet(s) \intersect ToSet(t) = {}
      PROVE  IsInjective(r)
  <2> SUFFICES ASSUME NEW p \in DOMAIN r, NEW q \in DOMAIN r, r[p] = r[q]  PROVE p = q
    BY DEF IsInjective
  <2>1. CASE p \in DOMAIN s /\ r[p] = s[p] /\ r[p] \in ToSet(s)
    <3>1. q \in DOMAIN s /\ r[q] = s[q]  BY <2>1, <1>2, <1>5
    <3> QED  BY <3>1, <2>1, <1>5 DEF IsInjective
  <2>2. CASE p - Len(s) \in DOMAIN t /\ r[p] = t[p - Len(s)] /\ r[p] \in ToSet(t) /\ p \in Int
    <3>1. q - Len(s) \in DOMAIN t /\ r[q] = t[q - Len(s)] /\ q \in Int  BY <2>2, <1>2, <1>5
    <3>2. p - Len(s) = q - Len(s)  BY <3>1, <2>2, <1>5 DEF IsInjective
    <3> QED  BY <3>1, <3>2, <2>2, <1>1
  <2> QED  BY <2>1, <2>2, <1>2
<1> QED  BY <1>1, <1>3, <1>4, <1>5 DEF r

\* One more chunk, after all of its socket's.
LEMMA Appended ==
  ASSUME NEW s \in Seq(Chunks), NEW n \in Chunks, IsInjective(s), n \notin ToSet(s), NEW O,
         Ascends(s, O), \A m \in O : m < n
  PROVE  /\ Append(s, n) \in Seq(Chunks) /\ IsInjective(Append(s, n))
         /\ ToSet(Append(s, n)) = ToSet(s) \union {n}
         /\ Ascends(Append(s, n), O \union {n})
<1> DEFINE t == <<n>>
<1>1. t \in Seq(Chunks) /\ Append(s, n) = s \o t /\ DOMAIN t = {1} /\ t[1] = n
  OBVIOUS
<1>2. IsInjective(t) /\ ToSet(t) = {n}  BY <1>1 DEF IsInjective, ToSet
<1>3. Ascends(t, O \union {n})  BY <1>1 DEF Ascends
<1>4. Ascends(s, O \union {n})
  <2>1. \A p \in DOMAIN s : s[p] # n  BY DEF ToSet
  <2> QED  BY <2>1, Zenon DEF Ascends
<1>5. \A m \in ToSet(s) \intersect (O \union {n}), q \in ToSet(t) \intersect (O \union {n}) : m < q
  BY <1>2
<1>6. ToSet(s) \intersect ToSet(t) = {}  BY <1>2
<1> HIDE DEF t
<1> QED  BY <1>1, <1>2, <1>3, <1>4, <1>5, <1>6, Follow

-----------------------------------------------------------------------------
(***************************************************************************)
(* raw_audio(): a loop over the chunk numbers.                             *)
(***************************************************************************)

\* A set that holds 0 and with every number its successor holds them all.
LEMMA NatSetInduction ==
  ASSUME NEW P, 0 \in P, \A n \in Nat : n \in P => n + 1 \in P
  PROVE  \A n \in Nat : n \in P
<1> DEFINE Others == {n \in Nat : n \notin P}
<1>1. SUFFICES ASSUME Others # {}  PROVE FALSE
  OBVIOUS
<1>2. PICK n \in Others : \A m \in Others : ~(<<m, n>> \in OpToRel(<, Nat))
  <2>1. Others \subseteq Nat  OBVIOUS
  <2> HIDE DEF Others
  <2> QED  BY <1>1, <2>1, WFMin, NatLessThanWellFounded
<1>3. n \in Nat /\ n # 0  OBVIOUS
<1>4. n - 1 \in Nat /\ n - 1 < n /\ (n - 1) + 1 = n  BY <1>3
<1>5. <<n - 1, n>> \in OpToRel(<, Nat)  BY <1>3, <1>4 DEF OpToRel
<1>6. n - 1 \in P  BY <1>2, <1>4, <1>5
<1>7. n \in P  BY <1>4, <1>6
<1> QED  BY <1>7

\* joined[n] is the recording of the chunks of A below n, for every n.
Joining(joined, A) ==
  joined = [n \in 0 .. MaxChunks |->
              IF n = 0 THEN <<>>
              ELSE IF n - 1 \in A THEN Append(joined[n - 1], n - 1)
              ELSE joined[n - 1]]

\* There is such a function: up to N turns, by induction on N.
LEMMA JoiningExists ==
  ASSUME NEW A \in SUBSET Chunks
  PROVE  \E joined : Joining(joined, A)
<1> DEFINE Turn(a, n) == IF n - 1 \in A THEN Append(a, n - 1) ELSE a
           Runs(N) == {run \in [0 .. N -> Seq(Chunks)] :
                         run[0] = <<>> /\ \A n \in 1 .. N : run[n] = Turn(run[n - 1], n)}
           P == {N \in Nat : Runs(N) # {}}
<1>1. 0 \in P
  <2>1. [n \in 0 .. 0 |-> <<>>] \in Runs(0)  OBVIOUS
  <2> QED  BY <2>1
<1>2. ASSUME NEW N \in Nat, N \in P  PROVE N + 1 \in P
  <2>1. PICK r : r \in Runs(N)  BY <1>2
  <2> DEFINE a == Turn(r[N], N + 1)
             q == [n \in 0 .. N + 1 |-> IF n = N + 1 THEN a ELSE r[n]]
  <2>2. r \in [0 .. N -> Seq(Chunks)] /\ r[0] = <<>> /\ r[N] \in Seq(Chunks)
        /\ \A n \in 1 .. N : r[n] = Turn(r[n - 1], n)
    BY <2>1
  <2>3. a \in Seq(Chunks)
    <3>1. N + 1 - 1 \in A => Append(r[N], N + 1 - 1) \in Seq(Chunks)
      BY <2>2, AppendProperties
    <3> QED  BY <2>2, <3>1
  <2> HIDE DEF Runs
  <2>4. q \in [0 .. N + 1 -> Seq(Chunks)]
    <3>1. ASSUME NEW n \in 0 .. N + 1  PROVE q[n] \in Seq(Chunks)
      <4>1. n = N + 1 \/ n \in 0 .. N  OBVIOUS
      <4> HIDE DEF a
      <4> QED  BY <4>1, <2>2, <2>3
    <3> HIDE DEF a
    <3> QED  BY <3>1
  <2>5. q[0] = <<>>  BY <2>2
  <2>6. ASSUME NEW n \in 1 .. N + 1  PROVE q[n] = Turn(q[n - 1], n)
    <3> HIDE DEF Turn
    <3>1. CASE n = N + 1
      <4>1. q[n - 1] = r[N] /\ q[n] = a  BY <3>1
      <4> QED  BY <4>1, <3>1
    <3>2. CASE n \in 1 .. N
      <4>1. n - 1 \in 0 .. N /\ n - 1 # N + 1 /\ n # N + 1 /\ n \in 0 .. N + 1 /\ n - 1 \in 0 .. N + 1
        BY <3>2
      <4>2. q[n] = r[n] /\ q[n - 1] = r[n - 1]  BY <4>1
      <4> QED  BY <4>2, <2>2, <3>2
    <3> QED  BY <3>1, <3>2
  <2> HIDE DEF q, Turn
  <2>7. q \in Runs(N + 1)  BY <2>4, <2>5, <2>6 DEF Runs
  <2> QED  BY <2>7
<1>3. MaxChunks \in P
  <2> HIDE DEF P
  <2> QED  BY <1>1, <1>2, NatSetInduction, NativeAssumption
<1>4. PICK run : run \in Runs(MaxChunks)  BY <1>3
<1>5. Joining(run, A)
  <2> HIDE DEF Turn
  <2>1. run \in [0 .. MaxChunks -> Seq(Chunks)] /\ run[0] = <<>>
        /\ \A n \in 1 .. MaxChunks : run[n] = Turn(run[n - 1], n)
    BY <1>4
  <2>2. \A n \in 0 .. MaxChunks : n = 0 \/ n \in 1 .. MaxChunks  BY NativeAssumption
  <2>3. run = [n \in 0 .. MaxChunks |-> IF n = 0 THEN <<>> ELSE Turn(run[n - 1], n)]
    BY <2>1, <2>2
  <2> QED  BY <2>3 DEF Joining, Turn
<1> QED  BY <1>5

\* A sequence that ascends in all its members does so in any of them.
LEMMA AscendsInAll ==
  ASSUME NEW s, Ascends(s, ToSet(s)), NEW O
  PROVE  Ascends(s, O)
BY Zenon DEF Ascends, ToSet

\* The recording has every accepted chunk, once and in order.
LEMMA RawAudioIs ==
  ASSUME NEW j
  PROVE  /\ RawAudio(j) \in Seq(Chunks) /\ IsInjective(RawAudio(j))
         /\ ToSet(RawAudio(j)) = Accepted(j)
         /\ \A O : Ascends(RawAudio(j), O)
<1> DEFINE A == Accepted(j)
           joined == CHOOSE f : Joining(f, A)
           Is(a, n) == /\ a \in Seq(Chunks) /\ IsInjective(a)
                       /\ ToSet(a) = {m \in A : m < n}
                       /\ Ascends(a, ToSet(a))
           P == {n \in Nat : n <= MaxChunks => Is(joined[n], n)}
<1>1. A \subseteq Chunks /\ A \subseteq Nat  BY NativeAssumption DEF Accepted, Chunks
<1> HIDE DEF A
<1>2. Joining(joined, A)  BY <1>1, JoiningExists
<1>3. RawAudio(j) = joined[MaxChunks]  BY Zenon DEF RawAudio, Joining, A
<1> HIDE DEF joined
<1>4. joined[0] = <<>>
  BY <1>2, NativeAssumption DEF Joining
<1>5. ASSUME NEW n \in Nat, n + 1 <= MaxChunks
      PROVE  joined[n + 1] = IF n \in A THEN Append(joined[n], n) ELSE joined[n]
  <2>1. n + 1 \in 0 .. MaxChunks /\ n + 1 # 0 /\ n + 1 - 1 = n  BY <1>5, NativeAssumption
  <2> DEFINE m == n + 1
  <2>2. joined[m] = IF m - 1 \in A THEN Append(joined[m - 1], m - 1) ELSE joined[m - 1]
    <3>1. m \in 0 .. MaxChunks /\ m # 0  BY <2>1
    <3> HIDE DEF m
    <3> QED  BY <1>2, <3>1 DEF Joining
  <2>3. m - 1 = n  OBVIOUS
  <2> HIDE DEF m
  <2>4. joined[m] = IF n \in A THEN Append(joined[n], n) ELSE joined[n]  BY <2>2, <2>3
  <2> QED  BY <2>4 DEF m
<1>6. 0 \in P
  <2>1. Is(<<>>, 0)
    <3>1. DOMAIN <<>> = {} /\ <<>> \in Seq(Chunks)  OBVIOUS
    <3>2. ToSet(<<>>) = {} /\ IsInjective(<<>>) /\ Ascends(<<>>, {})
      BY <3>1 DEF ToSet, IsInjective, Ascends
    <3>3. {m \in A : m < 0} = {}
      <4>1. \A m \in A : ~(m < 0)  BY <1>1
      <4> QED  BY <4>1
    <3> QED  BY <3>1, <3>2, <3>3
  <2> QED  BY <2>1, <1>4
<1>7. ASSUME NEW n \in Nat, n \in P  PROVE n + 1 \in P
  <2> SUFFICES ASSUME n + 1 <= MaxChunks  PROVE Is(joined[n + 1], n + 1)
    OBVIOUS
  <2> DEFINE a == joined[n]
  <2>1. Is(a, n)  BY <1>7, NativeAssumption
  <2> HIDE DEF a
  <2>2. CASE n \in A
    <3>1. n \in Chunks /\ n \notin ToSet(a) /\ \A m \in ToSet(a) : m < n
      BY <2>1, <2>2, <1>1
    <3>2. /\ Append(a, n) \in Seq(Chunks) /\ IsInjective(Append(a, n))
          /\ ToSet(Append(a, n)) = ToSet(a) \union {n}
          /\ Ascends(Append(a, n), ToSet(a) \union {n})
      BY <2>1, <3>1, Appended
    <3>3. {m \in A : m < n + 1} = {m \in A : m < n} \union {n}
      <4>1. \A m \in A : m < n + 1 <=> m < n \/ m = n  BY <1>1
      <4> QED  BY <4>1, <2>2
    <3>4. joined[n + 1] = Append(a, n)  BY <1>5, <2>2 DEF a
    <3> QED  BY <2>1, <3>2, <3>3, <3>4
  <2>3. CASE n \notin A
    <3>1. {m \in A : m < n + 1} = {m \in A : m < n}
      <4>1. \A m \in A : m < n + 1 <=> m < n  BY <1>1, <2>3
      <4> QED  BY <4>1
    <3>2. joined[n + 1] = a  BY <1>5, <2>3 DEF a
    <3> QED  BY <2>1, <3>1, <3>2
  <2> QED  BY <2>2, <2>3
<1>8. Is(joined[MaxChunks], MaxChunks)
  <2>1. \A n \in Nat : n \in P
    <3> HIDE DEF P
    <3> QED  BY <1>6, <1>7, NatSetInduction
  <2> QED  BY <2>1, NativeAssumption
<1>9. {m \in A : m < MaxChunks} = A
  <2>1. \A m \in A : m < MaxChunks  BY <1>1, NativeAssumption DEF Chunks
  <2> QED  BY <2>1
<1> QED  BY <1>3, <1>8, <1>9, AscendsInAll DEF A

-----------------------------------------------------------------------------
(***************************************************************************)
(* What a handler's step does to a journal, seen from the others: it adds  *)
(* chunks and audio of its own, may seal the stream and leave a final.     *)
(***************************************************************************)
Evolves(c, j, new) ==
  /\ \A n \in Chunks :
       new.chunks[n] = j.chunks[n] \/ (j.chunks[n] = None /\ new.chunks[n] = c)
  /\ j.stream.finished => new.stream.finished
  /\ \E w \in Seq(Chunks) :
       ToSet(w) \subseteq Own(j, c) /\ new.stream.heard = j.stream.heard \o w
  /\ new.final # None => new.final.by = c \/ (j.final # None /\ new.final.by = j.final.by)

\* Of the journal's fields these are all that Evolves speaks of.
LEMMA HearsNothing ==
  ASSUME NEW c, NEW j \in Journal, NEW new, new.chunks = j.chunks,
         j.stream.finished => new.stream.finished,
         new.stream.heard = j.stream.heard,
         new.final # None => new.final.by = c \/ (j.final # None /\ new.final.by = j.final.by)
  PROVE  Evolves(c, j, new)
<1>1. j.stream.heard \in Seq(Chunks)  BY DEF Journal, Stream
<1>2. <<>> \in Seq(Chunks) /\ j.stream.heard = j.stream.heard \o <<>>
  BY <1>1
<1>3. ToSet(<<>>) = {}  BY DEF ToSet
<1>4. \E w \in Seq(Chunks) :
        ToSet(w) \subseteq Own(j, c) /\ new.stream.heard = j.stream.heard \o w
  BY <1>2, <1>3, Zenon
<1> QED  BY <1>4, Zenon DEF Evolves

LEMMA OthersKeep ==
  ASSUME NEW c \in Conns, NEW d \in Conns, d # c, NEW j \in Journal, NEW new \in Journal,
         Evolves(c, j, new)
  PROVE  /\ Own(new, d) = Own(j, d) /\ Accepted(j) \subseteq Accepted(new)
         /\ ToSet(new.stream.heard) \intersect Own(j, d) = ToSet(j.stream.heard) \intersect Own(j, d)
         /\ Ascends(j.stream.heard, Own(j, d)) => Ascends(new.stream.heard, Own(j, d))
<1>1. Own(new, d) = Own(j, d)  BY NoneIsNone DEF Evolves, Own
<1>2. Accepted(j) \subseteq Accepted(new)  BY NoneIsNone DEF Evolves, Accepted
<1>3. PICK w \in Seq(Chunks) :
        ToSet(w) \subseteq Own(j, c) /\ new.stream.heard = j.stream.heard \o w
  BY DEF Evolves
<1>4. ToSet(w) \intersect Own(j, d) = {}  BY <1>3 DEF Own
<1>5. j.stream.heard \in Seq(Chunks)  BY DEF Journal, Stream
<1>6. ToSet(new.stream.heard) = ToSet(j.stream.heard) \union ToSet(w)  BY <1>3, <1>5, Follow
<1>7. ASSUME Ascends(j.stream.heard, Own(j, d))  PROVE Ascends(new.stream.heard, Own(j, d))
  <2>1. Ascends(w, Own(j, d))  BY <1>4 DEF Ascends, ToSet
  <2> QED  BY <1>3, <1>4, <1>5, <1>7, <2>1, Follow
<1> QED  BY <1>1, <1>2, <1>4, <1>6, <1>7

LEMMA OthersRead ==
  ASSUME NEW c \in Conns, NEW d \in Conns, d # c, NEW j \in Journal, NEW new \in Journal,
         Evolves(c, j, new), NEW s, Reads(s, j, d)
  PROVE  Reads(s, new, d)
BY OthersKeep DEF Reads

LEMMA OthersListen ==
  ASSUME NEW c \in Conns, NEW d \in Conns, d # c, NEW j \in Journal, NEW new \in Journal,
         Evolves(c, j, new), NEW k \in Conn, Listens(d, k, j)
  PROVE  Listens(d, k, new)
<1>1. Reads(Recording(k), new, d)  BY OthersRead DEF Listens
<1>2. Own(new, d) = Own(j, d)  BY OthersKeep
<1>3. ~new.stream.finished => ~j.stream.finished  BY DEF Evolves
<1>4. ASSUME WillHear(d, j, j.stream.heard, Waiting(k))
      PROVE  WillHear(d, new, new.stream.heard, Waiting(k))
  <2>1. /\ ToSet(new.stream.heard) \intersect Own(j, d) = ToSet(j.stream.heard) \intersect Own(j, d)
        /\ Ascends(new.stream.heard, Own(j, d))
    BY <1>4, OthersKeep DEF WillHear
  <2> HIDE DEF Waiting
  <2> QED  BY <1>2, <1>4, <2>1, Zenon DEF WillHear
<1>5. Reads(k.text, j, d) => Reads(k.text, new, d)  BY OthersRead
<1> QED  BY <1>1, <1>2, <1>3, <1>4, <1>5 DEF Listens

\* A final stays true of the audio it was decoded from, as its socket is gone.
LEMMA FinalStays ==
  ASSUME NEW c \in Conns, NEW j \in Journal, NEW new \in Journal, Evolves(c, j, new),
         FinalReads(j), j.final # None => j.final.by # c,
         new.final # None => /\ j.final # None /\ new.final.by = j.final.by
                             /\ new.final.through = j.final.through
                             /\ new.final.decoded = j.final.decoded
  PROVE  FinalReads(new)
<1> SUFFICES ASSUME new.final # None, new.final.through # None
             PROVE  Reads(new.final.decoded, new, new.final.by)
  BY DEF FinalReads
<1>1. j.final # None /\ j.final.by # c /\ Reads(j.final.decoded, j, j.final.by)
  BY DEF FinalReads
<1>2. j.final.by \in Conns  BY <1>1 DEF Journal, Final
<1> QED  BY <1>1, <1>2, OthersRead

-----------------------------------------------------------------------------
\* A step of the handler c on the journal i, which becomes j, itself k.
LEMMA StepReads ==
  ASSUME ReadInv, NEW c \in Conns, NEW i \in DOMAIN journals, NEW j \in Journal,
         journals' = [journals EXCEPT ![i] = j], held' = held,
         NEW k \in Conn, conns' = [conns EXCEPT ![c] = k],
         Evolves(c, journals[i], j), JournalReads(j),
         k.phase # "new", Live(k) => k.journal = i /\ Listens(c, k, j),
         conns[c].phase # "closed",
         j.final # None /\ j.final.by = c => k.phase = "closed"
  PROVE  ReadInv'
<1>1. /\ journals \in Seq(Journal) /\ Len(journals) <= MaxJournals
      /\ held \in DOMAIN journals \union {None} /\ conns \in [Conns -> Conn]
      /\ \A d \in Conns : Live(conns[d]) => conns[d].journal \in DOMAIN journals
  BY DEF ReadInv, TypeOK, Live
<1>2. /\ journals' \in Seq(Journal) /\ Len(journals') = Len(journals)
      /\ DOMAIN journals' = DOMAIN journals
      /\ journals'[i] = j /\ \A m \in DOMAIN journals : m # i => journals'[m] = journals[m]
  BY <1>1
<1>3. /\ conns' \in [Conns -> Conn] /\ conns'[c] = k
      /\ \A d \in Conns : d # c => conns'[d] = conns[d]
  BY <1>1
<1>4. journals[i] \in Journal /\ \A m \in DOMAIN journals : journals[m] \in Journal
  BY <1>1
<1>5. TypeOK'
  <2>1. \A d \in Conns : Live(conns'[d]) => conns'[d].journal \in DOMAIN journals'
    BY <1>1, <1>2, <1>3
  <2> QED  BY <1>1, <1>2, <1>3, <2>1 DEF TypeOK, Live
<1>6. \A m \in DOMAIN journals' : JournalReads(journals'[m])
  BY <1>2 DEF ReadInv
<1>7. ASSUME NEW d \in Conns, Live(conns'[d])
      PROVE  Listens(d, conns'[d], journals'[conns'[d].journal])
  <2>1. CASE d = c  BY <1>2, <1>3, <1>7, <2>1
  <2>2. CASE d # c
    <3> DEFINE m == conns[d].journal
    <3>1. conns'[d] = conns[d] /\ m \in DOMAIN journals /\ conns[d] \in Conn
      BY <1>1, <1>3, <1>7, <2>2
    <3>2. Listens(d, conns[d], journals[m])
      BY <1>7, <3>1 DEF ReadInv, JournalOf
    <3>3. CASE m = i  BY <1>2, <1>4, <2>2, <3>1, <3>2, <3>3, OthersListen
    <3>4. CASE m # i  BY <1>2, <3>1, <3>2, <3>4
    <3> QED  BY <3>3, <3>4
  <2> QED  BY <2>1, <2>2
<1>8. ASSUME NEW d \in Conns, NEW m \in DOMAIN journals'
      PROVE  Leaves(d, conns'[d], journals'[m])
  <2>1. Leaves(d, conns[d], journals[m])  BY <1>2, <1>8 DEF ReadInv
  <2>2. CASE d = c
    <3>1. CASE m = i  BY <1>2, <1>3, <2>2, <3>1 DEF Leaves
    <3>2. CASE m # i
      BY <1>2, <1>3, <2>1, <2>2, <3>2 DEF Leaves
    <3> QED  BY <3>1, <3>2
  <2>3. CASE d # c
    <3>1. conns'[d] = conns[d]  BY <1>3, <2>3
    <3>2. CASE m = i
      <4>1. Own(j, d) = Own(journals[i], d)  BY <1>4, <2>3, OthersKeep
      <4>2. j.final # None /\ j.final.by = d => journals[i].final # None /\ journals[i].final.by = d
        BY <2>3 DEF Evolves
      <4> QED  BY <1>2, <2>1, <3>1, <3>2, <4>1, <4>2 DEF Leaves
    <3>3. CASE m # i  BY <1>2, <2>1, <3>1, <3>3
    <3> QED  BY <3>2, <3>3
  <2> QED  BY <2>2, <2>3
<1>9. \A d \in Conns : conns'[d].phase = "new" => conns'[d] = NewConn
  BY <1>3 DEF ReadInv
<1> QED  BY <1>5, <1>6, <1>7, <1>8, <1>9 DEF ReadInv, JournalOf

-----------------------------------------------------------------------------
(***************************************************************************)
(* What the steps do to the journal of their handler.                      *)
(***************************************************************************)
LEMMA ItsJournal ==
  ASSUME ReadInv, NEW c \in Conns, Live(conns[c])
  PROVE  /\ conns[c].journal \in DOMAIN journals /\ JournalOf(c) = journals[conns[c].journal]
         /\ JournalOf(c) \in Journal /\ JournalReads(JournalOf(c))
         /\ conns \in [Conns -> Conn] /\ conns[c] \in Conn
         /\ Listens(c, conns[c], JournalOf(c))
         /\ JournalOf(c).final # None => JournalOf(c).final.by # c
<1>1. /\ journals \in Seq(Journal) /\ conns \in [Conns -> Conn]
      /\ conns[c].journal \in DOMAIN journals
  BY DEF ReadInv, TypeOK, Live
<1>2. JournalReads(journals[conns[c].journal]) /\ Leaves(c, conns[c], journals[conns[c].journal])
      /\ Listens(c, conns[c], journals[conns[c].journal])
  BY <1>1 DEF ReadInv, JournalOf
<1> QED  BY <1>1, <1>2 DEF JournalOf, Leaves, Live

\* The stream hears what waited for it.
Fed(j, w) == [j EXCEPT !.stream = [j.stream EXCEPT !.heard = @ \o w]]

LEMMA FeedsJournal ==
  ASSUME NEW c \in Conns, NEW j \in Journal, NEW k \in Conn, JournalReads(j), Listens(c, k, j),
         k.phase \in {"feed", "seal"}, k.own_stream = None, ~j.stream.finished,
         j.final # None => j.final.by # c,
         NEW new, new = Fed(j, k.feeding)
  PROVE  /\ new \in Journal /\ Evolves(c, j, new) /\ JournalReads(new)
         /\ WillHear(c, new, new.stream.heard, <<>>)
         /\ new.stream.finished = j.stream.finished /\ new.chunks = j.chunks
         /\ new.final = j.final
<1> DEFINE h == j.stream.heard
           w == k.feeding
<1>1. h \in Seq(Chunks) /\ w \in Seq(Chunks) /\ j.stream \in Stream
  BY DEF Journal, Stream, Conn
<1>2. h \o w \in Seq(Chunks)  BY <1>1
<1>3. /\ new.stream = [j.stream EXCEPT !.heard = h \o w]
      /\ new.chunks = j.chunks /\ new.final = j.final
  BY DEF Journal, Fed
<1>4. new.stream.heard = h \o w /\ new.stream.finished = j.stream.finished /\ new.stream \in Stream
  BY <1>1, <1>2, <1>3 DEF Stream
<1>5. new \in Journal  BY <1>3, <1>4 DEF Journal, Fed
<1>6. WillHear(c, j, h, w)  BY DEF Listens, Waiting
<1>7. Evolves(c, j, new)
  <2>1. \E v \in Seq(Chunks) : ToSet(v) \subseteq Own(j, c) /\ new.stream.heard = h \o v
    BY <1>1, <1>4, <1>6 DEF WillHear
  <2> QED  BY <1>3, <1>4, <2>1 DEF Evolves
<1>8. Own(new, c) = Own(j, c) /\ Accepted(new) = Accepted(j)  BY <1>3 DEF Own, Accepted
<1> HIDE DEF h, w
<1>9. ToSet(h) \intersect ToSet(w) = {}
  <2>1. \A m \in Own(j, c) : m \in Int  BY NativeAssumption DEF Own, Chunks
  <2> QED  BY <1>6, <2>1 DEF WillHear
<1>10. /\ ToSet(h \o w) = ToSet(h) \union ToSet(w) /\ IsInjective(h \o w)
       /\ Ascends(h \o w, Own(j, c))
  <2>1. IsInjective(h)  BY DEF JournalReads, h
  <2>2. \A m \in ToSet(h) \intersect Own(j, c), n \in ToSet(w) \intersect Own(j, c) : m < n
    BY <1>6 DEF WillHear
  <2>3. Ascends(h, Own(j, c)) /\ Ascends(w, Own(j, c)) /\ IsInjective(w)
    BY <1>6 DEF WillHear
  <2> QED  BY <1>1, <1>9, <2>1, <2>2, <2>3, Follow
<1>11. ToSet(h \o w) \subseteq Accepted(j)
  <2>1. Own(j, c) \subseteq Accepted(j)  BY NoneIsNone DEF Own, Accepted
  <2>2. ToSet(h) \subseteq Accepted(j)  BY DEF JournalReads, h
  <2> QED  BY <1>6, <1>10, <2>1, <2>2 DEF WillHear
<1>12. FinalReads(new)
  BY <1>3, <1>5, <1>7, FinalStays DEF JournalReads
<1>13. WillHear(c, new, new.stream.heard, <<>>)
  <2>1. ToSet(<<>>) = {} /\ IsInjective(<<>>) /\ Ascends(<<>>, Own(j, c))
    BY DEF ToSet, IsInjective, Ascends
  <2> QED  BY <1>4, <1>6, <1>8, <1>10, <2>1 DEF WillHear
<1> QED  BY <1>3, <1>4, <1>5, <1>7, <1>8, <1>10, <1>11, <1>12, <1>13 DEF JournalReads

\* A chunk comes, after all that its socket brought before.
LEMMA AcceptsJournal ==
  ASSUME NEW c \in Conns, NEW j \in Journal, NEW k \in Conn, JournalReads(j), Listens(c, k, j),
         k.phase \in {"receive", "coverage"}, k.next \in Chunks, k.next \notin Accepted(j), j.final # None => j.final.by # c,
         NEW new, new = [j EXCEPT !.chunks[k.next] = c]
  PROVE  /\ new \in Journal /\ Evolves(c, j, new) /\ JournalReads(new)
         /\ new.stream = j.stream /\ Own(new, c) = Own(j, c) \union {k.next}
         /\ new.final = j.final
         /\ Reads(Append(k.raw_audio, k.next), new, c)
         /\ Append(k.raw_audio, k.next) \in Seq(Chunks)
         /\ \A w \in Seq(Chunks) : WillHear(c, j, j.stream.heard, w) =>
              /\ WillHear(c, new, new.stream.heard, Append(w, k.next))
              /\ Append(w, k.next) \in Seq(Chunks)
<1> DEFINE n == k.next
<1>1. /\ new.chunks = [j.chunks EXCEPT ![n] = c] /\ new.stream = j.stream /\ new.final = j.final
      /\ j.chunks \in [Chunks -> Conns \union {None}] /\ new \in Journal
  BY DEF Journal
<1>2. j.chunks[n] = None /\ c # None  BY NoneIsNone DEF Accepted
<1>3. Own(new, c) = Own(j, c) \union {n} /\ Accepted(new) = Accepted(j) \union {n}
  BY <1>1, <1>2 DEF Own, Accepted
<1>4. Evolves(c, j, new)
  <2>1. \E w \in Seq(Chunks) : ToSet(w) \subseteq Own(j, c) /\ j.stream.heard = j.stream.heard \o w
    <3>1. j.stream.heard \in Seq(Chunks)  BY DEF Journal, Stream
    <3>2. <<>> \in Seq(Chunks) /\ j.stream.heard = j.stream.heard \o <<>>  BY <3>1
    <3>3. ToSet(<<>>) = {}  BY DEF ToSet
    <3> QED  BY <3>2, <3>3, Zenon
  <2>2. \A m \in Chunks : new.chunks[m] = j.chunks[m] \/ (j.chunks[m] = None /\ new.chunks[m] = c)
    BY <1>1, <1>2
  <2> QED  BY <1>1, <2>1, <2>2, Zenon DEF Evolves
<1>5. JournalReads(new)
  <2>1. FinalReads(j)  BY DEF JournalReads
  <2>2. FinalReads(new)  BY <1>1, <1>4, <2>1, FinalStays, ZenonT(60)
  <2> QED  BY <1>1, <1>3, <2>2 DEF JournalReads
<1>6. \A m \in Own(j, c) : m < n  BY DEF Listens
<1>7. Own(j, c) \subseteq Accepted(j) /\ n \in Chunks  BY NoneIsNone DEF Own, Accepted
<1> DEFINE raw == k.raw_audio
<1>8. raw \in Seq(Chunks) /\ Reads(raw, j, c)  BY DEF Conn, Listens, Recording
<1> HIDE DEF n, raw
<1>9. Reads(Append(raw, n), new, c) /\ Append(raw, n) \in Seq(Chunks)
  <2>1. n \notin ToSet(raw)  BY <1>8, <1>2, NoneIsNone DEF Reads, Accepted
  <2>2. /\ Append(raw, n) \in Seq(Chunks) /\ IsInjective(Append(raw, n))
        /\ ToSet(Append(raw, n)) = ToSet(raw) \union {n}
        /\ Ascends(Append(raw, n), Own(j, c) \union {n})
    BY <1>6, <1>7, <1>8, <2>1, Appended DEF Reads
  <2> QED  BY <1>3, <1>8, <2>2 DEF Reads
<1>10. ASSUME NEW w \in Seq(Chunks), WillHear(c, j, j.stream.heard, w)
       PROVE  /\ WillHear(c, new, new.stream.heard, Append(w, n))
              /\ Append(w, n) \in Seq(Chunks)
  <2> DEFINE h == j.stream.heard
  <2>1. n \notin Accepted(j) /\ n \notin Own(j, c)  BY <1>7 DEF n
  <2>2. ToSet(h) \subseteq Accepted(j)  BY DEF JournalReads
  <2> HIDE DEF h
  <2>3. n \notin ToSet(w) /\ n \notin ToSet(h)  BY <1>10, <2>1, <2>2 DEF WillHear
  <2>4. /\ Append(w, n) \in Seq(Chunks) /\ IsInjective(Append(w, n))
        /\ ToSet(Append(w, n)) = ToSet(w) \union {n}
        /\ Ascends(Append(w, n), Own(j, c) \union {n})
    BY <1>6, <1>7, <1>10, <2>3, Appended DEF WillHear
  <2>5. Ascends(h, Own(j, c) \union {n})
    <3>1. \A p \in DOMAIN h : h[p] # n  BY <2>3 DEF ToSet
    <3>2. Ascends(h, Own(j, c))  BY <1>10 DEF WillHear, h
    <3> QED  BY <3>1, <3>2, Zenon DEF Ascends
  <2>6. \A m \in ToSet(h) \intersect (Own(j, c) \union {n}), q \in ToSet(w) \union {n} : m < q
    <3>1. \A m \in ToSet(h) \intersect Own(j, c), q \in ToSet(w) : m < q
      BY <1>10 DEF WillHear, h
    <3> QED  BY <3>1, <1>6, <2>3
  <2>7. Own(j, c) \union {n} \subseteq ToSet(h) \union (ToSet(w) \union {n})
        /\ ToSet(w) \union {n} \subseteq Own(j, c) \union {n}
    BY <1>10 DEF WillHear, h
  <2>8. new.stream.heard = h  BY <1>1 DEF h
  <2> QED  BY <1>3, <2>4, <2>5, <2>6, <2>7, <2>8 DEF WillHear
<1> QED  BY <1>1, <1>3, <1>4, <1>5, <1>9, <1>10 DEF n, raw

\* A handler ends, and its journal is j then.
LEMMA EndsReads ==
  ASSUME ReadInv, NEW c \in Conns, Live(conns[c]), NEW j \in Journal,
         journals' = [journals EXCEPT ![conns[c].journal] = j], held' = held,
         Evolves(c, JournalOf(c), j), JournalReads(j),
         NEW w \in Claim, NEW a \in Claim, Ends(c, w, a)
  PROVE  ReadInv'
<1> DEFINE k == Ended(w, a)
<1>1. k.phase = "closed" /\ k \in Conn
  <2>1. NewConn \in Conn
    <3>1. <<>> \in Seq(Chunks) /\ 0 \in 0 .. MaxChunks  BY NativeAssumption
    <3> QED  BY <3>1 DEF NewConn, Conn
  <2>2. (IF a = None THEN None ELSE w) \in 0 .. MaxChunks \union {None}  BY DEF Claim
  <2>3. a \in 0 .. MaxChunks \union {None}  BY DEF Claim
  <2> HIDE DEF Claim
  <2> QED  BY <2>1, <2>2, <2>3, ZenonT(60) DEF Conn, Ended
<1>2. conns' = [conns EXCEPT ![c] = k]  BY DEF Ends
<1>3. conns[c].phase # "closed" /\ conns[c].journal \in DOMAIN journals
      /\ JournalOf(c) = journals[conns[c].journal]
  BY ItsJournal DEF Live
<1> HIDE DEF k
<1> QED  BY <1>1, <1>2, <1>3, StepReads DEF Live

\* It does so without an answer, its journal as it was.
LEMMA GivesUpReads ==
  ASSUME ReadInv, NEW c \in Conns, Live(conns[c]), UNCHANGED <<journals, held>>,
         NEW w \in Claim, NEW a \in Claim, Ends(c, w, a)
  PROVE  ReadInv'
<1>1. /\ conns[c].journal \in DOMAIN journals /\ JournalOf(c) = journals[conns[c].journal]
      /\ JournalOf(c) \in Journal /\ JournalReads(JournalOf(c))
  BY ItsJournal
<1>2. Evolves(c, JournalOf(c), JournalOf(c))  BY <1>1, HearsNothing
<1>3. journals' = [journals EXCEPT ![conns[c].journal] = JournalOf(c)]
  BY <1>1 DEF ReadInv, TypeOK
<1> QED  BY <1>1, <1>2, <1>3, EndsReads

-----------------------------------------------------------------------------
(***************************************************************************)
(* Each action.                                                            *)
(***************************************************************************)

\* A job hands its handler's audio to the journal's stream.
LEMMA FeedsStream ==
  ASSUME ReadInv, NEW c \in Conns, conns[c].phase \in {"feed", "seal"},
         conns[c].own_stream = None, ~StreamOf(c).finished,
         SetsStream(c, [StreamOf(c) EXCEPT !.heard = @ \o conns[c].feeding])
  PROVE  \E new \in Journal :
           /\ journals' = [journals EXCEPT ![conns[c].journal] = new] /\ held' = held
           /\ Evolves(c, JournalOf(c), new) /\ JournalReads(new)
           /\ new.chunks = JournalOf(c).chunks /\ new.final = JournalOf(c).final
           /\ WillHear(c, new, new.stream.heard, <<>>)
<1> DEFINE i == conns[c].journal
           j == JournalOf(c)
           k == conns[c]
           new == Fed(j, k.feeding)
<1>1. /\ i \in DOMAIN journals /\ j = journals[i] /\ j \in Journal /\ JournalReads(j)
      /\ k \in Conn /\ Listens(c, k, j) /\ (j.final # None => j.final.by # c)
  BY ItsJournal DEF Live
<1>2. StreamOf(c) = j.stream /\ ~j.stream.finished  BY DEF StreamOf
<1>3. journals' = [journals EXCEPT ![i].stream = [j.stream EXCEPT !.heard = @ \o k.feeding]]
      /\ held' = held
  BY <1>2 DEF SetsStream
<1>4. journals' = [journals EXCEPT ![i] = new]  BY <1>1, <1>3 DEF Fed
<1>5. /\ new \in Journal /\ Evolves(c, j, new) /\ JournalReads(new)
      /\ new.chunks = j.chunks /\ new.final = j.final
      /\ WillHear(c, new, new.stream.heard, <<>>)
  <2> HIDE DEF j, k
  <2> SUFFICES ASSUME NEW x, x = new
               PROVE  /\ x \in Journal /\ Evolves(c, j, x) /\ JournalReads(x)
                      /\ x.chunks = j.chunks /\ x.final = j.final
                      /\ WillHear(c, x, x.stream.heard, <<>>)
    OBVIOUS
  <2>1. k.phase \in {"feed", "seal"} /\ k.own_stream = None  BY DEF k
  <2> QED  BY <1>1, <1>2, <2>1, FeedsJournal
<1> HIDE DEF new
<1> QED  BY <1>3, <1>4, <1>5

LEMMA LostReads ==
  ASSUME ReadInv, NEW c \in Conns, Lost(c)
  PROVE  ReadInv'
<1>1. Live(conns[c]) /\ Ends(c, None, None) /\ None \in Claim  BY DEF Lost, Live, Claim
<1>2. CASE UNCHANGED <<journals, held>>  BY <1>1, <1>2, GivesUpReads
<1>3. CASE /\ conns[c].phase \in {"feed", "seal"} /\ ~StreamOf(c).finished
           /\ SetsStream(c, [StreamOf(c) EXCEPT !.heard = @ \o conns[c].feeding])
  <2>1. CASE conns[c].own_stream = None
    <3>1. PICK new \in Journal :
            /\ journals' = [journals EXCEPT ![conns[c].journal] = new] /\ held' = held
            /\ Evolves(c, JournalOf(c), new) /\ JournalReads(new)
      BY <1>3, <2>1, FeedsStream
    <3> QED  BY <1>1, <3>1, EndsReads
  <2>2. CASE conns[c].own_stream # None
    BY <1>1, <1>2, <1>3, <2>2 DEF SetsStream
  <2> QED  BY <2>1, <2>2
<1> QED  BY <1>2, <1>3 DEF Lost

\* A step that leaves the journals alone.
LEMMA GoesOnReads ==
  ASSUME ReadInv, NEW c \in Conns, Live(conns[c]), UNCHANGED <<journals, held>>,
         NEW k \in Conn, conns' = [conns EXCEPT ![c] = k], Live(k),
         k.journal = conns[c].journal, Listens(c, k, JournalOf(c))
  PROVE  ReadInv'
<1>1. /\ conns[c].journal \in DOMAIN journals /\ JournalOf(c) = journals[conns[c].journal]
      /\ JournalOf(c) \in Journal /\ JournalReads(JournalOf(c))
      /\ (JournalOf(c).final # None => JournalOf(c).final.by # c)
  BY ItsJournal
<1>2. Evolves(c, JournalOf(c), JournalOf(c))  BY <1>1, HearsNothing
<1>3. journals' = [journals EXCEPT ![conns[c].journal] = JournalOf(c)]
  BY <1>1 DEF ReadInv, TypeOK
<1> QED  BY <1>1, <1>2, <1>3, StepReads, ZenonT(60) DEF Live

LEMMA AudioReads ==
  ASSUME ReadInv, NEW c \in Conns, Audio(c)
  PROVE  ReadInv'
<1> DEFINE k == conns[c]
           n == k.next
           i == k.journal
           j == JournalOf(c)
           k1 == [k EXCEPT !.next = @ + 1]
           k2 == [k EXCEPT !.phase = "ack", !.next = n + 1, !.feeding = <<n>>]
           new == [j EXCEPT !.chunks[n] = c]
<1>1. k.phase = "receive" /\ Live(k)  BY DEF Audio, Live
<1>2. /\ i \in DOMAIN journals /\ j = journals[i] /\ j \in Journal /\ JournalReads(j)
      /\ k \in Conn /\ Listens(c, k, j) /\ (j.final # None => j.final.by # c)
      /\ conns \in [Conns -> Conn]
  BY <1>1, ItsJournal
<1>3. k.own_stream = None /\ k.feeding = <<>> /\ k.native_pending_feed = <<>>
  BY <1>1, <1>2 DEF Listens
<1>4. n \in 0 .. MaxChunks - 1 /\ n + 1 \in 0 .. MaxChunks /\ n \in Chunks
      /\ k.raw_audio \in Seq(Chunks)
  BY <1>2, NativeAssumption DEF Audio, Conn, Chunks
<1>5. CASE conns' = [conns EXCEPT ![c].next = @ + 1] /\ UNCHANGED <<journals, held>>
  <2>1. conns' = [conns EXCEPT ![c] = k1]  BY <1>2, <1>5
  <2>2. k1 \in Conn /\ k1.phase = "receive" /\ k1.journal = i  BY <1>1, <1>2, <1>4 DEF Conn
  <2>3. Listens(c, k1, j)
    <3>1. /\ k1.raw_audio = k.raw_audio /\ k1.phase = k.phase /\ k1.feeding = k.feeding
          /\ k1.native_pending_feed = k.native_pending_feed /\ k1.own_stream = k.own_stream
          /\ k1.stop = k.stop /\ k1.next = n + 1
      BY <1>2 DEF Conn
    <3>2. \A m \in Own(j, c) : m < n + 1
      <4>1. \A m \in Own(j, c) : m < n /\ m \in Int
        BY <1>1, <1>2, NativeAssumption DEF Listens, Own, Chunks
      <4> QED  BY <4>1, <1>4
    <3> HIDE DEF k1, j, k, n
    <3> QED  BY <1>1, <1>2, <1>3, <3>1, <3>2 DEF Listens, Waiting, Recording
  <2> HIDE DEF k1
  <2> QED  BY <1>1, <1>5, <2>1, <2>2, <2>3, GoesOnReads DEF Live
<1>6. ASSUME ~Duplicate(c), Accepts(c),
             conns' = [conns EXCEPT ![c].phase = "ack", ![c].next = @ + 1,
                                    ![c].feeding = <<n>>]
      PROVE  ReadInv'
  <2>1. journals' = [journals EXCEPT ![i] = new] /\ held' = held
    BY <1>2, <1>6 DEF Accepts
  <2>2. n \notin Accepted(j)  BY <1>6 DEF Duplicate
  <2>3. PICK x : x = new  OBVIOUS
  <2>4. /\ x \in Journal /\ Evolves(c, j, x) /\ JournalReads(x) /\ x.final = j.final
        /\ x.stream = j.stream /\ Own(x, c) = Own(j, c) \union {n}
        /\ Reads(Append(k.raw_audio, n), x, c)
        /\ \A w \in Seq(Chunks) : WillHear(c, j, j.stream.heard, w) =>
             WillHear(c, x, x.stream.heard, Append(w, n))
    <3> HIDE DEF j, k
    <3> QED  BY <1>1, <1>2, <1>4, <2>2, <2>3, AcceptsJournal
  <2>5. journals' = [journals EXCEPT ![i] = x]  BY <2>1, <2>3
  <2>6. conns' = [conns EXCEPT ![c] = k2]  BY <1>2, <1>6
  <2>7. /\ k2.raw_audio = k.raw_audio /\ k2.next = n + 1
        /\ k2.phase = "ack" /\ k2.feeding = <<n>> /\ k2.journal = i
        /\ k2.native_pending_feed = <<>> /\ k2.own_stream = None
    BY <1>1, <1>2, <1>3 DEF Conn
  <2>8. k2 \in Conn
    <3>1. <<n>> \in Seq(Chunks)  BY <1>4
    <3> HIDE DEF k, n
    <3> QED  BY <1>2, <1>4, <3>1, ZenonT(60) DEF Conn
  <2> HIDE DEF k2, new, j, k, i
  <2>9. Reads(Recording(k2), x, c)
    <3>1. k.raw_audio \o <<n>> = Append(k.raw_audio, n)  BY <1>4
    <3> QED  BY <2>4, <2>7, <3>1 DEF Recording
  <2>10. \A m \in Own(x, c) : m < n + 1
    <3>1. \A m \in Own(j, c) : m < n /\ m \in Int
      BY <1>1, <1>2, NativeAssumption DEF Listens, Own, Chunks
    <3> QED  BY <3>1, <1>4, <2>4
  <2>11. ~j.stream.finished => WillHear(c, x, x.stream.heard, <<n>>)
    <3> SUFFICES ASSUME ~j.stream.finished  PROVE WillHear(c, x, x.stream.heard, <<n>>)
      OBVIOUS
    <3>1. WillHear(c, j, j.stream.heard, <<>>)  BY <1>1, <1>2, <1>3 DEF Listens, Waiting
    <3>2. <<>> \in Seq(Chunks) /\ Append(<<>>, n) = <<n>>  OBVIOUS
    <3> QED  BY <2>4, <3>1, <3>2
  <2>12. Listens(c, k2, x)
    BY <2>4, <2>7, <2>9, <2>10, <2>11 DEF Listens, Waiting
  <2> QED
    BY <1>1, <1>2, <2>1, <2>4, <2>5, <2>6, <2>7, <2>8, <2>12, StepReads DEF Live, k, i
<1> QED  BY <1>5, <1>6 DEF Audio

LEMMA AckedReads ==
  ASSUME ReadInv, NEW c \in Conns, Acked(c)
  PROVE  ReadInv'
<1> DEFINE k == conns[c]
           i == k.journal
           j == JournalOf(c)
           raw == k.raw_audio \o k.feeding
           p == IF j.stream.finished THEN "receive" ELSE "feed"
           f == IF j.stream.finished THEN <<>> ELSE k.feeding
           k2 == [k EXCEPT !.phase = p, !.raw_audio = raw, !.feeding = f]
<1>1. k.phase = "ack" /\ Live(k) /\ UNCHANGED <<journals, held>>  BY DEF Acked, Live
<1>2. /\ i \in DOMAIN journals /\ j \in Journal /\ k \in Conn /\ Listens(c, k, j)
      /\ conns \in [Conns -> Conn]
  BY <1>1, ItsJournal
<1>3. k.own_stream = None /\ k.native_pending_feed = <<>> /\ StreamOf(c) = j.stream
  BY <1>1, <1>2 DEF Listens, StreamOf
<1>4. conns' = [conns EXCEPT ![c] = k2]  BY <1>2, <1>3 DEF Acked
<1>5. raw \in Seq(Chunks) /\ f \in Seq(Chunks)
  <2>1. k.raw_audio \in Seq(Chunks) /\ k.feeding \in Seq(Chunks) /\ <<>> \in Seq(Chunks)
    BY <1>2 DEF Conn
  <2> QED  BY <2>1
<1>6. p \in {"receive", "feed"} /\ (p = "receive" => f = <<>>)
      /\ (~j.stream.finished => f = k.feeding)
  OBVIOUS
<1>7. Reads(raw, j, c)  BY <1>1, <1>2 DEF Listens, Recording
<1>8. ~j.stream.finished => WillHear(c, j, j.stream.heard, k.feeding)
  BY <1>1, <1>2, <1>3 DEF Listens, Waiting
<1>9. \A n \in Own(j, c) : n < k.next  BY <1>1, <1>2 DEF Listens
<1> HIDE DEF raw, p, f, j, k
<1>10. /\ k2 \in Conn /\ k2.phase = p /\ k2.feeding = f /\ k2.raw_audio = raw
       /\ k2.journal = i /\ k2.own_stream = None /\ k2.native_pending_feed = <<>>
       /\ k2.next = k.next
  BY <1>2, <1>3, <1>5, <1>6, ZenonT(60) DEF Conn
<1> HIDE DEF k2
<1>11. Listens(c, k2, j)
  BY <1>6, <1>7, <1>8, <1>9, <1>10 DEF Listens, Waiting, Recording
<1>12. Live(k2)  BY <1>6, <1>10 DEF Live
<1> QED  BY <1>1, <1>4, <1>10, <1>11, <1>12, GoesOnReads DEF j, k

LEMMA FeedReads ==
  ASSUME ReadInv, NEW c \in Conns, Feed(c)
  PROVE  ReadInv'
<1> DEFINE k == conns[c]
           i == k.journal
           j == JournalOf(c)
           s == StreamOf(c)
           fed == [s EXCEPT !.heard = @ \o k.feeding]
           p == IF k.phase = "feed" THEN "receive" ELSE "finish"
           o == IF k.own_stream = None THEN None ELSE fed
           k2 == [k EXCEPT !.phase = p, !.feeding = <<>>, !.own_stream = o]
<1>1. k.phase \in {"feed", "seal"} /\ Live(k)  BY DEF Feed, Live
<1>2. /\ i \in DOMAIN journals /\ j = journals[i] /\ j \in Journal /\ JournalReads(j)
      /\ k \in Conn /\ Listens(c, k, j) /\ (j.final # None => j.final.by # c)
      /\ conns \in [Conns -> Conn]
  BY <1>1, ItsJournal
<1>3. CASE Ends(c, None, None) /\ UNCHANGED <<journals, held>>
  BY <1>1, <1>3, GivesUpReads DEF Claim
<1>4. ASSUME ~s.finished, SetsStream(c, fed),
             conns' = [conns EXCEPT
                         ![c].phase = IF @ = "feed" THEN "receive" ELSE "finish",
                         ![c].feeding = <<>>,
                         ![c].own_stream = IF @ = None THEN @ ELSE fed]
      PROVE  ReadInv'
  <2>1. conns' = [conns EXCEPT ![c] = k2]  BY <1>2, <1>4
  <2>2. s \in Stream /\ k.feeding \in Seq(Chunks) /\ k.native_pending_feed = <<>>
    BY <1>1, <1>2 DEF StreamOf, Journal, Conn, Listens
  <2>3. fed \in Stream /\ fed.heard = s.heard \o k.feeding /\ fed.finished = s.finished
    <3> HIDE DEF s, k
    <3>1. s.heard \o k.feeding \in Seq(Chunks)  BY <2>2 DEF Stream
    <3> QED  BY <2>2, <3>1 DEF Stream
  <2>4. k2 \in Conn /\ k2.phase = p /\ k2.feeding = <<>> /\ k2.own_stream = o
        /\ k2.journal = i /\ k2.raw_audio = k.raw_audio /\ k2.next = k.next /\ k2.stop = k.stop
        /\ k2.native_pending_feed = <<>>
    <3>1. o \in Stream \union {None} /\ <<>> \in Seq(Chunks)
      <4> HIDE DEF fed
      <4> QED  BY <2>3
    <3>2. p \in {"receive", "finish"}  OBVIOUS
    <3> HIDE DEF o, p, k
    <3> QED  BY <1>2, <2>2, <3>1, <3>2, ZenonT(60) DEF Conn
  <2>5. /\ p \in {"receive", "finish"} /\ (p = "finish" => k.phase = "seal")
        /\ (p = "receive" => k.phase = "feed")
    BY <1>1
  <2>6. CASE k.own_stream = None
    <3>1. PICK new \in Journal :
            /\ journals' = [journals EXCEPT ![i] = new] /\ held' = held
            /\ Evolves(c, j, new) /\ JournalReads(new)
            /\ new.chunks = j.chunks /\ new.final = j.final
            /\ WillHear(c, new, new.stream.heard, <<>>)
      BY <1>1, <1>4, <2>6, FeedsStream
    <3>2. o = None  BY <2>6
    <3> HIDE DEF k2, j, k, p, o
    <3>3. Own(new, c) = Own(j, c) /\ Accepted(new) = Accepted(j)
      BY <3>1 DEF Own, Accepted
    <3>4. Listens(c, k2, new)
      <4>1. Reads(Recording(k2), new, c)
        BY <1>1, <1>2, <2>4, <2>5, <3>3 DEF Listens, Reads, Recording, k
      <4>2. Waiting(k2) = <<>>  BY <2>4 DEF Waiting
      <4> QED  BY <1>1, <1>2, <2>4, <2>5, <3>1, <3>2, <3>3, <4>1, <4>2 DEF Listens, k
    <3>5. k2.phase \notin {"new", "closed"} /\ Live(k2)  BY <2>4, <2>5 DEF Live
    <3>6. k.phase # "closed"  BY <1>1
    <3> QED  BY <1>2, <2>1, <2>4, <3>1, <3>4, <3>5, <3>6, StepReads DEF k, j
  <2>7. CASE k.own_stream # None
    <3>1. s = k.own_stream /\ UNCHANGED <<journals, held>> /\ o = fed
      BY <1>4, <2>7 DEF StreamOf, SetsStream
    <3>2. k.phase = "seal"  BY <1>1, <1>2, <2>7 DEF Listens
    <3>3. fed # None
      <4> HIDE DEF fed
      <4> QED  BY <2>3, NoneAssumption
    <3> HIDE DEF k2, j, k, p, o, s, fed
    <3>4. fed.heard \o <<>> = k.raw_audio
      <4>1. fed.heard = k.raw_audio  BY <1>2, <2>3, <2>7, <3>1 DEF Listens
      <4>2. k.raw_audio \in Seq(Chunks)  BY <1>2 DEF Conn
      <4> QED  BY <4>1, <4>2
    <3>5. Listens(c, k2, j)
      BY <1>2, <1>4, <2>3, <2>4, <2>5, <3>1, <3>2, <3>3, <3>4 DEF Listens, Recording, p
    <3>6. Live(k2)  BY <2>4, <2>5 DEF Live
    <3> QED  BY <1>1, <2>1, <2>4, <3>1, <3>5, <3>6, GoesOnReads DEF j, k
  <2> QED  BY <2>6, <2>7
<1> QED  BY <1>3, <1>4 DEF Feed

LEMMA StopReads ==
  ASSUME ReadInv, NEW c \in Conns, NEW stop \in Stops, NEW want \in Claim, Stop(c, stop, want)
  PROVE  ReadInv'
<1> DEFINE k == conns[c]
           i == k.journal
           j == JournalOf(c)
           k2 == [k EXCEPT !.phase = "coverage", !.stop = stop, !.want = want]
<1>1. k.phase = "receive" /\ Live(k) /\ UNCHANGED <<journals, held>>  BY DEF Stop, Live
<1>2. /\ i \in DOMAIN journals /\ j \in Journal /\ k \in Conn /\ Listens(c, k, j)
      /\ conns \in [Conns -> Conn]
  BY <1>1, ItsJournal
<1>3. CASE j.final # None /\ Ends(c, want, IF j.final.fresh THEN j.final.through ELSE None)
  <2>1. j.final.through \in Claim  BY <1>2, <1>3 DEF Journal, Final, Claim
  <2>2. (IF j.final.fresh THEN j.final.through ELSE None) \in Claim  BY <2>1 DEF Claim
  <2> QED  BY <1>1, <1>3, <2>2, GivesUpReads
<1>4. CASE Ends(c, None, None)  BY <1>1, <1>4, GivesUpReads DEF Claim
<1>5. CASE conns' = [conns EXCEPT ![c].phase = "coverage", ![c].stop = stop, ![c].want = want]
  <2>1. conns' = [conns EXCEPT ![c] = k2]  BY <1>2, <1>5
  <2>2. k2 \in Conn /\ k2.phase = "coverage" /\ k2.stop = stop /\ k2.journal = i
        /\ k2.feeding = k.feeding /\ k2.raw_audio = k.raw_audio /\ k2.next = k.next
        /\ k2.native_pending_feed = k.native_pending_feed /\ k2.own_stream = k.own_stream
    BY <1>2 DEF Conn, Claim
  <2>3. stop # None  BY NoneIsNone
  <2> HIDE DEF k2, j, k
  <2>4. Waiting(k2) = Waiting(k)  BY <1>1, <1>2, <2>2 DEF Waiting, Listens
  <2>5. Listens(c, k2, j)  BY <1>1, <1>2, <2>2, <2>3, <2>4 DEF Listens, Recording
  <2>6. Live(k2)  BY <2>2 DEF Live
  <2> QED  BY <1>1, <2>1, <2>2, <2>5, <2>6, GoesOnReads DEF k, j
<1> QED  BY <1>3, <1>4, <1>5 DEF Stop

LEMMA LateAudioReads ==
  ASSUME ReadInv, NEW c \in Conns, LateAudio(c)
  PROVE  ReadInv'
<1> DEFINE k == conns[c]
           n == k.next
           i == k.journal
           j == JournalOf(c)
           k1 == [k EXCEPT !.next = n + 1]
           k2 == [k EXCEPT !.next = n + 1, !.raw_audio = Append(k.raw_audio, n),
                           !.native_pending_feed = Append(k.native_pending_feed, n)]
           new == [j EXCEPT !.chunks[n] = c]
<1>1. k.phase = "coverage" /\ Live(k) /\ k.want # None /\ n < k.want
  BY DEF LateAudio, Live, Covered
<1>2. /\ i \in DOMAIN journals /\ j = journals[i] /\ j \in Journal /\ JournalReads(j)
      /\ k \in Conn /\ Listens(c, k, j) /\ (j.final # None => j.final.by # c)
      /\ conns \in [Conns -> Conn]
  BY <1>1, ItsJournal
<1>3. k.own_stream = None /\ k.feeding = <<>> /\ k.stop # None
  BY <1>1, <1>2 DEF Listens
<1>4. /\ n + 1 \in 0 .. MaxChunks /\ n \in Chunks
      /\ k.raw_audio \in Seq(Chunks) /\ k.native_pending_feed \in Seq(Chunks)
  <2>1. n \in 0 .. MaxChunks /\ k.want \in 0 .. MaxChunks  BY <1>1, <1>2 DEF Conn
  <2> QED  BY <1>1, <1>2, <2>1, NativeAssumption DEF Conn, Chunks
<1>5. \A m \in Own(j, c) : m < n + 1
  <2>1. \A m \in Own(j, c) : m < n /\ m \in Int
    BY <1>1, <1>2, NativeAssumption DEF Listens, Own, Chunks
  <2> QED  BY <2>1, <1>4, NativeAssumption DEF Chunks
<1>6. CASE conns' = [conns EXCEPT ![c].next = @ + 1] /\ UNCHANGED <<journals, held>>
  <2>1. conns' = [conns EXCEPT ![c] = k1]  BY <1>2, <1>6
  <2>2. k1 \in Conn /\ k1.phase = "coverage" /\ k1.journal = i  BY <1>1, <1>2, <1>4 DEF Conn
  <2>3. Listens(c, k1, j)
    <3>1. /\ k1.raw_audio = k.raw_audio /\ k1.phase = k.phase /\ k1.feeding = k.feeding
          /\ k1.native_pending_feed = k.native_pending_feed /\ k1.own_stream = k.own_stream
          /\ k1.stop = k.stop /\ k1.next = n + 1
      BY <1>2 DEF Conn
    <3> HIDE DEF k1, j, k, n
    <3> QED  BY <1>1, <1>2, <1>3, <1>5, <3>1 DEF Listens, Waiting, Recording
  <2> HIDE DEF k1
  <2> QED  BY <1>1, <1>6, <2>1, <2>2, <2>3, GoesOnReads DEF Live
<1>7. ASSUME ~Duplicate(c), Accepts(c),
             conns' = [conns EXCEPT
                         ![c].next = @ + 1, ![c].raw_audio = Append(@, n),
                         ![c].native_pending_feed = Append(@, n)]
      PROVE  ReadInv'
  <2>1. journals' = [journals EXCEPT ![i] = new] /\ held' = held
    BY <1>2, <1>7 DEF Accepts
  <2>2. n \notin Accepted(j)  BY <1>7 DEF Duplicate
  <2>3. PICK x : x = new  OBVIOUS
  <2>4. /\ x \in Journal /\ Evolves(c, j, x) /\ JournalReads(x) /\ x.final = j.final
        /\ x.stream = j.stream /\ Own(x, c) = Own(j, c) \union {n}
        /\ Reads(Append(k.raw_audio, n), x, c) /\ Append(k.raw_audio, n) \in Seq(Chunks)
        /\ \A w \in Seq(Chunks) : WillHear(c, j, j.stream.heard, w) =>
             /\ WillHear(c, x, x.stream.heard, Append(w, n))
             /\ Append(w, n) \in Seq(Chunks)
    <3> HIDE DEF j, k
    <3> QED  BY <1>1, <1>2, <1>4, <2>2, <2>3, AcceptsJournal
  <2>5. journals' = [journals EXCEPT ![i] = x]  BY <2>1, <2>3
  <2>6. conns' = [conns EXCEPT ![c] = k2]  BY <1>2, <1>7
  <2>7. Append(k.native_pending_feed, n) \in Seq(Chunks)  BY <1>4, AppendProperties
  <2>8. /\ k2.raw_audio = Append(k.raw_audio, n) /\ k2.next = n + 1
        /\ k2.phase = "coverage" /\ k2.feeding = <<>> /\ k2.stop = k.stop
        /\ k2.native_pending_feed = Append(k.native_pending_feed, n) /\ k2.own_stream = None
        /\ k2.journal = i
    BY <1>1, <1>2, <1>3 DEF Conn
  <2>9. k2 \in Conn
    <3> HIDE DEF k, n
    <3> QED  BY <1>2, <1>4, <2>4, <2>7 DEF Conn
  <2> HIDE DEF k2, new, j, k, i
  <2>10. \A m \in Own(x, c) : m < n + 1
    BY <1>4, <1>5, <2>4, NativeAssumption DEF Chunks
  <2>11. ~j.stream.finished =>
          WillHear(c, x, x.stream.heard, Append(k.native_pending_feed, n))
    <3> SUFFICES ASSUME ~j.stream.finished
                 PROVE  WillHear(c, x, x.stream.heard, Append(k.native_pending_feed, n))
      OBVIOUS
    <3>1. WillHear(c, j, j.stream.heard, k.native_pending_feed)
      BY <1>1, <1>2, <1>3 DEF Listens, Waiting
    <3> QED  BY <1>4, <2>4, <3>1
  <2>12. Listens(c, k2, x)
    BY <1>3, <2>4, <2>8, <2>10, <2>11 DEF Listens, Waiting, Recording
  <2> QED
    BY <1>1, <1>2, <2>1, <2>4, <2>5, <2>6, <2>8, <2>9, <2>12, StepReads DEF Live, k, i
<1> QED  BY <1>6, <1>7 DEF LateAudio

LEMMA CoverageEndsReads ==
  ASSUME ReadInv, NEW c \in Conns, CoverageEnds(c)
  PROVE  ReadInv'
<1> DEFINE k == conns[c]
           i == k.journal
           j == JournalOf(c)
           w == IF j.stream.finished THEN k.raw_audio ELSE k.native_pending_feed
           o == IF j.stream.finished THEN NewStream ELSE None
           p == IF w = <<>> THEN "finish" ELSE "seal"
           a == Covered(c)
           k2 == [k EXCEPT !.phase = p, !.audio_complete = a, !.feeding = w,
                           !.native_pending_feed = <<>>, !.next = 0, !.own_stream = o]
<1>1. k.phase = "coverage" /\ Live(k) /\ UNCHANGED <<journals, held>>
  BY DEF CoverageEnds, Live
<1>2. /\ i \in DOMAIN journals /\ j \in Journal /\ k \in Conn /\ Listens(c, k, j)
      /\ conns \in [Conns -> Conn]
  BY <1>1, ItsJournal
<1>3. k.own_stream = None /\ StreamOf(c) = j.stream /\ k.stop # None
  BY <1>1, <1>2 DEF Listens, StreamOf
<1>4. conns' = [conns EXCEPT ![c] = k2]
  BY <1>2, <1>3 DEF CoverageEnds, Redecoded, LateFrames
<1>5. NewStream \in Stream /\ NewStream.heard = <<>> /\ ~NewStream.finished
  <2>1. <<>> \in Seq(Chunks)  OBVIOUS
  <2> QED  BY <2>1 DEF NewStream, Stream
<1>6. /\ w \in Seq(Chunks) /\ o \in Stream \union {None} /\ a \in BOOLEAN
      /\ p \in {"seal", "finish"} /\ (p = "finish" => w = <<>>)
  <2>1. k.raw_audio \in Seq(Chunks) /\ k.native_pending_feed \in Seq(Chunks)  BY <1>2 DEF Conn
  <2> QED  BY <1>5, <2>1 DEF Covered
<1>7. o # None <=> j.stream.finished  BY <1>5, NoneAssumption
<1>8. o # None => o.heard = <<>> /\ ~o.finished /\ w = k.raw_audio  BY <1>5, <1>7
<1>9. ~j.stream.finished => WillHear(c, j, j.stream.heard, w)
  BY <1>1, <1>2, <1>3 DEF Listens, Waiting
<1> HIDE DEF w, o, p, a, j, k
<1>10. /\ k2 \in Conn /\ k2.phase = p /\ k2.feeding = w /\ k2.own_stream = o /\ k2.journal = i
       /\ k2.native_pending_feed = <<>> /\ k2.raw_audio = k.raw_audio
       /\ k2.stop = k.stop
  <2>1. <<>> \in Seq(Chunks) /\ 0 \in 0 .. MaxChunks  BY NativeAssumption
  <2> QED  BY <1>2, <1>6, <2>1, ZenonT(60) DEF Conn
<1> HIDE DEF k2
<1>11. Listens(c, k2, j)
  <2>1. Waiting(k2) = w  BY <1>6, <1>10 DEF Waiting
  <2>2. o # None => o.heard \o w = k.raw_audio
    <3>1. k.raw_audio \in Seq(Chunks)  BY <1>2 DEF Conn
    <3>2. <<>> \o k.raw_audio = k.raw_audio  BY <3>1
    <3> QED  BY <1>8, <3>2
  <2>3. Reads(Recording(k2), j, c)
    BY <1>1, <1>2, <1>6, <1>10 DEF Listens, Recording, k
  <2> QED  BY <1>3, <1>6, <1>7, <1>8, <1>9, <1>10, <2>1, <2>2, <2>3 DEF Listens
<1>12. Live(k2)  BY <1>6, <1>10 DEF Live
<1> QED  BY <1>1, <1>4, <1>10, <1>11, <1>12, GoesOnReads DEF j, k

\* What is decoded at the end has been read from all audio of its socket.
LEMMA HeardReads ==
  ASSUME ReadInv, NEW c \in Conns, conns[c].phase = "finish"
  PROVE  StreamOf(c).heard \in Seq(Chunks) /\ Reads(StreamOf(c).heard, JournalOf(c), c)
<1> DEFINE k == conns[c]
           j == JournalOf(c)
<1>1. /\ j \in Journal /\ JournalReads(j) /\ k \in Conn /\ Listens(c, k, j)
  BY ItsJournal DEF Live
<1>2. k.feeding = <<>>  BY <1>1 DEF Listens
<1>3. CASE k.own_stream = None
  <2>1. StreamOf(c).heard = j.stream.heard /\ j.stream.heard \in Seq(Chunks)
    BY <1>1, <1>3 DEF StreamOf, Journal, Stream
  <2>2. WillHear(c, j, j.stream.heard, <<>>)  BY <1>1, <1>2, <1>3 DEF Listens, Waiting
  <2>3. ToSet(<<>>) = {}  BY DEF ToSet
  <2> HIDE DEF j, k
  <2> QED  BY <1>1, <2>1, <2>2, <2>3 DEF WillHear, JournalReads, Reads, j
<1>4. CASE k.own_stream # None
  <2>1. StreamOf(c) = k.own_stream /\ k.own_stream.heard \in Seq(Chunks)
    BY <1>1, <1>4 DEF StreamOf, Conn, Stream
  <2>2. k.own_stream.heard \o <<>> = k.raw_audio  BY <1>1, <1>2, <1>4 DEF Listens
  <2>3. k.own_stream.heard = k.raw_audio  BY <2>1, <2>2
  <2> QED  BY <1>1, <2>1, <2>3 DEF Listens, Recording
<1> QED  BY <1>3, <1>4

\* A stream may be sealed while its journal keeps the rest.
LEMMA SealReads ==
  ASSUME NEW c \in Conns, NEW j \in Journal, JournalReads(j), j.final # None => j.final.by # c
  PROVE  LET new == [j EXCEPT !.stream.finished = TRUE]
         IN  /\ new \in Journal /\ Evolves(c, j, new) /\ JournalReads(new)
             /\ new.chunks = j.chunks /\ new.final = j.final
             /\ new.stream.heard = j.stream.heard /\ new.stream.finished
<1> DEFINE new == [j EXCEPT !.stream.finished = TRUE]
<1>1. /\ new \in Journal /\ new.chunks = j.chunks /\ new.final = j.final
      /\ new.stream.heard = j.stream.heard /\ new.stream.finished
  BY DEF Journal, Stream
<1> HIDE DEF new
<1>2. Evolves(c, j, new)  BY <1>1, HearsNothing
<1>3. FinalReads(new)  BY <1>1, <1>2, FinalStays DEF JournalReads
<1>4. Accepted(new) = Accepted(j)  BY <1>1 DEF Accepted
<1> QED  BY <1>1, <1>2, <1>3, <1>4 DEF JournalReads, new

LEMMA AnswersReads ==
  ASSUME ReadInv, NEW c \in Conns, conns[c].phase \in {"sealed", "raw"},
         NEW decoded \in Seq(Chunks), decoded # <<>> => Reads(decoded, JournalOf(c), c),
         Answers(c, decoded)
  PROVE  ReadInv'
<1> DEFINE k == conns[c]
           i == k.journal
           j == JournalOf(c)
           claim == RecognizedThrough(c, decoded)
           final == [stop |-> k.stop, through |-> claim, decoded |-> decoded,
                     by |-> c, fresh |-> TRUE]
           new == [j EXCEPT !.final = final]
<1>1. /\ i \in DOMAIN journals /\ j = journals[i] /\ j \in Journal /\ JournalReads(j)
      /\ k \in Conn /\ Listens(c, k, j) /\ (j.final # None => j.final.by # c) /\ Live(k)
  BY ItsJournal DEF Live
<1>2. claim \in Claim  BY FrontierIsFirstMissing DEF RecognizedThrough, Claim
<1>3. k.stop \in Stops /\ k.want \in Claim  BY <1>1 DEF Listens, Conn, Claim
<1>4. journals' = [journals EXCEPT ![i] = new] /\ Ends(c, k.want, claim) /\ held' = held
  BY <1>1 DEF Answers
<1>5. claim # None => Reads(decoded, j, c)  BY DEF RecognizedThrough
<1> HIDE DEF claim, j
<1>6. final \in Final /\ final.by = c /\ final.through = claim /\ final.decoded = decoded
  <2> HIDE DEF k
  <2> QED  BY <1>2, <1>3 DEF Final, Claim
<1> HIDE DEF final
<1>7. /\ new \in Journal /\ new.chunks = j.chunks /\ new.stream = j.stream
      /\ new.final = final
  BY <1>1, <1>6 DEF Journal
<1> HIDE DEF new, k
<1>8. Evolves(c, j, new)  BY <1>1, <1>6, <1>7, HearsNothing
<1>9. Own(new, c) = Own(j, c) /\ Accepted(new) = Accepted(j)  BY <1>7 DEF Own, Accepted
<1>10. JournalReads(new)
  <2>1. FinalReads(new)  BY <1>5, <1>6, <1>7, <1>9 DEF FinalReads, Reads
  <2> QED  BY <1>1, <1>7, <1>9, <2>1 DEF JournalReads
<1> QED  BY <1>1, <1>2, <1>3, <1>4, <1>7, <1>8, <1>10, EndsReads DEF j, k

LEMMA FinishReads ==
  ASSUME ReadInv, NEW c \in Conns, Finish(c)
  PROVE  ReadInv'
<1> DEFINE k == conns[c]
           i == k.journal
           j == JournalOf(c)
           heard == StreamOf(c).heard
           sealed == [StreamOf(c) EXCEPT !.finished = TRUE]
<1>1. k.phase = "finish" /\ Live(k)  BY DEF Finish, Live
<1>2. /\ i \in DOMAIN journals /\ j = journals[i] /\ j \in Journal /\ JournalReads(j)
      /\ k \in Conn /\ Listens(c, k, j) /\ (j.final # None => j.final.by # c)
      /\ conns \in [Conns -> Conn]
  BY <1>1, ItsJournal
<1>3. heard \in Seq(Chunks) /\ Reads(heard, j, c)
  BY <1>1, HeardReads
<1>4. PICK text \in {heard, <<>>} :
        conns' = [conns EXCEPT ![c].phase = "sealed", ![c].text = text, ![c].own_stream = None]
  BY DEF Finish
<1> DEFINE k2 == [k EXCEPT !.phase = "sealed", !.text = text, !.own_stream = None]
<1>5. conns' = [conns EXCEPT ![c] = k2]  BY <1>2, <1>4
<1>6. /\ k2 \in Conn /\ k2.phase = "sealed" /\ k2.feeding = k.feeding /\ k2.text = text
      /\ k2.own_stream = None /\ k2.journal = i
      /\ k2.native_pending_feed = k.native_pending_feed
      /\ k2.raw_audio = k.raw_audio /\ k2.stop = k.stop
  <2>1. text \in Seq(Chunks)
    <3>1. <<>> \in Seq(Chunks)  OBVIOUS
    <3> QED  BY <1>3, <1>4, <3>1
  <2> HIDE DEF k
  <2> QED  BY <1>2, <2>1, ZenonT(60) DEF Conn
<1> DEFINE x == IF k.own_stream = None THEN [j EXCEPT !.stream.finished = TRUE] ELSE j
<1>7. journals' = [journals EXCEPT ![i] = x] /\ held' = held
  <2>1. SetsStream(c, sealed)  BY DEF Finish
  <2>2. CASE k.own_stream = None
    <3>1. sealed = [j.stream EXCEPT !.finished = TRUE]  BY <2>2 DEF StreamOf
    <3>2. journals' = [journals EXCEPT ![i].stream = [j.stream EXCEPT !.finished = TRUE]]
          /\ held' = held
      BY <2>1, <2>2, <3>1 DEF SetsStream
    <3> QED  BY <1>2, <2>2, <3>2
  <2>3. CASE k.own_stream # None
    <3>1. journals = [journals EXCEPT ![i] = j]  BY <1>2 DEF ReadInv, TypeOK
    <3> QED  BY <2>1, <2>3, <3>1 DEF SetsStream
  <2> QED  BY <2>2, <2>3
<1> HIDE DEF heard, sealed, k2, k, j, i
<1>8. /\ x \in Journal /\ Evolves(c, j, x) /\ JournalReads(x)
      /\ x.chunks = j.chunks /\ x.final = j.final
  <2>1. Evolves(c, j, j)  BY <1>2, HearsNothing
  <2> QED  BY <1>2, <2>1, SealReads
<1> HIDE DEF x
<1>9. Own(x, c) = Own(j, c) /\ Accepted(x) = Accepted(j)  BY <1>8 DEF Own, Accepted
<1>10. Listens(c, k2, x)
  <2>1. Reads(Recording(k2), x, c)  BY <1>1, <1>2, <1>6, <1>9 DEF Listens, Reads, Recording
  <2>2. text # <<>> => Reads(text, x, c)  BY <1>3, <1>4, <1>9 DEF Reads
  <2> QED  BY <1>1, <1>2, <1>6, <2>1, <2>2 DEF Listens
<1> QED
  BY <1>1, <1>2, <1>5, <1>6, <1>7, <1>8, <1>10, StepReads, ZenonT(60) DEF Live, k, i

LEMMA SealedReads ==
  ASSUME ReadInv, NEW c \in Conns, Sealed(c)
  PROVE  ReadInv'
<1> DEFINE k == conns[c]
           j == JournalOf(c)
           k2 == [k EXCEPT !.phase = "raw"]
<1>1. k.phase = "sealed" /\ Live(k)  BY DEF Sealed, Live
<1>2. j \in Journal /\ k \in Conn /\ Listens(c, k, j) /\ conns \in [Conns -> Conn]
  BY <1>1, ItsJournal
<1>3. CASE Answers(c, k.text)
  <2>1. k.text \in Seq(Chunks) /\ (k.text # <<>> => Reads(k.text, j, c))
    BY <1>1, <1>2 DEF Listens, Conn
  <2> QED  BY <1>1, <1>3, <2>1, AnswersReads
<1>4. CASE conns' = [conns EXCEPT ![c].phase = "raw"] /\ UNCHANGED <<journals, held>>
  <2>1. conns' = [conns EXCEPT ![c] = k2]  BY <1>2, <1>4
  <2>2. /\ k2 \in Conn /\ k2.phase = "raw" /\ k2.feeding = k.feeding
        /\ k2.own_stream = k.own_stream /\ k2.journal = k.journal
        /\ k2.native_pending_feed = k.native_pending_feed
        /\ k2.raw_audio = k.raw_audio /\ k2.stop = k.stop
    BY <1>2 DEF Conn
  <2> HIDE DEF k2, k, j
  <2>3. Listens(c, k2, j)
    BY <1>1, <1>2, <2>2 DEF Listens, Recording
  <2>4. Live(k2)  BY <2>2 DEF Live
  <2> QED  BY <1>1, <1>4, <2>1, <2>2, <2>3, <2>4, GoesOnReads DEF j, k
<1> QED  BY <1>3, <1>4 DEF Sealed

LEMMA RawFallbackReads ==
  ASSUME ReadInv, NEW c \in Conns, RawFallback(c)
  PROVE  ReadInv'
<1>1. conns[c].phase = "raw" /\ Live(conns[c])  BY DEF RawFallback, Live
<1>2. conns[c].raw_audio \in Seq(Chunks) /\ Reads(conns[c].raw_audio, JournalOf(c), c)
  BY <1>1, ItsJournal DEF Listens, Conn, Recording
<1>3. PICK decoded \in {<<>>, conns[c].raw_audio} : Answers(c, decoded)
  BY DEF RawFallback
<1>4. decoded \in Seq(Chunks) /\ (decoded # <<>> => Reads(decoded, JournalOf(c), c))
  <2>1. <<>> \in Seq(Chunks)  OBVIOUS
  <2> QED  BY <1>2, <2>1
<1> QED  BY <1>1, <1>3, <1>4, AnswersReads

LEMMA BeginReads ==
  ASSUME ReadInv, NEW c \in Conns, Begin(c)
  PROVE  ReadInv'
<1> DEFINE N == Len(journals)
           new == NewJournal
<1>1. /\ journals \in Seq(Journal) /\ N \in Nat /\ DOMAIN journals = 1 .. N
      /\ N < MaxJournals /\ conns \in [Conns -> Conn] /\ held' = N + 1
      /\ journals' = Append(journals, new)
      /\ \A d \in Conns : Live(conns[d]) => conns[d].journal \in DOMAIN journals
  BY DEF ReadInv, TypeOK, Begin, Live
<1>2. conns[c] = NewConn  BY DEF ReadInv, Begin
<1>3. PICK next \in 0 .. MaxChunks :
        conns' = [conns EXCEPT ![c].phase = "receive", ![c].journal = held', ![c].next = next]
  <2>1. (IF journals = <<>> THEN {0} ELSE Chunks) \subseteq 0 .. MaxChunks
    BY NativeAssumption DEF Chunks
  <2> QED  BY <2>1, Zenon DEF Begin
<1> DEFINE k == [NewConn EXCEPT !.phase = "receive", !.journal = N + 1, !.next = next]
<1>4. conns' = [conns EXCEPT ![c] = k]  BY <1>1, <1>2, <1>3
<1>5. /\ k.phase = "receive" /\ k.journal = N + 1 /\ k.raw_audio = <<>> /\ k.feeding = <<>>
      /\ k.native_pending_feed = <<>> /\ k.own_stream = None /\ k.next = next
  BY DEF NewConn
<1>6. k \in Conn
  <2>1. conns[c] \in Conn /\ N + 1 \in 1 .. MaxJournals  BY <1>1, NativeAssumption
  <2> QED  BY <1>2, <2>1 DEF Conn
<1>7. /\ new \in Journal /\ new.stream.heard = <<>> /\ new.final = None
      /\ \A d \in Conns : Own(new, d) = {}
  <2>1. <<>> \in Seq(Chunks)  OBVIOUS
  <2> QED  BY <2>1, NoneIsNone DEF NewJournal, NewStream, Stream, Journal, Own
<1> HIDE DEF k, new, N
<1>8. /\ journals' \in Seq(Journal) /\ Len(journals') = N + 1
      /\ DOMAIN journals' = 1 .. N + 1 /\ journals'[N + 1] = new
      /\ \A m \in 1 .. N : journals'[m] = journals[m]
  BY <1>1, <1>7 DEF N
<1>9. /\ conns' \in [Conns -> Conn] /\ conns'[c] = k
      /\ \A d \in Conns : d # c => conns'[d] = conns[d]
  BY <1>1, <1>4, <1>6
<1>10. \A m \in 1 .. N + 1 : m \in 1 .. N \/ m = N + 1  BY <1>1
<1>11. TypeOK'
  <2>1. N + 1 \in 1 .. N + 1 /\ N + 1 <= MaxJournals  BY <1>1, NativeAssumption
  <2>2. \A d \in Conns : Live(conns'[d]) => conns'[d].journal \in DOMAIN journals'
    <3> SUFFICES ASSUME NEW d \in Conns, Live(conns'[d])
                 PROVE  conns'[d].journal \in DOMAIN journals'
      OBVIOUS
    <3>1. CASE d = c  BY <1>5, <1>8, <1>9, <2>1, <3>1
    <3>2. CASE d # c  BY <1>1, <1>8, <1>9, <3>2
    <3> QED  BY <3>1, <3>2
  <2> QED  BY <1>1, <1>8, <1>9, <2>1, <2>2 DEF TypeOK, Live
<1>12. ToSet(<<>>) = {} /\ IsInjective(<<>>) /\ \A O : Ascends(<<>>, O)
  BY DEF ToSet, IsInjective, Ascends
<1>13. JournalReads(new)  BY <1>7, <1>12 DEF JournalReads, FinalReads
<1>14. Listens(c, k, new)
  BY <1>5, <1>7, <1>12 DEF Listens, Reads, WillHear, Waiting, Recording
<1>15. ASSUME NEW d \in Conns, Live(conns'[d])
       PROVE  Listens(d, conns'[d], journals'[conns'[d].journal])
  <2>1. CASE d = c  BY <1>5, <1>8, <1>9, <1>14, <2>1
  <2>2. CASE d # c
    <3>1. conns'[d] = conns[d] /\ conns[d].journal \in 1 .. N
      BY <1>1, <1>9, <1>15, <2>2
    <3>2. Listens(d, conns[d], journals[conns[d].journal])
      BY <1>15, <3>1 DEF ReadInv, JournalOf
    <3> QED  BY <1>8, <3>1, <3>2
  <2> QED  BY <2>1, <2>2
<1>16. ASSUME NEW d \in Conns, NEW m \in DOMAIN journals'
       PROVE  Leaves(d, conns'[d], journals'[m])
  <2>1. CASE m = N + 1  BY <1>7, <1>8, <2>1 DEF Leaves
  <2>2. CASE m \in 1 .. N
    <3>1. Leaves(d, conns[d], journals[m])  BY <1>1, <2>2 DEF ReadInv
    <3>2. CASE d = c
      <4>1. conns[c].phase = "new"  BY DEF Begin
      <4> QED  BY <1>5, <1>8, <1>9, <2>2, <3>1, <3>2, <4>1 DEF Leaves
    <3>3. CASE d # c  BY <1>8, <1>9, <2>2, <3>1, <3>3
    <3> QED  BY <3>2, <3>3
  <2> QED  BY <1>8, <1>10, <2>1, <2>2
<1>17. \A m \in DOMAIN journals' : JournalReads(journals'[m])
  BY <1>1, <1>8, <1>10, <1>13 DEF ReadInv
<1>18. \A d \in Conns : conns'[d].phase = "new" => conns'[d] = NewConn
  BY <1>5, <1>9 DEF ReadInv
<1> QED  BY <1>11, <1>15, <1>16, <1>17, <1>18 DEF ReadInv, JournalOf

LEMMA ResumeReads ==
  ASSUME ReadInv, NEW c \in Conns, Resume(c)
  PROVE  ReadInv'
<1> DEFINE j == journals[held]
           f == received_frontier(j)
           raw == RawAudio(j)
           k == [NewConn EXCEPT !.phase = "receive", !.journal = held, !.next = f,
                                !.raw_audio = raw]
<1>1. /\ held \in DOMAIN journals /\ held \in 1 .. MaxJournals /\ j \in Journal
      /\ journals \in Seq(Journal) /\ conns \in [Conns -> Conn] /\ UNCHANGED <<journals, held>>
      /\ conns[c].phase = "new"
  BY NativeAssumption DEF ReadInv, TypeOK, Resume
<1>2. conns[c] = NewConn /\ conns[c] \in Conn  BY <1>1 DEF ReadInv
<1>3. conns' = [conns EXCEPT ![c] = k]  BY <1>1, <1>2 DEF Resume
<1>4. Own(j, c) = {} /\ (j.final # None => j.final.by # c) /\ JournalReads(j)
  BY <1>1 DEF ReadInv, Leaves
<1>5. f \in 0 .. MaxChunks  BY FrontierIsFirstMissing
<1>6. raw \in Seq(Chunks) /\ IsInjective(raw) /\ ToSet(raw) = Accepted(j)
  BY RawAudioIs
<1> HIDE DEF f, raw
<1>7. /\ k.phase = "receive" /\ k.journal = held /\ k.raw_audio = raw /\ k.feeding = <<>>
      /\ k.native_pending_feed = <<>> /\ k.own_stream = None /\ k.next = f
  BY DEF NewConn
<1>8. k \in Conn
  <2> HIDE DEF j
  <2> QED  BY <1>1, <1>2, <1>5, <1>6 DEF Conn
<1> HIDE DEF k, j
<1>9. Listens(c, k, j)
  <2>1. ToSet(<<>>) = {} /\ IsInjective(<<>>)  BY DEF ToSet, IsInjective
  <2>2. \A s : Ascends(s, {})  BY DEF Ascends
  <2>3. Reads(raw, j, c)  BY <1>4, <1>6, <2>2 DEF Reads
  <2>4. WillHear(c, j, j.stream.heard, <<>>)  BY <1>4, <2>1, <2>2 DEF WillHear
  <2> QED  BY <1>4, <1>7, <2>3, <2>4 DEF Listens, Waiting, Recording
<1>10. Evolves(c, j, j)  BY <1>1, HearsNothing
<1>11. journals' = [journals EXCEPT ![held] = j]  BY <1>1 DEF j
<1>12. journals[held] = j  BY DEF j
<1> QED
  BY <1>1, <1>3, <1>4, <1>7, <1>8, <1>9, <1>10, <1>11, <1>12, StepReads DEF Live

LEMMA ForgetReads ==
  ASSUME ReadInv, Forget
  PROVE  ReadInv'
<1>1. journals' = journals /\ conns' = conns /\ held' = None  BY DEF Forget
<1>2. TypeOK'  BY <1>1 DEF ReadInv, TypeOK
<1> QED  BY <1>1, <1>2 DEF ReadInv, JournalOf

LEMMA ExpireReads ==
  ASSUME ReadInv, NEW i \in DOMAIN journals, Expire(i)
  PROVE  ReadInv'
<1> DEFINE j == journals[i]
           new == [j EXCEPT !.final.fresh = FALSE]
<1>1. /\ journals \in Seq(Journal) /\ j \in Journal /\ j.final # None
      /\ conns' = conns /\ held' = held
      /\ journals' = [journals EXCEPT ![i].final.fresh = FALSE]
  BY DEF ReadInv, TypeOK, Expire
<1>2. j.final \in Final  BY <1>1 DEF Journal
<1>3. /\ new \in Journal /\ new.chunks = j.chunks /\ new.stream = j.stream
      /\ new.final.by = j.final.by /\ new.final.through = j.final.through
      /\ new.final.decoded = j.final.decoded
  BY <1>1, <1>2 DEF Journal, Final
<1>4. journals' = [journals EXCEPT ![i] = new]  BY <1>1
<1> HIDE DEF new, j
<1>5. /\ journals' \in Seq(Journal) /\ DOMAIN journals' = DOMAIN journals
      /\ Len(journals') = Len(journals) /\ journals'[i] = new
      /\ \A m \in DOMAIN journals : m # i => journals'[m] = journals[m]
  <2>1. journals \in Seq(Journal) /\ new \in Journal  BY <1>1, <1>3
  <2> QED  BY <1>4, <2>1
<1>6. TypeOK'  BY <1>1, <1>5 DEF ReadInv, TypeOK
<1>7. /\ \A d : Own(new, d) = Own(j, d)
      /\ Accepted(new) = Accepted(j)
  BY <1>3 DEF Own, Accepted
<1>8. \A s, d : Reads(s, j, d) => Reads(s, new, d)  BY <1>7 DEF Reads
<1>9. j = journals[i]  BY DEF j
<1>10. JournalReads(new)
  <2>1. JournalReads(j)  BY <1>9 DEF ReadInv
  <2> QED  BY <1>1, <1>3, <1>7, <1>8, <2>1 DEF JournalReads, FinalReads
<1>11. \A d, k : Listens(d, k, j) => Listens(d, k, new)
  <2>1. \A d, h, w : WillHear(d, j, h, w) => WillHear(d, new, h, w)  BY <1>7 DEF WillHear
  <2> SUFFICES ASSUME NEW d, NEW k, Listens(d, k, j)  PROVE Listens(d, k, new)
    OBVIOUS
  <2>2. Reads(Recording(k), new, d)  BY <1>8 DEF Listens
  <2> QED  BY <1>3, <1>7, <1>8, <2>1, <2>2 DEF Listens
<1>12. \A d, k : Leaves(d, k, j) => Leaves(d, k, new)
  BY <1>1, <1>3, <1>7 DEF Leaves
<1>13. \A m \in DOMAIN journals' : JournalReads(journals'[m])
  BY <1>5, <1>10 DEF ReadInv
<1>14. ASSUME NEW d \in Conns
       PROVE  /\ Live(conns[d]) => Listens(d, conns[d], journals'[conns[d].journal])
              /\ \A m \in DOMAIN journals' : Leaves(d, conns[d], journals'[m])
  <2>1. Live(conns[d]) => Listens(d, conns[d], journals[conns[d].journal])
                          /\ conns[d].journal \in DOMAIN journals
    BY DEF ReadInv, JournalOf, TypeOK, Live
  <2>2. \A m \in DOMAIN journals : Leaves(d, conns[d], journals[m])  BY DEF ReadInv
  <2> QED  BY <1>5, <1>9, <1>11, <1>12, <2>1, <2>2
<1>15. \A d \in Conns : conns[d].phase = "new" => conns[d] = NewConn  BY DEF ReadInv
<1> QED  BY <1>1, <1>6, <1>13, <1>14, <1>15 DEF ReadInv, JournalOf

LEMMA InitReads == Init => ReadInv
<1> SUFFICES ASSUME Init  PROVE ReadInv
  OBVIOUS
<1>1. journals = <<>> /\ held = None /\ conns = [c \in Conns |-> NewConn]  BY DEF Init
<1>2. NewConn \in Conn /\ NewConn.phase = "new"
  <2>1. <<>> \in Seq(Chunks) /\ 0 \in 0 .. MaxChunks  BY NativeAssumption
  <2> QED  BY <2>1 DEF NewConn, Conn
<1> HIDE DEF NewConn
<1>3. TypeOK  BY <1>1, <1>2, NativeAssumption DEF TypeOK
<1> QED  BY <1>1, <1>2, <1>3 DEF ReadInv, Live

-----------------------------------------------------------------------------
\* Whatever the sockets, the feeds and the stops do in between, the stream of a
\* journal and the recording of each handler hold the audio of that handler's own
\* socket, so that either may be decoded for its final.
THEOREM ReadInvariance == Spec => []ReadInv
<1>1. ReadInv /\ [Next]_vars => ReadInv'
  <2> SUFFICES ASSUME ReadInv, [Next]_vars  PROVE ReadInv'
    OBVIOUS
  <2>1. ASSUME NEW c \in Conns, Handler(c)  PROVE ReadInv'
    <3>1. CASE Begin(c)  BY <3>1, BeginReads
    <3>2. CASE Resume(c)  BY <3>2, ResumeReads
    <3>3. CASE Audio(c)  BY <3>3, AudioReads
    <3>4. CASE Feed(c)  BY <3>4, FeedReads
    <3>5. CASE Lost(c)  BY <3>5, LostReads
    <3>6. CASE \E stop \in Stops, want \in 0 .. MaxChunks \union {None} : Stop(c, stop, want)
      BY <3>6, StopReads DEF Claim
    <3>7. CASE LateAudio(c)  BY <3>7, LateAudioReads
    <3>8. CASE CoverageEnds(c)  BY <3>8, CoverageEndsReads
    <3>9. CASE Finish(c)  BY <3>9, FinishReads
    <3>10. CASE RawFallback(c)  BY <3>10, RawFallbackReads
    <3>11. CASE Acked(c)  BY <3>11, AckedReads
    <3>12. CASE Sealed(c)  BY <3>12, SealedReads
    <3> QED
      BY <2>1, <3>1, <3>2, <3>3, <3>4, <3>5, <3>6, <3>7, <3>8, <3>9, <3>10,
         <3>11, <3>12 DEF Handler
  <2>2. CASE Forget  BY <2>2, ForgetReads
  <2>3. ASSUME NEW i \in DOMAIN journals, Expire(i)  PROVE ReadInv'
    BY <2>3, ExpireReads
  <2>4. CASE UNCHANGED vars
    <3>1. journals' = journals /\ held' = held /\ conns' = conns  BY <2>4 DEF vars
    <3>2. TypeOK'  BY <3>1 DEF ReadInv, TypeOK
    <3> QED  BY <3>1, <3>2 DEF ReadInv, JournalOf
  <2> QED  BY <2>1, <2>2, <2>3, <2>4 DEF Next
<1> QED  BY <1>1, InitReads, PTL DEF Spec

\* Journals, streams, finals and handlers keep their types, and a handler at work
\* has its journal, for any sockets, stops and length of the recording.
THEOREM TypeCorrectness == Spec => []TypeOK
<1>1. ReadInv => TypeOK  BY DEF ReadInv
<1> QED  BY <1>1, ReadInvariance, PTL

\* A final that claims chunks was decoded from all that its own socket brought of
\* them, once and in order: fed before the stop, after it, or decoded anew because
\* an earlier stop had sealed the stream (cuda/server.py's stop branch).
THEOREM FinalsReadTheirAudio == Spec => []ClaimsReadTheirAudio
<1>1. ReadInv => ClaimsReadTheirAudio
  <2> SUFFICES ASSUME ReadInv, NEW claim \in Claims
               PROVE  LET own == {n \in 0 .. claim[2].through - 1 :
                                    journals[claim[1]].chunks[n] = claim[2].by}
                      IN  /\ own \subseteq ToSet(claim[2].decoded)
                          /\ Ascends(claim[2].decoded, own)
                          /\ IsInjective(claim[2].decoded)
    BY Zenon DEF ClaimsReadTheirAudio
  <2> DEFINE i == claim[1]
             f == claim[2]
             own == {n \in 0 .. f.through - 1 : journals[i].chunks[n] = f.by}
  <2>1. i \in DOMAIN journals /\ f = journals[i].final /\ f # None /\ f.through # None
    BY DEF Claims
  <2> HIDE DEF i, f
  <2>2. Reads(f.decoded, journals[i], f.by) /\ journals[i] \in Journal
    BY <2>1 DEF ReadInv, JournalReads, FinalReads, TypeOK
  <2>3. f.through \in 0 .. MaxChunks  BY <2>1, <2>2 DEF Journal, Final
  <2>4. own \subseteq Own(journals[i], f.by)
    BY <2>3, NativeAssumption DEF Own, Chunks
  <2> HIDE DEF own
  <2>5. Ascends(f.decoded, own)  BY <2>2, <2>4 DEF Reads, Ascends
  <2>6. own \subseteq ToSet(f.decoded) /\ Ascends(f.decoded, own) /\ IsInjective(f.decoded)
    BY <2>2, <2>4, <2>5 DEF Reads
  <2> QED  BY <2>6 DEF own, f, i
<1> QED  BY <1>1, ReadInvariance, PTL

=============================================================================
