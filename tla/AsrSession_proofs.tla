-------------------------- MODULE AsrSession_proofs --------------------------
(***************************************************************************)
(* Proofs about AsrSession, for any sockets, journals, bounds, windows and *)
(* peers: its types, the queue of decodes, and the stable prefix.          *)
(***************************************************************************)
EXTENDS AsrSession, AsrGate_proofs

-----------------------------------------------------------------------------
(***************************************************************************)
(* The inductive invariant.                                                *)
(***************************************************************************)

\* A connection waits for the decode that this kind of job does.
Waits(k, job) ==
  CASE job = "commit" -> k.commit # None
    [] job = "partial" -> k.partial # None /\ k.partial.stage = "decode"
    [] OTHER -> k.phase = job

\* b.stable_text is the decode of the first b.stable_bytes units of b.gated.
PrefixIsDecoded(b) ==
  /\ b.stable_bytes <= Len(b.gated)
  /\ b.stable_text = SubSeq(b.gated, 1, b.stable_bytes)

\* A running commit decodes a stretch of the gated audio, which only grows.
CommitIsOfGated(k) ==
  k.commit # None =>
    /\ k.commit.start <= k.commit.upto
    /\ k.commit.upto <= Len(k.gated)
    /\ k.commit.audio = SubSeq(k.gated, k.commit.start + 1, k.commit.upto)

LocalsInv(k) ==
  /\ PrefixIsDecoded(k)
  /\ CommitIsOfGated(k)
  /\ IF k.phase = "unborn" THEN k.commit = None /\ k.partial = None
     ELSE k.journal \in Journals
  /\ k.phase = "final" => k.answer # None

\* The speaker check of a boundary has that boundary before it.
EmbedInv(k) == k.phase = "embed" => k.events # << >>

\* Every decode in the queue is awaited, and none is queued twice.
QueueInv ==
  /\ IsInjective(gpu)
  /\ \A i \in DOMAIN gpu : Waits(conns[gpu[i][1]], gpu[i][2])

IInv ==
  /\ TypeOK
  /\ \A c \in Conns : LocalsInv(conns[c]) /\ EmbedInv(conns[c])
  /\ \A j \in Journals : PrefixIsDecoded(journals[j])
  /\ QueueInv

-----------------------------------------------------------------------------
(***************************************************************************)
(* Worlds: what a step of one connection works on.  busy are the kinds of  *)
(* decode the connection has queued before the step.                       *)
(***************************************************************************)
Worlds == [k: Locals, l: Ledger, j: Sessions, jobs: Seq(JobKinds)]

JobsInv(k, jobs, busy) ==
  /\ IsInjective(jobs)
  /\ \A i \in DOMAIN jobs : jobs[i] \notin busy /\ Waits(k, jobs[i])
  /\ \A job \in busy : Waits(k, job)

WorldCore(w, busy) ==
  /\ w \in Worlds
  /\ LocalsInv(w.k) /\ w.k.phase # "unborn"
  /\ PrefixIsDecoded(w.j)
  /\ JobsInv(w.k, w.jobs, busy)

WorldInv(w, busy) == WorldCore(w, busy) /\ EmbedInv(w.k)

\* In the middle of a step: nothing is submitted yet, and no decode of the
\* stop handler is queued.
Calm(w, busy) ==
  WorldCore(w, busy) /\ w.jobs = << >> /\ busy \subseteq {"commit", "partial"}

LEMMA WorldFields ==
  ASSUME NEW w \in Worlds
  PROVE  w.k \in Locals /\ w.l \in Ledger /\ w.j \in Sessions /\ w.jobs \in Seq(JobKinds)
BY DEF Worlds

\* A world whose connection changes.
LEMMA UpdateK ==
  ASSUME NEW w \in Worlds, NEW v, NEW k \in Locals,
         v = [w EXCEPT !.k = k]
  PROVE  /\ v \in Worlds
         /\ v.k = k /\ v.l = w.l /\ v.j = w.j /\ v.jobs = w.jobs
BY DEF Worlds

\* A world whose journal changes.
LEMMA UpdateJ ==
  ASSUME NEW w \in Worlds, NEW v, NEW j \in Sessions,
         v = [w EXCEPT !.j = j]
  PROVE  /\ v \in Worlds
         /\ v.k = w.k /\ v.l = w.l /\ v.j = j /\ v.jobs = w.jobs
BY DEF Worlds

\* A world that submits decodes.
LEMMA UpdateKJobs ==
  ASSUME NEW w \in Worlds, NEW v, NEW k \in Locals, NEW jobs \in Seq(JobKinds),
         v = [w EXCEPT !.k = k, !.jobs = jobs]
  PROVE  /\ v \in Worlds
         /\ v.k = k /\ v.l = w.l /\ v.j = w.j /\ v.jobs = jobs
BY DEF Worlds

\* A world whose connection and ledger change.
LEMMA UpdateKL ==
  ASSUME NEW w \in Worlds, NEW v, NEW k \in Locals, NEW l \in Ledger,
         v = [w EXCEPT !.k = k, !.l = l]
  PROVE  /\ v \in Worlds
         /\ v.k = k /\ v.l = l /\ v.j = w.j /\ v.jobs = w.jobs
BY DEF Worlds

\* A world whose connection and journal change.
LEMMA UpdateKJ ==
  ASSUME NEW w \in Worlds, NEW v, NEW k \in Locals, NEW j \in Sessions,
         v = [w EXCEPT !.k = k, !.j = j]
  PROVE  /\ v \in Worlds
         /\ v.k = k /\ v.l = w.l /\ v.j = j /\ v.jobs = w.jobs
BY DEF Worlds

\* A sync copies the buffers and the ledger's name, and nothing else changes.
LEMMA SyncCopies ==
  ASSUME NEW w \in Worlds
  PROVE  /\ Sync(w) \in Worlds
         /\ Sync(w).k = w.k /\ Sync(w).l = w.l /\ Sync(w).jobs = w.jobs
         /\ Sync(w).j.chunks = w.j.chunks /\ Sync(w).j.final = w.j.final
         /\ Sync(w).j.gated = w.k.gated /\ Sync(w).j.pending = w.k.pending
         /\ Sync(w).j.staging = w.k.staging /\ Sync(w).j.gate = w.k.gate
         /\ Sync(w).j.enrolled = w.k.enrolled /\ Sync(w).j.last_partial = w.k.last_partial
         /\ Sync(w).j.partial_at = w.k.partial_at
         /\ Sync(w).j.stable_text = w.k.stable_text /\ Sync(w).j.stable_bytes = w.k.stable_bytes
         /\ Sync(w).j.ledger = w.k.ledger
<1> DEFINE s == [w.j EXCEPT !.gated = w.k.gated, !.pending = w.k.pending,
                            !.staging = w.k.staging, !.gate = w.k.gate,
                            !.enrolled = w.k.enrolled, !.last_partial = w.k.last_partial,
                            !.partial_at = w.k.partial_at,
                            !.stable_text = w.k.stable_text,
                            !.stable_bytes = w.k.stable_bytes, !.ledger = w.k.ledger]
<1>1. w.k \in Locals /\ w.j \in Sessions  BY WorldFields
<1>2. s \in Sessions  BY <1>1 DEF Sessions, Locals
<1>3. /\ s.chunks = w.j.chunks /\ s.final = w.j.final
      /\ s.gated = w.k.gated /\ s.pending = w.k.pending
      /\ s.staging = w.k.staging /\ s.gate = w.k.gate
      /\ s.enrolled = w.k.enrolled /\ s.last_partial = w.k.last_partial
      /\ s.partial_at = w.k.partial_at
      /\ s.stable_text = w.k.stable_text /\ s.stable_bytes = w.k.stable_bytes
      /\ s.ledger = w.k.ledger
  BY <1>1 DEF Sessions
<1>4. Sync(w) = [w EXCEPT !.j = s]  BY DEF Sync
<1> HIDE DEF s
<1>5. Sync(w) \in Worlds /\ Sync(w).k = w.k /\ Sync(w).l = w.l /\ Sync(w).jobs = w.jobs /\ Sync(w).j = s
  BY <1>2, <1>4 DEF Worlds
<1> QED  BY <1>3, <1>5

LEMMA SyncKeeps ==
  ASSUME NEW w, NEW busy, WorldInv(w, busy)
  PROVE  WorldInv(Sync(w), busy)
BY SyncCopies DEF WorldInv, WorldCore, EmbedInv, PrefixIsDecoded, LocalsInv

\* Moving to another phase.
LEMMA PhaseMoves ==
  ASSUME NEW w \in Worlds, NEW p \in Phases
  PROVE  LET v == [w EXCEPT !.k.phase = p] IN
         /\ v \in Worlds /\ v.l = w.l /\ v.j = w.j /\ v.jobs = w.jobs
         /\ v.k = [w.k EXCEPT !.phase = p]
         /\ v.k \in Locals
<1>1. w.k \in Locals  BY WorldFields
<1>2. [w.k EXCEPT !.phase = p] \in Locals  BY <1>1 DEF Locals
<1>3. [w EXCEPT !.k.phase = p] = [w EXCEPT !.k = [w.k EXCEPT !.phase = p]]  OBVIOUS
<1> QED  BY <1>2, <1>3, UpdateK

\* The locals of two worlds agree in all that LocalsInv reads but the phase.
LEMMA PhaseKeeps ==
  ASSUME NEW w, NEW busy, Calm(w, busy), NEW p \in Phases \ {"unborn"},
         p = "final" => w.k.answer # None
  PROVE  /\ Calm([w EXCEPT !.k.phase = p], busy)
         /\ p # "embed" => WorldInv([w EXCEPT !.k.phase = p], busy)
<1> DEFINE v == [w EXCEPT !.k.phase = p]
<1>1. w \in Worlds /\ w.k \in Locals  BY WorldFields DEF Calm, WorldCore
<1>2. v \in Worlds /\ v.l = w.l /\ v.j = w.j /\ v.jobs = w.jobs /\ v.k = [w.k EXCEPT !.phase = p]
  BY <1>1, PhaseMoves
<1> HIDE DEF v
<1>3. /\ v.k.phase = p /\ v.k.gated = w.k.gated /\ v.k.stable_text = w.k.stable_text
      /\ v.k.stable_bytes = w.k.stable_bytes /\ v.k.commit = w.k.commit
      /\ v.k.partial = w.k.partial /\ v.k.journal = w.k.journal
      /\ v.k.events = w.k.events /\ v.k.answer = w.k.answer
  BY <1>1, <1>2 DEF Locals
<1>4. LocalsInv(v.k) /\ v.k.phase # "unborn"
  BY <1>3 DEF Calm, WorldCore, LocalsInv, PrefixIsDecoded, CommitIsOfGated
<1>5. JobsInv(v.k, v.jobs, busy)
  BY <1>2, <1>3 DEF Calm, WorldCore, JobsInv, Waits
<1> QED  BY <1>2, <1>3, <1>4, <1>5 DEF Calm, WorldCore, WorldInv, EmbedInv, v

-----------------------------------------------------------------------------
(***************************************************************************)
(* Background decodes are submitted.                                       *)
(***************************************************************************)

\* The tail that no commit has sealed yet.
LEMMA TailIsAudio ==
  ASSUME NEW k \in Locals
  PROVE  /\ UnsealedTail(k) \in Audio
         /\ Len(UnsealedTail(k)) = IF k.stable_bytes + 1 <= Len(k.gated)
                                   THEN Len(k.gated) - k.stable_bytes ELSE 0
         /\ \A i \in 1 .. Len(k.gated) - k.stable_bytes :
              UnsealedTail(k)[i] = k.gated[k.stable_bytes + i]
<1>1. k.gated \in Seq(Units) /\ k.stable_bytes \in Nat  BY DEF Locals, Audio
<1> DEFINE m == k.stable_bytes + 1  n == Len(k.gated)
<1>2. m \in Nat \ {0} /\ n \in Nat /\ n - m + 1 = n - k.stable_bytes  BY <1>1
<1>3. \A i \in m .. n : k.gated[i] \in Units  BY <1>1, <1>2
<1>4. /\ SubSeq(k.gated, m, n) \in Seq(Units)
      /\ Len(SubSeq(k.gated, m, n)) = IF m <= n THEN n - m + 1 ELSE 0
      /\ \A i \in 1 .. n - m + 1 : SubSeq(k.gated, m, n)[i] = k.gated[m + i - 1]
  <2> HIDE DEF m, n
  <2> QED  BY <1>2, <1>3, SubSeqProperties
<1>5. \A i \in 1 .. n - m + 1 : m + i - 1 = k.stable_bytes + i  BY <1>1, <1>2
<1>6. UnsealedTail(k) = SubSeq(k.gated, m, n)  BY DEF UnsealedTail
<1> HIDE DEF m, n
<1>7. m = k.stable_bytes + 1 /\ n = Len(k.gated)  BY DEF m, n
<1> QED  BY <1>2, <1>4, <1>5, <1>6, <1>7, ZenonT(60) DEF Audio

LEMMA SuffixIsAudio ==
  ASSUME NEW s \in Audio, NEW n \in Nat
  PROVE  /\ Suffix(s, n) \in Audio
         /\ Len(Suffix(s, n)) <= n
         /\ Len(Suffix(s, n)) <= Len(s)
         /\ \A i \in 1 .. Len(Suffix(s, n)) : Suffix(s, n)[i] = s[Len(s) - Len(Suffix(s, n)) + i]
<1>1. s \in Seq(Units) /\ Len(s) \in Nat  BY DEF Audio
<1>2. CASE Len(s) <= n
  BY <1>1, <1>2 DEF Suffix, Audio
<1>3. CASE ~(Len(s) <= n)
  <2> DEFINE m == Len(s) - n + 1
  <2>1. m \in Nat \ {0} /\ m <= Len(s) + 1 /\ Len(s) - m + 1 = n  BY <1>1, <1>3
  <2>2. \A i \in m .. Len(s) : s[i] \in Units  BY <1>1, <2>1
  <2>3. /\ SubSeq(s, m, Len(s)) \in Seq(Units)
        /\ Len(SubSeq(s, m, Len(s))) = n
        /\ \A i \in 1 .. n : SubSeq(s, m, Len(s))[i] = s[m + i - 1]
    <3> HIDE DEF m
    <3> QED  BY <1>1, <2>1, <2>2, SubSeqProperties
  <2>4. \A i \in 1 .. n : m + i - 1 = Len(s) - n + i  BY <1>1
  <2>5. Suffix(s, n) = SubSeq(s, m, Len(s))  BY <1>3 DEF Suffix
  <2>6. \A i \in 1 .. n : SubSeq(s, m, Len(s))[i] = s[Len(s) - n + i]
    <3> HIDE DEF m
    <3> QED  BY <2>3, <2>4
  <2>7. n <= Len(s)  BY <1>1, <1>3
  <2> HIDE DEF m
  <2> QED  BY <2>3, <2>5, <2>6, <2>7 DEF Audio
<1> QED  BY <1>2, <1>3

LEMMA SnapshotType ==
  ASSUME NEW k \in Locals
  PROVE  /\ PartialSnapshot(k).audio \in Audio
         /\ PartialSnapshot(k).at \in Nat \union {None}
         /\ PartialSnapshot(k).prefix \in Audio
<1>1. /\ k.pending \in Audio /\ k.raw \in Audio /\ k.stable_bytes \in Nat
      /\ k.stable_text \in Audio /\ PARTIAL_WINDOW \in Nat
  BY SessionAssumption DEF Locals
<1>2. UnsealedTail(k) \o k.pending \in Audio
  BY <1>1, TailIsAudio, ConcatProperties DEF Audio
<1>3. Suffix(k.raw, PARTIAL_WINDOW) \in Audio  BY <1>1, SuffixIsAudio
<1>4. << >> \in Audio  BY DEF Audio
<1> QED  BY <1>1, <1>2, <1>3, <1>4 DEF PartialSnapshot

\* What maybe_send_partial starts.
NewPartial(k) ==
  [audio |-> PartialSnapshot(k).audio, at |-> PartialSnapshot(k).at,
   prefix |-> PartialSnapshot(k).prefix, signal |-> Len(k.raw),
   text |-> << >>, stage |-> "decode"]

LEMMA MaybeSendPartialDoes ==
  ASSUME NEW w \in Worlds, NEW due
  PROVE  LET v == MaybeSendPartial(w, due) IN
         \/ v = w
         \/ /\ w.k.partial = None
            /\ v \in Worlds /\ v.l = w.l /\ v.j = w.j
            /\ NewPartial(w.k) \in Partials
            /\ v.k \in Locals /\ v.k = [w.k EXCEPT !.partial = NewPartial(w.k)]
            /\ v.jobs = Append(w.jobs, "partial")
<1> DEFINE v == MaybeSendPartial(w, due)
           k == [w.k EXCEPT !.partial = NewPartial(w.k)]
           jobs == Append(w.jobs, "partial")
<1> SUFFICES ASSUME v # w
             PROVE  /\ w.k.partial = None
                    /\ v \in Worlds /\ v.l = w.l /\ v.j = w.j
                    /\ NewPartial(w.k) \in Partials
                    /\ v.k \in Locals /\ v.k = k /\ v.jobs = jobs
  BY Zenon
<1>1. w.k \in Locals /\ w.jobs \in Seq(JobKinds)  BY WorldFields
<1>2. w.k.partial = None  BY DEF MaybeSendPartial
<1>3. v = [w EXCEPT !.k = k, !.jobs = jobs]
  BY DEF MaybeSendPartial, NewPartial
<1>4. Len(w.k.raw) \in Nat  BY <1>1 DEF Locals, Audio
<1>5. NewPartial(w.k) \in Partials
  <2>1. << >> \in Audio  BY DEF Audio
  <2> QED  BY <1>1, <1>4, <2>1, SnapshotType DEF NewPartial, Partials
<1>6. k \in Locals  BY <1>1, <1>5 DEF Locals
<1>7. jobs \in Seq(JobKinds)  BY <1>1, AppendProperties DEF JobKinds
<1> HIDE DEF k, v, jobs
<1>8. v \in Worlds /\ v.k = k /\ v.l = w.l /\ v.j = w.j /\ v.jobs = jobs
  BY <1>3, <1>6, <1>7 DEF Worlds
<1> QED  BY <1>2, <1>5, <1>6, <1>8

\* What maybe_commit_stable_prefix starts.
NewCommit(k) ==
  [start |-> k.stable_bytes, upto |-> Len(k.gated), audio |-> UnsealedTail(k)]

LEMMA MaybeCommitDoes ==
  ASSUME NEW w \in Worlds
  PROVE  LET v == MaybeCommitStablePrefix(w) IN
         \/ v = w
         \/ /\ w.k.commit = None
            /\ v \in Worlds /\ v.l = w.l /\ v.j = w.j
            /\ NewCommit(w.k) \in Commits
            /\ v.k \in Locals /\ v.k = [w.k EXCEPT !.commit = NewCommit(w.k)]
            /\ v.jobs = Append(w.jobs, "commit")
<1> DEFINE v == MaybeCommitStablePrefix(w)
           k == [w.k EXCEPT !.commit = NewCommit(w.k)]
           jobs == Append(w.jobs, "commit")
<1> SUFFICES ASSUME v # w
             PROVE  /\ w.k.commit = None
                    /\ v \in Worlds /\ v.l = w.l /\ v.j = w.j
                    /\ NewCommit(w.k) \in Commits
                    /\ v.k \in Locals /\ v.k = k /\ v.jobs = jobs
  BY Zenon
<1>1. w.k \in Locals /\ w.jobs \in Seq(JobKinds)  BY WorldFields
<1>2. w.k.commit = None  BY DEF MaybeCommitStablePrefix
<1>3. v = [w EXCEPT !.k = k, !.jobs = jobs]
  BY DEF MaybeCommitStablePrefix, NewCommit
<1>4. Len(w.k.gated) \in Nat /\ w.k.stable_bytes \in Nat  BY <1>1, SMTT(30) DEF Locals, Audio
<1>5. NewCommit(w.k) \in Commits
  BY <1>1, <1>4, TailIsAudio DEF NewCommit, Commits
<1>6. k \in Locals  BY <1>1, <1>5 DEF Locals
<1>7. jobs \in Seq(JobKinds)  BY <1>1, AppendProperties DEF JobKinds
<1> HIDE DEF k, v, jobs
<1>8. v \in Worlds /\ v.k = k /\ v.l = w.l /\ v.j = w.j /\ v.jobs = jobs
  BY <1>3, <1>6, <1>7 DEF Worlds
<1> QED  BY <1>2, <1>5, <1>6, <1>8

\* One job more, of a kind that is not there yet.
LEMMA AppendInjective1 ==
  ASSUME NEW S, NEW s \in Seq(S), IsInjective(s), NEW e \in S,
         \A i \in DOMAIN s : s[i] # e
  PROVE  IsInjective(Append(s, e))
<1>1. /\ DOMAIN s = 1 .. Len(s) /\ Len(s) \in Nat
      /\ DOMAIN Append(s, e) = 1 .. Len(s) + 1
      /\ Append(s, e)[Len(s) + 1] = e
      /\ \A i \in 1 .. Len(s) : Append(s, e)[i] = s[i]
  BY AppendProperties, LenProperties
<1> DEFINE a == Append(s, e)
<1> HIDE DEF a
<1>2. ASSUME NEW i \in DOMAIN a, NEW j \in DOMAIN a, a[i] = a[j]  PROVE i = j
  <2>1. (i \in 1 .. Len(s) \/ i = Len(s) + 1) /\ (j \in 1 .. Len(s) \/ j = Len(s) + 1)
    BY <1>1 DEF a
  <2> QED  BY <1>1, <1>2, <2>1 DEF IsInjective, a
<1> QED  BY <1>2 DEF IsInjective, a

\* Submitting a decode that the connection now waits for.
LEMMA JobsGrow ==
  ASSUME NEW k, NEW v, NEW busy, NEW jobs \in Seq(JobKinds), NEW job \in JobKinds,
         JobsInv(k, jobs, busy), ~Waits(k, job), Waits(v, job),
         \A other \in JobKinds \union busy : Waits(k, other) => Waits(v, other)
  PROVE  JobsInv(v, Append(jobs, job), busy)
<1>1. \A i \in DOMAIN jobs : jobs[i] \in JobKinds  OBVIOUS
<1>2. job \notin busy /\ \A i \in DOMAIN jobs : jobs[i] # job
  BY DEF JobsInv
<1>3. IsInjective(Append(jobs, job))
  BY <1>2, AppendInjective1 DEF JobsInv
<1>4. \A i \in DOMAIN Append(jobs, job) :
        Append(jobs, job)[i] = job \/ \E n \in DOMAIN jobs : Append(jobs, job)[i] = jobs[n]
  <2>1. /\ DOMAIN jobs = 1 .. Len(jobs) /\ Len(jobs) \in Nat
        /\ DOMAIN Append(jobs, job) = 1 .. Len(jobs) + 1
        /\ Append(jobs, job)[Len(jobs) + 1] = job
        /\ \A i \in 1 .. Len(jobs) : Append(jobs, job)[i] = jobs[i]
    BY AppendProperties, LenProperties
  <2>2. \A i \in 1 .. Len(jobs) + 1 : i \in 1 .. Len(jobs) \/ i = Len(jobs) + 1
    BY <2>1
  <2> QED  BY <2>1, <2>2, Zenon
<1> DEFINE a == Append(jobs, job)
<1> HIDE DEF a
<1>5. ASSUME NEW i \in DOMAIN a  PROVE a[i] \notin busy /\ Waits(v, a[i])
  <2>1. CASE a[i] = job  BY <2>1, <1>2
  <2>2. ASSUME NEW n \in DOMAIN jobs, a[i] = jobs[n]  PROVE a[i] \notin busy /\ Waits(v, a[i])
    BY <2>2, <1>1 DEF JobsInv
  <2> QED  BY <1>4, <2>1, <2>2 DEF a
<1> QED  BY <1>3, <1>5 DEF JobsInv, a

LEMMA MaybeSendPartialKeeps ==
  ASSUME NEW w, NEW busy, NEW due, WorldInv(w, busy)
  PROVE  WorldInv(MaybeSendPartial(w, due), busy)
<1> DEFINE v == MaybeSendPartial(w, due)
<1> SUFFICES WorldInv(v, busy)  OBVIOUS
<1>1. w \in Worlds /\ w.k \in Locals /\ w.jobs \in Seq(JobKinds)  BY WorldFields DEF WorldInv, WorldCore
<1>2. CASE v = w  BY <1>2
<1>3. CASE /\ w.k.partial = None
           /\ v \in Worlds /\ v.l = w.l /\ v.j = w.j
           /\ NewPartial(w.k) \in Partials
           /\ v.k \in Locals /\ v.k = [w.k EXCEPT !.partial = NewPartial(w.k)]
           /\ v.jobs = Append(w.jobs, "partial")
  <2> HIDE DEF v
  <2>1. /\ v.k.phase = w.k.phase /\ v.k.gated = w.k.gated /\ v.k.stable_text = w.k.stable_text
        /\ v.k.stable_bytes = w.k.stable_bytes /\ v.k.commit = w.k.commit
        /\ v.k.partial = NewPartial(w.k) /\ v.k.journal = w.k.journal
        /\ v.k.events = w.k.events /\ v.k.answer = w.k.answer
    BY <1>1, <1>3 DEF Locals
  <2>2. LocalsInv(v.k) /\ v.k.phase # "unborn"
    BY <2>1 DEF WorldInv, WorldCore, LocalsInv, PrefixIsDecoded, CommitIsOfGated
  <2>3. NewPartial(w.k) # None /\ NewPartial(w.k).stage = "decode"
    BY <1>3, NoneAssumption DEF NewPartial
  <2>4. ~Waits(w.k, "partial") /\ Waits(v.k, "partial")
    BY <1>3, <2>1, <2>3 DEF Waits
  <2>5. \A other \in JobKinds \union busy : Waits(w.k, other) => Waits(v.k, other)
    BY <1>3, <2>1, <2>3 DEF Waits
  <2>6. JobsInv(v.k, v.jobs, busy)
    <3>1. "partial" \in JobKinds  BY DEF JobKinds
    <3>2. JobsInv(w.k, w.jobs, busy)  BY DEF WorldInv, WorldCore
    <3>3. v.jobs = Append(w.jobs, "partial")  BY <1>3
    <3>4. JobsInv(v.k, Append(w.jobs, "partial"), busy)
      BY <1>1, <2>4, <2>5, <3>1, <3>2, JobsGrow, Zenon
    <3> QED  BY <3>3, <3>4
  <2> QED  BY <1>3, <2>1, <2>2, <2>6 DEF WorldInv, WorldCore, EmbedInv
<1> HIDE DEF v
<1> QED  BY <1>1, <1>2, <1>3, MaybeSendPartialDoes DEF v

LEMMA MaybeCommitKeeps ==
  ASSUME NEW w, NEW busy, WorldInv(w, busy)
  PROVE  WorldInv(MaybeCommitStablePrefix(w), busy)
<1> DEFINE v == MaybeCommitStablePrefix(w)
<1> SUFFICES WorldInv(v, busy)  OBVIOUS
<1>1. w \in Worlds /\ w.k \in Locals /\ w.jobs \in Seq(JobKinds)  BY WorldFields DEF WorldInv, WorldCore
<1>2. CASE v = w  BY <1>2
<1>3. CASE /\ w.k.commit = None
           /\ v \in Worlds /\ v.l = w.l /\ v.j = w.j
           /\ NewCommit(w.k) \in Commits
           /\ v.k \in Locals /\ v.k = [w.k EXCEPT !.commit = NewCommit(w.k)]
           /\ v.jobs = Append(w.jobs, "commit")
  <2> HIDE DEF v
  <2>1. /\ v.k.phase = w.k.phase /\ v.k.gated = w.k.gated /\ v.k.stable_text = w.k.stable_text
        /\ v.k.stable_bytes = w.k.stable_bytes /\ v.k.commit = NewCommit(w.k)
        /\ v.k.partial = w.k.partial /\ v.k.journal = w.k.journal
        /\ v.k.events = w.k.events /\ v.k.answer = w.k.answer
    BY <1>1, <1>3 DEF Locals
  <2>2. CommitIsOfGated(v.k)
    <3>1. w.k.stable_bytes <= Len(w.k.gated)  BY DEF WorldInv, WorldCore, LocalsInv, PrefixIsDecoded
    <3>2. Len(w.k.gated) \in Nat  BY <1>1 DEF Locals, Audio
    <3>3. /\ v.k.commit.start = w.k.stable_bytes /\ v.k.commit.upto = Len(w.k.gated)
          /\ v.k.commit.audio = UnsealedTail(w.k)
      BY <2>1 DEF NewCommit
    <3>4. v.k.commit.audio = SubSeq(w.k.gated, w.k.stable_bytes + 1, Len(w.k.gated))
      BY <3>3, Zenon DEF UnsealedTail
    <3> QED  BY <2>1, <3>1, <3>2, <3>3, <3>4 DEF CommitIsOfGated
  <2>3. LocalsInv(v.k) /\ v.k.phase # "unborn"
    BY <2>1, <2>2 DEF WorldInv, WorldCore, LocalsInv, PrefixIsDecoded
  <2>4. ~Waits(w.k, "commit") /\ Waits(v.k, "commit")
    BY <1>3, <2>1, NoneAssumption DEF Waits
  <2>5. \A other \in JobKinds \union busy : Waits(w.k, other) => Waits(v.k, other)
    BY <1>3, <2>1, <2>4 DEF Waits
  <2>6. JobsInv(v.k, v.jobs, busy)
    <3>1. "commit" \in JobKinds  BY DEF JobKinds
    <3>2. JobsInv(w.k, w.jobs, busy)  BY DEF WorldInv, WorldCore
    <3>3. v.jobs = Append(w.jobs, "commit")  BY <1>3
    <3>4. JobsInv(v.k, Append(w.jobs, "commit"), busy)
      BY <1>1, <2>4, <2>5, <3>1, <3>2, JobsGrow, Zenon
    <3> QED  BY <3>3, <3>4
  <2> QED  BY <1>3, <2>1, <2>3, <2>6 DEF WorldInv, WorldCore, EmbedInv
<1> HIDE DEF v
<1> QED  BY <1>1, <1>2, <1>3, MaybeCommitDoes DEF v

LEMMA BackgroundKeeps ==
  ASSUME NEW w, NEW busy, NEW due, WorldInv(w, busy)
  PROVE  WorldInv(Background(w, due), busy)
BY MaybeSendPartialKeeps, MaybeCommitKeeps DEF Background

-----------------------------------------------------------------------------
(***************************************************************************)
(* What a change of a world must leave alone.                              *)
(***************************************************************************)

\* The decodes a connection waits for, and the journal it works on, are kept.
SameWaits(a, b) ==
  a.commit = b.commit /\ a.partial = b.partial /\ a.journal = b.journal

SamePrefix(a, b) ==
  /\ a.gated = b.gated
  /\ a.stable_text = b.stable_text /\ a.stable_bytes = b.stable_bytes

PhaseInv(k) ==
  /\ k.phase # "unborn"
  /\ k.phase = "final" => k.answer # None

LEMMA CalmKeeps ==
  ASSUME NEW w, NEW v, NEW busy, Calm(w, busy), v \in Worlds, v.jobs = << >>,
         SameWaits(v.k, w.k), PrefixIsDecoded(v.k), CommitIsOfGated(v.k),
         PhaseInv(v.k), PrefixIsDecoded(v.j)
  PROVE  Calm(v, busy)
<1>1. LocalsInv(v.k) /\ v.k.phase # "unborn"
  BY DEF Calm, WorldCore, LocalsInv, SameWaits, PhaseInv
<1>2. \A job \in {"commit", "partial"} : Waits(w.k, job) => Waits(v.k, job)
  BY DEF Waits, SameWaits
<1>3. JobsInv(v.k, v.jobs, busy)
  <2>1. JobsInv(w.k, << >>, busy) /\ busy \subseteq {"commit", "partial"}
    BY DEF Calm, WorldCore
  <2> QED  BY <1>2, <2>1 DEF JobsInv
<1> QED  BY <1>1, <1>3 DEF Calm, WorldCore

\* The prefix is the same.
LEMMA CalmStays ==
  ASSUME NEW w, NEW v, NEW busy, Calm(w, busy), v \in Worlds, v.jobs = << >>,
         SameWaits(v.k, w.k), SamePrefix(v.k, w.k), PhaseInv(v.k), PrefixIsDecoded(v.j)
  PROVE  Calm(v, busy)
<1>1. PrefixIsDecoded(v.k)
  BY DEF Calm, WorldCore, LocalsInv, PrefixIsDecoded, SamePrefix
<1>2. CommitIsOfGated(v.k)
  BY DEF Calm, WorldCore, LocalsInv, CommitIsOfGated, SamePrefix, SameWaits
<1> QED  BY <1>1, <1>2, CalmKeeps

LEMMA SubSeqOfConcat ==
  ASSUME NEW S, NEW s \in Seq(S), NEW t \in Seq(S), NEW m \in Nat \ {0}, NEW n \in Nat,
         n <= Len(s)
  PROVE  SubSeq(s \o t, m, n) = SubSeq(s, m, n)
<1> DEFINE c == s \o t
<1>1. /\ c \in Seq(S) /\ Len(c) = Len(s) + Len(t)
      /\ \A i \in 1 .. Len(s) : c[i] = s[i]
      /\ Len(s) \in Nat /\ Len(t) \in Nat
  BY ConcatProperties
<1> HIDE DEF c
<1>2. (\A i \in m .. n : s[i] \in S) /\ (\A i \in m .. n : c[i] \in S)
  BY <1>1
<1>3. /\ SubSeq(s, m, n) \in Seq(S)
      /\ Len(SubSeq(s, m, n)) = IF m <= n THEN n - m + 1 ELSE 0
      /\ \A i \in 1 .. n - m + 1 : SubSeq(s, m, n)[i] = s[m + i - 1]
  BY <1>2, SubSeqProperties
<1>4. /\ SubSeq(c, m, n) \in Seq(S)
      /\ Len(SubSeq(c, m, n)) = IF m <= n THEN n - m + 1 ELSE 0
      /\ \A i \in 1 .. n - m + 1 : SubSeq(c, m, n)[i] = c[m + i - 1]
  BY <1>2, SubSeqProperties
<1>5. \A i \in 1 .. n - m + 1 : m + i - 1 \in 1 .. Len(s)  BY <1>1
<1>6. \A i \in 1 .. Len(SubSeq(s, m, n)) : SubSeq(c, m, n)[i] = SubSeq(s, m, n)[i]
  BY <1>1, <1>3, <1>4, <1>5
<1> QED  BY <1>3, <1>4, <1>6, SeqEqual DEF c

\* The gated audio has grown.
LEMMA CalmGrows ==
  ASSUME NEW w, NEW v, NEW busy, Calm(w, busy), v \in Worlds, v.jobs = << >>,
         NEW more \in Audio, v.k.gated = w.k.gated \o more,
         v.k.stable_text = w.k.stable_text, v.k.stable_bytes = w.k.stable_bytes,
         SameWaits(v.k, w.k), PhaseInv(v.k), PrefixIsDecoded(v.j)
  PROVE  Calm(v, busy)
<1>1. /\ w.k.gated \in Seq(Units) /\ w.k.stable_bytes \in Nat /\ Len(w.k.gated) \in Nat
      /\ w.k.commit \in Commits \union {None}
  <2>1. w.k \in Locals  BY WorldFields DEF Calm, WorldCore
  <2> QED  BY <2>1, LenProperties DEF Locals, Audio
<1>2. Len(v.k.gated) = Len(w.k.gated) + Len(more) /\ Len(more) \in Nat
  BY <1>1, ConcatProperties DEF Audio
<1>3. \A m \in Nat \ {0}, n \in Nat : n <= Len(w.k.gated) =>
        SubSeq(v.k.gated, m, n) = SubSeq(w.k.gated, m, n)
  BY <1>1, SubSeqOfConcat DEF Audio
<1>4. PrefixIsDecoded(v.k)
  <2>1. w.k.stable_bytes <= Len(w.k.gated)
        /\ w.k.stable_text = SubSeq(w.k.gated, 1, w.k.stable_bytes)
    BY DEF Calm, WorldCore, LocalsInv, PrefixIsDecoded
  <2>2. SubSeq(v.k.gated, 1, w.k.stable_bytes) = SubSeq(w.k.gated, 1, w.k.stable_bytes)
    BY <1>1, <1>3, <2>1
  <2> QED  BY <1>1, <1>2, <2>1, <2>2 DEF PrefixIsDecoded
<1>5. CommitIsOfGated(v.k)
  <2> SUFFICES ASSUME v.k.commit # None  PROVE CommitIsOfGated(v.k)
    BY DEF CommitIsOfGated
  <2> DEFINE t == w.k.commit
  <2>1. v.k.commit = t /\ t # None  BY DEF SameWaits
  <2>2. t.start \in Nat /\ t.upto \in Nat  BY <1>1, <2>1 DEF Commits
  <2>3. t.start <= t.upto /\ t.upto <= Len(w.k.gated)
        /\ t.audio = SubSeq(w.k.gated, t.start + 1, t.upto)
    BY <2>1 DEF Calm, WorldCore, LocalsInv, CommitIsOfGated
  <2> HIDE DEF t
  <2>4. SubSeq(v.k.gated, t.start + 1, t.upto) = SubSeq(w.k.gated, t.start + 1, t.upto)
    <3>1. t.start + 1 \in Nat \ {0}  BY <2>2
    <3> QED  BY <1>3, <2>2, <2>3, <3>1, Zenon
  <2>5. t.upto <= Len(v.k.gated)  BY <1>1, <1>2, <2>2, <2>3
  <2> QED  BY <2>1, <2>3, <2>4, <2>5, Zenon DEF CommitIsOfGated
<1> QED  BY <1>4, <1>5, CalmKeeps

-----------------------------------------------------------------------------
(***************************************************************************)
(* The journal's chunks.                                                   *)
(***************************************************************************)

\* Where the chunks of the recording begin.
LEMMA ChunkStartIs ==
  /\ Captured \in Nat /\ LastSeq \in Nat /\ Recorded \in Nat
  /\ \A n \in 0 .. Captured : ChunkStart[n] \in Nat /\ ChunkStart[n] <= Recorded
  /\ ChunkStart[0] = 0 /\ ChunkStart[Captured] = Recorded
  /\ \A m, n \in 0 .. Captured : m <= n => ChunkStart[m] <= ChunkStart[n]
  /\ \A s \in Seqs : s \in 0 .. Captured /\ s + 1 \in 0 .. Captured
<1>1. LastSeq \in Nat /\ Captured = LastSeq + 1 /\ Captured \in 0 .. Captured
  BY SessionAssumption DEF Captured
<1>2. \A n \in 0 .. Captured : ChunkStart[n] \in Nat  BY <1>1, RecordingAssumption
<1>3. \A s \in Seqs : s \in 0 .. Captured /\ s + 1 \in 0 .. Captured  BY <1>1 DEF Seqs
<1>4. \A m, n \in 0 .. Captured : m <= n => ChunkStart[m] <= ChunkStart[n]
  BY <1>1, RecordingAssumption
<1>5. \A n \in 0 .. Captured : ChunkStart[n] <= Recorded
  BY <1>1, <1>4 DEF Recorded
<1> QED  BY <1>1, <1>2, <1>3, <1>4, <1>5, RecordingAssumption DEF Recorded

\* The units of a chunk are the stretch of the recording between two starts.
Stretch(s) == ChunkStart[s] .. ChunkStart[s + 1] - 1

LEMMA PayloadIs ==
  ASSUME NEW s \in Seqs
  PROVE  /\ Payload(s) \in Audio
         /\ ToSet(Payload(s)) = Stretch(s)
         /\ \A i, j \in DOMAIN Payload(s) : i < j => Payload(s)[i] < Payload(s)[j]
         /\ Len(Payload(s)) = ChunkStart[s + 1] - ChunkStart[s]
         /\ Len(Payload(s)) \in Nat
         /\ \A i \in 1 .. Len(Payload(s)) : Payload(s)[i] = ChunkStart[s] + i - 1
<1> DEFINE a == ChunkStart[s]  b == ChunkStart[s + 1]  n == b - a  p == Payload(s)
<1>1. a \in Nat /\ b \in Nat /\ a <= b /\ b <= Recorded /\ Recorded \in Nat
  <2>1. s \in 0 .. Captured /\ s + 1 \in 0 .. Captured /\ s <= s + 1
    BY ChunkStartIs DEF Seqs
  <2> QED  BY <2>1, ChunkStartIs
<1>2. p = [i \in 1 .. n |-> a + i - 1]  BY DEF Payload
<1>3. Stretch(s) = a .. b - 1  BY DEF Stretch
<1> HIDE DEF a, b, p
<1>4. n \in Nat /\ \A i \in 1 .. n : a + i - 1 \in Units  BY <1>1 DEF Units
<1> HIDE DEF n
<1>5. p \in [1 .. n -> Units]  BY <1>2, <1>4
<1>6. p \in Seq(Units) /\ Len(p) = n /\ DOMAIN p = 1 .. n
  <2>1. p \in Seq(Units)  BY <1>4, <1>5, SeqDef
  <2>2. DOMAIN p = 1 .. n  BY <1>5
  <2> QED  BY <1>4, <2>1, <2>2, LenProperties
<1>7. \A i \in 1 .. n : p[i] = a + i - 1  BY <1>2
<1>8. ToSet(p) = a .. b - 1
  <2>1. \A u \in a .. b - 1 : u - a + 1 \in 1 .. n /\ p[u - a + 1] = u
    <3>1. \A u \in a .. b - 1 : u - a + 1 \in 1 .. n /\ a + (u - a + 1) - 1 = u
      BY <1>1 DEF n
    <3> QED  BY <3>1, <1>7
  <2>2. \A i \in 1 .. n : p[i] \in a .. b - 1
    <3>1. \A i \in 1 .. n : a + i - 1 \in a .. b - 1  BY <1>1 DEF n
    <3> QED  BY <3>1, <1>7
  <2> QED  BY <1>6, <2>1, <2>2 DEF ToSet
<1>9. \A i, j \in 1 .. n : i < j => p[i] < p[j]  BY <1>1, <1>4, <1>7
<1> QED  BY <1>3, <1>4, <1>6, <1>7, <1>8, <1>9 DEF n, p, a, b, Audio

\* The units of these chunks.
LEMMA ArrivedIs ==
  ASSUME NEW chunks \in SUBSET Seqs
  PROVE  /\ Arrived(chunks) = UNION {Stretch(s) : s \in chunks}
         /\ Arrived(chunks) \subseteq Units
<1>1. \A s \in chunks : ToSet(Payload(s)) = Stretch(s)  BY PayloadIs
<1>2. \A s \in chunks : ToSet(Payload(s)) \subseteq Units  BY PayloadIs DEF Audio, ToSet
<1> QED  BY <1>1, <1>2 DEF Arrived

\* raw_audio() joins the units of every accepted chunk once, in their order.
LEMMA RawAudioIs ==
  ASSUME NEW chunks \in SUBSET Seqs
  PROVE  /\ RawAudio(chunks) \in Audio
         /\ \A i \in DOMAIN RawAudio(chunks) : RawAudio(chunks)[i] \in Arrived(chunks)
         /\ \A u \in Arrived(chunks) : \E i \in DOMAIN RawAudio(chunks) : RawAudio(chunks)[i] = u
         /\ \A i, j \in DOMAIN RawAudio(chunks) :
              i < j => RawAudio(chunks)[i] < RawAudio(chunks)[j]
<1> DEFINE N == Captured
           turn == [i \in 1 .. N |-> [a \in Audio |->
                      IF i - 1 \in chunks THEN a \o Payload(i - 1) ELSE a]]
           Loop(run) == run = [n \in 0 .. N |->
                          IF n = 0 THEN << >>
                          ELSE IF n - 1 \in chunks THEN run[n - 1] \o Payload(n - 1)
                          ELSE run[n - 1]]
           after == CHOOSE run : Loop(run)
<1>1. N \in Nat /\ LastSeq \in Nat  BY SessionAssumption DEF Captured
<1>2. \A i \in 1 .. N : i - 1 \in Seqs  BY <1>1 DEF Seqs, Captured
<1>3. turn \in [1 .. N -> [Audio -> Audio]]
  <2>1. \A i \in 1 .. N, a \in Audio : a \o Payload(i - 1) \in Audio
    BY <1>2, PayloadIs, ConcatProperties DEF Audio
  <2> HIDE DEF N
  <2> QED  BY <2>1
<1>4. PICK f \in [0 .. N -> Audio] : IsRun(f, N, << >>, turn)
  <2>1. << >> \in Audio  BY DEF Audio
  <2> HIDE DEF N, turn
  <2> QED  BY <1>1, <1>3, <2>1, LoopHasRun, Zenon
<1>5. Loop(f)
  <2> HIDE DEF N
  <2>1. \A i \in 1 .. N : f[i] = IF i - 1 \in chunks THEN f[i - 1] \o Payload(i - 1) ELSE f[i - 1]
    <3>1. TAKE i \in 1 .. N
    <3>2. i - 1 \in 0 .. N  BY <1>1
    <3>3. f[i - 1] \in Audio  BY <3>2
    <3>4. turn[i] = [a \in Audio |-> IF i - 1 \in chunks THEN a \o Payload(i - 1) ELSE a]
      OBVIOUS
    <3> QED  BY <1>4, <3>3, <3>4 DEF IsRun
  <2>2. \A i \in 0 .. N : i = 0 \/ i \in 1 .. N  BY <1>1
  <2> HIDE DEF turn
  <2>3. f = [n \in 0 .. N |-> IF n = 0 THEN << >>
                              ELSE IF n - 1 \in chunks THEN f[n - 1] \o Payload(n - 1)
                              ELSE f[n - 1]]
    BY <2>1, <2>2, <1>4 DEF IsRun
  <2> QED  BY <2>3
<1>6. Loop(after)
  <2> HIDE DEF Loop
  <2> QED  BY <1>5
<1>7. RawAudio(chunks) = after[N]
  BY DEF RawAudio
<1>8. after[0] = << >>
      /\ \A i \in 1 .. N : after[i] = IF i - 1 \in chunks THEN after[i - 1] \o Payload(i - 1)
                                      ELSE after[i - 1]
  <2>1. after = [n \in 0 .. N |-> IF n = 0 THEN << >>
                                  ELSE IF n - 1 \in chunks THEN after[n - 1] \o Payload(n - 1)
                                  ELSE after[n - 1]]
    BY <1>6
  <2> HIDE DEF after, N, Loop
  <2>2. after[0] = << >>  BY <2>1, <1>1
  <2>3. ASSUME NEW i \in 1 .. N
        PROVE  after[i] = IF i - 1 \in chunks THEN after[i - 1] \o Payload(i - 1)
                          ELSE after[i - 1]
    <3>1. i \in 0 .. N /\ i # 0  BY <1>1
    <3> QED  BY <2>1, <3>1
  <2> QED  BY <2>2, <2>3
<1> DEFINE A == Arrived(chunks)
           Joins(a, n) ==
             /\ a \in Audio
             /\ \A i \in DOMAIN a : a[i] \in A /\ a[i] < ChunkStart[n]
             /\ \A u \in A : u < ChunkStart[n] => \E i \in DOMAIN a : a[i] = u
             /\ \A i, j \in DOMAIN a : i < j => a[i] < a[j]
<1>9. \A u \in A : u \in Nat /\ u < Recorded
  BY ArrivedIs, ChunkStartIs DEF Units
<1>10. ASSUME NEW n \in 0 .. Captured - 1
       PROVE  /\ n \in Seqs /\ ChunkStart[n] \in Nat /\ ChunkStart[n + 1] \in Nat
              /\ ChunkStart[n] <= ChunkStart[n + 1]
              /\ \A u \in A : ChunkStart[n] <= u /\ u < ChunkStart[n + 1] => n \in chunks
  <2>1. n \in Seqs /\ n \in 0 .. Captured /\ n + 1 \in 0 .. Captured /\ n \in Nat
    BY ChunkStartIs DEF Seqs, Captured
  <2>2. ChunkStart[n] \in Nat /\ ChunkStart[n + 1] \in Nat /\ ChunkStart[n] <= ChunkStart[n + 1]
    BY <2>1, ChunkStartIs
  <2>3. ASSUME NEW u \in A, ChunkStart[n] <= u, u < ChunkStart[n + 1]  PROVE n \in chunks
    <3>1. PICK s \in chunks : u \in Stretch(s)  BY ArrivedIs
    <3>2. s \in 0 .. Captured /\ s + 1 \in 0 .. Captured /\ s \in Nat
      BY ChunkStartIs DEF Seqs
    <3>3. ChunkStart[s] \in Nat /\ ChunkStart[s + 1] \in Nat  BY <3>2, ChunkStartIs
    <3>4. u \in Nat /\ ChunkStart[s] <= u /\ u < ChunkStart[s + 1]
      BY <3>1, <3>3 DEF Stretch
    <3>5. CASE s < n
      <4>1. s + 1 <= n  BY <2>1, <3>2, <3>5
      <4>2. ChunkStart[s + 1] <= ChunkStart[n]  BY <2>1, <3>2, <4>1, ChunkStartIs
      <4> QED  BY <2>2, <2>3, <3>3, <3>4, <4>2
    <3>6. CASE n < s
      <4>1. n + 1 <= s  BY <2>1, <3>2, <3>6
      <4>2. ChunkStart[n + 1] <= ChunkStart[s]  BY <2>1, <3>2, <4>1, ChunkStartIs
      <4> QED  BY <2>2, <2>3, <3>3, <3>4, <4>2
    <3>7. s < n \/ n < s \/ n = s  BY <2>1, <3>2
    <3> QED  BY <3>5, <3>6, <3>7
  <2> QED  BY <2>1, <2>2, <2>3
<1>11. ASSUME NEW a, NEW n \in 0 .. Captured - 1, Joins(a, n), n \in chunks
       PROVE  Joins(a \o Payload(n), n + 1)
  <2> DEFINE p == Payload(n)  b == a \o p  lo == ChunkStart[n]  hi == ChunkStart[n + 1]
  <2>1. n \in Seqs /\ lo \in Nat /\ hi \in Nat /\ lo <= hi  BY <1>10
  <2>2. /\ p \in Audio /\ ToSet(p) = lo .. hi - 1
        /\ \A i, j \in DOMAIN p : i < j => p[i] < p[j]
    BY <2>1, PayloadIs DEF Stretch
  <2>3. lo .. hi - 1 \subseteq A  BY <1>11, ArrivedIs DEF Stretch
  <2> HIDE DEF p, lo, hi, A
  <2>4. /\ a \in Seq(Units) /\ p \in Seq(Units) /\ Len(a) \in Nat /\ Len(p) \in Nat
        /\ DOMAIN a = 1 .. Len(a) /\ DOMAIN p = 1 .. Len(p)
    BY <1>11, <2>2, LenProperties DEF Audio
  <2>5. /\ b \in Audio /\ DOMAIN b = 1 .. Len(a) + Len(p)
        /\ \A i \in 1 .. Len(a) : b[i] = a[i]
        /\ \A i \in 1 .. Len(p) : b[Len(a) + i] = p[i]
    <3>1. b \in Seq(Units) /\ Len(b) = Len(a) + Len(p)  BY <2>4, ConcatProperties
    <3>2. \A i \in 1 .. Len(a) + Len(p) : b[i] = IF i <= Len(a) THEN a[i] ELSE p[i - Len(a)]
      BY <2>4, ConcatProperties
    <3>3. \A i \in 1 .. Len(p) : Len(a) + i \in 1 .. Len(a) + Len(p) /\ ~(Len(a) + i <= Len(a))
                                 /\ Len(a) + i - Len(a) = i
      BY <2>4
    <3>4. \A i \in 1 .. Len(a) : i \in 1 .. Len(a) + Len(p) /\ i <= Len(a)  BY <2>4
    <3>5. DOMAIN b = 1 .. Len(b)  BY <3>1, LenProperties
    <3> HIDE DEF b
    <3> QED  BY <3>1, <3>2, <3>3, <3>4, <3>5 DEF Audio
  <2> HIDE DEF b
  <2>6. \A i \in DOMAIN b : i \in 1 .. Len(a) \/ \E k \in 1 .. Len(p) : i = Len(a) + k
    <3>1. TAKE i \in DOMAIN b
    <3>2. i \in 1 .. Len(a) \/ i - Len(a) \in 1 .. Len(p)  BY <2>4, <2>5
    <3>3. i = Len(a) + (i - Len(a))  BY <2>4, <2>5
    <3> QED  BY <3>2, <3>3
  <2>7. \A i \in 1 .. Len(a) : a[i] \in A /\ a[i] \in Nat /\ a[i] < lo
    BY <1>9, <1>11, <2>4 DEF lo, A
  <2>8. \A i \in 1 .. Len(p) : p[i] \in lo .. hi - 1
    BY <2>2, <2>4 DEF ToSet
  <2>9. \A i \in DOMAIN b : b[i] \in A /\ b[i] < hi
    <3>1. \A i \in 1 .. Len(a) : a[i] < hi  BY <2>1, <2>7
    <3>2. \A i \in 1 .. Len(p) : p[i] \in A /\ p[i] < hi  BY <2>1, <2>3, <2>8
    <3> QED  BY <2>5, <2>6, <2>7, <3>1, <3>2
  <2>10. \A u \in A : u < hi => \E i \in DOMAIN b : b[i] = u
    <3> SUFFICES ASSUME NEW u \in A, u < hi  PROVE \E i \in DOMAIN b : b[i] = u
      OBVIOUS
    <3>1. u \in Nat  BY <1>9 DEF A
    <3>2. CASE u < lo
      <4>1. PICK i \in DOMAIN a : a[i] = u  BY <1>11, <3>2 DEF lo, A
      <4>2. i \in DOMAIN b /\ b[i] = u  BY <2>4, <2>5, <4>1
      <4> QED  BY <4>2
    <3>3. CASE ~(u < lo)
      <4>1. u \in lo .. hi - 1  BY <2>1, <3>1, <3>3
      <4>2. PICK i \in 1 .. Len(p) : p[i] = u  BY <2>2, <2>4, <4>1 DEF ToSet
      <4>3. Len(a) + i \in DOMAIN b /\ b[Len(a) + i] = u  BY <2>4, <2>5, <4>2
      <4> QED  BY <4>3
    <3> QED  BY <3>2, <3>3
  <2>11. \A i, j \in DOMAIN b : i < j => b[i] < b[j]
    <3> SUFFICES ASSUME NEW i \in DOMAIN b, NEW j \in DOMAIN b, i < j  PROVE b[i] < b[j]
      OBVIOUS
    <3>1. CASE j \in 1 .. Len(a)
      <4>1. i \in 1 .. Len(a)  BY <2>4, <2>5, <3>1
      <4> QED  BY <1>11, <2>4, <2>5, <3>1, <4>1
    <3>2. ASSUME NEW m \in 1 .. Len(p), j = Len(a) + m  PROVE b[i] < b[j]
      <4>1. b[j] = p[m] /\ p[m] \in lo .. hi - 1  BY <2>5, <2>8, <3>2
      <4>2. CASE i \in 1 .. Len(a)
        <5>1. b[i] \in Nat /\ b[i] < lo  BY <2>5, <2>7, <4>2
        <5> QED  BY <2>1, <4>1, <5>1
      <4>3. ASSUME NEW k \in 1 .. Len(p), i = Len(a) + k  PROVE b[i] < b[j]
        <5>1. k < m  BY <2>4, <3>2, <4>3
        <5>2. b[i] = p[k]  BY <2>5, <4>3
        <5> QED  BY <2>2, <2>4, <4>1, <5>1, <5>2
      <4> QED  BY <2>6, <4>2, <4>3
    <3> QED  BY <2>6, <3>1, <3>2
  <2> QED  BY <2>5, <2>9, <2>10, <2>11 DEF hi, b, p
<1>12. ASSUME NEW a, NEW n \in 0 .. Captured - 1, Joins(a, n), n \notin chunks
       PROVE  Joins(a, n + 1)
  <2> DEFINE lo == ChunkStart[n]  hi == ChunkStart[n + 1]
  <2>1. lo \in Nat /\ hi \in Nat /\ lo <= hi  BY <1>10
  <2>2. \A u \in A : u < hi => u < lo
    <3>1. \A u \in A : lo <= u /\ u < hi => n \in chunks  BY <1>10
    <3> HIDE DEF lo, hi, A
    <3>2. \A u \in A : u \in Nat  BY <1>9 DEF A
    <3> QED  BY <1>12, <2>1, <3>1, <3>2
  <2>3. \A i \in DOMAIN a : a[i] \in A /\ a[i] \in Nat /\ a[i] < lo  BY <1>9, <1>12
  <2> HIDE DEF lo, hi, A
  <2>4. \A i \in DOMAIN a : a[i] < hi  BY <2>1, <2>3
  <2> QED  BY <1>12, <2>2, <2>3, <2>4 DEF lo, hi
<1>13. \A n \in 0 .. N : Joins(after[n], n)
  <2> DEFINE P == {n \in Nat : n <= N => Joins(after[n], n)}
  <2>1. 0 \in P
    <3>1. << >> \in Audio /\ DOMAIN << >> = {}  BY DEF Audio
    <3>2. ChunkStart[0] = 0 /\ \A u \in A : ~(u < 0)
      BY <1>9, ChunkStartIs
    <3> HIDE DEF after, N, A
    <3>3. Joins(<< >>, 0)  BY <3>1, <3>2
    <3> HIDE DEF Joins
    <3> QED  BY <3>3, <1>8
  <2>2. ASSUME NEW n \in Nat, n \in P  PROVE n + 1 \in P
    <3>1. n + 1 <= N => n \in 0 .. Captured - 1  BY <1>1
    <3> HIDE DEF after, N, Joins
    <3> SUFFICES ASSUME n + 1 <= N  PROVE Joins(after[n + 1], n + 1)
      OBVIOUS
    <3>2. n + 1 \in 1 .. N /\ (n + 1) - 1 = n /\ n <= N  BY <1>1
    <3>3. after[n + 1] = IF n \in chunks THEN after[n] \o Payload(n) ELSE after[n]
      BY <1>8, <3>2
    <3>4. Joins(after[n], n)  BY <2>2, <3>2
    <3>5. CASE n \in chunks  BY <3>1, <3>3, <3>4, <3>5, <1>11
    <3>6. CASE n \notin chunks  BY <3>1, <3>3, <3>4, <3>6, <1>12
    <3> QED  BY <3>5, <3>6
  <2>3. \A n \in Nat : n \in P
    <3> HIDE DEF P
    <3> QED  BY <2>1, <2>2, NatSetInduction
  <2> HIDE DEF after, N, Joins
  <2> QED  BY <2>3, <1>1
<1> HIDE DEF after
<1>14. Joins(after[N], N)
  <2> HIDE DEF N, Joins
  <2> QED  BY <1>1, <1>13
<1>15. \A u \in A : u < ChunkStart[N]  BY <1>9, ChunkStartIs
<1> HIDE DEF N
<1> QED  BY <1>7, <1>14, <1>15

\* The highest chunk below which none is missing exists.
LEMMA HighestContiguousIs ==
  ASSUME NEW chunks \in SUBSET Seqs
  PROVE  /\ HighestContiguous(chunks) \in -1 .. LastSeq
         /\ 0 .. HighestContiguous(chunks) \subseteq chunks
         /\ HighestContiguous(chunks) + 1 \notin chunks
<1>1. LastSeq \in Nat  BY SessionAssumption
<1>2. \E h \in -1 .. LastSeq : 0 .. h \subseteq chunks /\ h + 1 \notin chunks
  <2> SUFFICES ASSUME \A h \in -1 .. LastSeq : 0 .. h \subseteq chunks => h + 1 \in chunks
               PROVE  FALSE
    OBVIOUS
  <2> DEFINE P == {n \in Nat : n <= LastSeq + 1 => 0 .. n \subseteq chunks}
  <2>1. 0 \in P
    <3>1. 0 .. -1 = {} /\ -1 \in -1 .. LastSeq /\ -1 + 1 = 0 /\ 0 .. 0 = {0}  BY <1>1
    <3> QED  BY <3>1
  <2>2. ASSUME NEW n \in Nat, n \in P  PROVE n + 1 \in P
    <3> SUFFICES ASSUME n + 1 <= LastSeq + 1  PROVE 0 .. n + 1 \subseteq chunks
      OBVIOUS
    <3>1. n \in -1 .. LastSeq /\ 0 .. n \subseteq chunks  BY <2>2, <1>1
    <3>2. n + 1 \in chunks  BY <3>1
    <3>3. \A m \in 0 .. n + 1 : m \in 0 .. n \/ m = n + 1  OBVIOUS
    <3> QED  BY <3>1, <3>2, <3>3
  <2>3. \A n \in Nat : n \in P
    <3> HIDE DEF P
    <3> QED  BY <2>1, <2>2, NatSetInduction
  <2>4. LastSeq + 1 \in 0 .. LastSeq + 1 /\ LastSeq + 1 \in Nat  BY <1>1
  <2>5. LastSeq + 1 \in chunks  BY <2>3, <2>4
  <2> QED  BY <2>5, <1>1 DEF Seqs
<1> QED  BY <1>2 DEF HighestContiguous

\* The number a final may claim is a count of contiguous chunks that lie within
\* the covered units.
LEMMA FrontierIs ==
  ASSUME NEW chunks \in SUBSET Seqs, NEW covered \in Nat
  PROVE  /\ SeqForCoveredBytes(chunks, covered) \in 0 .. Captured
         /\ ChunkStart[SeqForCoveredBytes(chunks, covered)] <= covered
         /\ 0 .. SeqForCoveredBytes(chunks, covered) - 1 \subseteq chunks
<1> DEFINE h == HighestContiguous(chunks)
           f == SeqForCoveredBytes(chunks, covered)
           Fits(n) == /\ ChunkStart[n] <= covered
                      /\ n < h + 1 => ChunkStart[n + 1] > covered
<1>1. h \in -1 .. LastSeq /\ 0 .. h \subseteq chunks
  BY HighestContiguousIs
<1>2. f = CHOOSE n \in 0 .. h + 1 : Fits(n)  BY DEF SeqForCoveredBytes
<1> HIDE DEF h, f
<1>3. h + 1 \in Nat /\ \A n \in 0 .. h + 1 : n \in 0 .. Captured /\ ChunkStart[n] \in Nat
  <2>1. Captured = LastSeq + 1 /\ LastSeq \in Nat  BY SessionAssumption DEF Captured
  <2>2. h + 1 \in Nat /\ \A n \in 0 .. h + 1 : n \in 0 .. Captured  BY <1>1, <2>1
  <2> QED  BY <2>2, ChunkStartIs
<1>4. \E n \in 0 .. h + 1 : Fits(n)
  <2> SUFFICES ASSUME \A n \in 0 .. h + 1 : ~Fits(n)  PROVE FALSE  OBVIOUS
  <2> DEFINE P == {n \in Nat : n <= h + 1 => ChunkStart[n] <= covered}
  <2>1. 0 \in P  BY ChunkStartIs
  <2>2. ASSUME NEW n \in Nat, n \in P  PROVE n + 1 \in P
    <3> SUFFICES ASSUME n + 1 <= h + 1  PROVE ChunkStart[n + 1] <= covered
      OBVIOUS
    <3>1. n \in 0 .. h + 1 /\ n < h + 1 /\ n + 1 \in 0 .. h + 1  BY <1>3
    <3>2. ChunkStart[n] <= covered /\ ChunkStart[n + 1] \in Nat  BY <1>3, <2>2, <3>1
    <3>3. ~(ChunkStart[n + 1] > covered)  BY <3>1, <3>2
    <3> QED  BY <3>2, <3>3
  <2>3. \A n \in Nat : n \in P
    <3> HIDE DEF P
    <3> QED  BY <2>1, <2>2, NatSetInduction
  <2>4. h + 1 \in 0 .. h + 1 /\ ~(h + 1 < h + 1)  BY <1>3
  <2>5. ChunkStart[h + 1] <= covered  BY <1>3, <2>3, <2>4
  <2> QED  BY <2>4, <2>5
<1>5. f \in 0 .. h + 1 /\ Fits(f)
  <2> HIDE DEF Fits
  <2> QED  BY <1>2, <1>4
<1>6. 0 .. f - 1 \subseteq 0 .. h  BY <1>1, <1>3, <1>5
<1> QED  BY <1>1, <1>3, <1>5, <1>6 DEF f

-----------------------------------------------------------------------------
(***************************************************************************)
(* The stop handler.                                                       *)
(***************************************************************************)

LEMMA CalmWorld ==
  ASSUME NEW w, NEW busy, Calm(w, busy)
  PROVE  /\ WorldCore(w, busy) /\ w \in Worlds /\ w.jobs = << >>
         /\ w.k \in Locals /\ w.l \in Ledger /\ w.j \in Sessions
         /\ PrefixIsDecoded(w.k) /\ PrefixIsDecoded(w.j) /\ PhaseInv(w.k)
BY WorldFields DEF Calm, WorldCore, LocalsInv, PhaseInv

LEMMA AudioFacts ==
  ASSUME NEW k \in Locals
  PROVE  /\ k.raw \in Audio /\ Len(k.raw) \in Nat /\ ToSet(k.raw) \subseteq Units
         /\ k.gated \in Audio /\ Len(k.gated) \in Nat /\ ToSet(k.gated) \subseteq Units
         /\ k.pending \in Audio /\ Len(k.pending) \in Nat
         /\ k.staging \in Audio /\ Len(k.staging) \in Nat
         /\ k.last_partial \in Audio /\ k.stable_text \in Audio /\ k.stable_bytes \in Nat
<1>1. /\ k.raw \in Audio /\ k.gated \in Audio /\ k.pending \in Audio /\ k.staging \in Audio
      /\ k.last_partial \in Audio /\ k.stable_text \in Audio /\ k.stable_bytes \in Nat
  BY DEF Locals
<1>2. \A s \in Audio : Len(s) \in Nat /\ ToSet(s) \subseteq Units
  BY DEF Audio, ToSet
<1> QED  BY <1>1, <1>2

\* send_covered_final.
LEMMA AnswerKeeps ==
  ASSUME NEW w, NEW busy, Calm(w, busy), NEW text \in Audio,
         NEW through \in Nat \union {None}, NEW read \in SUBSET Units
  PROVE  /\ Calm(Answer(w, text, through, read), busy)
         /\ WorldInv(Answer(w, text, through, read), busy)
<1> DEFINE final == [stop |-> w.k.stop, text |-> text,
                     through |-> IF w.k.complete THEN through ELSE None,
                     fresh |-> TRUE, read |-> read]
           k == [w.k EXCEPT !.answer = final, !.phase = "final"]
           j == [w.j EXCEPT !.final = final]
           v == Answer(w, text, through, read)
<1> SUFFICES Calm(v, busy) /\ WorldInv(v, busy)  OBVIOUS
<1>1. w \in Worlds /\ w.k \in Locals /\ w.j \in Sessions /\ w.jobs = << >> /\ PrefixIsDecoded(w.j)
  BY CalmWorld
<1>2. final \in Finals
  <2>1. w.k.stop \in StopIds \union {None}  BY <1>1 DEF Locals
  <2> QED  BY <2>1 DEF Finals
<1>3. v = [w EXCEPT !.k = k, !.j = j]
  BY DEF Answer
<1> HIDE DEF final
<1>4. final # None  BY <1>2, NoneAssumption
<1>5. k \in Locals /\ j \in Sessions
  <2>1. "final" \in Phases  BY DEF Phases
  <2>2. k \in Locals  BY <1>1, <1>2, <2>1, ZenonT(60) DEF Locals
  <2>3. j \in Sessions  BY <1>1, <1>2 DEF Sessions
  <2> QED  BY <2>2, <2>3
<1>6. /\ k.gated = w.k.gated /\ k.stable_text = w.k.stable_text
      /\ k.stable_bytes = w.k.stable_bytes /\ k.commit = w.k.commit
      /\ k.partial = w.k.partial /\ k.journal = w.k.journal
      /\ k.phase = "final" /\ k.answer = final
  BY <1>1 DEF Locals
<1>7. /\ j.gated = w.j.gated /\ j.stable_text = w.j.stable_text
      /\ j.stable_bytes = w.j.stable_bytes
  BY <1>1 DEF Sessions
<1> HIDE DEF k, j, v
<1>8. v \in Worlds /\ v.k = k /\ v.j = j /\ v.jobs = w.jobs
  BY <1>1, <1>3, <1>5 DEF Worlds
<1>9. SameWaits(v.k, w.k) /\ SamePrefix(v.k, w.k) /\ PhaseInv(v.k)
  BY <1>4, <1>6, <1>8 DEF SameWaits, SamePrefix, PhaseInv
<1>10. PrefixIsDecoded(v.j)  BY <1>1, <1>7, <1>8 DEF PrefixIsDecoded
<1>11. Calm(v, busy)  BY <1>1, <1>8, <1>9, <1>10, CalmStays
<1> QED  BY <1>6, <1>8, <1>11 DEF Calm, WorldInv, EmbedInv

\* The decode of a tail, or of all the audio, is submitted and awaited.
LEMMA SubmitKeeps ==
  ASSUME NEW w, NEW busy, Calm(w, busy), NEW p \in {"tail", "raw"}
  PROVE  WorldInv([w EXCEPT !.k.phase = p, !.jobs = Append(@, p)], busy)
<1> DEFINE u == [w EXCEPT !.k.phase = p]
           v == [w EXCEPT !.k.phase = p, !.jobs = Append(@, p)]
<1> SUFFICES WorldInv(v, busy)  OBVIOUS
<1>1. w \in Worlds /\ w.k \in Locals /\ w.jobs = << >> /\ busy \subseteq {"commit", "partial"}
  BY CalmWorld DEF Calm
<1>2. Calm(u, busy)  BY PhaseKeeps DEF Phases
<1>3. u \in Worlds /\ u.jobs = w.jobs /\ u.k = [w.k EXCEPT !.phase = p]
  <2>1. p \in Phases  BY DEF Phases
  <2> QED  BY <1>1, <2>1, PhaseMoves
<1>4. v = [u EXCEPT !.jobs = <<p>>]
  BY <1>1
<1> HIDE DEF u, v
<1>5. v \in Worlds /\ v.k = u.k /\ v.j = u.j /\ v.jobs = <<p>>
  <2>1. <<p>> \in Seq(JobKinds)  BY DEF JobKinds
  <2> QED  BY <1>3, <1>4, <2>1 DEF Worlds
<1>6. u.k.phase = p  BY <1>1, <1>3 DEF Locals
<1>7. JobsInv(u.k, << >>, busy)  BY <1>2 DEF Calm, WorldCore
<1>8. Waits(u.k, p)  BY <1>6 DEF Waits
<1>9. JobsInv(v.k, v.jobs, busy)
  BY <1>1, <1>5, <1>7, <1>8 DEF JobsInv, IsInjective
<1> QED  BY <1>2, <1>5, <1>6, <1>9 DEF Calm, WorldCore, WorldInv, EmbedInv

LEMMA FrontierOfWorld ==
  ASSUME NEW w \in Worlds
  PROVE  Frontier(w) \in Nat
<1>1. w.j.chunks \in SUBSET Seqs /\ w.l.covered \in Nat
  BY WorldFields DEF Sessions, Ledger
<1>2. \A n \in 0 .. Captured : n \in Nat  BY ChunkStartIs
<1> QED  BY <1>1, <1>2, FrontierIs DEF Frontier

LEMMA AfterRawKeeps ==
  ASSUME NEW w, NEW busy, Calm(w, busy), NEW text \in Audio
  PROVE  WorldInv(AfterRaw(w, text), busy)
<1>1. /\ ToSet(w.k.raw) \in SUBSET Units /\ w.k.last_partial \in Audio
      /\ Frontier(w) \in Nat
  BY CalmWorld, AudioFacts, FrontierOfWorld
<1>2. WorldInv(Answer(w, text, Frontier(w), ToSet(w.k.raw)), busy)
  BY <1>1, AnswerKeeps
<1>3. WorldInv(Answer(w, w.k.last_partial, None, {}), busy)
  BY <1>1, AnswerKeeps
<1> QED  BY <1>2, <1>3 DEF AfterRaw

LEMMA AfterTailKeeps ==
  ASSUME NEW w, NEW busy, Calm(w, busy), NEW tail \in Audio, NEW tail_text \in Audio
  PROVE  WorldInv(AfterTail(w, tail, tail_text), busy)
<1> DEFINE text == w.k.stable_text \o tail_text
           read == ToSet(w.k.stable_text) \union ToSet(tail)
<1>1. /\ w.k.last_partial \in Audio /\ w.k.stable_text \in Audio /\ Frontier(w) \in Nat
  BY CalmWorld, AudioFacts, FrontierOfWorld
<1>2. text \in Audio /\ read \in SUBSET Units
  BY <1>1, ConcatProperties DEF Audio, ToSet
<1>3. WorldInv(Answer(w, text, Frontier(w), read), busy)
  BY <1>1, <1>2, AnswerKeeps
<1>4. WorldInv(Answer(w, w.k.last_partial, None, {}), busy)
  BY <1>1, AnswerKeeps
<1>5. WorldInv([w EXCEPT !.k.phase = "raw", !.jobs = Append(@, "raw")], busy)
  BY SubmitKeeps
<1> QED  BY <1>3, <1>4, <1>5 DEF AfterTail

\* finalize_with_stable_prefix.
LEMMA SealTailKeeps ==
  ASSUME NEW w, NEW busy, Calm(w, busy)
  PROVE  WorldInv(SealTail(w), busy)
<1>1. w.k.partial_decode # None =>
        w.k.partial_decode.audio \in Audio /\ w.k.partial_decode.text \in Audio
  BY CalmWorld DEF Locals
<1>2. << >> \in Audio  BY DEF Audio
<1>3. w.k.partial_decode # None =>
        WorldInv(AfterTail(w, w.k.partial_decode.audio, w.k.partial_decode.text), busy)
  BY <1>1, AfterTailKeeps
<1>4. WorldInv(AfterTail(w, << >>, << >>), busy)  BY <1>2, AfterTailKeeps
<1>5. WorldInv([w EXCEPT !.k.phase = "tail", !.jobs = Append(@, "tail")], busy)
  BY SubmitKeeps
<1> QED  BY <1>3, <1>4, <1>5 DEF SealTail

LEMMA SealKeeps ==
  ASSUME NEW w, NEW busy, Calm(w, busy)
  PROVE  WorldInv(Seal(w), busy)
<1>1. WorldInv([w EXCEPT !.k.phase = "seal"], busy)
  BY PhaseKeeps DEF Phases
<1> QED  BY <1>1, SealTailKeeps DEF Seal

\* A step that changes the locals and the ledger, but not the prefix.
LEMMA CalmUpdate ==
  ASSUME NEW w, NEW v, NEW busy, Calm(w, busy), NEW k \in Locals, NEW l \in Ledger,
         v = [w EXCEPT !.k = k, !.l = l],
         SameWaits(k, w.k), SamePrefix(k, w.k), PhaseInv(k)
  PROVE  Calm(v, busy) /\ v.k = k /\ v.l = l /\ v.j = w.j
<1>1. w \in Worlds /\ w.jobs = << >> /\ PrefixIsDecoded(w.j)  BY CalmWorld
<1>2. v \in Worlds /\ v.k = k /\ v.l = l /\ v.j = w.j /\ v.jobs = w.jobs
  BY <1>1, UpdateKL, ZenonT(60)
<1> QED  BY <1>1, <1>2, CalmStays

\* The open segment joins the gated audio.
KeepSegment(w) ==
  [w EXCEPT !.k.gated = @ \o w.k.pending, !.l = CommitSegment(@)]

LEMMA KeepSegmentKeeps ==
  ASSUME NEW w, NEW busy, Calm(w, busy)
  PROVE  /\ Calm(KeepSegment(w), busy)
         /\ KeepSegment(w).k = [w.k EXCEPT !.gated = @ \o w.k.pending]
<1> DEFINE k == [w.k EXCEPT !.gated = @ \o w.k.pending]
           l == CommitSegment(w.l)
           v == KeepSegment(w)
<1> SUFFICES Calm(v, busy) /\ v.k = k  OBVIOUS
<1>1. /\ w \in Worlds /\ w.jobs = << >> /\ w.k \in Locals /\ w.l \in Ledger
      /\ PrefixIsDecoded(w.j) /\ PhaseInv(w.k)
  BY CalmWorld
<1>2. w.k.gated \in Audio /\ w.k.pending \in Audio  BY <1>1, AudioFacts
<1>3. w.k.gated \o w.k.pending \in Audio  BY <1>2, ConcatProperties DEF Audio
<1>4. k \in Locals  BY <1>1, <1>3, ZenonT(60) DEF Locals
<1>5. l \in Ledger
  <2>1. 0 \in Nat /\ FALSE \in BOOLEAN  OBVIOUS
  <2> QED  BY <1>1, <2>1, LedgerMethods
<1>6. v = [w EXCEPT !.k = k, !.l = l]  BY DEF KeepSegment
<1>7. /\ k.gated = w.k.gated \o w.k.pending
      /\ k.stable_text = w.k.stable_text /\ k.stable_bytes = w.k.stable_bytes
      /\ k.commit = w.k.commit /\ k.partial = w.k.partial /\ k.journal = w.k.journal
      /\ k.phase = w.k.phase /\ k.answer = w.k.answer /\ k.events = w.k.events
  BY <1>1 DEF Locals
<1> HIDE DEF k, l, v
<1>8. v \in Worlds /\ v.k = k /\ v.l = l /\ v.j = w.j /\ v.jobs = w.jobs
  BY <1>1, <1>4, <1>5, <1>6 DEF Worlds
<1>9. SameWaits(v.k, w.k) /\ PhaseInv(v.k)
  BY <1>1, <1>7, <1>8 DEF SameWaits, PhaseInv
<1>10. Calm(v, busy)
  BY <1>1, <1>2, <1>7, <1>8, <1>9, CalmGrows
<1> QED  BY <1>8, <1>10

\* The pending audio is dropped or handed on.
ClearPending(w) == [w EXCEPT !.k.pending = << >>]

LEMMA ClearPendingKeeps ==
  ASSUME NEW w, NEW busy, Calm(w, busy)
  PROVE  Calm(ClearPending(w), busy)
<1> DEFINE k == [w.k EXCEPT !.pending = << >>]
           v == ClearPending(w)
<1> SUFFICES Calm(v, busy)  OBVIOUS
<1>1. w \in Worlds /\ w.k \in Locals /\ w.l \in Ledger /\ PhaseInv(w.k)
  BY CalmWorld
<1>2. k \in Locals
  <2>1. << >> \in Audio  BY DEF Audio
  <2> QED  BY <1>1, <2>1 DEF Locals
<1>3. v = [w EXCEPT !.k = k, !.l = w.l]  BY <1>1 DEF ClearPending, Worlds
<1>4. /\ k.gated = w.k.gated
      /\ k.stable_text = w.k.stable_text /\ k.stable_bytes = w.k.stable_bytes
      /\ k.commit = w.k.commit /\ k.partial = w.k.partial /\ k.journal = w.k.journal
      /\ k.phase = w.k.phase /\ k.answer = w.k.answer /\ k.events = w.k.events
  BY <1>1 DEF Locals
<1> HIDE DEF k, v
<1>5. SameWaits(k, w.k) /\ SamePrefix(k, w.k) /\ PhaseInv(k)
  BY <1>1, <1>4 DEF SameWaits, SamePrefix, PhaseInv
<1> QED  BY <1>1, <1>2, <1>3, <1>5, CalmUpdate

LEMMA CalmSync ==
  ASSUME NEW w, NEW busy, Calm(w, busy)
  PROVE  Calm(Sync(w), busy) /\ Sync(w).k = w.k
<1>1. w \in Worlds /\ PrefixIsDecoded(w.k)  BY CalmWorld
<1>2. PrefixIsDecoded(Sync(w).j)  BY <1>1, SyncCopies DEF PrefixIsDecoded
<1> QED  BY <1>1, <1>2, SyncCopies DEF Calm, WorldCore

LEMMA AcceptFinalTailKeeps ==
  ASSUME NEW w, NEW busy, Calm(w, busy)
  PROVE  WorldInv(AcceptFinalTail(w), busy)
<1>1. AcceptFinalTail(w) = Seal(ClearPending(Sync(KeepSegment(w))))
  BY Zenon DEF AcceptFinalTail, KeepSegment, ClearPending
<1>2. Calm(KeepSegment(w), busy)  BY KeepSegmentKeeps, Zenon
<1>3. Calm(Sync(KeepSegment(w)), busy)  BY <1>2, CalmSync, Zenon
<1>4. Calm(ClearPending(Sync(KeepSegment(w))), busy)  BY <1>3, ClearPendingKeeps, Zenon
<1> QED  BY <1>1, <1>4, SealKeeps, Zenon

\* The ledger freezes at the segment that is rejected.
LEMMA DropSegmentKeeps ==
  ASSUME NEW w, NEW busy, Calm(w, busy)
  PROVE  Calm([w EXCEPT !.l = DiscardSegment(@)], busy)
<1> DEFINE l == DiscardSegment(w.l)
           v == [w EXCEPT !.l = DiscardSegment(@)]
<1> SUFFICES Calm(v, busy)  OBVIOUS
<1>1. w \in Worlds /\ w.k \in Locals /\ w.l \in Ledger /\ PhaseInv(w.k)
  BY CalmWorld
<1>2. l \in Ledger
  <2>1. 0 \in Nat /\ FALSE \in BOOLEAN  OBVIOUS
  <2> QED  BY <1>1, <2>1, LedgerMethods
<1>3. v = [w EXCEPT !.k = w.k, !.l = l]  BY <1>1 DEF Worlds
<1> HIDE DEF v, l
<1>4. SameWaits(w.k, w.k) /\ SamePrefix(w.k, w.k)  BY DEF SameWaits, SamePrefix
<1> QED  BY <1>1, <1>2, <1>3, <1>4, CalmUpdate

LEMMA RejectFinalTailKeeps ==
  ASSUME NEW w, NEW busy, Calm(w, busy)
  PROVE  WorldInv(RejectFinalTail(w), busy)
<1>1. w \in Worlds  BY CalmWorld
<1>2. RejectFinalTail(w) = Seal(ClearPending([w EXCEPT !.l = DiscardSegment(@)]))
  BY <1>1 DEF RejectFinalTail, ClearPending, Worlds
<1> QED  BY <1>2, DropSegmentKeeps, ClearPendingKeeps, SealKeeps

LEMMA DecideTailKeeps ==
  ASSUME NEW w, NEW busy, Calm(w, busy)
  PROVE  WorldInv(DecideTail(w), busy)
<1>1. WorldInv([w EXCEPT !.k.phase = "tailEmbed"], busy)
  BY PhaseKeeps DEF Phases
<1> QED  BY <1>1, SealKeeps, AcceptFinalTailKeeps DEF DecideTail

\* What is left in staging joins the open segment.
Flushed(w) ==
  [w EXCEPT !.k.staging = << >>, !.k.pending = @ \o w.k.staging,
            !.l = NoteSpeech(@, Len(w.k.staging), FALSE)]

LEMMA FlushedKeeps ==
  ASSUME NEW w, NEW busy, Calm(w, busy)
  PROVE  Calm(Flushed(w), busy)
<1> DEFINE k == [w.k EXCEPT !.staging = << >>, !.pending = @ \o w.k.staging]
           l == NoteSpeech(w.l, Len(w.k.staging), FALSE)
           v == Flushed(w)
<1> SUFFICES Calm(v, busy)  OBVIOUS
<1>1. w \in Worlds /\ w.k \in Locals /\ w.l \in Ledger /\ PhaseInv(w.k)
  BY CalmWorld
<1>2. w.k.pending \in Audio /\ w.k.staging \in Audio /\ Len(w.k.staging) \in Nat
  BY <1>1, AudioFacts
<1>3. w.k.pending \o w.k.staging \in Audio /\ << >> \in Audio
  BY <1>2, ConcatProperties DEF Audio
<1>4. k \in Locals  BY <1>1, <1>3, ZenonT(60) DEF Locals
<1>5. l \in Ledger
  <2>1. FALSE \in BOOLEAN  OBVIOUS
  <2> QED  BY <1>1, <1>2, <2>1, LedgerMethods
<1>6. v = [w EXCEPT !.k = k, !.l = l]  BY DEF Flushed
<1>7. /\ k.gated = w.k.gated
      /\ k.stable_text = w.k.stable_text /\ k.stable_bytes = w.k.stable_bytes
      /\ k.commit = w.k.commit /\ k.partial = w.k.partial /\ k.journal = w.k.journal
      /\ k.phase = w.k.phase /\ k.answer = w.k.answer /\ k.events = w.k.events
  BY <1>1 DEF Locals
<1> HIDE DEF k, l, v
<1>8. SameWaits(k, w.k) /\ SamePrefix(k, w.k) /\ PhaseInv(k)
  BY <1>1, <1>7 DEF SameWaits, SamePrefix, PhaseInv
<1> QED  BY <1>4, <1>5, <1>6, <1>8, CalmUpdate

LEMMA FlushStagingKeeps ==
  ASSUME NEW w, NEW busy, Calm(w, busy)
  PROVE  WorldInv(FlushStaging(w), busy)
<1> DEFINE flushed == IF w.k.staging = << >> THEN w ELSE Flushed(w)
<1>1. Calm(flushed, busy)  BY FlushedKeeps
<1>2. FlushStaging(w) = IF flushed.k.partial # None /\ FINAL_WAIT_PARTIAL
                        THEN [flushed EXCEPT !.k.phase = "waitPartial"]
                        ELSE DecideTail(flushed)
  BY DEF FlushStaging, Flushed
<1> HIDE DEF flushed
<1>3. WorldInv([flushed EXCEPT !.k.phase = "waitPartial"], busy)
  BY <1>1, PhaseKeeps DEF Phases
<1>4. WorldInv(DecideTail(flushed), busy)  BY <1>1, DecideTailKeeps
<1> QED  BY <1>2, <1>3, <1>4

-----------------------------------------------------------------------------
(***************************************************************************)
(* Gating.                                                                 *)
(***************************************************************************)

LEMMA ContinueKeeps ==
  ASSUME NEW w, NEW busy, NEW due, Calm(w, busy)
  PROVE  WorldInv(Continue(w, due), busy)
<1>1. w.k.then \in {"audio", "tick", "stop"}  BY CalmWorld DEF Locals
<1>2. WorldInv([w EXCEPT !.k.phase = "receive"], busy)
  BY PhaseKeeps DEF Phases
<1>3. /\ WorldInv(Background(Sync([w EXCEPT !.k.phase = "receive"]), due), busy)
      /\ WorldInv(Background([w EXCEPT !.k.phase = "receive"], due), busy)
  BY <1>2, SyncKeeps, BackgroundKeeps
<1> QED  BY <1>1, <1>3, FlushStagingKeeps DEF Continue

LEMMA EventsAreApplied ==
  ASSUME NEW l \in Ledger, NEW pending \in Audio, NEW events \in Seq(Events(Units))
  PROVE  /\ ApplyEvents(l, pending, events).ledger \in Ledger
         /\ ApplyEvents(l, pending, events).pending \in Audio
         /\ ApplyEvents(l, pending, events).rest \in Seq(Events(Units))
<1>1. PICK run \in [0 .. Len(events) -> Applied(Units)] : ApplyRun(run, l, pending, events)
  <2>1. pending \in Seq(Units)  BY DEF Audio
  <2> QED  BY <2>1, ApplyRuns, Zenon
<1>2. run[Len(events)] \in Applied(Units)  BY LenProperties
<1> QED  BY <1>1, <1>2 DEF ApplyRun, Applied, Audio

LEMMA ApplyKeeps ==
  ASSUME NEW w, NEW busy, NEW due, Calm(w, busy), NEW events \in Seq(Events(Units))
  PROVE  WorldInv(Apply(w, events, due), busy)
<1> DEFINE a == ApplyEvents(w.l, w.k.pending, events)
           k == [w.k EXCEPT !.pending = a.pending, !.events = a.rest]
           v == [w EXCEPT !.l = a.ledger, !.k.pending = a.pending, !.k.events = a.rest]
<1>1. w \in Worlds /\ w.k \in Locals /\ w.l \in Ledger /\ PhaseInv(w.k)
  BY CalmWorld
<1>2. a.ledger \in Ledger /\ a.pending \in Audio /\ a.rest \in Seq(Events(Units))
  BY <1>1, EventsAreApplied, AudioFacts
<1>3. Apply(w, events, due) = IF a.rest # << >> THEN [v EXCEPT !.k.phase = "embed"]
                              ELSE Continue(v, due)
  BY DEF Apply
<1> HIDE DEF a
<1>4. k \in Locals  BY <1>1, <1>2, ZenonT(60) DEF Locals
<1>5. v = [w EXCEPT !.k = k, !.l = a.ledger]  OBVIOUS
<1>6. /\ k.gated = w.k.gated
      /\ k.stable_text = w.k.stable_text /\ k.stable_bytes = w.k.stable_bytes
      /\ k.commit = w.k.commit /\ k.partial = w.k.partial /\ k.journal = w.k.journal
      /\ k.phase = w.k.phase /\ k.answer = w.k.answer /\ k.events = a.rest
  BY <1>1 DEF Locals
<1> HIDE DEF k, v
<1>7. SameWaits(k, w.k) /\ SamePrefix(k, w.k) /\ PhaseInv(k)
  BY <1>1, <1>6 DEF SameWaits, SamePrefix, PhaseInv
<1>8. Calm(v, busy) /\ v.k = k
  BY <1>2, <1>4, <1>5, <1>7, CalmUpdate, ZenonT(60)
<1>9. CASE a.rest = << >>  BY <1>3, <1>8, <1>9, ContinueKeeps
<1>10. CASE a.rest # << >>
  <2> DEFINE u == [v EXCEPT !.k.phase = "embed"]
  <2>1. "embed" \in Phases  BY DEF Phases
  <2>2. Calm(u, busy)  BY <1>8, <2>1, PhaseKeeps
  <2>3. v \in Worlds /\ v.k \in Locals  BY <1>8, CalmWorld
  <2>4. u.k = [v.k EXCEPT !.phase = "embed"]  BY <2>1, <2>3, PhaseMoves
  <2>5. u.k.events = v.k.events  BY <2>3, <2>4 DEF Locals
  <2> HIDE DEF u
  <2>6. WorldInv(u, busy)
    BY <1>6, <1>8, <1>10, <2>2, <2>5 DEF Calm, WorldInv, EmbedInv
  <2> QED  BY <1>3, <1>10, <2>6 DEF u
<1> QED  BY <1>9, <1>10

LEMMA GateIsPassed ==
  ASSUME NEW staging \in Audio, NEW prev \in Audio, NEW gate \in Gates
  PROVE  LET g == ProcessStagedAudio(staging, prev, gate, speech) IN
         /\ g.prev \in Audio /\ g.gate \in Gates /\ g.events \in Seq(Events(Units))
<1> DEFINE g == ProcessStagedAudio(staging, prev, gate, speech)
<1>1. PICK run \in [0 .. WholeWindows(staging) -> Passing(Units)] :
        GateRun(run, staging, prev, gate, speech)
  <2>1. staging \in Seq(Units) /\ prev \in Seq(Units)  BY DEF Audio
  <2> QED  BY <2>1, GateRuns, Zenon
<1>2. WholeWindows(staging) \in Nat  BY WindowsFit DEF Audio
<1>3. run[WholeWindows(staging)] \in Passing(Units)  BY <1>2
<1>4. g \in Passing(Units)  BY <1>1, <1>3 DEF GateRun
<1> HIDE DEF g
<1>5. g.prev \in Audio /\ g.gate \in Gates /\ g.events \in Seq(Events(Units))
  BY <1>4 DEF Passing, Audio
<1> QED  BY <1>5 DEF g

LEMMA GateKeeps ==
  ASSUME NEW w, NEW busy, NEW due, Calm(w, busy), NEW then \in {"audio", "tick", "stop"}
  PROVE  WorldInv(Gate(w, then, due), busy)
<1> DEFINE g == ProcessStagedAudio(w.k.staging, w.k.prev, w.k.gate, speech)
           k == [w.k EXCEPT !.staging = Leftover(w.k.staging), !.prev = g.prev,
                            !.gate = g.gate, !.then = then]
           v == [w EXCEPT !.k = k]
<1>1. w \in Worlds /\ w.k \in Locals /\ w.l \in Ledger /\ PhaseInv(w.k)
  BY CalmWorld
<1>2. w.k.staging \in Audio /\ w.k.prev \in Audio /\ w.k.gate \in Gates
  BY <1>1 DEF Locals
<1>3. g.prev \in Audio /\ g.gate \in Gates /\ g.events \in Seq(Events(Units))
  BY <1>2, GateIsPassed
<1>4. Leftover(w.k.staging) \in Audio  BY <1>2, LeftoverIsTheEnd DEF Audio
<1>5. Gate(w, then, due) = Apply(v, g.events, due)  BY DEF Gate
<1> HIDE DEF g
<1>6. k \in Locals  BY <1>1, <1>3, <1>4, ZenonT(60) DEF Locals
<1>7. /\ k.gated = w.k.gated
      /\ k.stable_text = w.k.stable_text /\ k.stable_bytes = w.k.stable_bytes
      /\ k.commit = w.k.commit /\ k.partial = w.k.partial /\ k.journal = w.k.journal
      /\ k.phase = w.k.phase /\ k.answer = w.k.answer
  BY <1>1 DEF Locals
<1>8. v = [w EXCEPT !.k = k, !.l = w.l]  BY <1>1 DEF Worlds
<1> HIDE DEF k, v
<1>9. SameWaits(k, w.k) /\ SamePrefix(k, w.k) /\ PhaseInv(k)
  BY <1>1, <1>7 DEF SameWaits, SamePrefix, PhaseInv
<1>10. Calm(v, busy)
  BY <1>1, <1>6, <1>8, <1>9, CalmUpdate, ZenonT(60)
<1> QED  BY <1>3, <1>5, <1>10, ApplyKeeps

-----------------------------------------------------------------------------
(***************************************************************************)
(* A connection begins and ends.                                           *)
(***************************************************************************)

LEMMA NewConnIs ==
  ASSUME NEW c \in Conns
  PROVE  /\ NewConn(c) \in Locals
         /\ NewConn(c).phase = "unborn" /\ NewConn(c).ledger = c
         /\ NewConn(c).commit = None /\ NewConn(c).partial = None
         /\ NewConn(c).answer = None
         /\ NewConn(c).gated = << >> /\ NewConn(c).stable_text = << >>
         /\ NewConn(c).stable_bytes = 0
<1>1. << >> \in Audio /\ << >> \in Seq(Events(Units))  BY DEF Audio
<1>2. ClosedGate \in Gates  BY DEF ClosedGate, Gates
<1>3. "unborn" \in Phases  BY DEF Phases
<1>4. NewConn(c) \in Locals  BY <1>1, <1>2, <1>3 DEF NewConn, Locals
<1> QED  BY <1>4 DEF NewConn

LEMMA EmptyPrefix ==
  ASSUME NEW b, b.gated = << >>, b.stable_text = << >>, b.stable_bytes = 0
  PROVE  PrefixIsDecoded(b)
<1>1. Len(<< >>) = 0 /\ SubSeq(<< >>, 1, 0) = << >>  OBVIOUS
<1> QED  BY <1>1 DEF PrefixIsDecoded

LEMMA ClosedType ==
  ASSUME NEW n \in Locals, NEW id \in Journals \union {None}, NEW stop \in StopIds \union {None}
  PROVE  [n EXCEPT !.phase = "closed", !.journal = id, !.closing = TRUE, !.stop = stop] \in Locals
<1>1. "closed" \in Phases  BY DEF Phases
<1> QED  BY <1>1, ZenonT(60) DEF Locals

\* The locals of a closed connection are kept while one of its decodes runs.
LEMMA ClosedKeeps ==
  ASSUME NEW k \in Locals, LocalsInv(k), k.phase # "unborn"
  PROVE  /\ Closed(k) \in Locals /\ LocalsInv(Closed(k)) /\ EmbedInv(Closed(k))
         /\ Closed(k).phase = "closed" /\ SameWaits(Closed(k), k)
<1>1. "closed" \in Phases  BY DEF Phases
<1>2. CASE k.commit = None /\ k.partial = None
  <2> DEFINE n == NewConn(k.ledger)
             id == k.journal
             stop == k.stop
             v == [n EXCEPT !.phase = "closed", !.journal = id,
                            !.closing = TRUE, !.stop = stop]
  <2>1. k.ledger \in Conns /\ k.journal \in Journals \union {None}
        /\ k.stop \in StopIds \union {None}
    BY DEF Locals
  <2>2. /\ n \in Locals /\ n.commit = None /\ n.partial = None
        /\ n.gated = << >> /\ n.stable_text = << >> /\ n.stable_bytes = 0
    BY <2>1, NewConnIs
  <2>3. Closed(k) = v  BY <1>2 DEF Closed
  <2> HIDE DEF n
  <2>4. v \in Locals
    <3> HIDE DEF id, stop
    <3>1. id \in Journals \union {None} /\ stop \in StopIds \union {None}
      BY <2>1 DEF id, stop
    <3> QED  BY <2>2, <3>1, ClosedType, Zenon
  <2>5. /\ v.phase = "closed" /\ v.journal = k.journal
        /\ v.commit = None /\ v.partial = None
        /\ v.gated = << >> /\ v.stable_text = << >> /\ v.stable_bytes = 0
    BY <2>2 DEF Locals
  <2> HIDE DEF v
  <2>6. PrefixIsDecoded(v)  BY <2>5, EmptyPrefix
  <2>7. LocalsInv(v) /\ EmbedInv(v) /\ SameWaits(v, k)
    BY <1>2, <2>5, <2>6 DEF LocalsInv, EmbedInv, CommitIsOfGated, SameWaits
  <2> QED  BY <2>3, <2>4, <2>5, <2>7
<1>3. CASE ~(k.commit = None /\ k.partial = None)
  <2> DEFINE v == [k EXCEPT !.phase = "closed", !.alive = FALSE, !.closing = TRUE]
  <2>1. Closed(k) = v  BY <1>3 DEF Closed
  <2>2. v \in Locals  BY <1>1, ZenonT(60) DEF Locals
  <2>3. /\ v.phase = "closed" /\ v.gated = k.gated /\ v.stable_text = k.stable_text
        /\ v.stable_bytes = k.stable_bytes /\ v.commit = k.commit
        /\ v.partial = k.partial /\ v.journal = k.journal
    BY DEF Locals
  <2> HIDE DEF v
  <2>4. LocalsInv(v) /\ EmbedInv(v) /\ SameWaits(v, k)
    BY <2>3 DEF LocalsInv, EmbedInv, CommitIsOfGated, PrefixIsDecoded, SameWaits
  <2> QED  BY <2>1, <2>2, <2>3, <2>4
<1> QED  BY <1>2, <1>3

LEMMA SettledKeeps ==
  ASSUME NEW k \in Locals, LocalsInv(k), EmbedInv(k), k.phase # "unborn"
  PROVE  /\ Settled(k) \in Locals /\ LocalsInv(Settled(k)) /\ EmbedInv(Settled(k))
         /\ Settled(k).phase # "unborn"
         /\ \A job \in JobKinds : Waits(k, job) => Waits(Settled(k), job)
<1>1. CASE k.phase = "closed"
  <2>1. /\ Closed(k) \in Locals /\ LocalsInv(Closed(k)) /\ EmbedInv(Closed(k))
        /\ Closed(k).phase = "closed" /\ SameWaits(Closed(k), k)
    BY ClosedKeeps
  <2>2. \A job \in JobKinds : Waits(k, job) => Waits(Closed(k), job)
    BY <1>1, <2>1 DEF JobKinds, Waits, SameWaits
  <2>3. Settled(k) = Closed(k)  BY <1>1 DEF Settled
  <2> QED  BY <2>1, <2>2, <2>3
<1>2. CASE k.phase # "closed"
  <2>1. Settled(k) = k  BY <1>2 DEF Settled
  <2> QED  BY <2>1
<1> QED  BY <1>1, <1>2

-----------------------------------------------------------------------------
(***************************************************************************)
(* A step of one connection.                                               *)
(***************************************************************************)

\* The kinds of decode that c has in the queue q.
Busy(c, q) == {q[i][2] : i \in {n \in DOMAIN q : q[n][1] = c}}

\* A queue whose decodes are all awaited, once each.
Queue(q) ==
  /\ q \in Seq(Conns \X JobKinds)
  /\ IsInjective(q)
  /\ \A i \in DOMAIN q : Waits(conns[q[i][1]], q[i][2])

LEMMA QueueIsQueue ==
  ASSUME IInv
  PROVE  Queue(gpu)
BY DEF IInv, TypeOK, QueueInv, Queue

\* The decode at the head of the queue has ended.
LEMMA TailIsQueue ==
  ASSUME IInv, gpu # << >>
  PROVE  /\ Queue(Tail(gpu))
         /\ Head(gpu)[2] \notin Busy(Head(gpu)[1], Tail(gpu))
         /\ Head(gpu) \in Conns \X JobKinds
         /\ Waits(conns[Head(gpu)[1]], Head(gpu)[2])
<1>1. Queue(gpu)  BY QueueIsQueue
<1> DEFINE S == Conns \X JobKinds
           t == Tail(gpu)
<1>2. gpu \in Seq(S)  BY <1>1 DEF Queue
<1> HIDE DEF S
<1>3. /\ Head(gpu) = gpu[1] /\ 1 \in DOMAIN gpu /\ gpu[1] \in S
      /\ t \in Seq(S)
      /\ \A i \in DOMAIN t : i + 1 \in DOMAIN gpu /\ t[i] = gpu[i + 1] /\ i + 1 # 1 /\ i \in Nat
  BY <1>2, HeadTailProperties, LenProperties
<1> HIDE DEF t
<1>4. IsInjective(t)
  <2> SUFFICES ASSUME NEW i \in DOMAIN t, NEW j \in DOMAIN t, t[i] = t[j]  PROVE i = j
    BY DEF IsInjective
  <2>1. gpu[i + 1] = gpu[j + 1] /\ i + 1 \in DOMAIN gpu /\ j + 1 \in DOMAIN gpu
    BY <1>3
  <2>2. i + 1 = j + 1  BY <1>1, <2>1 DEF Queue, IsInjective
  <2> QED  BY <1>3, <2>2
<1>5. \A i \in DOMAIN t : Waits(conns[t[i][1]], t[i][2])
  BY <1>1, <1>3 DEF Queue
<1>6. Head(gpu)[2] \notin Busy(Head(gpu)[1], t)
  <2> SUFFICES ASSUME NEW i \in DOMAIN t, t[i][1] = gpu[1][1], t[i][2] = gpu[1][2]
               PROVE  FALSE
    BY <1>3 DEF Busy
  <2>1. t[i] \in S /\ gpu[1] \in S  BY <1>3
  <2>2. t[i] = gpu[1]  BY <2>1 DEF S
  <2>3. gpu[i + 1] = gpu[1] /\ i + 1 \in DOMAIN gpu  BY <1>3, <2>2
  <2>4. i + 1 = 1  BY <1>1, <1>3, <2>3 DEF Queue, IsInjective
  <2> QED  BY <1>3, <2>4
<1>7. Waits(conns[Head(gpu)[1]], Head(gpu)[2])  BY <1>1, <1>3 DEF Queue
<1> QED  BY <1>3, <1>4, <1>5, <1>6, <1>7 DEF Queue, S, t

LEMMA BusyIsAwaited ==
  ASSUME NEW c, NEW q, Queue(q)
  PROVE  \A job \in Busy(c, q) : job \in JobKinds /\ Waits(conns[c], job)
<1> SUFFICES ASSUME NEW i \in DOMAIN q, q[i][1] = c
             PROVE  q[i][2] \in JobKinds /\ Waits(conns[c], q[i][2])
  BY DEF Busy
<1>1. q[i] \in Conns \X JobKinds  BY DEF Queue
<1>2. q[i][2] \in JobKinds  BY <1>1
<1> QED  BY <1>2 DEF Queue

\* What a connection works on is a world that a step may start from.
LEMMA WorldIs ==
  ASSUME IInv, NEW c \in Conns, conns[c].phase # "unborn", NEW q, Queue(q)
  PROVE  /\ World(c).k = conns[c] /\ World(c).l = ledgers[conns[c].ledger]
         /\ World(c).j = journals[conns[c].journal] /\ World(c).jobs = << >>
         /\ conns[c].journal \in Journals /\ conns[c].ledger \in Conns
         /\ WorldInv(World(c), Busy(c, q))
         /\ Busy(c, q) \subseteq {"commit", "partial"} => Calm(World(c), Busy(c, q))
         /\ conns[c].phase \notin {"tail", "raw"} => Calm(World(c), Busy(c, q))
<1> DEFINE w == World(c)
<1>1. /\ w.k = conns[c] /\ w.l = ledgers[conns[c].ledger]
      /\ w.j = journals[conns[c].journal] /\ w.jobs = << >>
  BY DEF World
<1>2. /\ conns[c] \in Locals /\ ledgers \in [Conns -> Ledger]
      /\ journals \in [Journals -> Sessions] /\ LocalsInv(conns[c]) /\ EmbedInv(conns[c])
  BY DEF IInv, TypeOK
<1>3. conns[c].journal \in Journals  BY <1>2 DEF LocalsInv
<1>4. conns[c].ledger \in Conns  BY <1>2 DEF Locals
<1>5. PrefixIsDecoded(journals[conns[c].journal])  BY <1>3 DEF IInv
<1>6. w \in Worlds
  <2>1. << >> \in Seq(JobKinds)  OBVIOUS
  <2>2. ledgers[conns[c].ledger] \in Ledger /\ journals[conns[c].journal] \in Sessions
    BY <1>2, <1>3, <1>4
  <2> QED  BY <1>2, <2>1, <2>2 DEF World, Worlds
<1>7. \A job \in Busy(c, q) : job \in JobKinds /\ Waits(conns[c], job)
  BY BusyIsAwaited
<1> HIDE DEF w
<1>8. JobsInv(w.k, w.jobs, Busy(c, q))
  BY <1>1, <1>7 DEF JobsInv, IsInjective
<1>9. WorldCore(w, Busy(c, q))
  BY <1>1, <1>2, <1>5, <1>6, <1>8 DEF WorldCore
<1>10. WorldInv(w, Busy(c, q))
  BY <1>1, <1>2, <1>9 DEF WorldInv
<1>11. conns[c].phase \notin {"tail", "raw"} => Busy(c, q) \subseteq {"commit", "partial"}
  BY <1>7 DEF JobKinds, Waits
<1> QED  BY <1>1, <1>3, <1>4, <1>9, <1>10, <1>11 DEF Calm, w

LEMMA ConcatIs ==
  ASSUME NEW S, NEW s \in Seq(S), NEW t \in Seq(S)
  PROVE  /\ s \o t \in Seq(S)
         /\ DOMAIN (s \o t) = 1 .. Len(s) + Len(t)
         /\ \A i \in 1 .. Len(s) : (s \o t)[i] = s[i]
         /\ \A i \in Len(s) + 1 .. Len(s) + Len(t) : (s \o t)[i] = t[i - Len(s)]
<1>1. /\ s \o t \in Seq(S) /\ Len(s \o t) = Len(s) + Len(t)
      /\ \A i \in 1 .. Len(s) + Len(t) :
           (s \o t)[i] = IF i <= Len(s) THEN s[i] ELSE t[i - Len(s)]
      /\ Len(s) \in Nat /\ Len(t) \in Nat
  BY ConcatProperties
<1> DEFINE c == s \o t
<1> HIDE DEF c
<1>2. DOMAIN c = 1 .. Len(s) + Len(t)  BY <1>1, LenProperties DEF c
<1>3. \A i \in 1 .. Len(s) : c[i] = s[i]  BY <1>1 DEF c
<1>4. \A i \in Len(s) + 1 .. Len(s) + Len(t) : c[i] = t[i - Len(s)]  BY <1>1 DEF c
<1> QED  BY <1>1, <1>2, <1>3, <1>4 DEF c

\* The decodes that a step submits join the queue.
LEMMA QueueGrows ==
  ASSUME NEW c \in Conns, NEW q, Queue(q), NEW jobs \in Seq(JobKinds), NEW k,
         JobsInv(k, jobs, Busy(c, q)),
         conns' = [conns EXCEPT ![c] = k], DOMAIN conns = Conns,
         gpu' = q \o [i \in DOMAIN jobs |-> <<c, jobs[i]>>]
  PROVE  gpu' \in Seq(Conns \X JobKinds) /\ QueueInv'
<1> DEFINE S == Conns \X JobKinds
           t == [i \in DOMAIN jobs |-> <<c, jobs[i]>>]
<1>1. DOMAIN jobs = 1 .. Len(jobs) /\ Len(jobs) \in Nat /\ \A i \in DOMAIN jobs : jobs[i] \in JobKinds
  BY LenProperties
<1>2. t \in Seq(S) /\ Len(t) = Len(jobs)
  <2>1. \A i \in 1 .. Len(jobs) : t[i] \in S  BY <1>1
  <2>2. t = [i \in 1 .. Len(jobs) |-> t[i]]  BY <1>1
  <2> HIDE DEF S, t
  <2> QED  BY <1>1, <2>1, <2>2
<1>3. q \in Seq(S) /\ DOMAIN q = 1 .. Len(q) /\ Len(q) \in Nat /\ IsInjective(q)
      /\ \A i \in DOMAIN q : q[i] \in S
  <2>1. q \in Seq(S)  BY DEF Queue
  <2> HIDE DEF S
  <2> QED  BY <2>1, LenProperties DEF Queue
<1>4. \A i \in DOMAIN jobs : t[i][1] = c /\ t[i][2] = jobs[i]  OBVIOUS
<1> HIDE DEF S, t
<1>5. /\ gpu' \in Seq(S)
      /\ DOMAIN gpu' = 1 .. Len(q) + Len(jobs)
      /\ \A i \in 1 .. Len(q) : gpu'[i] = q[i]
      /\ \A i \in Len(q) + 1 .. Len(q) + Len(jobs) : gpu'[i] = t[i - Len(q)]
  <2>1. gpu' = q \o t  BY DEF t
  <2>2. /\ q \o t \in Seq(S)
        /\ DOMAIN (q \o t) = 1 .. Len(q) + Len(t)
        /\ \A i \in 1 .. Len(q) : (q \o t)[i] = q[i]
        /\ \A i \in Len(q) + 1 .. Len(q) + Len(t) : (q \o t)[i] = t[i - Len(q)]
    BY <1>2, <1>3, ConcatIs, Zenon
  <2> QED  BY <1>2, <2>1, <2>2, Zenon
<1>6. \A i \in DOMAIN gpu' :
        \/ i \in DOMAIN q /\ gpu'[i] = q[i]
        \/ i > Len(q) /\ i - Len(q) \in DOMAIN jobs /\ gpu'[i] = t[i - Len(q)]
  <2>1. \A i \in 1 .. Len(q) + Len(jobs) :
          \/ i \in 1 .. Len(q)
          \/ i > Len(q) /\ i \in Len(q) + 1 .. Len(q) + Len(jobs) /\ i - Len(q) \in 1 .. Len(jobs)
    BY <1>1, <1>3
  <2> QED  BY <1>1, <1>3, <1>5, <2>1, Zenon
<1>7. \A i \in DOMAIN q, n \in DOMAIN jobs : q[i] # t[n]
  <2> SUFFICES ASSUME NEW i \in DOMAIN q, NEW n \in DOMAIN jobs, q[i] = t[n]  PROVE FALSE
    OBVIOUS
  <2>1. q[i][1] = c /\ q[i][2] = jobs[n]  BY <1>4
  <2>2. jobs[n] \in Busy(c, q)  BY <2>1 DEF Busy
  <2> QED  BY <2>2 DEF JobsInv
<1>8. \A m, n \in DOMAIN jobs : t[m] = t[n] => m = n
  <2>1. \A m, n \in DOMAIN jobs : jobs[m] = jobs[n] => m = n  BY DEF JobsInv, IsInjective
  <2> QED  BY <1>4, <2>1
<1>9. IsInjective(gpu')
  <2> SUFFICES ASSUME NEW i \in DOMAIN gpu', NEW j \in DOMAIN gpu', gpu'[i] = gpu'[j]
               PROVE  i = j
    BY DEF IsInjective
  <2>1. CASE i \in DOMAIN q /\ gpu'[i] = q[i] /\ j \in DOMAIN q /\ gpu'[j] = q[j]
    BY <2>1, <1>3 DEF IsInjective
  <2>2. CASE /\ i - Len(q) \in DOMAIN jobs /\ gpu'[i] = t[i - Len(q)]
             /\ j - Len(q) \in DOMAIN jobs /\ gpu'[j] = t[j - Len(q)]
    <3>1. i - Len(q) = j - Len(q)  BY <2>2, <1>8
    <3> QED  BY <3>1, <1>3, <1>5, <1>1
  <2> QED  BY <1>6, <1>7, <2>1, <2>2
<1>10. \A i \in DOMAIN gpu' : Waits(conns'[gpu'[i][1]], gpu'[i][2])
  <2>1. TAKE i \in DOMAIN gpu'
  <2>2. conns'[c] = k /\ \A d \in Conns \ {c} : conns'[d] = conns[d]  OBVIOUS
  <2>3. CASE i \in DOMAIN q /\ gpu'[i] = q[i]
    <3>1. q[i][1] \in Conns /\ q[i][2] \in JobKinds  BY <2>3, <1>3 DEF S
    <3>2. CASE q[i][1] = c
      <4>1. q[i][2] \in Busy(c, q)  BY <2>3, <3>2 DEF Busy
      <4>2. Waits(k, q[i][2])  BY <4>1 DEF JobsInv
      <4> QED  BY <4>2, <2>2, <2>3, <3>2
    <3>3. CASE q[i][1] # c
      <4>1. Waits(conns[q[i][1]], q[i][2])  BY <2>3 DEF Queue
      <4> QED  BY <4>1, <2>2, <2>3, <3>1, <3>3
    <3> QED  BY <3>2, <3>3
  <2>4. CASE i - Len(q) \in DOMAIN jobs /\ gpu'[i] = t[i - Len(q)]
    <3>1. Waits(k, jobs[i - Len(q)])  BY <2>4 DEF JobsInv
    <3> QED  BY <3>1, <2>2, <2>4, <1>4
  <2> QED  BY <1>6, <2>3, <2>4
<1> QED  BY <1>5, <1>9, <1>10 DEF QueueInv, S

\* A step of a connection that has been born keeps the invariant.
LEMMA BecomeKeeps ==
  ASSUME IInv, NEW c \in Conns, conns[c].phase # "unborn", NEW w, NEW q, Queue(q),
         WorldInv(w, Busy(c, q)), Become(c, w, q),
         UNCHANGED <<speech, held, created, answers>>
  PROVE  IInv'
<1>1. /\ w.k \in Locals /\ w.l \in Ledger /\ w.j \in Sessions /\ w.jobs \in Seq(JobKinds)
      /\ LocalsInv(w.k) /\ EmbedInv(w.k) /\ w.k.phase # "unborn"
      /\ PrefixIsDecoded(w.j) /\ JobsInv(w.k, w.jobs, Busy(c, q))
  BY WorldFields DEF WorldInv, WorldCore
<1> DEFINE k == Settled(w.k)
<1>2. /\ k \in Locals /\ LocalsInv(k) /\ EmbedInv(k)
      /\ \A job \in JobKinds : Waits(w.k, job) => Waits(k, job)
  BY <1>1, SettledKeeps
<1> HIDE DEF k
<1>3. /\ conns' = [conns EXCEPT ![c] = k]
      /\ ledgers' = [ledgers EXCEPT ![conns[c].ledger] = w.l]
      /\ journals' = [journals EXCEPT ![conns[c].journal] = w.j]
      /\ gpu' = q \o [i \in DOMAIN w.jobs |-> <<c, w.jobs[i]>>]
  BY DEF Become, k
<1>4. /\ conns \in [Conns -> Locals] /\ ledgers \in [Conns -> Ledger]
      /\ journals \in [Journals -> Sessions]
  BY DEF IInv, TypeOK
<1>5. \A job \in Busy(c, q) : job \in JobKinds  BY BusyIsAwaited
<1>6. JobsInv(k, w.jobs, Busy(c, q))
  <2>1. \A i \in DOMAIN w.jobs : w.jobs[i] \in JobKinds  BY <1>1
  <2> QED  BY <1>1, <1>2, <1>5, <2>1 DEF JobsInv
<1>7. gpu' \in Seq(Conns \X JobKinds) /\ QueueInv'
  <2>1. DOMAIN conns = Conns  BY <1>4
  <2> QED  BY <1>1, <1>3, <1>6, <2>1, QueueGrows
<1>8. TypeOK'
  BY <1>1, <1>2, <1>3, <1>4, <1>7 DEF IInv, TypeOK
<1>9. \A d \in Conns : LocalsInv(conns'[d]) /\ EmbedInv(conns'[d])
  BY <1>2, <1>3, <1>4 DEF IInv
<1>10. \A j \in Journals : PrefixIsDecoded(journals'[j])
  BY <1>1, <1>3, <1>4 DEF IInv
<1> QED  BY <1>7, <1>8, <1>9, <1>10 DEF IInv

-----------------------------------------------------------------------------
(***************************************************************************)
(* What the actions do to a world.                                         *)
(***************************************************************************)

\* A step that changes the locals and the journal, but neither's prefix.
LEMMA CalmUpdateKJ ==
  ASSUME NEW w, NEW v, NEW busy, Calm(w, busy), NEW k \in Locals, NEW j \in Sessions,
         v = [w EXCEPT !.k = k, !.j = j],
         SameWaits(k, w.k), SamePrefix(k, w.k), PhaseInv(k), SamePrefix(j, w.j)
  PROVE  Calm(v, busy) /\ v.k = k /\ v.l = w.l /\ v.j = j
<1>1. w \in Worlds /\ w.jobs = << >> /\ PrefixIsDecoded(w.j)  BY CalmWorld
<1>2. v \in Worlds /\ v.k = k /\ v.l = w.l /\ v.j = j /\ v.jobs = w.jobs
  BY <1>1, UpdateKJ, ZenonT(60)
<1>3. PrefixIsDecoded(v.j)  BY <1>1, <1>2 DEF SamePrefix, PrefixIsDecoded
<1> QED  BY <1>1, <1>2, <1>3, CalmStays

\* accept(), and the phase in which the ack is sent.
Acked(w, s, frame) == [Accept(w, s) EXCEPT !.k.phase = "ack", !.k.frame = frame]

LEMMA AckedKeeps ==
  ASSUME NEW w, NEW busy, Calm(w, busy), NEW s \in Seqs, NEW frame \in Seqs \union {None}
  PROVE  WorldInv(Acked(w, s, frame), busy)
<1> DEFINE k == [w.k EXCEPT !.phase = "ack", !.frame = frame]
           j == [w.j EXCEPT !.chunks = @ \union {s}]
           v == Acked(w, s, frame)
<1>1. w \in Worlds /\ w.k \in Locals /\ w.j \in Sessions /\ PhaseInv(w.k)
  BY CalmWorld
<1>2. k \in Locals
  <2>1. "ack" \in Phases  BY DEF Phases
  <2> QED  BY <1>1, <2>1, ZenonT(60) DEF Locals
<1>3. j \in Sessions
  <2>1. w.j.chunks \union {s} \in SUBSET Seqs  BY <1>1 DEF Sessions
  <2> QED  BY <1>1, <2>1 DEF Sessions
<1>4. v = [w EXCEPT !.k = k, !.j = j]  BY DEF Acked, Accept
<1>5. /\ k.gated = w.k.gated
      /\ k.stable_text = w.k.stable_text /\ k.stable_bytes = w.k.stable_bytes
      /\ k.commit = w.k.commit /\ k.partial = w.k.partial /\ k.journal = w.k.journal
      /\ k.phase = "ack"
  BY <1>1 DEF Locals
<1>6. /\ j.gated = w.j.gated /\ j.stable_text = w.j.stable_text
      /\ j.stable_bytes = w.j.stable_bytes
  BY <1>1 DEF Sessions
<1> HIDE DEF k, j, v
<1>7. SameWaits(k, w.k) /\ SamePrefix(k, w.k) /\ PhaseInv(k) /\ SamePrefix(j, w.j)
  BY <1>5, <1>6 DEF SameWaits, SamePrefix, PhaseInv
<1>8. Calm(v, busy) /\ v.k = k
  BY <1>2, <1>3, <1>4, <1>7, CalmUpdateKJ
<1> QED  BY <1>5, <1>8 DEF Calm, WorldInv, EmbedInv, v

\* The frame's payload reaches the buffers.
Buffered(w, s, frame) ==
  [w EXCEPT !.k.frame = frame, !.k.raw = @ \o Payload(s), !.k.staging = @ \o Payload(s)]

LEMMA BufferedKeeps ==
  ASSUME NEW w, NEW busy, Calm(w, busy), NEW s \in Seqs, NEW frame \in Seqs \union {None}
  PROVE  /\ Calm(Buffered(w, s, frame), busy)
         /\ Buffered(w, s, frame).k = [w.k EXCEPT !.frame = frame, !.raw = @ \o Payload(s),
                                                  !.staging = @ \o Payload(s)]
         /\ Buffered(w, s, frame).j = w.j
<1> DEFINE raw == w.k.raw \o Payload(s)
           staging == w.k.staging \o Payload(s)
           k == [w.k EXCEPT !.frame = frame, !.raw = raw, !.staging = staging]
           v == Buffered(w, s, frame)
<1>1. w \in Worlds /\ w.k \in Locals /\ w.l \in Ledger /\ PhaseInv(w.k)
  BY CalmWorld
<1>2. raw \in Audio /\ staging \in Audio
  BY <1>1, AudioFacts, PayloadIs, ConcatProperties DEF Audio
<1>3. v = [w EXCEPT !.k = k, !.l = w.l]
  <2>1. [w EXCEPT !.k = k, !.l = w.l] = [w EXCEPT !.k = k]  BY <1>1 DEF Worlds
  <2>2. v = [w EXCEPT !.k = k]  BY DEF Buffered
  <2> QED  BY <2>1, <2>2
<1>4. k = [w.k EXCEPT !.frame = frame, !.raw = @ \o Payload(s), !.staging = @ \o Payload(s)]
  OBVIOUS
<1> HIDE DEF raw, staging
<1>5. k \in Locals  BY <1>1, <1>2, ZenonT(60) DEF Locals
<1>6. /\ k.gated = w.k.gated
      /\ k.stable_text = w.k.stable_text /\ k.stable_bytes = w.k.stable_bytes
      /\ k.commit = w.k.commit /\ k.partial = w.k.partial /\ k.journal = w.k.journal
      /\ k.phase = w.k.phase /\ k.answer = w.k.answer
  BY <1>1 DEF Locals
<1> HIDE DEF k, v
<1>7. SameWaits(k, w.k) /\ SamePrefix(k, w.k) /\ PhaseInv(k)
  BY <1>1, <1>6 DEF SameWaits, SamePrefix, PhaseInv
<1>8. Calm(v, busy) /\ v.k = k /\ v.j = w.j
  BY <1>1, <1>3, <1>5, <1>7, CalmUpdate, ZenonT(60)
<1> QED  BY <1>4, <1>8 DEF v

\* A late frame goes into the journal and the buffers.
Late(w, s) == [Accept(w, s) EXCEPT !.k.raw = @ \o Payload(s), !.k.staging = @ \o Payload(s)]

LEMMA LateKeeps ==
  ASSUME NEW w, NEW busy, Calm(w, busy), NEW s \in Seqs
  PROVE  /\ Calm(Late(w, s), busy)
         /\ Late(w, s).k = [w.k EXCEPT !.raw = @ \o Payload(s), !.staging = @ \o Payload(s)]
         /\ Late(w, s).l = w.l
         /\ Late(w, s).j = [w.j EXCEPT !.chunks = @ \union {s}]
<1> DEFINE raw == w.k.raw \o Payload(s)
           staging == w.k.staging \o Payload(s)
           k == [w.k EXCEPT !.raw = raw, !.staging = staging]
           j == [w.j EXCEPT !.chunks = @ \union {s}]
           v == Late(w, s)
<1>1. w \in Worlds /\ w.k \in Locals /\ w.j \in Sessions /\ PhaseInv(w.k)
  BY CalmWorld
<1>2. raw \in Audio /\ staging \in Audio
  BY <1>1, AudioFacts, PayloadIs, ConcatProperties DEF Audio
<1>3. v = [w EXCEPT !.k = k, !.j = j]  BY DEF Late, Accept
<1>4. k = [w.k EXCEPT !.raw = @ \o Payload(s), !.staging = @ \o Payload(s)]
  OBVIOUS
<1> HIDE DEF raw, staging
<1>5. k \in Locals  BY <1>1, <1>2, ZenonT(60) DEF Locals
<1>6. j \in Sessions
  <2>1. w.j.chunks \union {s} \in SUBSET Seqs  BY <1>1 DEF Sessions
  <2> QED  BY <1>1, <2>1 DEF Sessions
<1>7. /\ k.gated = w.k.gated
      /\ k.stable_text = w.k.stable_text /\ k.stable_bytes = w.k.stable_bytes
      /\ k.commit = w.k.commit /\ k.partial = w.k.partial /\ k.journal = w.k.journal
      /\ k.phase = w.k.phase /\ k.answer = w.k.answer
  BY <1>1 DEF Locals
<1>8. /\ j.gated = w.j.gated /\ j.stable_text = w.j.stable_text
      /\ j.stable_bytes = w.j.stable_bytes
  BY <1>1 DEF Sessions
<1> HIDE DEF k, v
<1>9. SameWaits(k, w.k) /\ SamePrefix(k, w.k) /\ PhaseInv(k) /\ SamePrefix(j, w.j)
  BY <1>1, <1>7, <1>8 DEF SameWaits, SamePrefix, PhaseInv
<1>10. Calm(v, busy) /\ v.k = k /\ v.l = w.l /\ v.j = j
  <2> HIDE DEF j
  <2> QED  BY <1>3, <1>5, <1>6, <1>9, CalmUpdateKJ
<1> QED  BY <1>4, <1>10 DEF v

\* The wait for coverage is over.
LEMMA CompleteKeeps ==
  ASSUME NEW w, NEW busy, Calm(w, busy), NEW complete \in BOOLEAN
  PROVE  /\ Calm([w EXCEPT !.k.complete = complete], busy)
         /\ [w EXCEPT !.k.complete = complete].k = [w.k EXCEPT !.complete = complete]
<1> DEFINE k == [w.k EXCEPT !.complete = complete]
           v == [w EXCEPT !.k.complete = complete]
<1>1. w \in Worlds /\ w.k \in Locals /\ w.l \in Ledger /\ PhaseInv(w.k)
  BY CalmWorld
<1>2. v = [w EXCEPT !.k = k, !.l = w.l]
  <2>1. [w EXCEPT !.k = k, !.l = w.l] = [w EXCEPT !.k = k]  BY <1>1 DEF Worlds
  <2>2. v = [w EXCEPT !.k = k]  OBVIOUS
  <2> QED  BY <2>1, <2>2
<1>3. k \in Locals  BY <1>1 DEF Locals
<1>4. /\ k.gated = w.k.gated
      /\ k.stable_text = w.k.stable_text /\ k.stable_bytes = w.k.stable_bytes
      /\ k.commit = w.k.commit /\ k.partial = w.k.partial /\ k.journal = w.k.journal
      /\ k.phase = w.k.phase /\ k.answer = w.k.answer
  BY <1>1 DEF Locals
<1>5. Calm(v, busy) /\ v.k = k
  <2> HIDE DEF k, v
  <2>1. SameWaits(k, w.k) /\ SamePrefix(k, w.k) /\ PhaseInv(k)
    BY <1>1, <1>4 DEF SameWaits, SamePrefix, PhaseInv
  <2> QED  BY <1>1, <1>2, <1>3, <2>1, CalmUpdate, ZenonT(60)
<1> QED  BY <1>5

\* The speaker check at a boundary has decided.
Decided(w, accept, enrolled) ==
  LET heard == [w EXCEPT !.k.pending = << >>, !.k.enrolled = enrolled]
  IN  IF accept
      THEN [heard EXCEPT !.k.gated = @ \o w.k.pending, !.l = CommitSegment(@)]
      ELSE [heard EXCEPT !.l = DiscardSegment(@)]

LEMMA DecidedKeeps ==
  ASSUME NEW w, NEW busy, Calm(w, busy), NEW accept \in BOOLEAN, NEW enrolled \in BOOLEAN
  PROVE  /\ Calm(Decided(w, accept, enrolled), busy)
         /\ Decided(w, accept, enrolled).k =
              [w.k EXCEPT !.pending = << >>, !.enrolled = enrolled,
                          !.gated = IF accept THEN @ \o w.k.pending ELSE @]
         /\ Decided(w, accept, enrolled).l =
              IF accept THEN CommitSegment(w.l) ELSE DiscardSegment(w.l)
         /\ Decided(w, accept, enrolled).j = w.j
<1> DEFINE more == IF accept THEN w.k.pending ELSE << >>
           gated == IF accept THEN w.k.gated \o w.k.pending ELSE w.k.gated
           l == IF accept THEN CommitSegment(w.l) ELSE DiscardSegment(w.l)
           k == [w.k EXCEPT !.pending = << >>, !.enrolled = enrolled, !.gated = gated]
           v == Decided(w, accept, enrolled)
<1>1. /\ w \in Worlds /\ w.k \in Locals /\ w.l \in Ledger /\ PhaseInv(w.k)
      /\ w.jobs = << >> /\ PrefixIsDecoded(w.j)
  BY CalmWorld
<1>2. w.k.gated \in Audio /\ w.k.pending \in Audio  BY <1>1, AudioFacts
<1>3. /\ << >> \in Audio /\ more \in Audio /\ gated \in Audio /\ gated = w.k.gated \o more
  <2>1. << >> \in Audio  BY DEF Audio
  <2>2. w.k.gated \o w.k.pending \in Audio  BY <1>2, ConcatProperties DEF Audio
  <2>3. w.k.gated \o << >> = w.k.gated  BY <1>2, ConcatEmptySeq DEF Audio
  <2> QED  BY <1>2, <2>1, <2>2, <2>3
<1>4. l \in Ledger
  <2>1. 0 \in Nat /\ FALSE \in BOOLEAN  OBVIOUS
  <2> QED  BY <1>1, <2>1, LedgerMethods
<1>5. v = [w EXCEPT !.k = k, !.l = l]
  <2>1. CASE accept  BY <2>1, ZenonT(60) DEF Decided
  <2>2. CASE ~accept
    <3> DEFINE m == [w.k EXCEPT !.pending = << >>, !.enrolled = enrolled]
    <3>1. v = [w EXCEPT !.k = m, !.l = l]  BY <2>2 DEF Decided
    <3>2. m \in Locals  BY <1>1, <1>3, ZenonT(60) DEF Locals
    <3>3. m.gated = w.k.gated  BY <1>1 DEF Locals
    <3>4. k = [m EXCEPT !.gated = gated]  OBVIOUS
    <3>5. gated = m.gated  BY <2>2, <3>3
    <3> HIDE DEF m, k
    <3>6. k = m  BY <3>2, <3>4, <3>5 DEF Locals
    <3> QED  BY <3>1, <3>6
  <2> QED  BY <2>1, <2>2
<1>6. k = [w.k EXCEPT !.pending = << >>, !.enrolled = enrolled,
                      !.gated = IF accept THEN @ \o w.k.pending ELSE @]
  OBVIOUS
<1> HIDE DEF gated, l, more
<1>7. k \in Locals
  <2>1. w.k \in Locals /\ << >> \in Audio /\ gated \in Audio  BY <1>1, <1>3
  <2> QED  BY <2>1, ZenonT(60) DEF Locals
<1>8. /\ k.gated = gated
      /\ k.stable_text = w.k.stable_text /\ k.stable_bytes = w.k.stable_bytes
      /\ k.commit = w.k.commit /\ k.partial = w.k.partial /\ k.journal = w.k.journal
      /\ k.phase = w.k.phase /\ k.answer = w.k.answer
  BY <1>1 DEF Locals
<1>9. Calm(v, busy) /\ v.k = k /\ v.l = l /\ v.j = w.j
  <2> HIDE DEF k, v
  <2>1. v \in Worlds /\ v.k = k /\ v.l = l /\ v.j = w.j /\ v.jobs = w.jobs
    BY <1>1, <1>4, <1>5, <1>7 DEF Worlds
  <2>2. SameWaits(v.k, w.k) /\ PhaseInv(v.k)
    BY <1>1, <1>8, <2>1 DEF SameWaits, PhaseInv
  <2>3. v.k.gated = w.k.gated \o more /\ v.k.stable_text = w.k.stable_text
        /\ v.k.stable_bytes = w.k.stable_bytes
    BY <1>3, <1>8, <2>1
  <2> QED  BY <1>1, <1>3, <2>1, <2>2, <2>3, CalmGrows
<1> QED  BY <1>6, <1>9 DEF l

\* A background decode ends in any phase: what it must leave alone.
LEMMA WorldChanges ==
  ASSUME NEW w, NEW v, NEW busy, WorldInv(w, busy), w.jobs = << >>,
         v \in Worlds, v.jobs = << >>,
         PrefixIsDecoded(v.k), CommitIsOfGated(v.k), PrefixIsDecoded(v.j),
         v.k.journal = w.k.journal, v.k.phase = w.k.phase,
         v.k.events = w.k.events, v.k.answer = w.k.answer,
         \A job \in busy : Waits(v.k, job)
  PROVE  WorldInv(v, busy)
<1>1. LocalsInv(v.k) /\ EmbedInv(v.k) /\ v.k.phase # "unborn"
  BY DEF WorldInv, WorldCore, LocalsInv, EmbedInv
<1>2. JobsInv(v.k, v.jobs, busy)
  BY DEF WorldInv, WorldCore, JobsInv
<1> QED  BY <1>1, <1>2 DEF WorldInv, WorldCore

LEMMA SubSeqJoin ==
  ASSUME NEW S, NEW s \in Seq(S), NEW a \in Nat, NEW b \in Nat, a <= b, b <= Len(s)
  PROVE  SubSeq(s, 1, a) \o SubSeq(s, a + 1, b) = SubSeq(s, 1, b)
<1>1. Len(s) \in Nat /\ \A i \in 1 .. Len(s) : s[i] \in S  OBVIOUS
<1> DEFINE x == SubSeq(s, 1, a)  y == SubSeq(s, a + 1, b)  z == SubSeq(s, 1, b)
<1>2. x \in Seq(S) /\ Len(x) = a /\ \A i \in 1 .. a : x[i] = s[i]
  <2>1. \A i \in 1 .. a : s[i] \in S  BY <1>1
  <2>2. /\ x \in Seq(S) /\ Len(x) = IF 1 <= a THEN a - 1 + 1 ELSE 0
        /\ \A i \in 1 .. a - 1 + 1 : x[i] = s[1 + i - 1]
    BY <1>1, <2>1, SubSeqProperties
  <2> HIDE DEF x
  <2> QED  BY <2>2
<1>3. z \in Seq(S) /\ Len(z) = b /\ \A i \in 1 .. b : z[i] = s[i]
  <2>1. \A i \in 1 .. b : s[i] \in S  BY <1>1
  <2>2. /\ z \in Seq(S) /\ Len(z) = IF 1 <= b THEN b - 1 + 1 ELSE 0
        /\ \A i \in 1 .. b - 1 + 1 : z[i] = s[1 + i - 1]
    BY <1>1, <2>1, SubSeqProperties
  <2> HIDE DEF z
  <2> QED  BY <2>2
<1>4. y \in Seq(S) /\ Len(y) = b - a /\ \A i \in 1 .. b - a : y[i] = s[a + i]
  <2> DEFINE m == a + 1
  <2>1. m \in Nat \ {0} /\ \A i \in m .. b : s[i] \in S  BY <1>1
  <2>2. /\ SubSeq(s, m, b) \in Seq(S)
        /\ Len(SubSeq(s, m, b)) = IF m <= b THEN b - m + 1 ELSE 0
        /\ \A i \in 1 .. b - m + 1 : SubSeq(s, m, b)[i] = s[m + i - 1]
    <3> HIDE DEF m
    <3> QED  BY <1>1, <2>1, SubSeqProperties
  <2>3. y = SubSeq(s, m, b)  OBVIOUS
  <2>4. b - m + 1 = b - a /\ \A i \in 1 .. b - a : m + i - 1 = a + i  OBVIOUS
  <2>5. m <= b \/ b = a  OBVIOUS
  <2>6. m = a + 1  OBVIOUS
  <2> HIDE DEF y, m
  <2> QED  BY <2>2, <2>3, <2>4, <2>5, <2>6
<1> HIDE DEF x, y, z
<1>5. /\ x \o y \in Seq(S) /\ Len(x \o y) = a + (b - a)
      /\ \A i \in 1 .. a + (b - a) : (x \o y)[i] = IF i <= a THEN x[i] ELSE y[i - a]
  <2>1. x \in Seq(S) /\ y \in Seq(S)  BY <1>2, <1>4
  <2>2. /\ x \o y \in Seq(S) /\ Len(x \o y) = Len(x) + Len(y)
        /\ \A i \in 1 .. Len(x) + Len(y) :
             (x \o y)[i] = IF i <= Len(x) THEN x[i] ELSE y[i - Len(x)]
    BY <2>1, ConcatProperties
  <2>3. Len(x) = a /\ Len(y) = b - a  BY <1>2, <1>4
  <2> QED  BY <2>2, <2>3, Zenon
<1> DEFINE c == x \o y
<1> HIDE DEF c
<1>6. a + (b - a) = b  OBVIOUS
<1>7. \A i \in 1 .. b : c[i] = z[i]
  <2>1. TAKE i \in 1 .. b
  <2>2. c[i] = IF i <= a THEN x[i] ELSE y[i - a]  BY <1>5, <1>6 DEF c
  <2>3. CASE i <= a  BY <2>2, <2>3, <1>2, <1>3
  <2>4. CASE ~(i <= a)
    <3>1. i - a \in 1 .. b - a /\ a + (i - a) = i  BY <2>4
    <3>2. y[i - a] = s[i]  BY <1>4, <3>1
    <3> QED  BY <2>2, <2>4, <3>2, <1>3
  <2> QED  BY <2>3, <2>4
<1>8. c = z  BY <1>3, <1>5, <1>6, <1>7, SeqEqual DEF c
<1> QED  BY <1>8 DEF c, x, y, z

\* A commit that has been superseded, or that has no words, changes no prefix;
\* any other extends it by exactly the audio it decoded.
LEMMA CommittedKeeps ==
  ASSUME NEW w, NEW busy, WorldInv(w, busy), w.jobs = << >>, "commit" \notin busy,
         busy \subseteq JobKinds, w.k.commit # None, NEW outcome
  PROVE  WorldInv(Committed([w EXCEPT !.k.commit = None], w.k.commit, outcome), busy)
<1> DEFINE t == w.k.commit
           n == [w.k EXCEPT !.commit = None]
           u == [w EXCEPT !.k.commit = None]
<1>1. w \in Worlds /\ w.k \in Locals /\ w.j \in Sessions /\ PrefixIsDecoded(w.j)
      /\ LocalsInv(w.k)
  BY WorldFields DEF WorldInv, WorldCore
<1>2. t \in Commits  BY <1>1 DEF Locals
<1>3. /\ w.k.gated \in Seq(Units) /\ w.k.stable_text \in Audio /\ w.k.stable_bytes \in Nat
      /\ t.start \in Nat /\ t.upto \in Nat /\ t.audio \in Audio
  <2>1. t.start \in Nat /\ t.upto \in Nat /\ t.audio \in Audio  BY <1>2 DEF Commits
  <2> QED  BY <1>1, <2>1, AudioFacts DEF Audio
<1>4. /\ t.start <= t.upto /\ t.upto <= Len(w.k.gated)
      /\ t.audio = SubSeq(w.k.gated, t.start + 1, t.upto)
  BY <1>1 DEF LocalsInv, CommitIsOfGated
<1>5. w.k.stable_text = SubSeq(w.k.gated, 1, w.k.stable_bytes) /\ w.k.stable_bytes <= Len(w.k.gated)
  BY <1>1 DEF LocalsInv, PrefixIsDecoded
<1>6. \A job \in busy : job # "commit" /\ Waits(w.k, job)
  BY DEF WorldInv, WorldCore, JobsInv
<1>7. n \in Locals  BY <1>1 DEF Locals
<1>8. u = [w EXCEPT !.k = n]  OBVIOUS
<1>9. /\ n.gated = w.k.gated /\ n.stable_text = w.k.stable_text
      /\ n.stable_bytes = w.k.stable_bytes /\ n.commit = None /\ n.partial = w.k.partial
      /\ n.journal = w.k.journal /\ n.phase = w.k.phase /\ n.events = w.k.events
      /\ n.answer = w.k.answer
  BY <1>1 DEF Locals
<1> HIDE DEF n, t, u
<1>10. u \in Worlds /\ u.k = n /\ u.l = w.l /\ u.j = w.j /\ u.jobs = w.jobs
  BY <1>1, <1>7, <1>8 DEF Worlds
<1>11. \A v : v.phase = w.k.phase /\ v.partial = w.k.partial =>
         \A job \in busy : Waits(v, job)
  BY <1>6 DEF Waits, JobKinds
<1>12. WorldInv(u, busy)
  <2>1. PrefixIsDecoded(u.k) /\ CommitIsOfGated(u.k)
    BY <1>5, <1>9, <1>10 DEF PrefixIsDecoded, CommitIsOfGated
  <2>2. \A job \in busy : Waits(u.k, job)  BY <1>9, <1>10, <1>11
  <2> QED  BY <1>1, <1>9, <1>10, <2>1, <2>2, WorldChanges
<1>13. WorldInv([u EXCEPT !.k.empty_upto = t.upto], busy)
  <2> DEFINE k == [n EXCEPT !.empty_upto = t.upto]
             v == [u EXCEPT !.k.empty_upto = t.upto]
  <2>1. k \in Locals  BY <1>3, <1>7, ZenonT(60) DEF Locals
  <2>2. v = [u EXCEPT !.k = k]  BY <1>10
  <2>3. /\ k.gated = w.k.gated /\ k.stable_text = w.k.stable_text
        /\ k.stable_bytes = w.k.stable_bytes /\ k.commit = None /\ k.partial = w.k.partial
        /\ k.journal = w.k.journal /\ k.phase = w.k.phase /\ k.events = w.k.events
        /\ k.answer = w.k.answer
    BY <1>7, <1>9 DEF Locals
  <2> HIDE DEF k, v
  <2>4. v \in Worlds /\ v.k = k /\ v.j = u.j /\ v.jobs = u.jobs
    BY <1>10, <2>1, <2>2 DEF Worlds
  <2>5. PrefixIsDecoded(v.k) /\ CommitIsOfGated(v.k)
    BY <1>5, <2>3, <2>4 DEF PrefixIsDecoded, CommitIsOfGated
  <2>6. \A job \in busy : Waits(v.k, job)  BY <2>3, <2>4, <1>11
  <2>7. WorldInv(v, busy)
    BY <1>1, <1>10, <2>3, <2>4, <2>5, <2>6, WorldChanges
  <2> QED  BY <2>7 DEF v
<1>14. ASSUME u.k.stable_bytes = t.start
       PROVE  WorldInv(Sync([u EXCEPT !.k.stable_bytes = t.upto,
                                      !.k.stable_text = @ \o t.audio]), busy)
  <2> DEFINE text == n.stable_text \o t.audio
             k == [n EXCEPT !.stable_bytes = t.upto, !.stable_text = text]
             v == [u EXCEPT !.k.stable_bytes = t.upto, !.k.stable_text = @ \o t.audio]
  <2>1. text = SubSeq(w.k.gated, 1, t.upto)
    <3>1. text = SubSeq(w.k.gated, 1, t.start) \o SubSeq(w.k.gated, t.start + 1, t.upto)
      BY <1>4, <1>5, <1>9, <1>10, <1>14
    <3> QED  BY <1>3, <1>4, <3>1, SubSeqJoin
  <2>2. text \in Audio  BY <1>3, <1>9, ConcatProperties DEF Audio
  <2>3. v = [u EXCEPT !.k = k]  BY <1>10
  <2> HIDE DEF text
  <2>4. k \in Locals  BY <1>3, <1>7, <2>2, ZenonT(60) DEF Locals
  <2>5. /\ k.gated = w.k.gated /\ k.stable_text = text
        /\ k.stable_bytes = t.upto /\ k.commit = None /\ k.partial = w.k.partial
        /\ k.journal = w.k.journal /\ k.phase = w.k.phase /\ k.events = w.k.events
        /\ k.answer = w.k.answer
    BY <1>7, <1>9 DEF Locals
  <2> HIDE DEF k, v
  <2>6. v \in Worlds /\ v.k = k /\ v.j = u.j /\ v.jobs = u.jobs
    BY <1>10, <2>3, <2>4 DEF Worlds
  <2>7. PrefixIsDecoded(v.k) /\ CommitIsOfGated(v.k)
    BY <1>4, <2>1, <2>5, <2>6 DEF PrefixIsDecoded, CommitIsOfGated
  <2>8. \A job \in busy : Waits(v.k, job)  BY <2>5, <2>6, <1>11
  <2>9. WorldInv(v, busy)
    BY <1>1, <1>10, <2>5, <2>6, <2>7, <2>8, WorldChanges
  <2> QED  BY <2>9, SyncKeeps DEF v
<1>15. WorldInv(Committed(u, t, outcome), busy)
  BY <1>12, <1>13, <1>14 DEF Committed
<1> QED  BY <1>15 DEF u, t

\* The partial of the connection is over.
Over(w, t) == [w EXCEPT !.k.partial = None, !.k.partial_at = AtLeast(@, t.signal)]

LEMMA OverKeeps ==
  ASSUME NEW w, NEW busy, WorldInv(w, busy), w.jobs = << >>, "partial" \notin busy,
         busy \subseteq JobKinds, NEW t \in Partials
  PROVE  WorldInv(Over(w, t), busy) /\ Over(w, t).jobs = << >>
<1> DEFINE at == AtLeast(w.k.partial_at, t.signal)
           k == [w.k EXCEPT !.partial = None, !.partial_at = at]
           v == Over(w, t)
<1>1. w \in Worlds /\ w.k \in Locals /\ PrefixIsDecoded(w.j) /\ LocalsInv(w.k)
  BY WorldFields DEF WorldInv, WorldCore
<1>2. at \in Nat
  <2>1. t.signal \in Nat  BY DEF Partials
  <2>2. w.k.partial_at \in Nat  BY <1>1 DEF Locals
  <2> QED  BY <2>1, <2>2 DEF AtLeast
<1>3. v = [w EXCEPT !.k = k]  BY DEF Over
<1> HIDE DEF at
<1>4. k \in Locals  BY <1>1, <1>2, ZenonT(60) DEF Locals
<1>5. /\ k.gated = w.k.gated /\ k.stable_text = w.k.stable_text
      /\ k.stable_bytes = w.k.stable_bytes /\ k.commit = w.k.commit
      /\ k.journal = w.k.journal /\ k.phase = w.k.phase /\ k.events = w.k.events
      /\ k.answer = w.k.answer
  BY <1>1 DEF Locals
<1> HIDE DEF k, v
<1>6. v \in Worlds /\ v.k = k /\ v.j = w.j /\ v.jobs = w.jobs
  BY <1>1, <1>3, <1>4 DEF Worlds
<1>7. PrefixIsDecoded(v.k) /\ CommitIsOfGated(v.k)
  BY <1>1, <1>5, <1>6 DEF LocalsInv, PrefixIsDecoded, CommitIsOfGated
<1>8. \A job \in busy : Waits(v.k, job)
  <2>1. \A job \in busy : job # "partial" /\ Waits(w.k, job)
    BY DEF WorldInv, WorldCore, JobsInv
  <2> QED  BY <1>5, <1>6, <2>1 DEF Waits, JobKinds
<1>9. WorldInv(v, busy)
  BY <1>1, <1>5, <1>6, <1>7, <1>8, WorldChanges
<1> QED  BY <1>6, <1>9 DEF v

\* What the partial decoded is remembered for the stop.
LEMMA RememberKeeps ==
  ASSUME NEW w, NEW busy, WorldInv(w, busy), w.jobs = << >>,
         busy \subseteq JobKinds, NEW d \in [at: Nat, audio: Audio, text: Audio]
  PROVE  WorldInv([w EXCEPT !.k.partial_decode = d], busy)
<1> DEFINE k == [w.k EXCEPT !.partial_decode = d]
           v == [w EXCEPT !.k.partial_decode = d]
<1>1. w \in Worlds /\ w.k \in Locals /\ PrefixIsDecoded(w.j) /\ LocalsInv(w.k)
  BY WorldFields DEF WorldInv, WorldCore
<1>2. v = [w EXCEPT !.k = k]  OBVIOUS
<1>3. k \in Locals  BY <1>1, SMTT(30) DEF Locals
<1>4. /\ k.gated = w.k.gated /\ k.stable_text = w.k.stable_text
      /\ k.stable_bytes = w.k.stable_bytes /\ k.commit = w.k.commit
      /\ k.journal = w.k.journal /\ k.phase = w.k.phase /\ k.events = w.k.events
      /\ k.answer = w.k.answer /\ k.partial = w.k.partial
  BY <1>1 DEF Locals
<1> HIDE DEF k, v
<1>5. v \in Worlds /\ v.k = k /\ v.j = w.j /\ v.jobs = w.jobs
  BY <1>1, <1>2, <1>3 DEF Worlds
<1>6. PrefixIsDecoded(v.k) /\ CommitIsOfGated(v.k)
  BY <1>1, <1>4, <1>5 DEF LocalsInv, PrefixIsDecoded, CommitIsOfGated
<1>7. \A job \in busy : Waits(v.k, job)
  <2>1. \A job \in busy : Waits(w.k, job)
    BY DEF WorldInv, WorldCore, JobsInv
  <2> QED  BY <1>4, <1>5, <2>1 DEF Waits, JobKinds
<1>8. WorldInv(v, busy)
  BY <1>1, <1>4, <1>5, <1>6, <1>7, WorldChanges
<1> QED  BY <1>8 DEF v

\* The partial is news: it is about to be sent.
Sending(w, text) == [w EXCEPT !.k.partial.stage = "send", !.k.partial.text = text]

LEMMA SendingKeeps ==
  ASSUME NEW w, NEW busy, WorldInv(w, busy), w.jobs = << >>, "partial" \notin busy,
         busy \subseteq JobKinds, w.k.partial # None, NEW text \in Audio
  PROVE  WorldInv(Sending(w, text), busy) /\ Sending(w, text).jobs = << >>
<1> DEFINE p == [w.k.partial EXCEPT !.stage = "send", !.text = text]
           k == [w.k EXCEPT !.partial = p]
           v == Sending(w, text)
<1>1. w \in Worlds /\ w.k \in Locals /\ PrefixIsDecoded(w.j) /\ LocalsInv(w.k)
      /\ w.k.phase # "unborn"
  BY WorldFields DEF WorldInv, WorldCore
<1>2. p \in Partials
  <2>1. w.k.partial \in Partials  BY <1>1 DEF Locals
  <2> QED  BY <2>1 DEF Partials
<1>3. v = [w EXCEPT !.k = k]  BY DEF Sending
<1> HIDE DEF p
<1>4. k \in Locals  BY <1>1, <1>2 DEF Locals
<1>5. /\ k.gated = w.k.gated /\ k.stable_text = w.k.stable_text
      /\ k.stable_bytes = w.k.stable_bytes /\ k.commit = w.k.commit
      /\ k.journal = w.k.journal /\ k.phase = w.k.phase /\ k.events = w.k.events
      /\ k.answer = w.k.answer
  BY <1>1 DEF Locals
<1> HIDE DEF k, v
<1>6. v \in Worlds /\ v.k = k /\ v.j = w.j /\ v.jobs = w.jobs
  BY <1>1, <1>3, <1>4 DEF Worlds
<1>7. PrefixIsDecoded(v.k) /\ CommitIsOfGated(v.k)
  BY <1>1, <1>5, <1>6 DEF LocalsInv, PrefixIsDecoded, CommitIsOfGated
<1>8. \A job \in busy : Waits(v.k, job)
  <2>1. \A job \in busy : job # "partial" /\ Waits(w.k, job)
    BY DEF WorldInv, WorldCore, JobsInv
  <2> QED  BY <1>5, <1>6, <2>1 DEF Waits, JobKinds
<1>9. WorldInv(v, busy)
  BY <1>1, <1>5, <1>6, <1>7, <1>8, WorldChanges
<1> QED  BY <1>6, <1>9 DEF v

\* The partial that was sent is remembered and synced.
LEMMA SentKeeps ==
  ASSUME NEW w, NEW busy, WorldInv(w, busy), w.jobs = << >>, busy \subseteq JobKinds,
         NEW text \in Audio
  PROVE  /\ WorldInv(Sync([w EXCEPT !.k.last_partial = text]), busy)
         /\ Sync([w EXCEPT !.k.last_partial = text]).jobs = << >>
<1> DEFINE k == [w.k EXCEPT !.last_partial = text]
           v == [w EXCEPT !.k.last_partial = text]
<1>1. w \in Worlds /\ w.k \in Locals /\ PrefixIsDecoded(w.j) /\ LocalsInv(w.k)
  BY WorldFields DEF WorldInv, WorldCore
<1>2. v = [w EXCEPT !.k = k]  OBVIOUS
<1>3. k \in Locals  BY <1>1, ZenonT(60) DEF Locals
<1>4. /\ k.gated = w.k.gated /\ k.stable_text = w.k.stable_text
      /\ k.stable_bytes = w.k.stable_bytes /\ k.commit = w.k.commit
      /\ k.journal = w.k.journal /\ k.phase = w.k.phase /\ k.events = w.k.events
      /\ k.answer = w.k.answer /\ k.partial = w.k.partial
  BY <1>1 DEF Locals
<1> HIDE DEF k, v
<1>5. v \in Worlds /\ v.k = k /\ v.j = w.j /\ v.jobs = w.jobs
  BY <1>1, <1>2, <1>3 DEF Worlds
<1>6. PrefixIsDecoded(v.k) /\ CommitIsOfGated(v.k)
  BY <1>1, <1>4, <1>5 DEF LocalsInv, PrefixIsDecoded, CommitIsOfGated
<1>7. \A job \in busy : Waits(v.k, job)
  <2>1. \A job \in busy : Waits(w.k, job)
    BY DEF WorldInv, WorldCore, JobsInv
  <2> QED  BY <1>4, <1>5, <2>1 DEF Waits, JobKinds
<1>8. WorldInv(v, busy)
  BY <1>1, <1>4, <1>5, <1>6, <1>7, WorldChanges
<1>9. WorldInv(Sync(v), busy) /\ Sync(v).jobs = << >>
  BY <1>5, <1>8, SyncKeeps, SyncCopies
<1> QED  BY <1>9 DEF v

-----------------------------------------------------------------------------
(***************************************************************************)
(* Every action keeps the invariant: the socket.                           *)
(***************************************************************************)

\* Only the locals change.
LEMMA LocalsStep ==
  ASSUME IInv, NEW c \in Conns, NEW k \in Locals, LocalsInv(k), EmbedInv(k),
         \A job \in JobKinds : Waits(conns[c], job) => Waits(k, job),
         conns' = [conns EXCEPT ![c] = k],
         UNCHANGED <<speech, journals, ledgers, gpu>>,
         held' \in Journals \union {None}, created' \in 0 .. MaxJournals,
         answers' \subseteq Finals
  PROVE  IInv'
<1>1. conns \in [Conns -> Locals] /\ gpu \in Seq(Conns \X JobKinds)
  BY DEF IInv, TypeOK
<1>2. TypeOK'  BY <1>1 DEF IInv, TypeOK
<1>3. \A d \in Conns : LocalsInv(conns'[d]) /\ EmbedInv(conns'[d])
  BY <1>1 DEF IInv
<1>4. \A i \in DOMAIN gpu : Waits(conns'[gpu[i][1]], gpu[i][2])
  <2>1. TAKE i \in DOMAIN gpu
  <2>2. gpu[i] \in Conns \X JobKinds  BY <1>1
  <2>3. Waits(conns[gpu[i][1]], gpu[i][2])  BY DEF IInv, QueueInv
  <2> QED  BY <1>1, <2>2, <2>3
<1>5. QueueInv'  BY <1>4 DEF IInv, QueueInv
<1> QED  BY <1>2, <1>3, <1>5 DEF IInv

LEMMA HydrateType ==
  ASSUME NEW n \in Locals, NEW j \in Sessions, NEW id \in Journals
  PROVE  /\ Hydrate(n, j, id) \in Locals /\ Hydrate(n, j, id).phase = n.phase
         /\ Hydrate(n, j, id).journal = id
         /\ Hydrate(n, j, id).gated = j.gated
         /\ Hydrate(n, j, id).stable_text = j.stable_text
         /\ Hydrate(n, j, id).stable_bytes = j.stable_bytes
         /\ Hydrate(n, j, id).commit = n.commit /\ Hydrate(n, j, id).partial = n.partial
         /\ Hydrate(n, j, id).answer = n.answer
<1> DEFINE l == IF j.ledger # None THEN j.ledger ELSE n.ledger
           raw == RawAudio(j.chunks)
           v == [n EXCEPT !.journal = id, !.ledger = l,
                          !.gated = j.gated, !.pending = j.pending,
                          !.raw = raw, !.staging = j.staging,
                          !.gate = j.gate, !.enrolled = j.enrolled,
                          !.last_partial = j.last_partial, !.partial_at = j.partial_at,
                          !.stable_text = j.stable_text, !.stable_bytes = j.stable_bytes]
<1>0. /\ j.gated \in Audio /\ j.pending \in Audio /\ j.staging \in Audio
      /\ j.gate \in Gates /\ j.enrolled \in BOOLEAN /\ j.last_partial \in Audio
      /\ j.partial_at \in Nat /\ j.stable_text \in Audio /\ j.stable_bytes \in Nat
      /\ j.ledger \in Conns \union {None} /\ j.chunks \in SUBSET Seqs
  BY DEF Sessions
<1>1. l \in Conns  BY <1>0 DEF Locals
<1>2. Hydrate(n, j, id) = v  BY DEF Hydrate
<1>3. raw \in Audio  BY <1>0, RawAudioIs
<1> HIDE DEF l, raw
<1>4. v \in Locals  BY <1>0, <1>1, <1>3, ZenonT(60) DEF Locals
<1>5. /\ v.phase = n.phase /\ v.journal = id
      /\ v.gated = j.gated /\ v.stable_text = j.stable_text
      /\ v.stable_bytes = j.stable_bytes
      /\ v.commit = n.commit /\ v.partial = n.partial /\ v.answer = n.answer
  BY DEF Locals
<1> QED  BY <1>2, <1>4, <1>5

LEMMA HydrateIs ==
  ASSUME NEW k \in Locals, NEW j \in Sessions, NEW id \in Journals
  PROVE  LET v == Hydrate([k EXCEPT !.phase = "receive", !.alive = TRUE], j, id) IN
         /\ v \in Locals /\ v.phase = "receive" /\ v.journal = id
         /\ v.gated = j.gated /\ v.stable_text = j.stable_text
         /\ v.stable_bytes = j.stable_bytes
         /\ v.commit = k.commit /\ v.partial = k.partial /\ v.answer = k.answer
<1> DEFINE n == [k EXCEPT !.phase = "receive", !.alive = TRUE]
           v == Hydrate(n, j, id)
<1>1. n \in Locals
  <2>1. "receive" \in Phases  BY DEF Phases
  <2> QED  BY <2>1 DEF Locals
<1>2. n.phase = "receive" /\ n.commit = k.commit /\ n.partial = k.partial
      /\ n.answer = k.answer
  BY DEF Locals
<1> HIDE DEF n
<1>5. v \in Locals /\ v.phase = n.phase /\ v.journal = id
      /\ v.gated = j.gated /\ v.stable_text = j.stable_text
      /\ v.stable_bytes = j.stable_bytes
      /\ v.commit = n.commit /\ v.partial = n.partial /\ v.answer = n.answer
  BY <1>1, HydrateType, Zenon
<1> QED  BY <1>2, <1>5 DEF n

LEMMA NewJournalIs ==
  /\ NewJournal \in Sessions
  /\ PrefixIsDecoded(NewJournal)
<1>1. << >> \in Audio  BY DEF Audio
<1>2. ClosedGate \in Gates  BY DEF ClosedGate, Gates
<1>3. NewJournal \in Sessions  BY <1>1, <1>2 DEF NewJournal, Sessions
<1>4. PrefixIsDecoded(NewJournal)
  BY EmptyPrefix DEF NewJournal
<1> QED  BY <1>3, <1>4

\* A connection that attaches to a journal has that journal's prefix.
LEMMA AttachKeeps ==
  ASSUME IInv, NEW c \in Conns, conns[c].phase = "unborn",
         NEW id \in Journals, NEW j \in Sessions, PrefixIsDecoded(j),
         created' \in 0 .. MaxJournals, Attach(c, id, j)
  PROVE  IInv'
<1> DEFINE k == Hydrate([conns[c] EXCEPT !.phase = "receive", !.alive = TRUE], j, id)
<1>1. conns \in [Conns -> Locals] /\ conns[c] \in Locals /\ LocalsInv(conns[c])
  BY DEF IInv, TypeOK
<1>2. conns[c].commit = None /\ conns[c].partial = None  BY <1>1 DEF LocalsInv
<1>3. /\ k \in Locals /\ k.phase = "receive" /\ k.journal = id
      /\ k.gated = j.gated /\ k.stable_text = j.stable_text
      /\ k.stable_bytes = j.stable_bytes /\ k.commit = None /\ k.partial = None
  BY <1>1, <1>2, HydrateIs, ZenonT(60)
<1>4. /\ held' = id /\ conns' = [conns EXCEPT ![c] = k]
      /\ UNCHANGED <<speech, journals, ledgers, gpu, answers>>
  BY DEF Attach
<1> HIDE DEF k
<1>5. LocalsInv(k) /\ EmbedInv(k)
  BY <1>3 DEF LocalsInv, EmbedInv, PrefixIsDecoded, CommitIsOfGated
<1>6. \A job \in JobKinds : Waits(conns[c], job) => Waits(k, job)
  BY <1>2 DEF Waits, JobKinds
<1>7. held' \in Journals \union {None} /\ answers' \subseteq Finals
  BY <1>4 DEF IInv, TypeOK
<1> QED  BY <1>3, <1>4, <1>5, <1>6, <1>7, LocalsStep

LEMMA CreateKeeps ==
  ASSUME IInv, NEW c \in Conns, conns[c].phase = "unborn", Create(c)
  PROVE  IInv'
<1>1. created \in 0 .. MaxJournals /\ MaxJournals \in Nat
  BY SessionAssumption DEF IInv, TypeOK
<1>2. created' = created + 1 /\ created < MaxJournals /\ Attach(c, created', NewJournal)
  BY DEF Create
<1>3. created' \in Journals /\ created' \in 0 .. MaxJournals
  BY <1>1, <1>2 DEF Journals
<1> QED  BY <1>2, <1>3, NewJournalIs, AttachKeeps

LEMMA StartKeeps ==
  ASSUME IInv, NEW c \in Conns, Start(c)
  PROVE  IInv'
BY CreateKeeps DEF Start

LEMMA ResumeKeeps ==
  ASSUME IInv, NEW c \in Conns, Resume(c)
  PROVE  IInv'
<1>1. conns[c].phase = "unborn"  BY DEF Resume
<1>2. CASE held # None /\ created' = created /\ Attach(c, held, journals[held])
  <2>1. held \in Journals /\ journals[held] \in Sessions /\ created' \in 0 .. MaxJournals
    BY <1>2 DEF IInv, TypeOK
  <2>2. PrefixIsDecoded(journals[held])  BY <2>1 DEF IInv
  <2> QED  BY <1>1, <1>2, <2>1, <2>2, AttachKeeps
<1>3. CASE Create(c)  BY <1>1, <1>3, CreateKeeps
<1> QED  BY <1>2, <1>3 DEF Resume

LEMMA StopResultExpiresKeeps ==
  ASSUME IInv, NEW j \in Journals, StopResultExpires(j)
  PROVE  IInv'
<1> DEFINE s == [journals[j] EXCEPT !.final.fresh = FALSE]
           final == [journals[j].final EXCEPT !.fresh = FALSE]
<1>1. journals \in [Journals -> Sessions] /\ journals[j] \in Sessions
  BY DEF IInv, TypeOK
<1>2. journals[j].final # None /\ journals' = [journals EXCEPT ![j] = s]
      /\ UNCHANGED <<speech, held, created, ledgers, conns, gpu, answers>>
  BY <1>1 DEF StopResultExpires
<1>3. final \in Finals
  <2>1. journals[j].final \in Finals  BY <1>1, <1>2 DEF Sessions
  <2> QED  BY <2>1 DEF Finals
<1>4. s = [journals[j] EXCEPT !.final = final]  OBVIOUS
<1> HIDE DEF s, final
<1>5. s \in Sessions  BY <1>1, <1>3, <1>4 DEF Sessions
<1>6. s.gated = journals[j].gated /\ s.stable_text = journals[j].stable_text
      /\ s.stable_bytes = journals[j].stable_bytes
  BY <1>1, <1>4 DEF Sessions
<1>7. TypeOK'  BY <1>1, <1>2, <1>5 DEF IInv, TypeOK
<1>8. \A i \in Journals : PrefixIsDecoded(journals'[i])
  BY <1>1, <1>2, <1>6 DEF IInv, PrefixIsDecoded
<1>9. QueueInv' /\ \A c \in Conns : LocalsInv(conns'[c]) /\ EmbedInv(conns'[c])
  BY <1>2 DEF IInv, QueueInv
<1> QED  BY <1>7, <1>8, <1>9 DEF IInv

LEMMA AudioFrameKeeps ==
  ASSUME IInv, NEW c \in Conns, NEW s \in Seqs, AudioFrame(c, s)
  PROVE  IInv'
<1> DEFINE w == World(c)
           frame == IF s \in w.j.chunks THEN None ELSE s
<1>1. conns[c].phase = "receive"  BY DEF AudioFrame, Receiving
<1>2. Queue(gpu)  BY QueueIsQueue
<1>3. Calm(w, Busy(c, gpu))  BY <1>1, <1>2, WorldIs
<1>4. Become(c, Acked(w, s, frame), gpu) /\ UNCHANGED <<speech, held, created, answers>>
  BY DEF AudioFrame, Acked
<1>5. WorldInv(Acked(w, s, frame), Busy(c, gpu))  BY <1>3, AckedKeeps
<1> HIDE DEF w, frame
<1> QED  BY <1>1, <1>2, <1>4, <1>5, BecomeKeeps

LEMMA FrameAckedKeeps ==
  ASSUME IInv, NEW c \in Conns, FrameAcked(c)
  PROVE  IInv'
<1> DEFINE w == World(c)
           s == conns[c].frame
<1>1. conns[c].phase = "ack" /\ conns[c].frame # None  BY DEF FrameAcked
<1>2. Queue(gpu)  BY QueueIsQueue
<1>3. Calm(w, Busy(c, gpu))  BY <1>1, <1>2, WorldIs
<1>4. s \in Seqs
  <2>1. conns[c] \in Locals  BY DEF IInv, TypeOK
  <2> QED  BY <1>1, <2>1 DEF Locals
<1>5. PICK due \in Due : Become(c, Gate(Buffered(w, s, None), "audio", due), gpu)
  BY DEF FrameAcked, Buffered
<1>6. UNCHANGED <<speech, held, created, answers>>  BY DEF FrameAcked
<1> HIDE DEF w, s
<1>7. Calm(Buffered(w, s, None), Busy(c, gpu))  BY <1>3, <1>4, BufferedKeeps
<1>8. WorldInv(Gate(Buffered(w, s, None), "audio", due), Busy(c, gpu))
  BY <1>7, GateKeeps
<1> QED  BY <1>1, <1>2, <1>5, <1>6, <1>8, BecomeKeeps

LEMMA ReceiveTimesOutKeeps ==
  ASSUME IInv, NEW c \in Conns, ReceiveTimesOut(c)
  PROVE  IInv'
<1> DEFINE w == World(c)
<1>1. conns[c].phase = "receive"  BY DEF ReceiveTimesOut
<1>2. Queue(gpu)  BY QueueIsQueue
<1>3. Calm(w, Busy(c, gpu))  BY <1>1, <1>2, WorldIs
<1>4. PICK due \in Due : Become(c, Gate(w, "tick", due), gpu)
  BY DEF ReceiveTimesOut
<1>5. UNCHANGED <<speech, held, created, answers>>  BY DEF ReceiveTimesOut
<1> HIDE DEF w
<1>6. WorldInv(Gate(w, "tick", due), Busy(c, gpu))  BY <1>3, GateKeeps
<1> QED  BY <1>1, <1>2, <1>4, <1>5, <1>6, BecomeKeeps

\* A connection moves to another phase, or learns something about its socket.
LEMMA LocalsMove ==
  ASSUME IInv, NEW c \in Conns, NEW k \in Locals, conns' = [conns EXCEPT ![c] = k],
         UNCHANGED <<speech, held, created, journals, ledgers, gpu, answers>>,
         SameWaits(k, conns[c]), SamePrefix(k, conns[c]),
         k.answer = conns[c].answer, k.events = conns[c].events,
         \/ k.phase = conns[c].phase
         \/ /\ conns[c].phase \notin {"unborn", "tail", "raw"}
            /\ k.phase \notin {"unborn", "embed", "final"}
  PROVE  IInv'
<1>1. LocalsInv(conns[c]) /\ EmbedInv(conns[c])  BY DEF IInv
<1>2. LocalsInv(k)
  <2>1. PrefixIsDecoded(k)  BY <1>1 DEF LocalsInv, PrefixIsDecoded, SamePrefix
  <2>2. CommitIsOfGated(k)
    BY <1>1 DEF LocalsInv, CommitIsOfGated, SamePrefix, SameWaits
  <2> QED  BY <1>1, <2>1, <2>2 DEF LocalsInv, SameWaits
<1>3. EmbedInv(k)  BY <1>1 DEF EmbedInv
<1>4. \A job \in JobKinds : Waits(conns[c], job) => Waits(k, job)
  BY DEF JobKinds, Waits, SameWaits
<1>5. held' \in Journals \union {None} /\ created' \in 0 .. MaxJournals /\ answers' \subseteq Finals
  BY DEF IInv, TypeOK
<1> QED  BY <1>2, <1>3, <1>4, <1>5, LocalsStep

LEMMA DuplicateAckedKeeps ==
  ASSUME IInv, NEW c \in Conns, DuplicateAcked(c)
  PROVE  IInv'
<1> DEFINE k == [conns[c] EXCEPT !.phase = "receive"]
<1>1. conns \in [Conns -> Locals] /\ conns[c] \in Locals  BY DEF IInv, TypeOK
<1>2. /\ conns' = [conns EXCEPT ![c] = k] /\ conns[c].phase = "ack"
      /\ UNCHANGED <<speech, held, created, journals, ledgers, gpu, answers>>
  BY <1>1 DEF DuplicateAcked
<1>3. k \in Locals
  <2>1. "receive" \in Phases  BY DEF Phases
  <2> QED  BY <1>1, <2>1 DEF Locals
<1>4. /\ k.phase = "receive" /\ k.gated = conns[c].gated /\ k.stable_text = conns[c].stable_text
      /\ k.stable_bytes = conns[c].stable_bytes /\ k.commit = conns[c].commit
      /\ k.partial = conns[c].partial /\ k.journal = conns[c].journal
      /\ k.events = conns[c].events /\ k.answer = conns[c].answer
  BY <1>1 DEF Locals
<1> HIDE DEF k
<1>5. SameWaits(k, conns[c]) /\ SamePrefix(k, conns[c])
  BY <1>4 DEF SameWaits, SamePrefix
<1> QED  BY <1>2, <1>3, <1>4, <1>5, LocalsMove

LEMMA SocketDiesKeeps ==
  ASSUME IInv, NEW c \in Conns, SocketDies(c)
  PROVE  IInv'
<1> DEFINE k == [conns[c] EXCEPT !.alive = FALSE]
<1>1. conns \in [Conns -> Locals] /\ conns[c] \in Locals  BY DEF IInv, TypeOK
<1>2. /\ conns' = [conns EXCEPT ![c] = k]
      /\ UNCHANGED <<speech, held, created, journals, ledgers, gpu, answers>>
  BY <1>1 DEF SocketDies
<1>3. k \in Locals  BY <1>1, ZenonT(60) DEF Locals
<1>4. /\ k.phase = conns[c].phase /\ k.gated = conns[c].gated
      /\ k.stable_text = conns[c].stable_text
      /\ k.stable_bytes = conns[c].stable_bytes /\ k.commit = conns[c].commit
      /\ k.partial = conns[c].partial /\ k.journal = conns[c].journal
      /\ k.events = conns[c].events /\ k.answer = conns[c].answer
  BY <1>1 DEF Locals
<1> HIDE DEF k
<1>5. SameWaits(k, conns[c]) /\ SamePrefix(k, conns[c])
  BY <1>4 DEF SameWaits, SamePrefix
<1> QED  BY <1>2, <1>3, <1>4, <1>5, LocalsMove

LEMMA StopRequestedKeeps ==
  ASSUME IInv, NEW c \in Conns, NEW id \in StopIds, NEW captured \in Reports,
         StopRequested(c, id, captured)
  PROVE  IInv'
<1> DEFINE k == [conns[c] EXCEPT !.closing = TRUE, !.stop = id, !.captured = captured,
                                 !.phase = "coverage"]
<1>1. conns \in [Conns -> Locals] /\ conns[c] \in Locals  BY DEF IInv, TypeOK
<1>2. /\ conns' = [conns EXCEPT ![c] = k] /\ conns[c].phase = "receive"
      /\ UNCHANGED <<speech, held, created, journals, ledgers, gpu, answers>>
  BY <1>1 DEF StopRequested, Receiving
<1>3. k \in Locals
  <2>1. "coverage" \in Phases  BY DEF Phases
  <2>2. captured \in {None, Captured}  BY DEF Reports
  <2>3. id \in StopIds \union {None}  OBVIOUS
  <2> QED  BY <1>1, <2>1, <2>2, <2>3, ZenonT(60) DEF Locals
<1>4. /\ k.phase = "coverage" /\ k.gated = conns[c].gated
      /\ k.stable_text = conns[c].stable_text
      /\ k.stable_bytes = conns[c].stable_bytes /\ k.commit = conns[c].commit
      /\ k.partial = conns[c].partial /\ k.journal = conns[c].journal
      /\ k.events = conns[c].events /\ k.answer = conns[c].answer
  BY <1>1 DEF Locals
<1> HIDE DEF k
<1>5. SameWaits(k, conns[c]) /\ SamePrefix(k, conns[c])
  BY <1>4 DEF SameWaits, SamePrefix
<1> QED  BY <1>2, <1>3, <1>4, <1>5, LocalsMove

\* The end of a connection, with the answers it leaves.
LEMMA EndKeeps ==
  ASSUME IInv, NEW c \in Conns, NEW k \in Locals,
         SameWaits(k, conns[c]), SamePrefix(k, conns[c]),
         k.phase = conns[c].phase, k.answer = conns[c].answer,
         conns[c].phase \notin {"unborn", "tail", "raw"},
         conns' = [conns EXCEPT ![c] = Closed(k)],
         UNCHANGED <<speech, held, created, journals, ledgers, gpu>>,
         answers' \subseteq Finals
  PROVE  IInv'
<1>1. LocalsInv(conns[c])  BY DEF IInv
<1>2. LocalsInv(k)
  <2>1. PrefixIsDecoded(k)  BY <1>1 DEF LocalsInv, PrefixIsDecoded, SamePrefix
  <2>2. CommitIsOfGated(k)
    BY <1>1 DEF LocalsInv, CommitIsOfGated, SamePrefix, SameWaits
  <2> QED  BY <1>1, <2>1, <2>2 DEF LocalsInv, SameWaits
<1>3. /\ Closed(k) \in Locals /\ LocalsInv(Closed(k)) /\ EmbedInv(Closed(k))
      /\ SameWaits(Closed(k), k)
  BY <1>2, ClosedKeeps
<1>4. \A job \in JobKinds : Waits(conns[c], job) => Waits(Closed(k), job)
  BY <1>3 DEF JobKinds, Waits, SameWaits
<1>5. held' \in Journals \union {None} /\ created' \in 0 .. MaxJournals
  BY DEF IInv, TypeOK
<1> QED  BY <1>3, <1>4, <1>5, LocalsStep

LEMMA EndedIs ==
  ASSUME NEW k \in Locals, NEW id \in StopIds
  PROVE  LET v == [k EXCEPT !.stop = id] IN
         /\ v \in Locals /\ SameWaits(v, k) /\ SamePrefix(v, k)
         /\ v.phase = k.phase /\ v.answer = k.answer
<1> DEFINE v == [k EXCEPT !.stop = id]
<1>1. v \in Locals  BY DEF Locals
<1>2. /\ v.gated = k.gated /\ v.stable_text = k.stable_text
      /\ v.stable_bytes = k.stable_bytes /\ v.commit = k.commit
      /\ v.partial = k.partial /\ v.journal = k.journal
      /\ v.phase = k.phase /\ v.answer = k.answer
  BY DEF Locals
<1>3. SameWaits(v, k) /\ SamePrefix(v, k)
  <2> HIDE DEF v
  <2> QED  BY <1>2 DEF SameWaits, SamePrefix
<1> QED  BY <1>1, <1>2, <1>3

LEMMA ConnectionEndsKeeps ==
  ASSUME IInv, NEW c \in Conns, ConnectionEnds(c)
  PROVE  IInv'
<1>1. conns \in [Conns -> Locals] /\ conns[c] \in Locals  BY DEF IInv, TypeOK
<1>2. /\ conns' = [conns EXCEPT ![c] = Closed(conns[c])]
      /\ conns[c].phase \notin {"unborn", "tail", "raw"}
      /\ UNCHANGED <<speech, held, created, journals, ledgers, gpu, answers>>
  BY <1>1 DEF ConnectionEnds
<1>3. answers' \subseteq Finals  BY <1>2 DEF IInv, TypeOK
<1>4. SameWaits(conns[c], conns[c]) /\ SamePrefix(conns[c], conns[c])
  BY DEF SameWaits, SamePrefix
<1> QED  BY <1>1, <1>2, <1>3, <1>4, EndKeeps

LEMMA StopReplayedKeeps ==
  ASSUME IInv, NEW c \in Conns, NEW id \in StopIds, NEW captured \in Reports,
         StopReplayed(c, id, captured)
  PROVE  IInv'
<1> DEFINE k == [conns[c] EXCEPT !.stop = id]
<1>1. conns \in [Conns -> Locals] /\ conns[c] \in Locals  BY DEF IInv, TypeOK
<1>2. /\ conns' = [conns EXCEPT ![c] = Closed(k)]
      /\ conns[c].phase = "receive"
      /\ World(c).j.final # None
      /\ answers' = answers \union {World(c).j.final}
      /\ UNCHANGED <<speech, held, created, journals, ledgers, gpu>>
  BY <1>1 DEF StopReplayed, Receiving, Ended, Cached
<1>3. World(c).j \in Sessions
  BY <1>2, QueueIsQueue, WorldIs, CalmWorld
<1>4. World(c).j.final \in Finals  BY <1>2, <1>3 DEF Sessions
<1>5. answers' \subseteq Finals  BY <1>2, <1>4 DEF IInv, TypeOK
<1>6. k \in Locals /\ SameWaits(k, conns[c]) /\ SamePrefix(k, conns[c])
      /\ k.phase = conns[c].phase /\ k.answer = conns[c].answer
  BY <1>1, EndedIs
<1> HIDE DEF k
<1> QED  BY <1>2, <1>5, <1>6, EndKeeps

LEMMA StopRefusedKeeps ==
  ASSUME IInv, NEW c \in Conns, NEW id \in StopIds, NEW captured \in Reports,
         StopRefused(c, id, captured)
  PROVE  IInv'
<1> DEFINE k == [conns[c] EXCEPT !.stop = id]
<1>1. conns \in [Conns -> Locals] /\ conns[c] \in Locals  BY DEF IInv, TypeOK
<1>2. /\ conns' = [conns EXCEPT ![c] = Closed(k)]
      /\ conns[c].phase = "receive"
      /\ UNCHANGED <<speech, held, created, journals, ledgers, gpu, answers>>
  BY <1>1 DEF StopRefused, Receiving, Ended
<1>3. answers' \subseteq Finals  BY <1>2 DEF IInv, TypeOK
<1>4. k \in Locals /\ SameWaits(k, conns[c]) /\ SamePrefix(k, conns[c])
      /\ k.phase = conns[c].phase /\ k.answer = conns[c].answer
  BY <1>1, EndedIs
<1> HIDE DEF k
<1> QED  BY <1>2, <1>3, <1>4, EndKeeps

LEMMA FinalSentKeeps ==
  ASSUME IInv, NEW c \in Conns, FinalSent(c)
  PROVE  IInv'
<1>1. conns \in [Conns -> Locals] /\ conns[c] \in Locals /\ LocalsInv(conns[c])
  BY DEF IInv, TypeOK
<1>2. /\ conns' = [conns EXCEPT ![c] = Closed(conns[c])]
      /\ conns[c].phase = "final"
      /\ UNCHANGED <<speech, held, created, journals, ledgers, gpu>>
      /\ answers' = answers \/ answers' = answers \union {conns[c].answer}
  BY <1>1 DEF FinalSent
<1>3. conns[c].answer \in Finals
  <2>1. conns[c].answer # None  BY <1>1, <1>2 DEF LocalsInv
  <2> QED  BY <1>1, <2>1 DEF Locals
<1>4. answers' \subseteq Finals  BY <1>2, <1>3 DEF IInv, TypeOK
<1>5. SameWaits(conns[c], conns[c]) /\ SamePrefix(conns[c], conns[c])
  BY DEF SameWaits, SamePrefix
<1> QED  BY <1>1, <1>2, <1>4, <1>5, EndKeeps

-----------------------------------------------------------------------------
(***************************************************************************)
(* Every action keeps the invariant: the stop handler.                     *)
(***************************************************************************)

LEMMA LateFrameKeeps ==
  ASSUME IInv, NEW c \in Conns, NEW s \in Seqs, LateFrame(c, s)
  PROVE  IInv'
<1> DEFINE w == World(c)
<1>1. conns[c].phase = "coverage"  BY DEF LateFrame
<1>2. Queue(gpu)  BY QueueIsQueue
<1>3. Calm(w, Busy(c, gpu)) /\ w.k = conns[c]  BY <1>1, <1>2, WorldIs
<1>4. Become(c, Late(w, s), gpu) /\ UNCHANGED <<speech, held, created, answers>>
  BY DEF LateFrame, Late
<1> HIDE DEF w
<1>5. Calm(Late(w, s), Busy(c, gpu))
      /\ Late(w, s).k = [w.k EXCEPT !.raw = @ \o Payload(s), !.staging = @ \o Payload(s)]
  BY <1>3, LateKeeps
<1>6. w.k \in Locals  BY <1>3, CalmWorld
<1>7. Late(w, s).k.phase = "coverage"  BY <1>1, <1>3, <1>5, <1>6 DEF Locals
<1>8. WorldInv(Late(w, s), Busy(c, gpu))  BY <1>5, <1>7 DEF Calm, WorldInv, EmbedInv
<1> QED  BY <1>1, <1>2, <1>4, <1>8, BecomeKeeps

LEMMA CoverageWaitEndsKeeps ==
  ASSUME IInv, NEW c \in Conns, CoverageWaitEnds(c)
  PROVE  IInv'
<1> DEFINE w == World(c)
           complete == ~ShortOfCaptured(c)
           v == [w EXCEPT !.k.complete = complete]
<1>1. conns[c].phase = "coverage"  BY DEF CoverageWaitEnds
<1>2. Queue(gpu)  BY QueueIsQueue
<1>3. Calm(w, Busy(c, gpu))  BY <1>1, <1>2, WorldIs
<1>4. Become(c, Gate(v, "stop", FALSE), gpu) /\ UNCHANGED <<speech, held, created, answers>>
  BY DEF CoverageWaitEnds
<1>5. complete \in BOOLEAN  OBVIOUS
<1> HIDE DEF w, complete
<1>6. Calm(v, Busy(c, gpu))  BY <1>3, <1>5, CompleteKeeps
<1> HIDE DEF v
<1>7. WorldInv(Gate(v, "stop", FALSE), Busy(c, gpu))  BY <1>6, GateKeeps
<1> QED  BY <1>1, <1>2, <1>4, <1>7, BecomeKeeps

LEMMA SpeakerCheckedKeeps ==
  ASSUME IInv, NEW c \in Conns, NEW embedding \in Embeddings, SpeakerChecked(c, embedding)
  PROVE  IInv'
<1> DEFINE w == World(c)
           accept == embedding # "other" \/ ~w.k.enrolled
           enrolled == w.k.enrolled \/ embedding # "none"
           v == Decided(w, accept, enrolled)
           rest == Tail(w.k.events)
<1>1. conns[c].phase = "embed"  BY DEF SpeakerChecked
<1>2. Queue(gpu)  BY QueueIsQueue
<1>3. Calm(w, Busy(c, gpu)) /\ w.k = conns[c]  BY <1>1, <1>2, WorldIs
<1>4. PICK due \in Due : Become(c, Apply(v, rest, due), gpu)
  BY DEF SpeakerChecked, Decided
<1>5. UNCHANGED <<speech, held, created, answers>>  BY DEF SpeakerChecked
<1>6. rest \in Seq(Events(Units))
  <2>1. w.k \in Locals  BY <1>3, CalmWorld
  <2>2. w.k.events \in Seq(Events(Units))  BY <2>1 DEF Locals
  <2>3. EmbedInv(conns[c])  BY DEF IInv
  <2>4. w.k.events # << >>  BY <1>1, <1>3, <2>3 DEF EmbedInv
  <2> QED  BY <2>2, <2>4, HeadTailProperties
<1>7. accept \in BOOLEAN /\ enrolled \in BOOLEAN  OBVIOUS
<1> HIDE DEF w, accept, enrolled, rest
<1>8. Calm(v, Busy(c, gpu))  BY <1>3, <1>7, DecidedKeeps
<1> HIDE DEF v
<1>9. WorldInv(Apply(v, rest, due), Busy(c, gpu))  BY <1>6, <1>8, ApplyKeeps
<1> QED  BY <1>1, <1>2, <1>4, <1>5, <1>9, BecomeKeeps

LEMMA PartialAwaitedKeeps ==
  ASSUME IInv, NEW c \in Conns, PartialAwaited(c)
  PROVE  IInv'
<1>1. conns[c].phase = "waitPartial" /\ Become(c, DecideTail(World(c)), gpu)
      /\ UNCHANGED <<speech, held, created, answers>>
  BY DEF PartialAwaited
<1>2. Queue(gpu)  BY QueueIsQueue
<1>3. Calm(World(c), Busy(c, gpu))  BY <1>1, <1>2, WorldIs
<1>4. WorldInv(DecideTail(World(c)), Busy(c, gpu))  BY <1>3, DecideTailKeeps
<1> QED  BY <1>1, <1>2, <1>4, BecomeKeeps

LEMMA TailSpeakerCheckedKeeps ==
  ASSUME IInv, NEW c \in Conns, NEW embedding \in Embeddings, TailSpeakerChecked(c, embedding)
  PROVE  IInv'
<1> DEFINE v == IF embedding = "other" THEN RejectFinalTail(World(c))
                ELSE AcceptFinalTail(World(c))
<1>1. conns[c].phase = "tailEmbed" /\ Become(c, v, gpu)
      /\ UNCHANGED <<speech, held, created, answers>>
  BY DEF TailSpeakerChecked
<1>2. Queue(gpu)  BY QueueIsQueue
<1>3. Calm(World(c), Busy(c, gpu))  BY <1>1, <1>2, WorldIs
<1>4. WorldInv(v, Busy(c, gpu))  BY <1>3, RejectFinalTailKeeps, AcceptFinalTailKeeps
<1> HIDE DEF v
<1> QED  BY <1>1, <1>2, <1>4, BecomeKeeps

LEMMA BackgroundAwaitedKeeps ==
  ASSUME IInv, NEW c \in Conns, BackgroundAwaited(c)
  PROVE  IInv'
<1>1. conns[c].phase = "seal" /\ Become(c, SealTail(World(c)), gpu)
      /\ UNCHANGED <<speech, held, created, answers>>
  BY DEF BackgroundAwaited
<1>2. Queue(gpu)  BY QueueIsQueue
<1>3. Calm(World(c), Busy(c, gpu))  BY <1>1, <1>2, WorldIs
<1>4. WorldInv(SealTail(World(c)), Busy(c, gpu))  BY <1>3, SealTailKeeps
<1> QED  BY <1>1, <1>2, <1>4, BecomeKeeps

-----------------------------------------------------------------------------
(***************************************************************************)
(* Every action keeps the invariant: the decodes.                          *)
(***************************************************************************)

\* The decode that has ended was awaited by its connection, whose other decodes
\* are still queued.
LEMMA RunningIs ==
  ASSUME IInv, NEW c \in Conns, NEW job, Running(c, job)
  PROVE  /\ Queue(Tail(gpu)) /\ Waits(conns[c], job) /\ job \in JobKinds
         /\ job \notin Busy(c, Tail(gpu))
         /\ Busy(c, Tail(gpu)) \subseteq JobKinds
<1>1. gpu # << >> /\ Head(gpu)[1] = c /\ Head(gpu)[2] = job  BY DEF Running
<1>2. /\ Queue(Tail(gpu)) /\ job \notin Busy(c, Tail(gpu))
      /\ Head(gpu) \in Conns \X JobKinds /\ Waits(conns[c], job)
  BY <1>1, TailIsQueue
<1>3. \A kind \in Busy(c, Tail(gpu)) : kind \in JobKinds
  BY <1>2, BusyIsAwaited
<1>4. job \in JobKinds  BY <1>1, <1>2
<1> QED  BY <1>2, <1>3, <1>4

LEMMA CommitDecodedKeeps ==
  ASSUME IInv, NEW c \in Conns, NEW outcome, CommitDecoded(c, outcome)
  PROVE  IInv'
<1> DEFINE q == Tail(gpu)
           w == World(c)
           v == Committed([w EXCEPT !.k.commit = None], w.k.commit, outcome)
<1>1. /\ Queue(q) /\ Waits(conns[c], "commit") /\ "commit" \notin Busy(c, q)
      /\ Busy(c, q) \subseteq JobKinds
  BY RunningIs DEF CommitDecoded
<1>2. conns[c].commit # None  BY <1>1 DEF Waits
<1>3. conns[c].phase # "unborn"  BY <1>2 DEF IInv, LocalsInv
<1>4. w.k = conns[c] /\ WorldInv(w, Busy(c, q)) /\ w.jobs = << >>
  BY <1>1, <1>3, WorldIs
<1>5. Become(c, v, q) /\ UNCHANGED <<speech, held, created, answers>>
  BY <1>4 DEF CommitDecoded
<1> HIDE DEF w, q
<1>6. WorldInv(v, Busy(c, q))  BY <1>1, <1>2, <1>4, CommittedKeeps
<1> HIDE DEF v
<1> QED  BY <1>1, <1>3, <1>5, <1>6, BecomeKeeps

LEMMA DecodedType ==
  ASSUME NEW audio \in Audio, NEW outcome
  PROVE  Decoded(audio, outcome) \in Audio
BY DEF Decoded, Audio

LEMMA TailDecodedKeeps ==
  ASSUME IInv, NEW c \in Conns, NEW outcome, TailDecoded(c, outcome)
  PROVE  IInv'
<1> DEFINE q == Tail(gpu)
           w == World(c)
           tail == UnsealedTail(w.k)
           text == Decoded(tail, outcome)
           closed == [w EXCEPT !.k.phase = "closed"]
           v == IF outcome = "unavailable" THEN closed ELSE AfterTail(w, tail, text)
<1>1. /\ Queue(q) /\ Waits(conns[c], "tail") /\ "tail" \notin Busy(c, q)
      /\ Busy(c, q) \subseteq JobKinds
  BY RunningIs DEF TailDecoded
<1>2. conns[c].phase = "tail"  BY <1>1 DEF Waits
<1>3. "raw" \notin Busy(c, q)
  <2>1. ~Waits(conns[c], "raw")  BY <1>2 DEF Waits
  <2> QED  BY <1>1, <2>1, BusyIsAwaited
<1>4. Busy(c, q) \subseteq {"commit", "partial"}  BY <1>1, <1>3 DEF JobKinds
<1>5. Calm(w, Busy(c, q))  BY <1>1, <1>2, <1>4, WorldIs
<1>6. Become(c, v, q) /\ UNCHANGED <<speech, held, created, answers>>
  BY DEF TailDecoded
<1>7. tail \in Audio /\ text \in Audio
  <2>1. w.k \in Locals  BY <1>5, CalmWorld
  <2> QED  BY <2>1, TailIsAudio, DecodedType
<1> HIDE DEF w, q, tail, text
<1>8. WorldInv(AfterTail(w, tail, text), Busy(c, q))  BY <1>5, <1>7, AfterTailKeeps
<1>9. WorldInv(closed, Busy(c, q))
  <2>1. "closed" \in Phases \ {"unborn"}  BY DEF Phases
  <2> QED  BY <1>5, <2>1, PhaseKeeps
<1>10. WorldInv(v, Busy(c, q))  BY <1>8, <1>9
<1> HIDE DEF v
<1> QED  BY <1>1, <1>2, <1>6, <1>10, BecomeKeeps

LEMMA RawDecodedKeeps ==
  ASSUME IInv, NEW c \in Conns, NEW outcome, RawDecoded(c, outcome)
  PROVE  IInv'
<1> DEFINE q == Tail(gpu)
           w == World(c)
           text == Decoded(w.k.raw, outcome)
           closed == [w EXCEPT !.k.phase = "closed"]
           v == IF outcome = "unavailable" THEN closed ELSE AfterRaw(w, text)
<1>1. /\ Queue(q) /\ Waits(conns[c], "raw") /\ "raw" \notin Busy(c, q)
      /\ Busy(c, q) \subseteq JobKinds
  BY RunningIs DEF RawDecoded
<1>2. conns[c].phase = "raw"  BY <1>1 DEF Waits
<1>3. "tail" \notin Busy(c, q)
  <2>1. ~Waits(conns[c], "tail")  BY <1>2 DEF Waits
  <2> QED  BY <1>1, <2>1, BusyIsAwaited
<1>4. Busy(c, q) \subseteq {"commit", "partial"}  BY <1>1, <1>3 DEF JobKinds
<1>5. Calm(w, Busy(c, q))  BY <1>1, <1>2, <1>4, WorldIs
<1>6. Become(c, v, q) /\ UNCHANGED <<speech, held, created, answers>>
  BY DEF RawDecoded
<1>7. text \in Audio
  <2>1. w.k \in Locals  BY <1>5, CalmWorld
  <2>2. w.k.raw \in Audio  BY <2>1, AudioFacts
  <2> QED  BY <2>2, DecodedType
<1> HIDE DEF w, q, text
<1>8. WorldInv(AfterRaw(w, text), Busy(c, q))  BY <1>5, <1>7, AfterRawKeeps
<1>9. WorldInv(closed, Busy(c, q))
  <2>1. "closed" \in Phases \ {"unborn"}  BY DEF Phases
  <2> QED  BY <1>5, <2>1, PhaseKeeps
<1>10. WorldInv(v, Busy(c, q))  BY <1>8, <1>9
<1> HIDE DEF v
<1> QED  BY <1>1, <1>2, <1>6, <1>10, BecomeKeeps

LEMMA PartialSentKeeps ==
  ASSUME IInv, NEW c \in Conns, PartialSent(c)
  PROVE  IInv'
<1> DEFINE w == World(c)
           t == conns[c].partial
           sent == Sync([w EXCEPT !.k.last_partial = t.text])
<1>1. t # None /\ t.stage = "send"  BY DEF PartialSent
<1>2. conns[c] \in Locals /\ LocalsInv(conns[c])  BY DEF IInv, TypeOK
<1>3. conns[c].phase # "unborn"  BY <1>1, <1>2 DEF LocalsInv
<1>4. t \in Partials /\ t.text \in Audio
  <2>1. t \in Partials  BY <1>1, <1>2 DEF Locals
  <2> QED  BY <2>1 DEF Partials
<1>5. Queue(gpu)  BY QueueIsQueue
<1>6. \A job \in Busy(c, gpu) : job \in JobKinds /\ Waits(conns[c], job)
  BY <1>5, BusyIsAwaited
<1>7. "partial" \notin Busy(c, gpu)  BY <1>1, <1>6 DEF Waits
<1>8. WorldInv(w, Busy(c, gpu)) /\ w.jobs = << >> /\ w.k = conns[c]
  BY <1>3, <1>5, WorldIs
<1>9. \/ Become(c, Over(sent, t), gpu)
      \/ Become(c, Over(w, t), gpu)
  BY <1>8 DEF PartialSent, Over
<1>10. UNCHANGED <<speech, held, created, answers>>  BY DEF PartialSent
<1> HIDE DEF w, t
<1>11. WorldInv(sent, Busy(c, gpu)) /\ sent.jobs = << >>
  BY <1>4, <1>6, <1>8, SentKeeps
<1> HIDE DEF sent
<1>12. WorldInv(Over(sent, t), Busy(c, gpu)) /\ WorldInv(Over(w, t), Busy(c, gpu))
  BY <1>4, <1>6, <1>7, <1>8, <1>11, OverKeeps
<1> QED  BY <1>3, <1>5, <1>9, <1>10, <1>12, BecomeKeeps

LEMMA PartialDecodedKeeps ==
  ASSUME IInv, NEW c \in Conns, NEW outcome, PartialDecoded(c, outcome)
  PROVE  IInv'
<1> DEFINE q == Tail(gpu)
           w == World(c)
           t == w.k.partial
           text == Decoded(t.audio, outcome)
           shown == t.prefix \o text
           over == Over(w, t)
           sending == Sending(w, shown)
           d == [at |-> t.at, audio |-> t.audio, text |-> text]
           rest(v) == IF t.at = None THEN v ELSE [v EXCEPT !.k.partial_decode = d]
           v == IF outcome = "unavailable" THEN over
                ELSE IF w.k.closing \/ shown \in {<< >>, w.k.last_partial}
                THEN rest(over)
                ELSE rest(sending)
<1>1. /\ Queue(q) /\ Waits(conns[c], "partial") /\ "partial" \notin Busy(c, q)
      /\ Busy(c, q) \subseteq JobKinds
  BY RunningIs DEF PartialDecoded
<1>2. conns[c].partial # None  BY <1>1 DEF Waits
<1>3. conns[c] \in Locals /\ LocalsInv(conns[c])  BY DEF IInv, TypeOK
<1>4. conns[c].phase # "unborn"  BY <1>2, <1>3 DEF LocalsInv
<1>5. w.k = conns[c] /\ WorldInv(w, Busy(c, q)) /\ w.jobs = << >>
  BY <1>1, <1>4, WorldIs
<1>6. t \in Partials /\ t # None
  <2>1. t # None  BY <1>2, <1>5
  <2> QED  BY <1>3, <1>5, <2>1 DEF Locals
<1>7. text \in Audio /\ shown \in Audio
  <2>1. t.audio \in Audio /\ t.prefix \in Audio  BY <1>6 DEF Partials
  <2>2. text \in Audio  BY <2>1, DecodedType
  <2> HIDE DEF text
  <2> QED  BY <2>1, <2>2, ConcatProperties DEF Audio
<1>8. t.at # None => d \in [at: Nat, audio: Audio, text: Audio]
  <2>1. t.audio \in Audio /\ t.at \in Nat \union {None}  BY <1>6 DEF Partials
  <2> QED  BY <1>7, <2>1
<1>9. Become(c, v, q) /\ UNCHANGED <<speech, held, created, answers>>
  BY <1>5 DEF PartialDecoded, Over, Sending
<1> HIDE DEF w, q, t, text, shown, d
<1>10. WorldInv(over, Busy(c, q)) /\ over.jobs = << >>
  BY <1>1, <1>5, <1>6, OverKeeps
<1>11. WorldInv(sending, Busy(c, q)) /\ sending.jobs = << >>
  <2>1. w.k.partial # None  BY <1>6 DEF t
  <2> QED  BY <1>1, <1>5, <1>7, <2>1, SendingKeeps
<1> HIDE DEF over, sending
<1>12. WorldInv(rest(over), Busy(c, q)) /\ WorldInv(rest(sending), Busy(c, q))
  BY <1>1, <1>8, <1>10, <1>11, RememberKeeps
<1> HIDE DEF rest
<1>13. WorldInv(v, Busy(c, q))  BY <1>10, <1>12
<1> HIDE DEF v
<1> QED  BY <1>1, <1>4, <1>9, <1>13, BecomeKeeps

-----------------------------------------------------------------------------
(***************************************************************************)
(* The theorems.                                                           *)
(***************************************************************************)

LEMMA InitIsInv ==
  ASSUME Init
  PROVE  IInv
<1>1. NewLedger \in Ledger  BY DEF NewLedger, Ledger, Offset
<1>2. TypeOK
  <2>1. << >> \in Seq(Conns \X JobKinds)  OBVIOUS
  <2>2. 0 \in 0 .. MaxJournals  BY SessionAssumption
  <2>3. \A c \in Conns : NewConn(c) \in Locals  BY NewConnIs
  <2> QED  BY <1>1, <2>1, <2>2, <2>3, NewJournalIs DEF Init, TypeOK
<1>3. \A c \in Conns : LocalsInv(conns[c]) /\ EmbedInv(conns[c])
  <2> SUFFICES ASSUME NEW c \in Conns  PROVE LocalsInv(NewConn(c)) /\ EmbedInv(NewConn(c))
    BY DEF Init
  <2>1. PrefixIsDecoded(NewConn(c))  BY NewConnIs, EmptyPrefix
  <2> QED  BY <2>1, NewConnIs DEF LocalsInv, EmbedInv, CommitIsOfGated
<1>4. \A j \in Journals : PrefixIsDecoded(journals[j])  BY NewJournalIs DEF Init
<1>5. QueueInv  BY DEF Init, QueueInv, IsInjective
<1> QED  BY <1>2, <1>3, <1>4, <1>5 DEF IInv

LEMMA UnchangedKeeps ==
  ASSUME IInv, UNCHANGED vars
  PROVE  IInv'
<1>1. TypeOK'  BY DEF IInv, TypeOK, vars
<1>2. QueueInv'  BY DEF IInv, QueueInv, vars
<1>3. /\ \A c \in Conns : LocalsInv(conns'[c]) /\ EmbedInv(conns'[c])
      /\ \A j \in Journals : PrefixIsDecoded(journals'[j])
  BY DEF IInv, vars
<1> QED  BY <1>1, <1>2, <1>3 DEF IInv

LEMMA ClientKeeps ==
  ASSUME IInv, NEW c \in Conns, Client(c)
  PROVE  IInv'
<1>1. CASE Start(c)  BY <1>1, StartKeeps
<1>2. CASE Resume(c)  BY <1>2, ResumeKeeps
<1>3. CASE SocketDies(c)  BY <1>3, SocketDiesKeeps
<1>4. ASSUME NEW s \in Seqs, AudioFrame(c, s)  PROVE IInv'  BY <1>4, AudioFrameKeeps
<1>5. ASSUME NEW s \in Seqs, LateFrame(c, s)  PROVE IInv'  BY <1>5, LateFrameKeeps
<1>6. ASSUME NEW id \in StopIds, NEW captured \in Reports, StopReplayed(c, id, captured)
      PROVE  IInv'
  BY <1>6, StopReplayedKeeps
<1>7. ASSUME NEW id \in StopIds, NEW captured \in Reports, StopRefused(c, id, captured)
      PROVE  IInv'
  BY <1>7, StopRefusedKeeps
<1>8. ASSUME NEW id \in StopIds, NEW captured \in Reports, StopRequested(c, id, captured)
      PROVE  IInv'
  BY <1>8, StopRequestedKeeps
<1> QED  BY <1>1, <1>2, <1>3, <1>4, <1>5, <1>6, <1>7, <1>8 DEF Client

LEMMA ServerKeeps ==
  ASSUME IInv, NEW c \in Conns, Server(c)
  PROVE  IInv'
<1>1. CASE DuplicateAcked(c)  BY <1>1, DuplicateAckedKeeps
<1>2. CASE FrameAcked(c)  BY <1>2, FrameAckedKeeps
<1>3. CASE CoverageWaitEnds(c)  BY <1>3, CoverageWaitEndsKeeps
<1>4. ASSUME NEW e \in Embeddings, SpeakerChecked(c, e)  PROVE IInv'
  BY <1>4, SpeakerCheckedKeeps
<1>5. ASSUME NEW e \in Embeddings, TailSpeakerChecked(c, e)  PROVE IInv'
  BY <1>5, TailSpeakerCheckedKeeps
<1>6. CASE PartialAwaited(c)  BY <1>6, PartialAwaitedKeeps
<1>7. CASE BackgroundAwaited(c)  BY <1>7, BackgroundAwaitedKeeps
<1>8. CASE FinalSent(c)  BY <1>8, FinalSentKeeps
<1>9. CASE PartialSent(c)  BY <1>9, PartialSentKeeps
<1> QED  BY <1>1, <1>2, <1>3, <1>4, <1>5, <1>6, <1>7, <1>8, <1>9 DEF Server

LEMMA NextKeeps ==
  ASSUME IInv, [Next]_vars
  PROVE  IInv'
<1>1. ASSUME NEW c \in Conns, Client(c)  PROVE IInv'  BY <1>1, ClientKeeps
<1>2. ASSUME NEW c \in Conns, Server(c)  PROVE IInv'  BY <1>2, ServerKeeps
<1>3. ASSUME NEW c \in Conns, ReceiveTimesOut(c)  PROVE IInv'  BY <1>3, ReceiveTimesOutKeeps
<1>4. ASSUME NEW c \in Conns, ConnectionEnds(c)  PROVE IInv'  BY <1>4, ConnectionEndsKeeps
<1>5. ASSUME NEW j \in Journals, StopResultExpires(j)  PROVE IInv'
  BY <1>5, StopResultExpiresKeeps
<1>6. ASSUME NEW c \in Conns, NEW outcome \in DecodeOutcomes, CommitDecoded(c, outcome)
      PROVE  IInv'
  BY <1>6, CommitDecodedKeeps
<1>7. ASSUME NEW c \in Conns, NEW outcome \in DecodeOutcomes, PartialDecoded(c, outcome)
      PROVE  IInv'
  BY <1>7, PartialDecodedKeeps
<1>8. ASSUME NEW c \in Conns, NEW outcome \in DecodeOutcomes, TailDecoded(c, outcome)
      PROVE  IInv'
  BY <1>8, TailDecodedKeeps
<1>9. ASSUME NEW c \in Conns, NEW outcome \in DecodeOutcomes, RawDecoded(c, outcome)
      PROVE  IInv'
  BY <1>9, RawDecodedKeeps
<1>10. CASE Finished \/ UNCHANGED vars  BY <1>10, UnchangedKeeps DEF Finished
<1> QED
  BY <1>1, <1>2, <1>3, <1>4, <1>5, <1>6, <1>7, <1>8, <1>9, <1>10 DEF Next, Gpu

\* The inductive invariant holds, for any sockets, journals, window sizes, decode
\* outcomes and peers: a queued decode always finds the connection still waiting
\* for it, and a commit in flight is of audio the gated buffer still has.
THEOREM SessionInvariant == Spec => []IInv
<1>1. Init => IInv  BY InitIsInv
<1>2. IInv /\ [Next]_vars => IInv'  BY NextKeeps
<1> QED  BY <1>1, <1>2, PTL DEF Spec

\* Every local, journal, ledger, cached answer and queued decode keeps its type.
THEOREM TypeCorrectness == Spec => []TypeOK
<1>1. IInv => TypeOK  BY DEF IInv
<1> QED  BY <1>1, SessionInvariant, PTL

\* stable_text is the decode of exactly the first stable_bytes of gated_audio, in
\* every connection and whatever commits, resumes and sockets interleave.
THEOREM StablePrefix == Spec => []StablePrefixIsDecoded
<1>1. IInv => StablePrefixIsDecoded
  BY DEF IInv, LocalsInv, PrefixIsDecoded, StablePrefixIsDecoded
<1> QED  BY <1>1, SessionInvariant, PTL

=============================================================================
