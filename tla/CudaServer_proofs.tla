-------------------------- MODULE CudaServer_proofs --------------------------
(***************************************************************************)
(* Proofs about CudaServer and its BackendController, for every set of     *)
(* configuration files, connections and session ids and every bound.       *)
(***************************************************************************)
EXTENDS CudaServer, FiniteSetTheorems, TLAPS

-----------------------------------------------------------------------------
(***************************************************************************)
(* The controller.  A backend is active, or being loaded, or has failed;   *)
(* a failed one is empty of requests, and is reported until it is loaded   *)
(* again.                                                                  *)
(***************************************************************************)
Sound(b) ==
  /\ b \in Controller
  /\ b.active # None =>
       b.active = b.current.backend /\ ~b.failed_activation /\ ~b.activating
  /\ b.active = None => b.activating \/ b.failed_activation
  /\ b.activating \/ b.failed_activation => b.requests = 0
  /\ b.failed_activation => b.retry # None
  /\ b.failed_activation /\ ~b.activating => b.error # None

LEMMA ConfigsAreTyped ==
  \A c \in Configs : c.backend \in Backends /\ c.max_sessions \in Nat \ {0}
BY ControllerAssumption DEF Configs

LEMMA NoneIsNone ==
  None \notin Backends /\ None \notin Nat /\ None # "failed" /\ None # "invalid"
BY ControllerAssumption

LEMMA DoubledIsADelay ==
  ASSUME NEW d \in RETRY_FIRST .. RETRY_MAX
  PROVE  Doubled(d) \in RETRY_FIRST .. RETRY_MAX
BY ControllerAssumption DEF Doubled

\* Startup, whether the preload works or not.
LEMMA PreloadedIsSound ==
  ASSUME NEW f \in Files, Parsed[f] # Invalid
  PROVE  /\ Sound(Preloaded(f)) /\ Preloaded(f).requests = 0
         /\ Sound(Failed([Preloaded(f) EXCEPT !.active = None]))
         /\ Failed([Preloaded(f) EXCEPT !.active = None]).requests = 0
PROOF
  <1>1. Parsed[f] \in Configs /\ Parsed[f].backend \in Backends
    BY ControllerAssumption DEF Configs
  <1>2. RETRY_FIRST \in RETRY_FIRST .. RETRY_MAX /\ RETRY_FIRST \in 0 .. RETRY_MAX
    BY ControllerAssumption
  <1>3. Preloaded(f) \in Controller
    BY <1>1, <1>2 DEF Preloaded, Controller
  <1>4. Sound(Preloaded(f)) /\ Preloaded(f).requests = 0
    BY <1>1, <1>3, NoneIsNone DEF Sound, Preloaded
  <1> DEFINE b == [Preloaded(f) EXCEPT !.active = None]
  <1>5. b \in Controller /\ b.active = None /\ b.requests = 0 /\ b.activating = FALSE
        /\ b.retry_delay = RETRY_FIRST
    BY <1>3 DEF Preloaded, Controller
  <1> HIDE DEF b
  <1>6. Failed(b) = [b EXCEPT !.error = "failed", !.failed_activation = TRUE,
                              !.retry = RETRY_FIRST,
                              !.retry_delay = Doubled(RETRY_FIRST)]
    BY <1>5 DEF Failed, Controller
  <1>7. Doubled(RETRY_FIRST) \in RETRY_FIRST .. RETRY_MAX
    BY <1>2, DoubledIsADelay
  <1>8. /\ Failed(b) \in Controller /\ Failed(b).active = None
        /\ Failed(b).failed_activation = TRUE /\ Failed(b).error = "failed"
        /\ Failed(b).retry = RETRY_FIRST /\ Failed(b).requests = 0
    BY <1>2, <1>5, <1>6, <1>7, ZenonT(60) DEF Controller
  <1>9. "failed" # None /\ RETRY_FIRST # None
    BY NoneIsNone, ControllerAssumption
  <1> QED BY <1>4, <1>8, <1>9 DEF Sound, b

\* A request enters and leaves.
LEMMA AdmittedIsSound ==
  ASSUME NEW b, Sound(b), Admits(b)
  PROVE  /\ Sound(Admitted(b)) /\ Admitted(b).requests = b.requests + 1
         /\ Admitted(b).active = b.active /\ Admitted(b).current = b.current
         /\ Admitted(b).activating = FALSE /\ Admitted(b).failed_activation = FALSE
PROOF
  <1> DEFINE a == Admitted(b)
  <1>1. b \in Controller /\ b.activating = FALSE /\ b.failed_activation = FALSE
    BY DEF Sound, Admits, Controller
  <1>2. b.requests + 1 \in Nat
    BY <1>1 DEF Controller
  <1>3. /\ a \in Controller /\ a.requests = b.requests + 1
        /\ a.active = b.active /\ a.current = b.current /\ a.error = b.error
        /\ a.activating = b.activating /\ a.failed_activation = b.failed_activation
        /\ a.retry = b.retry
    BY <1>1, <1>2 DEF Admitted, Controller
  <1> HIDE DEF a
  <1>4. Sound(a)
    BY <1>1, <1>3 DEF Sound
  <1> QED BY <1>1, <1>3, <1>4 DEF a

LEMMA ReleasedIsSound ==
  ASSUME NEW b, Sound(b), b.requests > 0
  PROVE  /\ Sound(Released(b)) /\ Released(b).requests = b.requests - 1
         /\ Released(b).active = b.active /\ Released(b).current = b.current
         /\ Released(b).activating = FALSE /\ Released(b).failed_activation = FALSE
PROOF
  <1> DEFINE a == Released(b)
  <1>1. b \in Controller /\ b.activating = FALSE /\ b.failed_activation = FALSE
    BY DEF Sound, Controller
  <1>2. b.requests - 1 \in Nat
    BY <1>1 DEF Controller
  <1>3. /\ a \in Controller /\ a.requests = b.requests - 1
        /\ a.active = b.active /\ a.current = b.current /\ a.error = b.error
        /\ a.activating = b.activating /\ a.failed_activation = b.failed_activation
        /\ a.retry = b.retry
    BY <1>1, <1>2 DEF Released, Controller
  <1> HIDE DEF a
  <1>4. Sound(a)
    BY <1>1, <1>3 DEF Sound
  <1> QED BY <1>1, <1>3, <1>4 DEF a

\* What a poll may change before the gate.
SameLoad(b, c) ==
  /\ c.active = b.active /\ c.current = b.current
  /\ c.activating = b.activating /\ c.failed_activation = b.failed_activation
  /\ c.requests = b.requests /\ c.retry = b.retry

\* Reading a file clears the error of a failed activation only to try again.
LEMMA PolledIsSound ==
  ASSUME NEW b, Sound(b), NEW f \in Files, Parsed[f] # Invalid, ~b.activating
  PROVE  LET p == Polled(b, f)
         IN /\ p \in Controller /\ SameLoad(b, p)
            /\ p.failed_activation /\ ~p.pending => p.error # None
            /\ ~p.failed_activation \/ ~p.pending => Sound(p)
PROOF
  <1> DEFINE r == Reread(b, f)
             p == Polled(b, f)
  <1>1. b \in Controller /\ Parsed[f] \in Configs
    BY DEF Sound, Configs
  <1>2. /\ r \in Controller /\ SameLoad(b, r)
        /\ r.failed_activation /\ ~r.pending => r.error # None
    <2>1. CASE f # b.fingerprint
      <3>1. (Parsed[f] # b.current \/ b.failed_activation) \in BOOLEAN
        BY <1>1 DEF Controller
      <3>2. r = [b EXCEPT !.fingerprint = f, !.desired = Parsed[f], !.error = None,
                          !.pending = Parsed[f] # b.current \/ b.failed_activation]
        BY <2>1 DEF Reread
      <3> HIDE DEF r
      <3> QED BY <1>1, <3>1, <3>2 DEF Controller, SameLoad
    <2>2. CASE f = b.fingerprint /\ ~b.failed_activation
      <3>1. r = [b EXCEPT !.error = None]
        BY <2>2 DEF Reread
      <3> HIDE DEF r
      <3> QED BY <1>1, <2>2, <3>1 DEF Controller, SameLoad
    <2>3. CASE f = b.fingerprint /\ b.failed_activation
      <3>1. r = b
        BY <2>3 DEF Reread
      <3> QED BY <1>1, <3>1 DEF Sound, SameLoad
    <2> QED BY <2>1, <2>2, <2>3
  <1>3. p = [r EXCEPT !.pending = r.pending \/ (r.failed_activation /\ r.retry = 0)]
    BY <1>2 DEF Polled, Controller
  <1> HIDE DEF r, p
  <1>4. /\ p \in Controller /\ SameLoad(b, p) /\ p.error = r.error
        /\ r.pending => p.pending
    <2>1. (r.pending \/ (r.failed_activation /\ r.retry = 0)) \in BOOLEAN
      BY <1>2 DEF Controller
    <2> QED BY <1>2, <1>3, <2>1 DEF Controller, SameLoad
  <1>5. p.failed_activation /\ ~p.pending => p.error # None
    BY <1>2, <1>4 DEF SameLoad
  <1>6. ~p.failed_activation \/ ~p.pending => Sound(p)
    BY <1>4, <1>5 DEF Sound, SameLoad
  <1> QED BY <1>4, <1>5, <1>6 DEF p

LEMMA PolledInvalidIsSound ==
  ASSUME NEW b, Sound(b)
  PROVE  Sound(PolledInvalid(b)) /\ SameLoad(b, PolledInvalid(b))
PROOF
  <1> DEFINE p == PolledInvalid(b)
  <1>1. b \in Controller BY DEF Sound
  <1>2. p = [b EXCEPT !.error = "invalid"] BY DEF PolledInvalid
  <1> HIDE DEF p
  <1>3. p \in Controller /\ SameLoad(b, p) /\ p.error = "invalid"
    BY <1>1, <1>2 DEF Controller, SameLoad
  <1> QED BY <1>3, NoneIsNone DEF Sound, SameLoad, p

\* An activation begins, without a request, and ends either way.
LEMMA ActivatingIsSound ==
  ASSUME NEW b \in Controller, b.requests = 0, b.failed_activation => b.retry # None
  PROVE  /\ Sound(Activating(b)) /\ Activating(b).requests = 0
         /\ Activating(b).activating = TRUE /\ Activating(b).current \in Configs
PROOF
  <1> DEFINE a == Activating(b)
  <1>1. a = [b EXCEPT !.current = b.desired, !.active = None, !.activating = TRUE]
    BY DEF Activating
  <1> HIDE DEF a
  <1>2. /\ a \in Controller /\ a.active = None /\ a.activating = TRUE
        /\ a.requests = 0 /\ a.failed_activation = b.failed_activation
        /\ a.retry = b.retry /\ a.current = b.desired
    BY <1>1 DEF Controller
  <1> QED BY <1>2 DEF Sound, Controller, a

LEMMA ActivatedIsSound ==
  ASSUME NEW b, Sound(b), b.activating
  PROVE  /\ Sound(Activated(b)) /\ Activated(b).requests = 0
         /\ Activated(b).current = b.current
PROOF
  <1> DEFINE a == Activated(b)
  <1>1. b \in Controller /\ b.requests = 0 /\ b.current \in Configs
    BY DEF Sound, Controller
  <1>2. b.current.backend \in Backends /\ RETRY_FIRST \in RETRY_FIRST .. RETRY_MAX
    BY <1>1, ConfigsAreTyped, ControllerAssumption
  <1>3. a = [b EXCEPT !.active = b.current.backend, !.failed_activation = FALSE,
            !.error = None, !.retry = None, !.retry_delay = RETRY_FIRST,
            !.pending = FALSE, !.activating = FALSE]
    BY DEF Activated
  <1> HIDE DEF a
  <1>4. /\ a \in Controller /\ a.active = a.current.backend /\ a.current = b.current
        /\ a.activating = FALSE /\ a.failed_activation = FALSE /\ a.requests = 0
    BY <1>1, <1>2, <1>3 DEF Controller
  <1> QED BY <1>1, <1>2, <1>4, NoneIsNone DEF Sound, a

LEMMA NotActivatedIsSound ==
  ASSUME NEW b, Sound(b), b.activating
  PROVE  /\ Sound(NotActivated(b)) /\ NotActivated(b).requests = 0
         /\ NotActivated(b).current = b.current
PROOF
  <1> DEFINE f == Failed(b)
             a == NotActivated(b)
  <1>1. /\ b \in Controller /\ b.requests = 0 /\ b.active = None
        /\ b.retry_delay \in RETRY_FIRST .. RETRY_MAX
    BY DEF Sound, Controller
  <1>2. /\ Doubled(b.retry_delay) \in RETRY_FIRST .. RETRY_MAX
        /\ b.retry_delay \in 0 .. RETRY_MAX
    BY <1>1, DoubledIsADelay, ControllerAssumption
  <1>3. f = [b EXCEPT !.error = "failed", !.failed_activation = TRUE,
                      !.retry = b.retry_delay, !.retry_delay = Doubled(b.retry_delay)]
    BY <1>1 DEF Failed, Controller
  <1>4. a = [f EXCEPT !.pending = FALSE, !.activating = FALSE]
    BY DEF NotActivated
  <1> HIDE DEF f, a
  <1>5. /\ f \in Controller /\ f.active = None /\ f.requests = 0
        /\ f.current = b.current /\ f.failed_activation = TRUE
        /\ f.error = "failed" /\ f.retry = b.retry_delay
    BY <1>1, <1>2, <1>3 DEF Controller
  <1>6. /\ a \in Controller /\ a.active = None /\ a.requests = 0
        /\ a.current = b.current /\ a.failed_activation = TRUE
        /\ a.activating = FALSE /\ a.error = "failed" /\ a.retry = b.retry_delay
    BY <1>4, <1>5 DEF Controller
  <1>7. b.retry_delay # None
    BY <1>2, NoneIsNone, ControllerAssumption
  <1> QED BY <1>6, <1>7, NoneIsNone DEF Sound, a

\* Time passes towards the retry.
LEMMA LaterIsSound ==
  ASSUME NEW b, Sound(b)
  PROVE  /\ Sound(Later(b)) /\ Later(b).requests = b.requests
         /\ Later(b).current = b.current /\ Later(b).active = b.active
         /\ Later(b).activating = b.activating
         /\ Later(b).failed_activation = b.failed_activation
PROOF
  <1> DEFINE n == IF b.retry \in {None, 0} THEN b.retry ELSE b.retry - 1
             a == Later(b)
  <1>1. b \in Controller /\ b.retry \in 0 .. RETRY_MAX \union {None}
    BY DEF Sound, Controller
  <1>2. n \in 0 .. RETRY_MAX \union {None} /\ (b.retry # None => n # None)
    BY <1>1, NoneIsNone, ControllerAssumption
  <1>3. a = [b EXCEPT !.retry = n]
    BY <1>1 DEF Later, Controller
  <1> HIDE DEF n, a
  <1>4. /\ a \in Controller /\ a.retry = n /\ a.requests = b.requests
        /\ a.current = b.current /\ a.active = b.active /\ a.error = b.error
        /\ a.activating = b.activating /\ a.failed_activation = b.failed_activation
    BY <1>1, <1>2, <1>3 DEF Controller
  <1> QED BY <1>2, <1>4 DEF Sound, a

-----------------------------------------------------------------------------
(***************************************************************************)
(* The server.  The inductive invariant: requests counts the open          *)
(* connections, a failed or loading backend has no live dictation, and a   *)
(* connection is attached to a journal of the current backend.             *)
(***************************************************************************)
OpenConns == {c \in Conns : Open(c)}

Live == {j \in _protocol_sessions : Unfinished(j)}

Attachments ==
  \A c \in Conns : conns[c].phase = "attached" =>
    /\ conns[c].journal \in DOMAIN journals
    /\ journals[conns[c].journal].backend = backend_controller.current.backend

JournalsTyped ==
  /\ journals \in Seq(Journal) /\ Len(journals) <= MaxJournals
  /\ _protocol_sessions \subseteq DOMAIN journals

Fits ==
  /\ backend_controller.failed_activation \/ backend_controller.activating => Live = {}
  /\ LiveSessionsFit

IInv ==
  /\ Sound(backend_controller)
  /\ backend_controller.requests = Cardinality(OpenConns)
  /\ conns \in [Conns -> Conn]
  /\ JournalsTyped
  /\ Attachments
  /\ Fits
  /\ file \in Files /\ edits \in 0 .. MaxEdits /\ failures \in 0 .. MaxFailures

\* A connection inside is served by a loaded backend.
LEMMA OpenIsServed ==
  ASSUME IInv, NEW c \in Conns, Open(c)
  PROVE  /\ backend_controller.requests \in Nat /\ backend_controller.requests > 0
         /\ ~backend_controller.activating /\ ~backend_controller.failed_activation
         /\ backend_controller.active = backend_controller.current.backend
PROOF
  <1>1. IsFiniteSet(OpenConns) /\ c \in OpenConns
    BY ServerAssumption, FS_Subset DEF OpenConns
  <1>2. Cardinality(OpenConns) \in Nat /\ Cardinality(OpenConns) # 0
    BY <1>1, FS_CardinalityType, FS_EmptySet
  <1> QED BY <1>2 DEF IInv, Sound

\* Nobody is inside where no request is counted.
LEMMA NobodyInside ==
  ASSUME IInv, backend_controller.requests = 0, NEW c \in Conns
  PROVE  ~Open(c)
BY OpenIsServed

\* A connection that leaves is counted off.
LEMMA Leaving ==
  ASSUME IInv, NEW c \in Conns, Open(c), Leaves(c)
  PROVE  /\ Sound(backend_controller')
         /\ backend_controller'.requests = Cardinality(OpenConns')
         /\ backend_controller'.current = backend_controller.current
         /\ ~backend_controller'.activating /\ ~backend_controller'.failed_activation
         /\ conns' \in [Conns -> Conn]
         /\ \A d \in Conns : conns'[d].phase = "attached" => conns'[d] = conns[d]
PROOF
  <1>1. conns \in [Conns -> Conn]
    BY DEF IInv
  <1>2. conns' = [conns EXCEPT ![c] = [phase |-> "closed", journal |-> None]]
    BY DEF Leaves
  <1>3. /\ conns' \in [Conns -> Conn] /\ conns'[c].phase = "closed"
        /\ \A d \in Conns \ {c} : conns'[d] = conns[d]
    BY <1>1, <1>2 DEF Conn
  <1>4. OpenConns' = OpenConns \ {c}
    BY <1>3 DEF OpenConns, Open
  <1>5. IsFiniteSet(OpenConns) /\ c \in OpenConns
    BY ServerAssumption, FS_Subset DEF OpenConns
  <1>6. Cardinality(OpenConns') = Cardinality(OpenConns) - 1
    BY <1>4, <1>5, FS_RemoveElement
  <1> QED BY <1>3, <1>6, OpenIsServed, ReleasedIsSound DEF IInv, Leaves

\* A connection that takes hold of a journal stays counted.
LEMMA Attaching ==
  ASSUME IInv, NEW c \in Conns, Open(c), NEW j \in Journals, Attaches(c, j)
  PROVE  /\ backend_controller' = backend_controller
         /\ OpenConns' = OpenConns
         /\ conns' \in [Conns -> Conn]
         /\ conns'[c].journal = j
         /\ \A d \in Conns \ {c} : conns'[d] = conns[d]
PROOF
  <1>1. conns \in [Conns -> Conn]
    BY DEF IInv
  <1>2. conns' = [conns EXCEPT ![c] = [phase |-> "attached", journal |-> j]]
    BY DEF Attaches
  <1>3. /\ conns' \in [Conns -> Conn] /\ conns'[c].phase = "attached"
        /\ conns'[c].journal = j
        /\ \A d \in Conns \ {c} : conns'[d] = conns[d]
    BY <1>1, <1>2 DEF Conn
  <1> QED BY <1>3 DEF OpenConns, Open, Attaches

\* Live dictations are finitely many, and fewer of them still fit.
LEMMA FewerFit ==
  ASSUME IInv, JournalsTyped', Live' \subseteq Live,
         backend_controller'.current = backend_controller.current
  PROVE  LiveSessionsFit'
PROOF
  <1>1. IsFiniteSet(DOMAIN journals)
    <2>1. DOMAIN journals = 1 .. Len(journals) /\ Len(journals) \in Nat
      BY DEF IInv, JournalsTyped
    <2> QED BY <2>1, FS_Interval
  <1>2. IsFiniteSet(Live)
    BY <1>1, FS_Subset DEF Live, IInv, JournalsTyped
  <1>3. /\ Cardinality(Live') <= Cardinality(Live)
        /\ Cardinality(Live') \in Nat /\ Cardinality(Live) \in Nat
    BY <1>2, FS_Subset, FS_CardinalityType
  <1>4. backend_controller.current.max_sessions \in Nat
    BY ConfigsAreTyped DEF IInv, Sound, Controller
  <1> QED BY <1>3, <1>4 DEF IInv, Fits, LiveSessionsFit, Live

\* Updating a journal moves no other field of any.
LEMMA UpdatedIsTyped ==
  ASSUME IInv, NEW j \in DOMAIN journals
  PROVE  /\ Updated(j) \in Seq(Journal) /\ Len(Updated(j)) = Len(journals)
         /\ DOMAIN Updated(j) = DOMAIN journals
         /\ \A i \in DOMAIN journals :
              /\ Updated(j)[i].backend = journals[i].backend
              /\ Updated(j)[i].final = journals[i].final
PROOF
  <1> DEFINE n == Len(journals)
             rank(i) == IF i = j THEN n
                        ELSE IF journals[i].updated > journals[j].updated
                        THEN journals[i].updated - 1 ELSE journals[i].updated
             u(i) == [journals[i] EXCEPT !.updated = rank(i), !.stale = @ /\ i # j]
  <1>1. n \in Nat /\ DOMAIN journals = 1 .. n /\ n <= MaxJournals /\ MaxJournals \in Nat
    BY ServerAssumption DEF IInv, JournalsTyped
  <1>2. \A i \in 1 .. n : journals[i] \in Journal
    BY <1>1 DEF IInv, JournalsTyped
  <1>3. ASSUME NEW i \in 1 .. n
        PROVE  /\ u(i) \in Journal /\ u(i).backend = journals[i].backend
               /\ u(i).final = journals[i].final
    <2>1. /\ journals[i].updated \in 1 .. MaxJournals
          /\ journals[j].updated \in 1 .. MaxJournals
      BY <1>1, <1>2 DEF Journal, Journals
    <2>2. rank(i) \in Journals
      BY <1>1, <2>1 DEF Journals
    <2>3. u(i) = [journals[i] EXCEPT !.updated = rank(i),
                                     !.stale = journals[i].stale /\ i # j]
      BY <1>2 DEF Journal
    <2>4. (journals[i].stale /\ i # j) \in BOOLEAN
      BY <1>2 DEF Journal
    <2> HIDE DEF rank, u
    <2> QED BY <1>2, <2>2, <2>3, <2>4 DEF Journal
  <1>4. Updated(j) = [i \in 1 .. n |-> u(i)]
    BY <1>1 DEF Updated
  <1> HIDE DEF u
  <1> QED BY <1>1, <1>3, <1>4

-----------------------------------------------------------------------------
(***************************************************************************)
(* The steps of requests.                                                  *)
(***************************************************************************)

\* A connection reaches the gate and passes it, or is refused there.
LEMMA EnterStep ==
  ASSUME IInv, NEW c \in Conns, Connect(c) \/ Enter(c)
  PROVE  IInv'
PROOF
  <1>1. conns \in [Conns -> Conn] /\ ~Open(c)
    BY DEF IInv, Connect, Enter, Open
  <1>2. UNCHANGED <<file, journals, _protocol_sessions, edits, failures>>
    BY DEF Connect, Enter
  <1>3. CASE UNCHANGED backend_controller /\ \E p \in {"waiting", "closed"} : Phase(c, p)
    <2>1. /\ conns' \in [Conns -> Conn] /\ ~Open(c)'
          /\ \A d \in Conns \ {c} : conns'[d] = conns[d]
      BY <1>1, <1>3 DEF Phase, Conn, Open
    <2>2. OpenConns' = OpenConns
      BY <1>1, <2>1 DEF OpenConns, Open
    <2> QED BY <1>2, <1>3, <2>1, <2>2
            DEF IInv, JournalsTyped, Attachments, Fits, Live, LiveSessionsFit,
                Unfinished, Open
  <1>4. CASE /\ Admits(backend_controller) /\ Phase(c, "open")
             /\ backend_controller' = Admitted(backend_controller)
    <2>1. /\ conns' \in [Conns -> Conn] /\ Open(c)' /\ conns'[c].phase = "open"
          /\ \A d \in Conns \ {c} : conns'[d] = conns[d]
      BY <1>1, <1>4 DEF Phase, Conn, Open
    <2>2. OpenConns' = OpenConns \union {c} /\ c \notin OpenConns
      BY <1>1, <2>1 DEF OpenConns, Open
    <2>3. IsFiniteSet(OpenConns)
      BY ServerAssumption, FS_Subset DEF OpenConns
    <2>4. Cardinality(OpenConns') = Cardinality(OpenConns) + 1
      BY <2>2, <2>3, FS_AddElement
    <2>5. /\ Sound(backend_controller')
          /\ backend_controller'.requests = backend_controller.requests + 1
          /\ backend_controller'.current = backend_controller.current
          /\ ~backend_controller'.activating
          /\ ~backend_controller'.failed_activation
      BY <1>4, AdmittedIsSound DEF IInv
    <2> QED BY <1>2, <2>1, <2>4, <2>5
            DEF IInv, JournalsTyped, Attachments, Fits, Live, LiveSessionsFit,
                Unfinished
  <1> QED BY <1>3, <1>4 DEF Connect, Enter

\* A connection leaves; journals and table may change meanwhile, so long as
\* there are no more live dictations than before.
LEMMA LeaveStep ==
  ASSUME IInv, NEW c \in Conns, Open(c), Leaves(c),
         JournalsTyped', Live' \subseteq Live,
         DOMAIN journals \subseteq DOMAIN journals',
         \A i \in DOMAIN journals : journals'[i].backend = journals[i].backend,
         UNCHANGED <<file, edits, failures>>
  PROVE  IInv'
PROOF
  <1>1. /\ Sound(backend_controller')
        /\ backend_controller'.requests = Cardinality(OpenConns')
        /\ backend_controller'.current = backend_controller.current
        /\ ~backend_controller'.activating /\ ~backend_controller'.failed_activation
        /\ conns' \in [Conns -> Conn]
        /\ \A d \in Conns : conns'[d].phase = "attached" => conns'[d] = conns[d]
    BY Leaving
  <1>2. Attachments'
    BY <1>1 DEF IInv, Attachments
  <1>3. LiveSessionsFit'
    BY <1>1, FewerFit
  <1> QED BY <1>1, <1>2, <1>3 DEF IInv, Fits

\* A connection attaches to a journal of the current backend.
LEMMA AttachStep ==
  ASSUME IInv, NEW c \in Conns, Open(c), NEW j \in Journals, Attaches(c, j),
         JournalsTyped', LiveSessionsFit',
         DOMAIN journals \subseteq DOMAIN journals',
         \A i \in DOMAIN journals : journals'[i].backend = journals[i].backend,
         j \in DOMAIN journals',
         journals'[j].backend = backend_controller.current.backend,
         UNCHANGED <<file, edits, failures>>
  PROVE  IInv'
PROOF
  <1>1. /\ backend_controller' = backend_controller
        /\ OpenConns' = OpenConns
        /\ conns' \in [Conns -> Conn]
        /\ conns'[c].journal = j
        /\ \A d \in Conns \ {c} : conns'[d] = conns[d]
    BY Attaching
  <1>2. Attachments'
    BY <1>1 DEF IInv, Attachments
  <1>3. ~backend_controller.activating /\ ~backend_controller.failed_activation
    BY OpenIsServed
  <1> QED BY <1>1, <1>2, <1>3 DEF IInv, Fits

\* The table is pruned.
LEMMA PrunedFits ==
  ASSUME IInv, UNCHANGED journals, _protocol_sessions' \subseteq _protocol_sessions
  PROVE  JournalsTyped' /\ Live' \subseteq Live
BY DEF IInv, JournalsTyped, Live, Unfinished

LEMMA CloseStep ==
  ASSUME IInv, NEW c \in Conns, Close(c)
  PROVE  IInv'
BY LeaveStep, PrunedFits DEF Close

LEMMA BeginRaisesStep ==
  ASSUME IInv, NEW c \in Conns, NEW sid \in Sids, NEW resume \in BOOLEAN,
         BeginRaises(c, sid, resume)
  PROVE  IInv'
PROOF
  <1>1. _protocol_sessions' \subseteq _protocol_sessions /\ UNCHANGED journals
    BY DEF BeginRaises, Pruned
  <1> QED BY <1>1, LeaveStep, PrunedFits DEF BeginRaises

LEMMA ResumeStep ==
  ASSUME IInv, NEW c \in Conns, NEW sid \in Sids, Resume(c, sid)
  PROVE  IInv'
PROOF
  <1>1. /\ Open(c) /\ _protocol_sessions' \subseteq _protocol_sessions
        /\ UNCHANGED <<journals, file, edits, failures>>
    BY DEF Resume, Pruned
  <1>2. JournalsTyped' /\ Live' \subseteq Live
    BY <1>1, PrunedFits
  <1>3. PICK j \in InTable(Pruned, sid) : (SameBackend(j) /\ Attaches(c, j)) \/ Leaves(c)
    BY DEF Resume
  <1>4. CASE Leaves(c)
    BY <1>1, <1>2, <1>4, LeaveStep
  <1>5. CASE SameBackend(j) /\ Attaches(c, j)
    <2>1. j \in DOMAIN journals /\ j \in Journals
      BY ServerAssumption DEF InTable, Pruned, IInv, JournalsTyped, Journals
    <2>2. backend_controller' = backend_controller
      BY <1>5 DEF Attaches
    <2>3. LiveSessionsFit'
      BY <1>2, <2>2, FewerFit
    <2> QED BY <1>1, <1>2, <1>5, <2>1, <2>3, AttachStep DEF SameBackend
  <1> QED BY <1>3, <1>4, <1>5

\* One more element is one more at most.
LEMMA OneMore ==
  ASSUME NEW S, IsFiniteSet(S), NEW x
  PROVE  /\ IsFiniteSet(S \union {x})
         /\ Cardinality(S \union {x}) <= Cardinality(S) + 1
PROOF
  <1>1. Cardinality(S) \in Nat
    BY FS_CardinalityType
  <1> QED BY <1>1, FS_AddElement

\* Having made room, the table holds no more than max_sessions with the new one.
LEMMA RoomIsMade ==
  ASSUME IInv, NEW gone \in SUBSET Evictable, MakesRoom(gone), NEW sid, NEW j,
         NEW T, T = (Pruned \ (gone \union InTable(Pruned, sid))) \union {j}
  PROVE  /\ IsFiniteSet(T)
         /\ Cardinality(T) <= backend_controller.current.max_sessions
PROOF
  <1> DEFINE max == backend_controller.current.max_sessions
             R == Pruned \ gone
             Q == Pruned \ (gone \union InTable(Pruned, sid))
  <1>1. max \in Nat \ {0}
    BY ConfigsAreTyped DEF IInv, Sound, Controller
  <1>2. IsFiniteSet(Pruned)
    <2>1. DOMAIN journals = 1 .. Len(journals) /\ Len(journals) \in Nat
      BY DEF IInv, JournalsTyped
    <2>2. IsFiniteSet(DOMAIN journals)
      BY <2>1, FS_Interval
    <2> QED BY <2>2, FS_Subset DEF Pruned, IInv, JournalsTyped
  <1>3. gone \subseteq Pruned /\ Pruned \intersect gone = gone
    BY DEF Evictable
  <1>4. IsFiniteSet(R) /\ Cardinality(R) = Cardinality(Pruned) - Cardinality(gone)
    BY <1>2, <1>3, FS_Difference
  <1>5. Cardinality(Pruned) \in Nat /\ Cardinality(R) \in Nat
    BY <1>2, <1>4, FS_CardinalityType
  <1>6. Cardinality(R) <= max - 1
    BY <1>1, <1>4, <1>5 DEF MakesRoom, Surplus
  <1>7. IsFiniteSet(Q) /\ Cardinality(Q) <= Cardinality(R) /\ Cardinality(Q) \in Nat
    <2>1. Q \subseteq R
      OBVIOUS
    <2> QED BY <1>4, <2>1, FS_Subset, FS_CardinalityType
  <1>8. IsFiniteSet(T) /\ Cardinality(T) <= Cardinality(Q) + 1
    <2>1. T = Q \union {j}
      OBVIOUS
    <2> QED BY <1>7, <2>1, OneMore
  <1>9. Cardinality(T) \in Nat
    BY <1>8, FS_CardinalityType
  <1> QED BY <1>1, <1>5, <1>6, <1>7, <1>8, <1>9

LEMMA BeginStep ==
  ASSUME IInv, NEW c \in Conns, NEW sid \in Sids, NEW resume \in BOOLEAN,
         Begin(c, sid, resume)
  PROVE  IInv'
PROOF
  <1> DEFINE j == Len(journals) + 1
  <1>1. PICK gone \in SUBSET Evictable :
          /\ MakesRoom(gone)
          /\ _protocol_sessions' =
               (Pruned \ (gone \union InTable(Pruned, sid))) \union {j}
    BY DEF Begin
  <1>2. /\ Open(c) /\ journals' = Append(journals, NewJournal(sid))
        /\ Len(journals) < MaxJournals /\ UNCHANGED <<file, edits, failures>>
        /\ Attaches(c, j) \/ Leaves(c)
    BY DEF Begin
  <1>3. /\ Len(journals) \in Nat /\ MaxJournals \in Nat /\ j \in Journals
        /\ DOMAIN journals = 1 .. Len(journals)
    BY <1>2, ServerAssumption DEF IInv, JournalsTyped, Journals
  <1>4. NewJournal(sid) \in Journal /\ NewJournal(sid).final = FALSE
        /\ NewJournal(sid).backend = backend_controller.current.backend
    <2>1. backend_controller.current.backend \in Backends
      BY ConfigsAreTyped DEF IInv, Sound, Controller
    <2> QED BY <1>3, <2>1 DEF NewJournal, Journal
  <1>5. /\ journals' \in Seq(Journal) /\ Len(journals') = j
        /\ \A i \in DOMAIN journals : journals'[i] = journals[i]
        /\ journals'[j] = NewJournal(sid)
        /\ DOMAIN journals' = 1 .. j
    BY <1>2, <1>3, <1>4 DEF IInv, JournalsTyped
  <1>6. JournalsTyped' /\ DOMAIN journals \subseteq DOMAIN journals'
    <2>1. Pruned \subseteq DOMAIN journals
      BY DEF Pruned, IInv, JournalsTyped
    <2> QED BY <1>1, <1>2, <1>3, <1>5, <2>1 DEF JournalsTyped
  <1>7. backend_controller'.current = backend_controller.current
    BY <1>2, Leaving DEF Attaches
  <1>8. LiveSessionsFit'
    <2>1. /\ IsFiniteSet(_protocol_sessions')
          /\ Cardinality(_protocol_sessions') <= backend_controller.current.max_sessions
      BY <1>1, RoomIsMade
    <2>2. /\ Cardinality(Live') <= Cardinality(_protocol_sessions')
          /\ Cardinality(Live') \in Nat /\ Cardinality(_protocol_sessions') \in Nat
      <3>1. Live' \subseteq _protocol_sessions'
        BY DEF Live
      <3> QED BY <2>1, <3>1, FS_Subset, FS_CardinalityType
    <2>3. backend_controller.current.max_sessions \in Nat
      BY ConfigsAreTyped DEF IInv, Sound, Controller
    <2> QED BY <1>7, <2>1, <2>2, <2>3 DEF LiveSessionsFit, Live
  <1>9. CASE Attaches(c, j)
    BY <1>2, <1>3, <1>4, <1>5, <1>6, <1>8, <1>9, AttachStep
  <1>10. CASE Leaves(c)
    <2>1. /\ Sound(backend_controller')
          /\ backend_controller'.requests = Cardinality(OpenConns')
          /\ backend_controller'.current = backend_controller.current
          /\ ~backend_controller'.activating /\ ~backend_controller'.failed_activation
          /\ conns' \in [Conns -> Conn]
          /\ \A d \in Conns : conns'[d].phase = "attached" => conns'[d] = conns[d]
      BY <1>2, <1>10, Leaving
    <2>2. Attachments'
      BY <1>5, <1>6, <2>1 DEF IInv, Attachments
    <2> QED BY <1>2, <1>6, <1>8, <2>1, <2>2 DEF IInv, Fits
  <1> QED BY <1>2, <1>9, <1>10

\* Audio and a final touch one journal, which stays live or ceases to be.
LEMMA JournalStep ==
  ASSUME IInv, NEW c \in Conns, Audio(c) \/ Finalize(c)
  PROVE  IInv'
PROOF
  <1> DEFINE j == conns[c].journal
  <1>1. conns[c].phase = "attached" /\ Open(c)
    BY DEF Audio, Finalize, Open
  <1>2. j \in DOMAIN journals
    BY <1>1 DEF IInv, Attachments
  <1>3. /\ Updated(j) \in Seq(Journal) /\ Len(Updated(j)) = Len(journals)
        /\ DOMAIN Updated(j) = DOMAIN journals
        /\ \A i \in DOMAIN journals :
             /\ Updated(j)[i].backend = journals[i].backend
             /\ Updated(j)[i].final = journals[i].final
    BY <1>2, UpdatedIsTyped
  <1>4. PICK u \in Seq(Journal) : u = Updated(j)
    BY <1>3
  <1>5. journals' = [u EXCEPT ![j].audio = TRUE] \/ journals' = [u EXCEPT ![j].final = TRUE]
    BY <1>4 DEF Audio, Finalize
  <1>6. /\ journals' \in Seq(Journal) /\ Len(journals') = Len(journals)
        /\ DOMAIN journals' = DOMAIN journals
        /\ \A i \in DOMAIN journals :
             /\ journals'[i].backend = journals[i].backend
             /\ journals[i].final => journals'[i].final
    <2>1. /\ Len(u) = Len(journals) /\ DOMAIN u = DOMAIN journals /\ j \in DOMAIN u
          /\ \A i \in DOMAIN journals :
               /\ u[i].backend = journals[i].backend /\ u[i].final = journals[i].final
      BY <1>2, <1>3, <1>4
    <2>2. \A i \in DOMAIN u : u[i] \in Journal
      BY <1>4
    <2>3. ASSUME NEW v \in Journal, journals' = [u EXCEPT ![j] = v],
                 v.backend = u[j].backend, u[j].final => v.final
          PROVE  /\ journals' \in Seq(Journal) /\ Len(journals') = Len(journals)
                 /\ DOMAIN journals' = DOMAIN journals
                 /\ \A i \in DOMAIN journals :
                      /\ journals'[i].backend = journals[i].backend
                      /\ journals[i].final => journals'[i].final
      BY <2>1, <2>2, <2>3
    <2>4. CASE journals' = [u EXCEPT ![j].audio = TRUE]
      <3>1. PICK v : v = [u[j] EXCEPT !.audio = TRUE]
        OBVIOUS
      <3>2. v \in Journal /\ v.backend = u[j].backend /\ v.final = u[j].final
        BY <2>1, <2>2, <3>1 DEF Journal
      <3>3. journals' = [u EXCEPT ![j] = v]
        BY <2>4, <3>1
      <3> QED BY <2>3, <3>2, <3>3
    <2>5. CASE journals' = [u EXCEPT ![j].final = TRUE]
      <3>1. PICK v : v = [u[j] EXCEPT !.final = TRUE]
        OBVIOUS
      <3>2. v \in Journal /\ v.backend = u[j].backend /\ v.final = TRUE
        BY <2>1, <2>2, <3>1 DEF Journal
      <3>3. journals' = [u EXCEPT ![j] = v]
        BY <2>5, <3>1
      <3> QED BY <2>3, <3>2, <3>3
    <2> QED BY <1>5, <2>4, <2>5
  <1>7. UNCHANGED <<file, _protocol_sessions, edits, failures>>
    BY DEF Audio, Finalize
  <1>8. JournalsTyped'
    BY <1>6, <1>7 DEF IInv, JournalsTyped
  <1>9. Live' \subseteq Live
    BY <1>6, <1>7 DEF Live, Unfinished, IInv, JournalsTyped
  <1>10. CASE Finalize(c)
    BY <1>1, <1>6, <1>7, <1>8, <1>9, <1>10, LeaveStep DEF Finalize
  <1>11. CASE Audio(c)
    <2>1. UNCHANGED <<backend_controller, conns>>
      BY <1>11 DEF Audio
    <2>2. LiveSessionsFit'
      BY <1>8, <1>9, <2>1, FewerFit
    <2>3. Attachments' /\ OpenConns' = OpenConns
      BY <1>6, <2>1 DEF IInv, Attachments, OpenConns, Open
    <2> QED BY <1>7, <1>8, <1>9, <2>1, <2>2, <2>3 DEF IInv, Fits
  <1> QED BY <1>10, <1>11

-----------------------------------------------------------------------------
(***************************************************************************)
(* The configuration loop and the passing of time.                         *)
(***************************************************************************)

\* While the controller keeps its load, so does everything that hangs on it.
LEMMA SameLoadStep ==
  ASSUME IInv, Sound(backend_controller'),
         SameLoad(backend_controller, backend_controller'),
         _protocol_sessions' \subseteq _protocol_sessions,
         UNCHANGED <<file, journals, conns, edits, failures>>
  PROVE  IInv'
PROOF
  <1>1. JournalsTyped' /\ Live' \subseteq Live
    BY PrunedFits
  <1>2. /\ backend_controller'.current = backend_controller.current
        /\ backend_controller'.requests = backend_controller.requests
        /\ backend_controller'.activating = backend_controller.activating
        /\ backend_controller'.failed_activation = backend_controller.failed_activation
    BY DEF SameLoad
  <1>3. LiveSessionsFit'
    BY <1>1, <1>2, FewerFit
  <1>4. Attachments' /\ OpenConns' = OpenConns
    BY <1>2 DEF IInv, Attachments, OpenConns, Open
  <1>5. Fits'
    BY <1>1, <1>2, <1>3 DEF IInv, Fits
  <1> QED BY <1>1, <1>2, <1>4, <1>5 DEF IInv

\* The load begins or ends where nobody is inside and no dictation is live.
LEMMA LoadStep ==
  ASSUME IInv, backend_controller.requests = 0, Live' = {},
         Sound(backend_controller'), backend_controller'.requests = 0,
         _protocol_sessions' \subseteq _protocol_sessions,
         UNCHANGED <<file, journals, conns, edits>>,
         failures' \in 0 .. MaxFailures
  PROVE  IInv'
PROOF
  <1>1. JournalsTyped'
    BY PrunedFits
  <1>2. Attachments' /\ OpenConns' = OpenConns
    BY NobodyInside DEF Attachments, OpenConns, Open
  <1>3. LiveSessionsFit'
    <2>1. Cardinality(Live') = 0
      BY FS_EmptySet
    <2>2. backend_controller'.current.max_sessions \in Nat
      BY ConfigsAreTyped DEF Sound, Controller
    <2> QED BY <2>1, <2>2 DEF LiveSessionsFit, Live
  <1> QED BY <1>1, <1>2, <1>3 DEF IInv, Fits

LEMMA PollStep ==
  ASSUME IInv, Poll
  PROVE  IInv'
PROOF
  <1> DEFINE b == backend_controller
             polled == Polled(b, file)
  <1>1. /\ UNCHANGED <<file, journals, conns, edits, failures>>
        /\ ~b.activating /\ Sound(b) /\ file \in Files
    BY DEF Poll, PollInvalid, PollWaits, PollActivates, PollDue, IInv
  <1>2. Pruned \subseteq _protocol_sessions
    BY DEF Pruned
  <1>3. CASE PollInvalid
    BY <1>1, <1>3, PolledInvalidIsSound, SameLoadStep DEF PollInvalid
  <1>4. ASSUME Parsed[file] # Invalid
        PROVE  /\ polled \in Controller /\ SameLoad(b, polled)
               /\ polled.failed_activation /\ ~polled.pending => polled.error # None
               /\ ~polled.failed_activation \/ ~polled.pending => Sound(polled)
    BY <1>1, <1>4, PolledIsSound
  <1> HIDE DEF polled
  <1>5. CASE PollWaits
    <2>1. /\ Parsed[file] # Invalid /\ backend_controller' = polled
          /\ ~polled.pending \/ ~Drained
          /\ _protocol_sessions' \subseteq _protocol_sessions
      BY <1>2, <1>5 DEF PollWaits, polled
    <2>2. b.failed_activation => Drained
      BY <1>2 DEF IInv, Sound, Fits, Live, Drained, Busy
    <2>3. Sound(polled) /\ SameLoad(b, polled)
      BY <1>4, <2>1, <2>2 DEF SameLoad
    <2> QED BY <1>1, <2>1, <2>3, SameLoadStep
  <1>6. CASE PollActivates
    <2>1. /\ Parsed[file] # Invalid /\ backend_controller' = Activating(polled)
          /\ b.requests = 0 /\ ~Busy /\ _protocol_sessions' = Pruned
      BY <1>6 DEF PollActivates, Drained, polled
    <2>2. polled \in Controller /\ SameLoad(b, polled)
      BY <1>4, <2>1
    <2>3. polled.requests = 0 /\ (polled.failed_activation => polled.retry # None)
      BY <1>1, <2>1, <2>2 DEF SameLoad, Sound
    <2>4. Sound(backend_controller') /\ backend_controller'.requests = 0
      BY <2>1, <2>2, <2>3, ActivatingIsSound
    <2>5. Live' = {}
      BY <1>1, <2>1 DEF Live, Busy, Unfinished
    <2> QED BY <1>1, <1>2, <2>1, <2>4, <2>5, LoadStep DEF IInv
  <1> QED BY <1>3, <1>5, <1>6 DEF Poll

LEMMA ActivationStep ==
  ASSUME IInv, ActivationEnds
  PROVE  IInv'
PROOF
  <1>1. /\ Sound(backend_controller) /\ backend_controller.activating
        /\ UNCHANGED <<file, journals, _protocol_sessions, conns, edits>>
        /\ failures' \in 0 .. MaxFailures
    BY ServerAssumption DEF IInv, ActivationEnds
  <1>2. backend_controller.requests = 0
    BY <1>1 DEF Sound
  <1>3. /\ Sound(backend_controller') /\ backend_controller'.requests = 0
    BY <1>1, ActivatedIsSound, NotActivatedIsSound DEF ActivationEnds
  <1>4. Live' = {}
    BY <1>1 DEF IInv, Fits, Live, Unfinished
  <1> QED BY <1>1, <1>2, <1>3, <1>4, LoadStep

LEMMA TimeStep ==
  ASSUME IInv, RetryNears \/ JournalAges
  PROVE  IInv'
PROOF
  <1>1. CASE RetryNears
    <2>1. /\ Sound(backend_controller')
          /\ backend_controller'.requests = backend_controller.requests
          /\ backend_controller'.current = backend_controller.current
          /\ backend_controller'.activating = backend_controller.activating
          /\ backend_controller'.failed_activation = backend_controller.failed_activation
      BY <1>1, LaterIsSound DEF IInv, RetryNears
    <2>2. UNCHANGED <<file, journals, _protocol_sessions, conns, edits, failures>>
      BY <1>1 DEF RetryNears
    <2> QED BY <2>1, <2>2
            DEF IInv, JournalsTyped, Attachments, Fits, Live, LiveSessionsFit,
                Unfinished, OpenConns, Open
  <1>2. CASE JournalAges
    <2>1. PICK j \in Pruned : journals' = [journals EXCEPT ![j].stale = TRUE]
      BY <1>2 DEF JournalAges
    <2>2. UNCHANGED <<backend_controller, file, _protocol_sessions, conns, edits, failures>>
      BY <1>2 DEF JournalAges
    <2>3. journals \in Seq(Journal) /\ j \in DOMAIN journals
      BY DEF IInv, JournalsTyped, Pruned
    <2>4. PICK v : v = [journals[j] EXCEPT !.stale = TRUE]
      OBVIOUS
    <2>5. journals[j] \in Journal
      BY <2>3
    <2>6. v \in Journal /\ v.backend = journals[j].backend /\ v.final = journals[j].final
      BY <2>4, <2>5 DEF Journal
    <2>7. journals' = [journals EXCEPT ![j] = v]
      BY <2>1, <2>4
    <2>8. /\ journals' \in Seq(Journal) /\ Len(journals') = Len(journals)
          /\ DOMAIN journals' = DOMAIN journals
          /\ \A i \in DOMAIN journals :
               /\ journals'[i].backend = journals[i].backend
               /\ journals'[i].final = journals[i].final
      BY <2>3, <2>6, <2>7
    <2>9. JournalsTyped' /\ Live' = Live
      BY <2>2, <2>8 DEF IInv, JournalsTyped, Live, Unfinished
    <2>10. Attachments' /\ OpenConns' = OpenConns
      BY <2>2, <2>8 DEF IInv, Attachments, OpenConns, Open
    <2>11. LiveSessionsFit'
      BY <2>2, <2>9, FewerFit
    <2> QED BY <2>2, <2>9, <2>10, <2>11 DEF IInv, Fits
  <1> QED BY <1>1, <1>2

LEMMA EditStep ==
  ASSUME IInv, Edit
  PROVE  IInv'
PROOF
  <1>1. /\ file' \in Files /\ edits' \in 0 .. MaxEdits
        /\ UNCHANGED <<backend_controller, journals, _protocol_sessions, conns, failures>>
    BY ServerAssumption DEF IInv, Edit
  <1> QED BY <1>1
          DEF IInv, JournalsTyped, Attachments, Fits, Live, LiveSessionsFit,
              Unfinished, OpenConns, Open

LEMMA InitHolds == Init => IInv
PROOF
  <1> SUFFICES ASSUME Init PROVE IInv
    OBVIOUS
  <1>1. file \in Files /\ Parsed[file] # Invalid
    BY DEF Init
  <1>2. Sound(backend_controller) /\ backend_controller.requests = 0
    BY <1>1, PreloadedIsSound DEF Init
  <1>3. /\ conns \in [Conns -> Conn] /\ \A c \in Conns : conns[c].phase = "new"
        /\ journals = <<>> /\ _protocol_sessions = {}
        /\ edits \in 0 .. MaxEdits /\ failures \in 0 .. MaxFailures
    BY ServerAssumption DEF Init, Conn
  <1>4. OpenConns = {} /\ Live = {} /\ Attachments
    BY <1>3 DEF OpenConns, Open, Live, Attachments
  <1>5. Cardinality(OpenConns) = 0 /\ Cardinality(Live) = 0
    BY <1>4, FS_EmptySet
  <1>6. JournalsTyped
    BY <1>3, ServerAssumption DEF JournalsTyped
  <1>7. backend_controller.current.max_sessions \in Nat
    BY <1>2, ConfigsAreTyped DEF Sound, Controller
  <1>8. Fits
    BY <1>4, <1>5, <1>7 DEF Fits, LiveSessionsFit, Live
  <1> QED BY <1>1, <1>2, <1>3, <1>4, <1>5, <1>6, <1>8 DEF IInv

LEMMA Inductive == IInv /\ [Next]_vars => IInv'
PROOF
  <1>1. ASSUME IInv, UNCHANGED vars PROVE IInv'
    BY <1>1 DEF IInv, JournalsTyped, Attachments, Fits, Live, LiveSessionsFit,
                Unfinished, OpenConns, Open, vars
  <1>2. ASSUME IInv, NEW c \in Conns, Request(c) PROVE IInv'
    BY <1>2, EnterStep, CloseStep, BeginStep, BeginRaisesStep, ResumeStep,
       JournalStep DEF Request
  <1> QED BY <1>1, <1>2, PollStep, ActivationStep, TimeStep, EditStep DEF Next

-----------------------------------------------------------------------------
(***************************************************************************)
(* What leaves the table.                                                  *)
(***************************************************************************)

\* What a step may do to a live dictation with audio.
Keeps(j) ==
  \/ j \in _protocol_sessions'
  \/ \E i \in _protocol_sessions' :
       i \notin DOMAIN journals /\ journals'[i].session_id = journals[j].session_id

\* One that holds audio and has no final is not evictable.
LEMMA LiveIsNotEvictable ==
  ASSUME NEW j, journals[j].audio, Unfinished(j)
  PROVE  j \notin Evictable
BY DEF Evictable, Removable, Unfinished

\* Only a start with the same id takes its place.
LEMMA BeginKeeps ==
  ASSUME IInv, NEW c \in Conns, NEW sid \in Sids, NEW resume \in BOOLEAN,
         Begin(c, sid, resume), NEW j \in Pruned, journals[j].audio, Unfinished(j)
  PROVE  Keeps(j)
<1>1. PICK gone \in SUBSET Evictable :
        _protocol_sessions' =
          (Pruned \ (gone \union InTable(Pruned, sid))) \union {Len(journals) + 1}
  BY DEF Begin
<1>2. CASE j \notin InTable(Pruned, sid)
  BY <1>1, <1>2, LiveIsNotEvictable DEF Keeps
<1>3. CASE j \in InTable(Pruned, sid)
  <2> DEFINE i == Len(journals) + 1
  <2>1. journals[j].session_id = sid
    BY <1>3 DEF InTable
  <2>2. journals \in Seq(Journal) /\ journals' = Append(journals, NewJournal(sid))
    BY DEF IInv, JournalsTyped, Begin
  <2>3. i \notin DOMAIN journals /\ journals'[i] = NewJournal(sid)
    BY <2>2
  <2>4. NewJournal(sid).session_id = sid
    BY DEF NewJournal
  <2>5. i \in _protocol_sessions'
    BY <1>1
  <2> HIDE DEF i
  <2> QED
    BY <2>1, <2>3, <2>4, <2>5 DEF Keeps
<1> QED
  BY <1>2, <1>3

\* Any other step takes out only what has timed out or is evictable.
LEMMA StepKeeps ==
  ASSUME IInv, [Next]_vars, NEW j \in Pruned, journals[j].audio, Unfinished(j)
  PROVE  Keeps(j)
<1>1. j \in _protocol_sessions
  BY DEF Pruned
<1>2. CASE UNCHANGED _protocol_sessions
  BY <1>1, <1>2 DEF Keeps
<1>3. CASE _protocol_sessions' = Pruned
  BY <1>3 DEF Keeps
<1>4. CASE _protocol_sessions' = Pruned \ Evictable
  BY <1>4, LiveIsNotEvictable DEF Keeps
<1>5. ASSUME NEW c \in Conns, Request(c)  PROVE Keeps(j)
  <2>1. CASE Connect(c) \/ Enter(c) \/ Close(c) \/ Audio(c) \/ Finalize(c)
    BY <1>2, <2>1 DEF Connect, Enter, Close, Audio, Finalize
  <2>2. ASSUME NEW sid \in Sids, Resume(c, sid)  PROVE Keeps(j)
    BY <1>3, <2>2 DEF Resume
  <2>3. ASSUME NEW sid \in Sids, NEW resume \in BOOLEAN, BeginRaises(c, sid, resume)
        PROVE  Keeps(j)
    BY <1>4, <2>3 DEF BeginRaises
  <2> QED
    BY <1>5, <2>1, <2>2, <2>3, BeginKeeps DEF Request
<1>6. CASE Poll
  BY <1>2, <1>3, <1>6 DEF Poll, PollInvalid, PollWaits, PollActivates
<1>7. CASE ActivationEnds \/ Edit \/ RetryNears \/ JournalAges \/ UNCHANGED vars
  BY <1>2, <1>7 DEF ActivationEnds, Edit, RetryNears, JournalAges, vars
<1> QED
  BY <1>5, <1>6, <1>7 DEF Next

-----------------------------------------------------------------------------
(***************************************************************************)
(* The theorems.                                                           *)
(***************************************************************************)

\* The strengthening IInv holds in every state: the controller's books, the
\* connections inside, their journals and the table stay in step.
THEOREM Invariance == Spec => []IInv
PROOF
  <1> QED BY InitHolds, Inductive, PTL DEF Spec

\* Every variable keeps its type: the retry delay its cap, the requests their
\* count, an attached connection its journal.
THEOREM TypeCorrect == Spec => []TypeOK
PROOF
  <1>1. IInv => TypeOK
    BY DEF IInv, Sound, JournalsTyped, Attachments, TypeOK
  <1> QED BY <1>1, Invariance, PTL

\* No request is served by a backend it did not enter under.
THEOREM SessionsKeepBackend == Spec => []SessionsKeepTheirBackend
PROOF
  <1>1. IInv => SessionsKeepTheirBackend
    BY OpenIsServed DEF IInv, Attachments, SessionsKeepTheirBackend
  <1> QED BY <1>1, Invariance, PTL

\* Health reports what is loaded, and a failed load is going to be retried.
THEOREM HealthHonest == Spec => []HealthIsHonest
PROOF
  <1>1. IInv => HealthIsHonest
    BY DEF IInv, Sound, HealthIsHonest
  <1> QED BY <1>1, Invariance, PTL

\* The live dictations fit the limit in force.
THEOREM SessionsFit == Spec => []LiveSessionsFit
PROOF
  <1>1. IInv => LiveSessionsFit
    BY DEF IInv, Fits
  <1> QED BY <1>1, Invariance, PTL

\* No live dictation that holds audio is taken out of the table before its time,
\* but by a start with its own id.
THEOREM AudioIsKept == Spec => LiveAudioIsKept
PROOF
  <1>1. IInv /\ [Next]_vars =>
          [\A j \in Pruned : journals[j].audio /\ Unfinished(j) =>
             \/ j \in _protocol_sessions'
             \/ \E i \in _protocol_sessions' :
                  i \notin DOMAIN journals /\
                  journals'[i].session_id = journals[j].session_id]_vars
    BY StepKeeps DEF Keeps
  <1> QED BY <1>1, Invariance, PTL DEF Spec, LiveAudioIsKept

=============================================================================
