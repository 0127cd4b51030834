------------------------------ MODULE CudaServer ------------------------------
(***************************************************************************)
(* The CUDA server around its dictations (cuda/server.py): requests that   *)
(* enter through the backend controller's gate, the table of resumable     *)
(* journals with its capacity and its TTL, and the configuration loop that *)
(* switches the backend once both have drained.                            *)
(*                                                                         *)
(* A connection is a web socket, or a batch upload that never starts a     *)
(* dictation.  What a dictation does with its audio is AsrSession's and    *)
(* NativeDictation's subject; a journal here only knows whether it holds   *)
(* audio and whether it has a final text.                                  *)
(***************************************************************************)
EXTENDS BackendController, Sequences

CONSTANTS
  Conns,        \* bound: connections, each used once
  Sids,         \* session ids
  MaxJournals,  \* bound: journals ever made
  MaxEdits,     \* bound: edits of the configuration file
  MaxFailures   \* bound: activations that fail

ASSUME ServerAssumption ==
  /\ IsFiniteSet(Conns) /\ None \notin Sids
  /\ {MaxJournals, MaxEdits, MaxFailures} \subseteq Nat

VARIABLES
  backend_controller,
  file,                 \* what the configuration file contains now
  journals,             \* every AsrProtocolSession ever made, in the table or not
  _protocol_sessions,   \* the table: the journals it holds
  conns,
  edits, failures       \* edits and failures still to come

vars == <<backend_controller, file, journals, _protocol_sessions, conns,
          edits, failures>>

Journals == 1 .. MaxJournals

\* updated ranks the journals by the time of their last update; stale: that was
\* the TTL ago.
Journal ==
  [session_id: Sids, backend: Backends, audio: BOOLEAN, final: BOOLEAN,
   updated: Journals, stale: BOOLEAN]

Conn ==
  [phase: {"new", "waiting", "open", "attached", "closed"},
   journal: Journals \union {None}]

Open(c) == conns[c].phase \in {"open", "attached"}

TypeOK ==
  /\ backend_controller \in Controller
  /\ file \in Files
  /\ journals \in Seq(Journal) /\ Len(journals) <= MaxJournals
  /\ _protocol_sessions \subseteq DOMAIN journals
  /\ conns \in [Conns -> Conn]
  /\ \A c \in Conns : conns[c].phase = "attached" => conns[c].journal \in DOMAIN journals
  /\ edits \in 0 .. MaxEdits /\ failures \in 0 .. MaxFailures

-----------------------------------------------------------------------------
(***************************************************************************)
(* The table.                                                              *)
(***************************************************************************)

\* _prune_protocol_sessions
Pruned == {j \in _protocol_sessions : ~journals[j].stale}

Unfinished(j) == ~journals[j].final

\* Mutant: unfinished journals count as removable.
AnyRemovable(j) == TRUE

\* Empty handshakes and completed results own no unfinalized audio.
Removable(j) == ~journals[j].audio \/ journals[j].final

Evictable == {j \in Pruned : Removable(j)}

\* How many journals must go before one more fits.
Surplus ==
  LET n == Cardinality(Pruned) - backend_controller.current.max_sessions + 1
  IN IF n > 0 THEN n ELSE 0

\* gone are the least recently updated of those that may go.
Oldest(gone) ==
  \A i \in gone, j \in Evictable \ gone : journals[i].updated < journals[j].updated

\* _ensure_session_capacity returns, having evicted gone.
MakesRoom(gone) ==
  gone \subseteq Evictable /\ Oldest(gone) /\ Cardinality(gone) = Surplus

HasRoom == Surplus <= Cardinality(Evictable)

\* Journal j becomes the one updated last.
Updated(j) ==
  LET rank(i) == IF i = j THEN Len(journals)
                 ELSE IF journals[i].updated > journals[j].updated
                 THEN journals[i].updated - 1 ELSE journals[i].updated
  IN [i \in DOMAIN journals |->
        [journals[i] EXCEPT !.updated = rank(i), !.stale = @ /\ i # j]]

InTable(table, sid) == {j \in table : journals[j].session_id = sid}

NewJournal(sid) ==
  [session_id |-> sid, backend |-> backend_controller.current.backend,
   audio |-> FALSE, final |-> FALSE, updated |-> Len(journals) + 1, stale |-> FALSE]

-----------------------------------------------------------------------------
Init ==
  /\ file \in {f \in Files : Parsed[f] # Invalid}
  /\ \/ backend_controller = Preloaded(file)
     \/ backend_controller = Failed([Preloaded(file) EXCEPT !.active = None])
  /\ journals = <<>> /\ _protocol_sessions = {}
  /\ conns = [c \in Conns |-> [phase |-> "new", journal |-> None]]
  /\ edits = MaxEdits /\ failures = MaxFailures

-----------------------------------------------------------------------------
(***************************************************************************)
(* Requests.                                                               *)
(***************************************************************************)
Phase(c, phase) == conns' = [conns EXCEPT ![c].phase = phase]

Connect(c) ==
  /\ conns[c].phase = "new"
  /\ Phase(c, "waiting")
  /\ UNCHANGED <<backend_controller, file, journals, _protocol_sessions, edits, failures>>

\* The gate is passed, or the request is refused at it.
Enter(c) ==
  /\ conns[c].phase = "waiting"
  /\ \/ /\ Admits(backend_controller)
        /\ backend_controller' = Admitted(backend_controller)
        /\ Phase(c, "open")
     \/ /\ Refuses(backend_controller)
        /\ Phase(c, "closed")
        /\ UNCHANGED backend_controller
  /\ UNCHANGED <<file, journals, _protocol_sessions, edits, failures>>

\* The end of request(), however the handler ends.
Leaves(c) ==
  /\ conns' = [conns EXCEPT ![c] = [phase |-> "closed", journal |-> None]]
  /\ backend_controller' = Released(backend_controller)

\* A batch answer, a disconnect or an error; the journal stays in the table.
Close(c) ==
  /\ Open(c)
  /\ Leaves(c)
  /\ UNCHANGED <<file, journals, _protocol_sessions, edits, failures>>

Attaches(c, j) ==
  /\ conns' = [conns EXCEPT ![c] = [phase |-> "attached", journal |-> j]]
  /\ UNCHANGED backend_controller

\* A start, or a resume of an id the table does not hold: a new journal, which
\* takes the place of one with the same id.  A context that is refused leaves
\* the journal behind.
Begin(c, sid, resume) ==
  /\ Open(c)
  /\ resume => InTable(Pruned, sid) = {}
  /\ Len(journals) < MaxJournals
  /\ journals' = Append(journals, NewJournal(sid))
  /\ \E gone \in SUBSET Evictable :
       /\ MakesRoom(gone)
       /\ _protocol_sessions' =
            (Pruned \ (gone \union InTable(Pruned, sid))) \union {Len(journals) + 1}
  /\ Attaches(c, Len(journals) + 1) \/ Leaves(c)
  /\ UNCHANGED <<file, edits, failures>>

\* No room: what could be evicted is gone all the same.
BeginRaises(c, sid, resume) ==
  /\ Open(c)
  /\ resume => InTable(Pruned, sid) = {}
  /\ ~HasRoom
  /\ _protocol_sessions' = Pruned \ Evictable
  /\ Leaves(c)
  /\ UNCHANGED <<file, journals, edits, failures>>

\* Mutant: a journal is resumed under any backend.
AnyBackend(j) == TRUE

SameBackend(j) == journals[j].backend = backend_controller.current.backend

\* A resume of a journal the table holds; another context or a journal of
\* another backend is refused.
Resume(c, sid) ==
  /\ Open(c)
  /\ \E j \in InTable(Pruned, sid) : (SameBackend(j) /\ Attaches(c, j)) \/ Leaves(c)
  /\ _protocol_sessions' = Pruned
  /\ UNCHANGED <<file, journals, edits, failures>>

\* accept() and the syncs after it.
Audio(c) ==
  /\ conns[c].phase = "attached"
  /\ LET j == conns[c].journal
     IN journals' = [Updated(j) EXCEPT ![j].audio = TRUE]
  /\ UNCHANGED <<backend_controller, file, _protocol_sessions, conns, edits, failures>>

\* send_covered_final, after which the handler ends.
Finalize(c) ==
  /\ conns[c].phase = "attached"
  /\ LET j == conns[c].journal
     IN journals' = [Updated(j) EXCEPT ![j].final = TRUE]
  /\ Leaves(c)
  /\ UNCHANGED <<file, _protocol_sessions, edits, failures>>

Request(c) ==
  \/ Connect(c) \/ Enter(c) \/ Close(c) \/ Audio(c) \/ Finalize(c)
  \/ \E sid \in Sids :
       \/ Resume(c, sid)
       \/ \E resume \in BOOLEAN : Begin(c, sid, resume) \/ BeginRaises(c, sid, resume)

-----------------------------------------------------------------------------
(***************************************************************************)
(* The configuration loop and the passing of time.                         *)
(***************************************************************************)

\* _has_unfinished_sessions, on the pruned table.
Busy == \E j \in Pruned : Unfinished(j)

\* Requests that wait at the gate pass it, in order, before the loop's next
\* second is over; the loop itself waits where an activation runs.
PollDue ==
  ~backend_controller.activating /\ \A c \in Conns : conns[c].phase # "waiting"

PollInvalid ==
  /\ PollDue
  /\ Parsed[file] = Invalid
  /\ backend_controller' = PolledInvalid(backend_controller)
  /\ UNCHANGED _protocol_sessions

\* Mutant: resumable sessions do not hold a switch up.
DrainedOfRequests == backend_controller.requests = 0

Drained == backend_controller.requests = 0 /\ ~Busy

\* requests is looked at first: the table is pruned only where there are none.
PollWaits ==
  LET polled == Polled(backend_controller, file)
  IN /\ PollDue
     /\ Parsed[file] # Invalid
     /\ ~polled.pending \/ ~Drained
     /\ backend_controller' = polled
     /\ _protocol_sessions' =
          IF polled.pending /\ polled.requests = 0 THEN Pruned ELSE _protocol_sessions

PollActivates ==
  LET polled == Polled(backend_controller, file)
  IN /\ PollDue
     /\ Parsed[file] # Invalid
     /\ polled.pending /\ Drained
     /\ backend_controller' = Activating(polled)
     /\ _protocol_sessions' = Pruned

Poll ==
  /\ PollInvalid \/ PollWaits \/ PollActivates
  /\ UNCHANGED <<file, journals, conns, edits, failures>>

\* _activate_configured_backend has loaded the model, or raised.
ActivationEnds ==
  /\ backend_controller.activating
  /\ \/ /\ backend_controller' = Activated(backend_controller)
        /\ UNCHANGED failures
     \/ /\ failures > 0 /\ failures' = failures - 1
        /\ backend_controller' = NotActivated(backend_controller)
  /\ UNCHANGED <<file, journals, _protocol_sessions, conns, edits>>

Edit ==
  /\ edits > 0 /\ edits' = edits - 1
  /\ file' \in Files \ {file}
  /\ UNCHANGED <<backend_controller, journals, _protocol_sessions, conns, failures>>

RetryNears ==
  /\ backend_controller' = Later(backend_controller)
  /\ UNCHANGED <<file, journals, _protocol_sessions, conns, edits, failures>>

\* The least recently updated of the journals has now been idle for the TTL.
JournalAges ==
  /\ \E j \in Pruned :
       /\ \A i \in Pruned \ {j} : journals[j].updated < journals[i].updated
       /\ journals' = [journals EXCEPT ![j].stale = TRUE]
  /\ UNCHANGED <<backend_controller, file, _protocol_sessions, conns, edits, failures>>

Next ==
  \/ \E c \in Conns : Request(c)
  \/ Poll \/ ActivationEnds \/ Edit \/ RetryNears \/ JournalAges

Spec == Init /\ [][Next]_vars

\* The loop polls, a load ends, time passes and the gate is fair; clients and
\* the operator owe nothing.
Fairness ==
  /\ WF_vars(Poll) /\ WF_vars(ActivationEnds)
  /\ WF_vars(RetryNears) /\ WF_vars(JournalAges)
  /\ \A c \in Conns : WF_vars(Enter(c))

FairSpec == Spec /\ Fairness

-----------------------------------------------------------------------------
(***************************************************************************)
(* Properties.                                                             *)
(***************************************************************************)

\* "switches after active and resumable unfinished sessions drain": a request is
\* served, to its end, by the backend it entered under, a dictation also by the
\* one its journal was made under, and while a load runs nobody is inside.
SessionsKeepTheirBackend ==
  \A c \in Conns : Open(c) =>
    /\ backend_controller.active = backend_controller.current.backend
    /\ conns[c].phase = "attached" =>
         journals[conns[c].journal].backend = backend_controller.active

\* "Invalid edits or load failures appear in /health; they never masquerade as a
\* successful switch": outside a load, no error means that the configured
\* backend is the one loaded, and a failed one always has a retry ahead.
HealthIsHonest ==
  LET b == backend_controller
  IN ~b.activating =>
       /\ b.error = None => b.active = b.current.backend /\ ~b.failed_activation
       /\ b.active = None => b.failed_activation /\ b.retry # None

\* A switch never finds more live dictations than its new max_sessions allows.
LiveSessionsFit ==
  Cardinality({j \in _protocol_sessions : Unfinished(j)})
    <= backend_controller.current.max_sessions

\* "live resumable audio is never silently evicted": a dictation that holds audio
\* and has no final leaves the table only when its time is up, or when its own
\* id starts anew.
LiveAudioIsKept ==
  [][\A j \in Pruned : journals[j].audio /\ Unfinished(j) =>
       \/ j \in _protocol_sessions'
       \/ \E i \in _protocol_sessions' :
            i \notin DOMAIN journals /\
            journals'[i].session_id = journals[j].session_id]_vars

\* A configuration that stays is loaded in the end, through invalid edits, failed
\* loads and the sessions left behind, once the requests have ended.
SwitchHappens ==
  \A f \in Files : Parsed[f] # Invalid =>
    (<>[](file = f /\ \A c \in Conns : ~Open(c))
       => <>[](/\ backend_controller.current = Parsed[f]
               /\ backend_controller.active = Parsed[f].backend
               /\ backend_controller.error = None))

=============================================================================
