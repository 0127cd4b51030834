-------------------------- MODULE BackendController --------------------------
(***************************************************************************)
(* BackendController (cuda/backend_config.py): the hot backend selection   *)
(* of the CUDA server.  A controller is a record; the operators are its    *)
(* methods up to the points where they wait.  The gate is held across a    *)
(* wait by an activation only, which is what the field activating says.    *)
(*                                                                         *)
(* A file is a content of the configuration file and its own fingerprint;  *)
(* Parsed gives the configuration it reads as, or Invalid.  Time is        *)
(* counted in units of RETRY_FIRST seconds or less: retry is the number    *)
(* of units until retry_at, 0 once it is due.                              *)
(***************************************************************************)
EXTENDS Integers, FiniteSets

CONSTANTS
  Files,            \* contents the configuration file can have
  Backends,         \* qwen, r2t2
  Parsed,           \* read_config: the configuration of a file
  Invalid,          \* ... or the exception it raises
  RETRY_FIRST,      \* RETRY_FIRST_SECONDS, in units
  RETRY_MAX,        \* RETRY_MAX_SECONDS, in units
  None

\* backend and max_sessions; all other fields only tell configurations apart.
Configs == {Parsed[f] : f \in Files} \ {Invalid}

ASSUME ControllerAssumption ==
  /\ \A f \in Files : Parsed[f] # Invalid =>
       Parsed[f].backend \in Backends /\ Parsed[f].max_sessions \in Nat \ {0}
  /\ None \notin Backends \union Nat \union {"invalid", "failed"}
  /\ RETRY_FIRST \in Nat /\ RETRY_MAX \in Nat /\ RETRY_FIRST <= RETRY_MAX

Controller ==
  [fingerprint: Files, desired: Configs, current: Configs,
   active: Backends \union {None},
   error: {None, "invalid", "failed"},
   failed_activation: BOOLEAN, pending: BOOLEAN, activating: BOOLEAN,
   retry: 0 .. RETRY_MAX \union {None}, retry_delay: RETRY_FIRST .. RETRY_MAX,
   requests: Nat]

\* __init__ and a preload that works.
Preloaded(file) ==
  [fingerprint |-> file, desired |-> Parsed[file], current |-> Parsed[file],
   active |-> Parsed[file].backend, error |-> None,
   failed_activation |-> FALSE, pending |-> FALSE, activating |-> FALSE,
   retry |-> None, retry_delay |-> RETRY_FIRST, requests |-> 0]

\* Mutant: the delay has no cap.
DoubledUncapped(delay) == delay * 2

Doubled(delay) == IF delay * 2 < RETRY_MAX THEN delay * 2 ELSE RETRY_MAX

\* record_activation_failure: refuse requests, retry with a growing delay.
Failed(b) ==
  [b EXCEPT !.error = "failed", !.failed_activation = TRUE,
            !.retry = b.retry_delay, !.retry_delay = Doubled(@)]

\* request(): the gate is free; a failed or full controller raises.
Admits(b) ==
  ~b.activating /\ ~b.failed_activation /\ b.requests < b.current.max_sessions

Refuses(b) ==
  ~b.activating /\ (b.failed_activation \/ b.requests >= b.current.max_sessions)

Admitted(b) == [b EXCEPT !.requests = @ + 1]

Released(b) == [b EXCEPT !.requests = @ - 1]

\* poll, reading the file: a new content is what is desired now, and clears the
\* error of an old one.
Reread(b, file) ==
  IF file # b.fingerprint
  THEN [b EXCEPT !.fingerprint = file, !.desired = Parsed[file], !.error = None,
                 !.pending = Parsed[file] # b.current \/ b.failed_activation]
  ELSE IF ~b.failed_activation THEN [b EXCEPT !.error = None] ELSE b

\* Mutant: a failed activation is not retried.
PolledOnce(b, file) == Reread(b, file)

\* poll, before the gate: a failed activation whose time has come is pending.
Polled(b, file) ==
  LET r == Reread(b, file)
  IN [r EXCEPT !.pending = @ \/ (r.failed_activation /\ r.retry = 0)]

\* Mutant: an invalid file takes the last error's place silently.
PolledInvalidClears(b) == [b EXCEPT !.error = None]

\* poll with a file that cannot be read: reported, and nothing else.
PolledInvalid(b) == [b EXCEPT !.error = "invalid"]

\* poll inside the gate, up to the activation.
Activating(b) ==
  [b EXCEPT !.current = b.desired, !.active = None, !.activating = TRUE]

\* The activation has worked.
Activated(b) ==
  [b EXCEPT !.active = b.current.backend, !.failed_activation = FALSE,
            !.error = None, !.retry = None, !.retry_delay = RETRY_FIRST,
            !.pending = FALSE, !.activating = FALSE]

\* The activation has raised.
NotActivated(b) == [Failed(b) EXCEPT !.pending = FALSE, !.activating = FALSE]

\* A unit of time passes.
Later(b) == [b EXCEPT !.retry = IF @ \in {None, 0} THEN @ ELSE @ - 1]

=============================================================================
