------------------------------ MODULE SelfHeal ------------------------------
(***************************************************************************)
(* What keeps the MLX server honest and alive (server.py): the idle-evict  *)
(* sweep, the keep-warm loop with its weights check, its streaming probe   *)
(* and its reloads, the live rot detector fed by ended dictations, and     *)
(* what /health says.  They share the model manager, one GPU thread that   *)
(* serves its queue first come first served, and the event loop: a step    *)
(* here is what runs between two awaits, or one job of the GPU thread.     *)
(*                                                                         *)
(* Time passes in ticks.  A time stamp is kept as its age, so a stamp that *)
(* is saved and written back grows old meanwhile.                          *)
(***************************************************************************)
EXTENDS ModelManager, Integers, SequencesExt

CONSTANTS
  KEEPWARM,               \* ASR_KEEPWARM_INTERVAL_SEC in ticks
  WEIGHTS_CHECK,          \* ASR_WEIGHTS_CHECK_INTERVAL_SEC in ticks
  STALE_AFTER,            \* _probe_stale_after() in ticks
  FAIL_RELOAD, FAIL_EXIT, \* blank probes before a reload, before the exit
  RELOAD_WITNESSES,       \* rot-witness dictations before a reload
  PARTIALS_ENABLED, COLOAD,
  IdleEvict,              \* whether idle-evict may be on, off, or either
  MaxFaults,              \* bound: wipes, restores, rots, failed GPU jobs
  Requests,               \* the jobs HTTP requests may queue, see Jobs
  MaxClients              \* bound: dictations and HTTP requests

\* What is queued for the GPU thread; a unit's name stands for a batch, align
\* or diarize request that uses it.
LoopJobs == {"sweep", "unload", "evict", "warm_reload", "probe", "heal_reload",
             "partial", "final"}
Jobs == LoopJobs \cup Units

ASSUME SelfHealAssumption ==
  /\ {KEEPWARM, WEIGHTS_CHECK, STALE_AFTER, FAIL_RELOAD} \subseteq Nat \ {0}
  /\ FAIL_EXIT \in Nat /\ RELOAD_WITNESSES \in Nat \ {0}
  /\ {PARTIALS_ENABLED, COLOAD} \subseteq BOOLEAN /\ IdleEvict \subseteq BOOLEAN
  /\ {MaxFaults, MaxClients} \subseteq Nat
  /\ Requests \subseteq {"unload", "evict"} \cup Units
  /\ Units \cap LoopJobs = {}

VARIABLES
  up,        \* the server process runs
  evicts,    \* IDLE_EVICT_SECONDS > 0
  disk,      \* the weights are in the model cache
  manager,   \* the ModelManager
  gpu,       \* jobs queued on the GPU thread
  age,       \* ticks since a transcription, a good one, a weights check, and
             \* the keep-warm loop went to sleep
  present,   \* _weights_state["present"]
  failures,  \* _probe_state["consecutive_failures"]
  live,      \* _live_state
  warm,      \* the keep-warm loop: where it awaits, and its locals
  talk,      \* the running dictation
  spent      \* bounds used up

vars == <<up, evicts, disk, manager, gpu, age, present, failures, live, warm,
          talk, spent>>

Never == STALE_AFTER + 1

Ages == [transcribe: 0 .. KEEPWARM, good: 0 .. Never,
         check: 0 .. WEIGHTS_CHECK, slept: 0 .. KEEPWARM]

(***************************************************************************)
(* idle_before is the saved age of last_used; read and outcome hold what   *)
(* an await has returned and the loop has not yet acted upon.              *)
(***************************************************************************)
WarmLoop ==
  [at: {"asleep", "check", "checked", "warm_reload", "reloaded", "probe",
        "probed", "heal_reload"},
   idle_before: 0 .. IDLE_EVICT + 1,
   read: BOOLEAN,
   outcome: {"none", "done", "text", "blank", "raised"}]

Asleep == [at |-> "asleep", idle_before |-> 0, read |-> TRUE, outcome |-> "none"]

Talks ==
  [at: {"none", "live", "partial", "final", "check", "checked"},
   spoke: BOOLEAN,      \* at least ASR_LIVE_MIN_SPEECH_SEC of signal
   tried: BOOLEAN,      \* a partial has been asked for
   partials: BOOLEAN,   \* partials_emitted > 0
   read: BOOLEAN]

NoTalk == [at |-> "none", spoke |-> FALSE, tried |-> FALSE,
           partials |-> FALSE, read |-> TRUE]

\* No comparison tells values of the failure count beyond this bound apart.
FailLimit == IF FAIL_EXIT > 0 THEN FAIL_EXIT ELSE FAIL_RELOAD + 1

\* Types, and that a coroutine awaits the very job it has queued.
TypeOK ==
  /\ {up, evicts, disk, present} \subseteq BOOLEAN
  /\ manager \in Managers
  /\ gpu \in Seq(Jobs)
  /\ age \in Ages
  /\ failures \in 0 .. FailLimit
  /\ live \in [witnesses: 0 .. RELOAD_WITNESSES, reload_requested: BOOLEAN]
  /\ warm \in WarmLoop
  /\ talk \in Talks
  /\ \A job \in {"warm_reload", "probe", "heal_reload"} :
       Contains(gpu, job) <=> warm.at = job
  /\ \A job \in {"partial", "final"} : Contains(gpu, job) <=> talk.at = job
  /\ spent \in [faults: 0 .. MaxFaults, clients: 0 .. MaxClients]

NoWitness == [witnesses |-> 0, reload_requested |-> FALSE]

Fault == spent.faults < MaxFaults /\ spent' = [spent EXCEPT !.faults = @ + 1]

-----------------------------------------------------------------------------
(***************************************************************************)
(* The process.  startup_event loads the asr unit, verifies the weights    *)
(* and runs one probe, and only then are requests served; without weights  *)
(* the load raises, the process ends and launchd starts it again.          *)
(***************************************************************************)

Preloaded == Ensure(NoneResident, COLOAD, "asr")

\* What a start on a readable cache leaves: the probe has found text, or its
\* decode has raised and counts as one blank.
Started(probed, loaded) ==
  /\ up' = TRUE
  /\ manager' = loaded
  /\ gpu' = <<>>
  /\ present' = TRUE
  /\ age' = [transcribe |-> 0, good |-> IF probed THEN 0 ELSE Never,
             check |-> 0, slept |-> 0]
  /\ failures' = IF probed THEN 0 ELSE 1
  /\ live' = NoWitness /\ warm' = Asleep /\ talk' = NoTalk

Init ==
  /\ up = TRUE /\ disk = TRUE /\ present = TRUE /\ evicts \in IdleEvict
  /\ manager = Preloaded
  /\ gpu = <<>> /\ failures = 0
  /\ age = [transcribe |-> 0, good |-> 0, check |-> 0, slept |-> 0]
  /\ live = NoWitness /\ warm = Asleep /\ talk = NoTalk
  /\ spent = [faults |-> 0, clients |-> 0]

\* Mutant: the work of the ended process is still queued.
ExitKeepsQueue ==
  /\ up' = FALSE
  /\ manager' = NoneResident /\ UNCHANGED gpu
  /\ live' = NoWitness /\ warm' = Asleep /\ talk' = NoTalk

\* os._exit(1): everything but the disk is lost.
Exit ==
  /\ up' = FALSE
  /\ manager' = NoneResident /\ gpu' = <<>>
  /\ live' = NoWitness /\ warm' = Asleep /\ talk' = NoTalk

\* A blank start-up probe is the first of a row: where one is enough it ends the
\* new process too, or reloads the unit, and a reload that raises is only logged.
StartedBlank ==
  IF FAIL_EXIT = 1
  THEN UNCHANGED <<up, manager, gpu, age, present, failures, live, warm, talk>>
  ELSE \/ Started(FALSE, Preloaded)
       \/ /\ FAIL_RELOAD = 1
          /\ Started(FALSE, EnsureRaises(UnloadNow(Preloaded), COLOAD, "asr"))

Restart ==
  /\ ~up /\ disk
  /\ \/ Started(TRUE, Preloaded) /\ UNCHANGED spent
     \/ StartedBlank /\ Fault
  /\ UNCHANGED <<evicts, disk>>

-----------------------------------------------------------------------------
(***************************************************************************)
(* The world: time, the model cache, and the rot of a loaded session.      *)
(***************************************************************************)
Grown(a, limit) == Min({a + 1, limit})

Tick ==
  /\ manager' = Aged(manager)
  /\ age' = [transcribe |-> Grown(age.transcribe, KEEPWARM),
             good |-> Grown(age.good, Never),
             check |-> Grown(age.check, WEIGHTS_CHECK),
             slept |-> Grown(age.slept, KEEPWARM)]
  /\ warm' = IF warm.at \in {"warm_reload", "reloaded", "probe", "probed"}
             THEN [warm EXCEPT !.idle_before = Grown(@, IDLE_EVICT + 1)]
             ELSE warm
  /\ UNCHANGED <<up, evicts, disk, gpu, present, failures, live, talk, spent>>

WipeOrRestore ==
  /\ disk' = ~disk
  /\ Fault
  /\ UNCHANGED <<up, evicts, manager, gpu, age, present, failures, live, warm,
                 talk>>

Rot ==
  /\ manager.model["asr"] = "sound"
  /\ manager' = [manager EXCEPT !.model["asr"] = "rotted"]
  /\ Fault
  /\ UNCHANGED <<up, evicts, disk, gpu, age, present, failures, live, warm, talk>>

-----------------------------------------------------------------------------
(***************************************************************************)
(* The idle-evict loop, and the requests that use or free the model.       *)
(***************************************************************************)
Sweep ==
  /\ up /\ evicts
  /\ ~Contains(gpu, "sweep")
  /\ gpu' = Append(gpu, "sweep")
  /\ UNCHANGED <<up, evicts, disk, manager, age, present, failures, live, warm,
                 talk, spent>>

\* /model/unload, the residence broker's evict, and a batch, align or diarize
\* request, which goes through ensure().
Request ==
  /\ up /\ spent.clients < MaxClients
  /\ \E job \in Requests : gpu' = Append(gpu, job)
  /\ spent' = [spent EXCEPT !.clients = @ + 1]
  /\ UNCHANGED <<up, evicts, disk, manager, age, present, failures, live, warm,
                 talk>>

-----------------------------------------------------------------------------
(***************************************************************************)
(* Dictations.  _note_session_outcome classifies an ended one; final is    *)
(* whether it ended with a non-empty final text.                           *)
(***************************************************************************)
NoteSessionOutcome(final) ==
  live' =
    IF talk.partials THEN [live EXCEPT !.witnesses = 0]
    ELSE IF ~talk.spoke \/ ~final THEN live
    ELSE LET n == Min({live.witnesses + 1, RELOAD_WITNESSES})
         IN [witnesses |-> n,
             reload_requested |-> live.reload_requested \/ n = RELOAD_WITNESSES]

\* The first audio frame; every frame touches the manager.
Talk ==
  /\ up /\ talk.at = "none" /\ spent.clients < MaxClients
  /\ \E spoke \in BOOLEAN :
       talk' = [NoTalk EXCEPT !.at = "live", !.spoke = spoke]
  /\ manager' = Touch(manager)
  /\ spent' = [spent EXCEPT !.clients = @ + 1]
  /\ UNCHANGED <<up, evicts, disk, gpu, age, present, failures, live, warm>>

Frame ==
  /\ talk.at \in {"live", "partial"}
  /\ manager' = Touch(manager)
  /\ UNCHANGED <<up, evicts, disk, gpu, age, present, failures, live, warm, talk,
                 spent>>

\* _transcribe_buffer stamps the time, then queues for the GPU thread.
Transcribe(job) ==
  /\ age' = [age EXCEPT !.transcribe = 0]
  /\ gpu' = Append(gpu, job)

AskPartial ==
  /\ PARTIALS_ENABLED
  /\ talk.at = "live" /\ ~talk.tried
  /\ talk' = [talk EXCEPT !.at = "partial", !.tried = TRUE]
  /\ Transcribe("partial")
  /\ UNCHANGED <<up, evicts, disk, manager, present, failures, live, warm, spent>>

Stop ==
  /\ talk.at = "live"
  /\ talk' = [talk EXCEPT !.at = "final"]
  /\ Transcribe("final")
  /\ UNCHANGED <<up, evicts, disk, manager, present, failures, live, warm, spent>>

\* The client goes away without a stop.
Leave ==
  /\ talk.at = "live"
  /\ NoteSessionOutcome(FALSE)
  /\ talk' = NoTalk
  /\ UNCHANGED <<up, evicts, disk, manager, gpu, age, present, failures, warm,
                 spent>>

\* After ModelUnavailable the dictation fails loudly and forces a weights
\* check, which reads the disk off the event loop and is stamped with the
\* time it began.
TalkReadsDisk ==
  /\ talk.at = "check"
  /\ talk' = [talk EXCEPT !.at = "checked", !.read = disk]
  /\ UNCHANGED <<up, evicts, disk, manager, gpu, age, present, failures, live,
                 warm, spent>>

TalkFails ==
  /\ talk.at = "checked"
  /\ present' = talk.read
  /\ NoteSessionOutcome(FALSE)
  /\ talk' = NoTalk
  /\ UNCHANGED <<up, evicts, disk, manager, gpu, age, failures, warm, spent>>

-----------------------------------------------------------------------------
(***************************************************************************)
(* The GPU thread: the job at the head of the queue runs to its end.  ok   *)
(* is FALSE for a job that raises though the disk is whole: the load of a  *)
(* unit that was not resident, else the decode.                            *)
(***************************************************************************)
Loads(m, u, ok) == u \in m.resident \/ (disk /\ ok)

Use(m, u, ok) ==
  IF Loads(m, u, ok) THEN Ensure(m, COLOAD, u) ELSE EnsureRaises(m, COLOAD, u)

\* _reload_asr_unit: unload everything, then a fresh session.
Reloaded(m, ok) == Use(UnloadNow(m), "asr", ok)

\* Mutant: a decode that does not raise is good enough.
ShortDecodeRuns(ok) == ok

\* A short-window decode, as the probe and the partials run it, has text.
ShortDecodeHasText(ok) == ok /\ manager.model["asr"] # "rotted"

\* What the keep-warm loop sees of a job it awaits.
WarmResult(job, ok) ==
  warm' = CASE job = "probe" ->
                 [warm EXCEPT !.at = "probed",
                    !.outcome = IF ShortDecodeHasText(ok) /\ Loads(manager, "asr", ok)
                                THEN "text" ELSE "blank"]
            [] job = "warm_reload" ->
                 [warm EXCEPT !.at = "reloaded",
                    !.outcome = IF disk /\ ok THEN "done" ELSE "raised"]
            [] job = "heal_reload" -> Asleep
            [] OTHER -> warm

\* What the dictation sees of a decode it awaits: an empty partial is dropped,
\* a final, over the whole buffer, survives the rot.
TalkResult(job, ok) ==
  LET text == /\ talk.spoke /\ ok
              /\ job = "final" \/ ShortDecodeHasText(ok)
  IN IF ~Loads(manager, "asr", ok)
     THEN /\ talk' = [talk EXCEPT !.at = "check"]
          /\ age' = [age EXCEPT !.check = 0]
          /\ UNCHANGED live
     ELSE /\ talk' = IF job = "final" THEN NoTalk
                     ELSE [talk EXCEPT !.at = "live", !.partials = text]
          /\ age' = [age EXCEPT !.good = IF text THEN 0 ELSE @]
          /\ IF job = "final" THEN NoteSessionOutcome(text) ELSE UNCHANGED live

Run(job, ok) ==
  /\ manager' = CASE job = "sweep" -> MaybeEvict(manager)
                  [] job = "unload" -> UnloadNow(manager)
                  [] job = "evict" -> EvictUnit(manager, "asr")
                  [] job \in {"warm_reload", "heal_reload"} -> Reloaded(manager, ok)
                  [] job \in {"probe", "partial", "final"} -> Use(manager, "asr", ok)
                  [] job \in Units -> Use(manager, job, ok)
  /\ WarmResult(job, ok)
  /\ IF job \in {"partial", "final"} THEN TalkResult(job, ok)
     ELSE /\ age' = IF job = "heal_reload" THEN [age EXCEPT !.slept = 0] ELSE age
          /\ UNCHANGED <<live, talk>>

GpuStep ==
  /\ gpu # <<>>
  /\ gpu' = Tail(gpu)
  /\ \/ Run(Head(gpu), TRUE) /\ UNCHANGED spent
     \/ /\ Head(gpu) \notin {"sweep", "unload", "evict"}
        /\ Run(Head(gpu), FALSE) /\ Fault
  /\ UNCHANGED <<up, evicts, disk, present, failures>>

-----------------------------------------------------------------------------
(***************************************************************************)
(* The keep-warm loop.  It wakes every KEEPWARM ticks and first refreshes  *)
(* the weights state, whatever the traffic and the residency; then comes   *)
(* the gate, which may start a live reload or a probe.                     *)
(***************************************************************************)
BackToSleep == warm' = Asleep /\ age' = [age EXCEPT !.slept = 0]

\* _run_streaming_probe up to its decode.
StartProbe(m) ==
  /\ warm' = [Asleep EXCEPT !.at = "probe", !.idle_before = m.idle]
  /\ Transcribe("probe")

Evicted == evicts /\ "asr" \notin manager.resident

\* Mutant: nothing is done for a reload while the unit is evicted.
GateStarves ==
  /\ UNCHANGED live
  /\ IF age.transcribe < KEEPWARM \/ Evicted
     THEN BackToSleep /\ UNCHANGED gpu
     ELSE IF live.reload_requested
     THEN /\ warm' = [Asleep EXCEPT !.at = "warm_reload",
                                    !.idle_before = manager.idle]
          /\ gpu' = Append(gpu, "warm_reload")
          /\ UNCHANGED age
     ELSE StartProbe(manager)

\* A reload that was asked for and finds the unit evicted is satisfied; then
\* only an idle gap with the model resident lets anything pass.
Gate ==
  /\ live' = IF Evicted /\ live.reload_requested THEN NoWitness ELSE live
  /\ IF age.transcribe < KEEPWARM \/ Evicted
     THEN BackToSleep /\ UNCHANGED gpu
     ELSE IF live.reload_requested
     THEN /\ warm' = [Asleep EXCEPT !.at = "warm_reload",
                                    !.idle_before = manager.idle]
          /\ gpu' = Append(gpu, "warm_reload")
          /\ UNCHANGED age
     ELSE StartProbe(manager)

\* Mutant: the weights check sits behind the gate on residency.
WarmWakesIfResident ==
  /\ up /\ warm.at = "asleep" /\ age.slept = KEEPWARM
  /\ IF Evicted THEN BackToSleep /\ UNCHANGED <<gpu, live>>
     ELSE IF age.check < WEIGHTS_CHECK THEN Gate
     ELSE /\ warm' = [Asleep EXCEPT !.at = "check"]
          /\ age' = [age EXCEPT !.check = 0]
          /\ UNCHANGED <<gpu, live>>
  /\ UNCHANGED <<up, evicts, disk, manager, present, failures, talk, spent>>

WarmWakes ==
  /\ up /\ warm.at = "asleep" /\ age.slept = KEEPWARM
  /\ IF age.check < WEIGHTS_CHECK
     THEN Gate
     ELSE /\ warm' = [Asleep EXCEPT !.at = "check"]
          /\ age' = [age EXCEPT !.check = 0]
          /\ UNCHANGED <<gpu, live>>
  /\ UNCHANGED <<up, evicts, disk, manager, present, failures, talk, spent>>

WarmReadsDisk ==
  /\ warm.at = "check"
  /\ warm' = [warm EXCEPT !.at = "checked", !.read = disk]
  /\ UNCHANGED <<up, evicts, disk, manager, gpu, age, present, failures, live,
                 talk, spent>>

\* Mutant: weights that were missing once stay missing.
WarmCheckedSticky ==
  /\ warm.at = "checked"
  /\ present' = (present /\ warm.read)
  /\ Gate
  /\ UNCHANGED <<up, evicts, disk, manager, failures, talk, spent>>

WarmChecked ==
  /\ warm.at = "checked"
  /\ present' = warm.read
  /\ Gate
  /\ UNCHANGED <<up, evicts, disk, manager, failures, talk, spent>>

\* Mutant: the probe counts as use.
NotRestored == manager

\* The saved time of last use is written back: the loop's own use of the
\* model must not count as use.
Restored == IF evicts THEN [manager EXCEPT !.idle = warm.idle_before] ELSE manager

\* After a live reload comes a probe; a reload that raised is tried again.
WarmReloaded ==
  /\ warm.at = "reloaded"
  /\ IF warm.outcome = "raised"
     THEN BackToSleep /\ UNCHANGED <<manager, gpu, live>>
     ELSE /\ manager' = Restored
          /\ live' = NoWitness
          /\ StartProbe(Restored)
  /\ UNCHANGED <<up, evicts, disk, present, failures, talk, spent>>

ProbeFindsText ==
  /\ warm.at = "probed" /\ warm.outcome = "text"
  /\ manager' = Restored
  /\ failures' = 0
  /\ warm' = Asleep
  /\ age' = [age EXCEPT !.good = 0, !.slept = 0]
  /\ UNCHANGED <<up, evicts, disk, gpu, present, live, talk, spent>>

\* Without weights neither a reload nor a restart can help; else the n-th
\* blank in a row ends the process, or reloads the unit.
ProbeIsBlank ==
  LET n == Min({failures + 1, FailLimit})
  IN /\ warm.at = "probed" /\ warm.outcome = "blank"
     /\ failures' = n
     /\ IF ~present
        THEN manager' = Restored /\ BackToSleep /\ UNCHANGED <<up, gpu, live, talk>>
        ELSE IF FAIL_EXIT > 0 /\ n >= FAIL_EXIT
        THEN Exit /\ UNCHANGED age
        ELSE IF n = FAIL_RELOAD
        THEN /\ manager' = Restored
             /\ warm' = [Asleep EXCEPT !.at = "heal_reload"]
             /\ gpu' = Append(gpu, "heal_reload")
             /\ UNCHANGED <<up, age, live, talk>>
        ELSE manager' = Restored /\ BackToSleep /\ UNCHANGED <<up, gpu, live, talk>>
     /\ UNCHANGED <<evicts, disk, present, spent>>

\* What compute_health says to /health: degraded without weights, and, while
\* the asr unit is resident, for a failing probe or for want of a recent text.
Healthy ==
  /\ present
  /\ "asr" \in manager.resident =>
       failures < FAIL_RELOAD /\ age.good <= STALE_AFTER

-----------------------------------------------------------------------------
WarmStep == \/ WarmWakes \/ WarmReadsDisk \/ WarmChecked \/ WarmReloaded
            \/ ProbeFindsText \/ ProbeIsBlank

TalkEnds == Stop \/ Leave \/ TalkReadsDisk \/ TalkFails

Next == \/ Tick \/ WipeOrRestore \/ Rot \/ Restart
        \/ Sweep \/ Request
        \/ Talk \/ Frame \/ AskPartial \/ TalkEnds
        \/ GpuStep \/ WarmStep

(***************************************************************************)
(* Fairness: time passes, the GPU thread serves its queue, a coroutine     *)
(* whose await is over runs on, both loops wake, launchd restarts, and a   *)
(* dictation ends.  The idle sweep wakes every 10 s and the keep-warm loop *)
(* sleeps for 45 s: it cannot be that no sweep ever falls in that sleep.   *)
(* Nothing obliges a client to come or a disk to change.                   *)
(***************************************************************************)
SweepInTheGap ==
  Sweep /\ warm.at = "asleep" /\ manager.idle > IDLE_EVICT

Fairness ==
  /\ WF_vars(Tick) /\ WF_vars(GpuStep) /\ WF_vars(WarmStep)
  /\ SF_vars(SweepInTheGap)
  /\ WF_vars(Restart) /\ WF_vars(TalkEnds)

Spec == Init /\ [][Next]_vars

FairSpec == Spec /\ Fairness

-----------------------------------------------------------------------------
(***************************************************************************)
(* Properties.                                                             *)
(***************************************************************************)

\* What the manager calls resident is what holds a model, also after a load
\* that raised half way; and with co-load off at most one unit holds memory
\* (AsrModelManager: "at most one unit resident").
ResidentIsLoaded == Consistent(manager, COLOAD)

\* A wiped model cache shows in /health, whether the model is still in memory,
\* evicted, or failing its traffic, unless the weights come back
\* (health-honesty.md R3, R4 and R7).
OutageIsTold == up /\ ~disk ~> ~Healthy \/ disk \/ ~up

\* Where the disk is whole for good, /health says ok again and again: no
\* failure count, stale weights state or old probe keeps it degraded.
HealthRecovers == <>[]disk => []<>(up /\ Healthy)

\* A requested reload is carried out or satisfied, whatever is evicted
\* meanwhile (health-honesty.md R6); without weights it cannot be.
ReloadIsNotStarved ==
  live.reload_requested ~> ~live.reload_requested \/ ~disk

\* A rotted session does not stay: a probe's reload, a live reload, an
\* eviction or the exit clears it, unless the weights to load are missing.
RotIsHealed ==
  manager.model["asr"] = "rotted" ~> manager.model["asr"] # "rotted" \/ ~disk

\* With idle-evict on and no client left, the model is evicted: the loop's own
\* probes and reloads do not count as use (_keepwarm_loop: "Idle-evict wins").
IdleModelIsEvicted == evicts => []<>("asr" \notin manager.resident)

\* Claimed where live rot is defined (server.py:2787, "the exact partial-window
\* rot"), and not what the code does: only a session that has met a rotted or
\* failing decode counts as a witness and asks for a reload.
ReloadMeansRot == live.reload_requested => spent.faults > 0

=============================================================================
