--------------------------- MODULE SelfHeal_proofs ---------------------------
(***************************************************************************)
(* The manager stays consistent in every behaviour of SelfHeal, for any    *)
(* set of units, any periods and any number of faults and clients.  The    *)
(* operations of ModelManager keep it consistent one by one, and every     *)
(* step of SelfHeal is one of them, or leaves residency alone.  The types  *)
(* need more: that the queue of the GPU thread and the coroutines that     *)
(* await one of its jobs agree, each awaited job being queued once.        *)
(***************************************************************************)
EXTENDS SelfHeal, TLAPS

Good(m) == m \in Managers /\ Consistent(m, COLOAD)

\* Unloading any set of units keeps a manager consistent: unload() drops the
\* model and the name together.
LEMMA UnloadIsGood ==
  ASSUME NEW m, NEW S, Good(m)
  PROVE  Good(Unload(m, S))
<1>1. Unload(m, S) \in Managers
  BY DEF Good, Managers, Unload
<1>2. Consistent(Unload(m, S), COLOAD)
  BY DEF Good, Managers, Consistent, Unload
<1>. QED BY <1>1, <1>2 DEF Good

\* Setting the time of last use, by a touch or a restore, changes nothing else.
LEMMA IdleIsGood ==
  ASSUME NEW m, NEW a \in 0 .. IDLE_EVICT + 1, Good(m)
  PROVE  Good([m EXCEPT !.idle = a])
BY DEF Good, Managers, Consistent

\* ensure() keeps a manager consistent; with co-load off it makes room first,
\* so the unit it loads is alone.
LEMMA EnsureIsGood ==
  ASSUME NEW m, NEW u \in Units, Good(m)
  PROVE  Good(Ensure(m, COLOAD, u))
<1>. DEFINE room == IF COLOAD THEN m ELSE Unload(m, m.resident \ {u})
<1>0. 0 \in 0 .. IDLE_EVICT + 1
  BY ManagerAssumption
<1>1. Good(room)
  BY UnloadIsGood
<1>2. CASE u \in m.resident
  BY <1>0, <1>2, IdleIsGood DEF Ensure
<1>3. CASE u \notin m.resident
  <2>. DEFINE n == [room EXCEPT !.resident = @ \cup {u}, !.model[u] = "sound",
                                !.idle = 0]
  <2>1. Ensure(m, COLOAD, u) = n
    BY <1>3 DEF Ensure
  <2>2. ~COLOAD => room.resident = {}
    BY <1>3 DEF Good, Managers, Unload
  <2>. HIDE DEF room
  <2>3. n \in Managers
    BY <1>0, <1>1 DEF Good, Managers
  <2>4. /\ n.resident = room.resident \cup {u}
        /\ n.model = [room.model EXCEPT ![u] = "sound"]
    BY <1>1 DEF Good, Managers
  <2>. HIDE DEF n
  <2>5. Consistent(n, COLOAD)
    BY <1>1, <2>2, <2>4 DEF Good, Managers, Consistent
  <2>. QED BY <2>1, <2>3, <2>5 DEF Good
<1>. QED BY <1>2, <1>3

\* A load that raises half way leaves a consistent manager.
LEMMA EnsureRaisesIsGood ==
  ASSUME NEW m, NEW u, Good(m)
  PROVE  Good(EnsureRaises(m, COLOAD, u))
BY UnloadIsGood DEF EnsureRaises

LEMMA UseIsGood ==
  ASSUME NEW m, NEW u \in Units, NEW ok, Good(m)
  PROVE  Good(Use(m, u, ok))
BY EnsureIsGood, EnsureRaisesIsGood DEF Use

\* A manager with nothing resident, as the process starts and ends.
LEMMA NoneIsGood == Good(NoneResident)
BY ManagerAssumption DEF Good, Managers, Consistent, NoneResident

LEMMA RunIsGood ==
  ASSUME NEW job \in Jobs, NEW ok, Good(manager), Run(job, ok)
  PROVE  Good(manager')
<1>. "asr" \in Units
  BY ManagerAssumption
<1>. Units \cap LoopJobs = {}
  BY SelfHealAssumption
<1>1. CASE job \in {"sweep", "unload", "evict"}
  <2>1. manager' \in {MaybeEvict(manager), UnloadNow(manager),
                      EvictUnit(manager, "asr")}
    BY <1>1, Zenon DEF Run, LoopJobs
  <2>. QED BY <2>1, UnloadIsGood DEF MaybeEvict, UnloadNow, EvictUnit
<1>2. CASE job \in {"warm_reload", "heal_reload"}
  BY <1>2, UnloadIsGood, UseIsGood DEF Run, Reloaded, UnloadNow, LoopJobs
<1>3. CASE job \in {"probe", "partial", "final"}
  BY <1>3, UseIsGood DEF Run, LoopJobs
<1>4. CASE job \in Units
  BY <1>4, UseIsGood DEF Run, LoopJobs
<1>. QED BY <1>1, <1>2, <1>3, <1>4 DEF Jobs, LoopJobs

\* Ageing stays within its bound.
LEMMA GrownIsBounded ==
  ASSUME NEW n \in Nat, NEW a \in 0 .. n
  PROVE  Grown(a, n) \in 0 .. n
<1>1. PICK x \in {a + 1, n} : \A y \in {a + 1, n} : x =< y
  OBVIOUS
<1>2. /\ Grown(a, n) \in {a + 1, n}
      /\ \A y \in {a + 1, n} : Grown(a, n) =< y
  BY <1>1 DEF Grown, Min
<1>. QED BY <1>2

LEMMA AgedIsGood ==
  ASSUME NEW m, Good(m)
  PROVE  Good(Aged(m))
<1>1. IDLE_EVICT + 1 \in Nat /\ m.idle \in 0 .. IDLE_EVICT + 1
  BY ManagerAssumption DEF Good, Managers
<1>2. Grown(m.idle, IDLE_EVICT + 1) \in 0 .. IDLE_EVICT + 1
  BY <1>1, GrownIsBounded
<1>. QED BY <1>2, IdleIsGood DEF Aged, Grown

-----------------------------------------------------------------------------
(***************************************************************************)
(* The inductive invariant: a consistent manager, a queue of known jobs,   *)
(* since a job decides what the manager does, and a loop whose saved time  *)
(* of last use may be written back.                                        *)
(***************************************************************************)
ResidencyInv ==
  Good(manager) /\ gpu \in Seq(Jobs) /\ warm \in WarmLoop /\ disk \in BOOLEAN

LEMMA AsleepIsALoop == Asleep \in WarmLoop
BY ManagerAssumption DEF Asleep, WarmLoop

LEMMA AwaitIsALoop ==
  ASSUME NEW at \in {"warm_reload", "probe", "heal_reload"},
         NEW a \in 0 .. IDLE_EVICT + 1
  PROVE  /\ [Asleep EXCEPT !.at = at, !.idle_before = a] \in WarmLoop
         /\ [Asleep EXCEPT !.at = at] \in WarmLoop
BY AsleepIsALoop DEF WarmLoop

LEMMA QueuedIsAJob ==
  ASSUME NEW job \in Jobs, gpu \in Seq(Jobs)
  PROVE  Append(gpu, job) \in Seq(Jobs)
OBVIOUS

LEMMA FreshIsGood == Good(Preloaded)
BY NoneIsGood, EnsureIsGood, ManagerAssumption DEF Preloaded

\* What a start leaves is consistent, also when its own reload has raised.
LEMMA StartIsGood ==
  ASSUME Restart
  PROVE  \/ UNCHANGED <<up, manager, gpu, age, present, failures, live, warm, talk>>
         \/ /\ Good(manager')
            /\ \E probed \in BOOLEAN : \E loaded : Started(probed, loaded)
<1>. DEFINE left == EnsureRaises(UnloadNow(Preloaded), COLOAD, "asr")
<1>1. Good(UnloadNow(Preloaded))
  BY FreshIsGood, UnloadIsGood DEF UnloadNow
<1>2. Good(left)
  BY <1>1, UnloadIsGood DEF EnsureRaises
<1>. HIDE DEF left
<1>3. CASE Started(TRUE, Preloaded)
  BY <1>3, FreshIsGood DEF Started
<1>4. CASE Started(FALSE, Preloaded)
  BY <1>4, FreshIsGood DEF Started
<1>5. CASE Started(FALSE, left)
  BY <1>5, <1>2 DEF Started
<1>. QED BY <1>3, <1>4, <1>5 DEF Restart, StartedBlank, left

LEMMA InitResidency == Init => ResidencyInv
BY FreshIsGood, AsleepIsALoop DEF Init, ResidencyInv

\* A step of the GPU thread leaves the loop a loop, with or without a result.
LEMMA RunKeepsLoop ==
  ASSUME NEW job \in Jobs, NEW ok, ResidencyInv, Run(job, ok)
  PROVE  warm' \in WarmLoop
<1>1. warm \in WarmLoop /\ WarmResult(job, ok)
  BY DEF ResidencyInv, Run
<1>2. CASE job = "probe"
  <2>1. warm' \in {[warm EXCEPT !.at = "probed", !.outcome = o] :
                     o \in {"text", "blank"}}
    BY <1>1, <1>2, SelfHealAssumption DEF WarmResult
  <2>. QED BY <1>1, <2>1 DEF WarmLoop
<1>3. CASE job = "warm_reload"
  <2>1. warm' \in {[warm EXCEPT !.at = "reloaded", !.outcome = o] :
                     o \in {"done", "raised"}}
    BY <1>1, <1>3 DEF WarmResult
  <2>. QED BY <1>1, <2>1 DEF WarmLoop
<1>4. CASE job \notin {"probe", "warm_reload"}
  BY <1>1, <1>4, AsleepIsALoop DEF WarmResult
<1>. QED BY <1>2, <1>3, <1>4

LEMMA GpuKeepsResidency == ResidencyInv /\ GpuStep => ResidencyInv'
<1>. SUFFICES ASSUME ResidencyInv, GpuStep PROVE ResidencyInv'
  OBVIOUS
<1>1. gpu \in Seq(Jobs) /\ gpu # <<>> /\ gpu' = Tail(gpu)
  BY DEF ResidencyInv, GpuStep
<1>2. Head(gpu) \in Jobs /\ gpu' \in Seq(Jobs)
  BY <1>1
<1>3. PICK ok \in BOOLEAN : Run(Head(gpu), ok)
  BY DEF GpuStep
<1>4. Good(manager') /\ warm' \in WarmLoop
  BY <1>2, <1>3, RunIsGood, RunKeepsLoop DEF ResidencyInv
<1>5. disk' \in BOOLEAN
  BY DEF GpuStep, ResidencyInv
<1>. QED BY <1>2, <1>4, <1>5 DEF ResidencyInv, Good, Managers, Consistent

\* A loop that goes back to sleep, or starts an await, is still a loop, and
\* what it queues is a job.
LEMMA GateKeepsLoop ==
  ASSUME ResidencyInv, Gate
  PROVE  warm' \in WarmLoop /\ gpu' \in Seq(Jobs)
<1>1. manager.idle \in 0 .. IDLE_EVICT + 1 /\ gpu \in Seq(Jobs)
  BY DEF ResidencyInv, Good, Managers
<1>2. \/ warm' = Asleep /\ gpu' = gpu
      \/ \E job \in {"warm_reload", "probe"} :
           /\ warm' = [Asleep EXCEPT !.at = job, !.idle_before = manager.idle]
           /\ gpu' = Append(gpu, job)
  BY DEF Gate, BackToSleep, StartProbe, Transcribe
<1>3. CASE warm' = Asleep /\ gpu' = gpu
  BY <1>1, <1>3, AsleepIsALoop
<1>4. ASSUME NEW job \in {"warm_reload", "probe"},
             warm' = [Asleep EXCEPT !.at = job, !.idle_before = manager.idle],
             gpu' = Append(gpu, job)
      PROVE  warm' \in WarmLoop /\ gpu' \in Seq(Jobs)
  <2>1. warm' \in WarmLoop
    BY <1>1, <1>4, AwaitIsALoop
  <2>2. job \in Jobs
    BY DEF Jobs, LoopJobs
  <2>. QED BY <1>1, <1>4, <2>1, <2>2, QueuedIsAJob
<1>. QED BY <1>2, <1>3, <1>4

LEMMA RestoredIsGood == ResidencyInv => Good(Restored)
BY IdleIsGood DEF ResidencyInv, Restored, WarmLoop

\* Every step of the keep-warm loop keeps the invariant: what it writes to the
\* manager is the saved time of last use, or the end of the process.
LEMMA WarmKeepsResidency == ResidencyInv /\ WarmStep => ResidencyInv'
<1>. SUFFICES ASSUME ResidencyInv, WarmStep PROVE ResidencyInv'
  OBVIOUS
<1>. SUFFICES Good(manager') /\ gpu' \in Seq(Jobs) /\ warm' \in WarmLoop
  <2>1. disk' = disk
    BY DEF WarmStep, WarmWakes, WarmReadsDisk, WarmChecked, WarmReloaded,
           ProbeFindsText, ProbeIsBlank
  <2>. QED BY <2>1 DEF ResidencyInv, Good, Managers, Consistent
<1>0. Good(manager) /\ gpu \in Seq(Jobs) /\ warm \in WarmLoop /\ Good(Restored)
  BY RestoredIsGood DEF ResidencyInv
<1>1. CASE WarmWakes
  BY <1>0, <1>1, GateKeepsLoop, AsleepIsALoop DEF WarmWakes, WarmLoop
<1>2. CASE WarmReadsDisk
  <2>1. warm' = [warm EXCEPT !.at = "checked", !.read = disk]
    BY <1>2 DEF WarmReadsDisk
  <2>. QED BY <1>0, <1>2, <2>1 DEF WarmReadsDisk, WarmLoop, ResidencyInv
<1>3. CASE WarmChecked
  BY <1>0, <1>3, GateKeepsLoop DEF WarmChecked
<1>4. CASE WarmReloaded
  <2>1. CASE warm.outcome = "raised"
    BY <1>0, <1>4, <2>1, AsleepIsALoop DEF WarmReloaded, BackToSleep
  <2>2. CASE warm.outcome # "raised"
    <3>1. /\ manager' = Restored
          /\ warm' = [Asleep EXCEPT !.at = "probe", !.idle_before = Restored.idle]
          /\ gpu' = Append(gpu, "probe")
      BY <1>4, <2>2 DEF WarmReloaded, StartProbe, Transcribe
    <3>2. Restored.idle \in 0 .. IDLE_EVICT + 1
      BY <1>0 DEF Good, Managers
    <3>3. "probe" \in Jobs
      BY DEF Jobs, LoopJobs
    <3>. QED BY <1>0, <3>1, <3>2, <3>3, AwaitIsALoop, QueuedIsAJob
  <2>. QED BY <2>1, <2>2
<1>5. CASE ProbeFindsText
  BY <1>0, <1>5, AsleepIsALoop DEF ProbeFindsText
<1>6. CASE ProbeIsBlank
  <2>1. \/ manager' = Restored /\ warm' = Asleep /\ gpu' = gpu
        \/ manager' = NoneResident /\ warm' = Asleep /\ gpu' = <<>>
        \/ /\ manager' = Restored
           /\ warm' = [Asleep EXCEPT !.at = "heal_reload"]
           /\ gpu' = Append(gpu, "heal_reload")
    BY <1>6 DEF ProbeIsBlank, BackToSleep, Exit
  <2>2. "heal_reload" \in Jobs /\ 0 \in 0 .. IDLE_EVICT + 1 /\ <<>> \in Seq(Jobs)
    BY ManagerAssumption DEF Jobs, LoopJobs
  <2>. QED
    BY <1>0, <2>1, <2>2, NoneIsGood, AsleepIsALoop, AwaitIsALoop, QueuedIsAJob
<1>. QED BY <1>1, <1>2, <1>3, <1>4, <1>5, <1>6 DEF WarmStep

\* The process starting, time, the world, the sweep and the clients: none of
\* them changes residency but a start, and each queues only jobs.
LEMMA OthersKeepResidency ==
  ASSUME ResidencyInv,
         Tick \/ WipeOrRestore \/ Rot \/ Restart \/ Sweep \/ Request
           \/ Talk \/ Frame \/ AskPartial \/ TalkEnds
  PROVE  ResidencyInv'
<1>0. /\ Good(manager) /\ gpu \in Seq(Jobs) /\ warm \in WarmLoop
      /\ disk \in BOOLEAN
  BY DEF ResidencyInv
<1>. SUFFICES /\ Good(manager') /\ gpu' \in Seq(Jobs) /\ warm' \in WarmLoop
              /\ disk' \in BOOLEAN
  BY DEF ResidencyInv, Good, Managers, Consistent
<1>1. CASE Tick
  <2>1. IDLE_EVICT + 1 \in Nat /\ warm.idle_before \in 0 .. IDLE_EVICT + 1
    BY <1>0, ManagerAssumption DEF WarmLoop
  <2>2. Grown(warm.idle_before, IDLE_EVICT + 1) \in 0 .. IDLE_EVICT + 1
    BY <2>1, GrownIsBounded
  <2>3. warm' \in WarmLoop
    BY <1>0, <1>1, <2>2 DEF Tick, WarmLoop
  <2>. QED BY <1>0, <1>1, <2>3, AgedIsGood DEF Tick
<1>2. CASE WipeOrRestore
  BY <1>0, <1>2 DEF WipeOrRestore
<1>3. CASE Rot
  <2>1. manager' \in Managers
    BY <1>0, <1>3 DEF Rot, Good, Managers
  <2>2. /\ manager'.resident = manager.resident
        /\ manager'.model = [manager.model EXCEPT !["asr"] = "rotted"]
    BY <1>0, <1>3 DEF Rot, Good, Managers
  <2>3. manager.model["asr"] = "sound"
    BY <1>3 DEF Rot
  <2>4. Consistent(manager', COLOAD)
    BY <1>0, <2>2, <2>3 DEF Good, Managers, Consistent
  <2>. QED BY <1>0, <1>3, <2>1, <2>4 DEF Rot, Good
<1>4. CASE Restart
  <2>1. disk' = disk
    BY <1>4 DEF Restart
  <2>2. CASE UNCHANGED <<up, manager, gpu, age, present, failures, live, warm, talk>>
    BY <1>0, <2>1, <2>2
  <2>3. CASE Good(manager') /\ \E probed \in BOOLEAN : \E loaded : Started(probed, loaded)
    <3>1. gpu' = <<>> /\ warm' = Asleep
      BY <2>3 DEF Started
    <3>. QED BY <1>0, <2>1, <2>3, <3>1, AsleepIsALoop
  <2>. QED BY <1>4, <2>2, <2>3, StartIsGood
<1>5. CASE Sweep
  BY <1>0, <1>5, QueuedIsAJob DEF Sweep, Jobs, LoopJobs
<1>6. CASE Request
  <2>1. Requests \subseteq Jobs
    BY SelfHealAssumption DEF Jobs, LoopJobs
  <2>. QED BY <1>0, <1>6, <2>1, QueuedIsAJob DEF Request
<1>7. CASE Talk \/ Frame
  <2>1. 0 \in 0 .. IDLE_EVICT + 1
    BY ManagerAssumption
  <2>2. /\ manager' = [manager EXCEPT !.idle = 0]
        /\ gpu' = gpu /\ warm' = warm /\ disk' = disk
    BY <1>7 DEF Talk, Frame, Touch
  <2>3. Good(manager')
    BY <1>0, <2>1, <2>2, IdleIsGood
  <2>. QED BY <1>0, <2>2, <2>3
<1>8. CASE AskPartial
  BY <1>0, <1>8, QueuedIsAJob DEF AskPartial, Transcribe, Jobs, LoopJobs
<1>9. CASE TalkEnds
  BY <1>0, <1>9, QueuedIsAJob
     DEF TalkEnds, Stop, Leave, TalkReadsDisk, TalkFails, Transcribe, Jobs, LoopJobs
<1>. QED BY <1>1, <1>2, <1>3, <1>4, <1>5, <1>6, <1>7, <1>8, <1>9

LEMMA StepKeepsResidency == ResidencyInv /\ [Next]_vars => ResidencyInv'
<1>1. ASSUME ResidencyInv, UNCHANGED vars PROVE ResidencyInv'
  BY <1>1 DEF vars, ResidencyInv, Good, Managers, Consistent
<1>. QED BY <1>1, GpuKeepsResidency, WarmKeepsResidency, OthersKeepResidency DEF Next

\* Whatever loads, evictions, reloads, restarts and half-failed loads follow
\* each other, the residency the gate, the sweep and /health read is that of
\* the models in memory, and with co-load off there is at most one.
THEOREM ResidencyIsTrue == Spec => []ResidentIsLoaded
<1>1. ResidencyInv => ResidentIsLoaded
  BY DEF ResidencyInv, Good, ResidentIsLoaded
<1>. QED BY <1>1, InitResidency, StepKeepsResidency, PTL DEF Spec

-----------------------------------------------------------------------------
(***************************************************************************)
(* The types, and the queue: whoever awaits a job of the GPU thread finds  *)
(* it there, and exactly once, so that its end finds the one who awaits    *)
(* it.                                                                     *)
(***************************************************************************)
WarmJobs == {"warm_reload", "probe", "heal_reload"}
TalkJobs == {"partial", "final"}
Awaited == WarmJobs \cup TalkJobs

\* No awaited job is queued twice: its end would leave the second behind.
AwaitedOnce(q) ==
  \A i, n \in 1 .. Len(q) : q[i] = q[n] /\ q[i] \in Awaited => i = n

\* The queue, the loop and the dictation agree on what is awaited.
Agree(q, w, t) ==
  /\ \A job \in WarmJobs : Contains(q, job) <=> w.at = job
  /\ \A job \in TalkJobs : Contains(q, job) <=> t.at = job
  /\ AwaitedOnce(q)

\* What counts and remembers stays in range.
Ranges ==
  /\ {up, evicts, disk, present} \subseteq BOOLEAN
  /\ age \in Ages
  /\ failures \in 0 .. FailLimit
  /\ live \in [witnesses: 0 .. RELOAD_WITNESSES, reload_requested: BOOLEAN]
  /\ talk \in Talks
  /\ spent \in [faults: 0 .. MaxFaults, clients: 0 .. MaxClients]

TypeInv == ResidencyInv /\ Ranges /\ Agree(gpu, warm, talk)

\* What is in the queue after a job has joined it.
LEMMA Joined ==
  ASSUME NEW q \in Seq(Jobs), NEW job \in Jobs, AwaitedOnce(q)
  PROVE  /\ \A x : Contains(Append(q, job), x) <=> Contains(q, x) \/ x = job
         /\ job \notin Awaited \/ ~Contains(q, job) => AwaitedOnce(Append(q, job))
<1> DEFINE r == Append(q, job)
<1>1. /\ Len(r) = Len(q) + 1 /\ Len(q) \in Nat /\ r[Len(q) + 1] = job
      /\ \A i \in 1 .. Len(q) : r[i] = q[i]
  OBVIOUS
<1> HIDE DEF r
<1>2. 1 .. Len(r) = (1 .. Len(q)) \cup {Len(q) + 1}
  BY <1>1
<1>3. ASSUME NEW x  PROVE Contains(r, x) <=> Contains(q, x) \/ x = job
  <2>1. Contains(r, x) => Contains(q, x) \/ x = job
    BY <1>1, <1>2 DEF Contains
  <2>2. Contains(q, x) => Contains(r, x)
    BY <1>1, <1>2 DEF Contains
  <2>3. x = job => Contains(r, x)
    BY <1>1, <1>2 DEF Contains
  <2> QED  BY <2>1, <2>2, <2>3
<1>4. ASSUME job \notin Awaited \/ ~Contains(q, job)  PROVE AwaitedOnce(r)
  <2> SUFFICES ASSUME NEW i \in 1 .. Len(r), NEW n \in 1 .. Len(r), r[i] = r[n], r[i] \in Awaited
               PROVE  i = n
    BY DEF AwaitedOnce
  <2>1. CASE i \in 1 .. Len(q) /\ n \in 1 .. Len(q)
    BY <1>1, <2>1 DEF AwaitedOnce
  <2>2. CASE i = Len(q) + 1 /\ n = Len(q) + 1
    BY <2>2
  <2>3. CASE i \in 1 .. Len(q) /\ n = Len(q) + 1
    BY <1>1, <1>4, <2>3 DEF Contains
  <2>4. CASE n \in 1 .. Len(q) /\ i = Len(q) + 1
    BY <1>1, <1>4, <2>4 DEF Contains
  <2> QED  BY <1>2, <2>1, <2>2, <2>3, <2>4
<1> QED  BY <1>3, <1>4 DEF r

\* ... and after its head has been served.
LEMMA Served ==
  ASSUME NEW q \in Seq(Jobs), q # <<>>, AwaitedOnce(q)
  PROVE  /\ AwaitedOnce(Tail(q))
         /\ \A x : Contains(Tail(q), x) => Contains(q, x)
         /\ \A x \in Awaited : Contains(Tail(q), x) <=> Contains(q, x) /\ x # Head(q)
         /\ Contains(q, Head(q))
<1> DEFINE r == Tail(q)
           h == Head(q)
<1>1. /\ Len(r) = Len(q) - 1 /\ Len(q) \in Nat /\ Len(q) > 0 /\ h = q[1]
      /\ \A i \in 1 .. Len(q) - 1 : r[i] = q[i + 1]
  OBVIOUS
<1> HIDE DEF r, h
<1>2. AwaitedOnce(r)
  <2> SUFFICES ASSUME NEW i \in 1 .. Len(r), NEW n \in 1 .. Len(r), r[i] = r[n], r[i] \in Awaited
               PROVE  i = n
    BY DEF AwaitedOnce
  <2>1. /\ i + 1 \in 1 .. Len(q) /\ n + 1 \in 1 .. Len(q)
        /\ q[i + 1] = r[i] /\ q[n + 1] = r[n]
    BY <1>1
  <2>2. i + 1 = n + 1
    BY <2>1 DEF AwaitedOnce
  <2> QED  BY <1>1, <2>2
<1>3. ASSUME NEW x, Contains(r, x)  PROVE Contains(q, x)
  <2>1. PICK i \in 1 .. Len(r) : r[i] = x
    BY <1>3 DEF Contains
  <2>2. i + 1 \in 1 .. Len(q) /\ q[i + 1] = x
    BY <1>1, <2>1
  <2> QED  BY <2>2 DEF Contains
<1>4. Contains(q, h)
  BY <1>1 DEF Contains
<1>5. ASSUME NEW x \in Awaited, Contains(q, x), x # h  PROVE Contains(r, x)
  <2>1. PICK i \in 1 .. Len(q) : q[i] = x
    BY <1>5 DEF Contains
  <2>2. i # 1
    BY <1>1, <1>5, <2>1
  <2> DEFINE n == i - 1
  <2>3. n \in 1 .. Len(r) /\ n + 1 = i /\ n \in 1 .. Len(q) - 1
    BY <1>1, <2>2
  <2> HIDE DEF n
  <2>4. r[n] = x
    BY <1>1, <2>1, <2>3
  <2> QED  BY <2>3, <2>4 DEF Contains
<1>6. ~(h \in Awaited /\ Contains(r, h))
  <2> SUFFICES ASSUME h \in Awaited, NEW i \in 1 .. Len(r), r[i] = h  PROVE FALSE
    BY DEF Contains
  <2>1. i + 1 \in 1 .. Len(q) /\ 1 \in 1 .. Len(q) /\ q[i + 1] = q[1] /\ q[1] = h
    BY <1>1
  <2>2. i + 1 = 1
    BY <2>1 DEF AwaitedOnce
  <2> QED  BY <1>1, <2>2
<1> QED  BY <1>2, <1>3, <1>4, <1>5, <1>6 DEF r, h

LEMMA NothingQueued ==
  /\ \A x : ~Contains(<<>>, x)
  /\ AwaitedOnce(<<>>)
BY DEF Contains, AwaitedOnce

\* Steps that await nothing new leave the agreement alone.
LEMMA AgreeStays ==
  ASSUME NEW q, NEW w, NEW t, NEW v, NEW u, Agree(q, w, t),
         v.at = w.at \/ (w.at \notin WarmJobs /\ v.at \notin WarmJobs),
         u.at = t.at \/ (t.at \notin TalkJobs /\ u.at \notin TalkJobs)
  PROVE  Agree(q, v, u)
BY DEF Agree

\* Somebody queues a job that nobody awaits.
LEMMA AgreeQueues ==
  ASSUME NEW q \in Seq(Jobs), NEW w, NEW t, Agree(q, w, t), NEW job \in Jobs \ Awaited
  PROVE  Agree(Append(q, job), w, t)
<1>1. AwaitedOnce(q)  BY DEF Agree
<1>2. AwaitedOnce(Append(q, job))  BY <1>1, Joined
<1>3. \A x \in Awaited : Contains(Append(q, job), x) <=> Contains(q, x)  BY <1>1, Joined
<1> QED  BY <1>2, <1>3 DEF Agree, Awaited

\* The loop queues a job and awaits it.
LEMMA WarmAwaits ==
  ASSUME NEW q \in Seq(Jobs), NEW w, NEW t, Agree(q, w, t), NEW job \in WarmJobs,
         w.at \notin WarmJobs, NEW v, v.at = job
  PROVE  Agree(Append(q, job), v, t)
<1>1. AwaitedOnce(q) /\ job \in Jobs /\ ~Contains(q, job)
  BY DEF Agree, WarmJobs, Jobs, LoopJobs
<1>2. AwaitedOnce(Append(q, job))  BY <1>1, Joined
<1>3. \A x : Contains(Append(q, job), x) <=> Contains(q, x) \/ x = job  BY <1>1, Joined
<1>4. job \notin TalkJobs  BY DEF WarmJobs, TalkJobs
<1> QED  BY <1>2, <1>3, <1>4 DEF Agree

\* A dictation queues its decode and awaits it.
LEMMA TalkAwaits ==
  ASSUME NEW q \in Seq(Jobs), NEW w, NEW t, Agree(q, w, t), NEW job \in TalkJobs,
         t.at \notin TalkJobs, NEW u, u.at = job
  PROVE  Agree(Append(q, job), w, u)
<1>1. AwaitedOnce(q) /\ job \in Jobs /\ ~Contains(q, job)
  BY DEF Agree, TalkJobs, Jobs, LoopJobs
<1>2. AwaitedOnce(Append(q, job))  BY <1>1, Joined
<1>3. \A x : Contains(Append(q, job), x) <=> Contains(q, x) \/ x = job  BY <1>1, Joined
<1>4. job \notin WarmJobs  BY DEF WarmJobs, TalkJobs
<1> QED  BY <1>2, <1>3, <1>4 DEF Agree

\* The head is served, and who awaited it no longer does.
LEMMA AgreeServes ==
  ASSUME NEW q \in Seq(Jobs), q # <<>>, NEW w, NEW t, NEW v, NEW u, Agree(q, w, t),
         IF Head(q) \in WarmJobs THEN v.at \notin WarmJobs ELSE v.at = w.at,
         IF Head(q) \in TalkJobs THEN u.at \notin TalkJobs ELSE u.at = t.at
  PROVE  Agree(Tail(q), v, u)
<1> DEFINE h == Head(q)
           r == Tail(q)
<1>1. /\ AwaitedOnce(r) /\ Contains(q, h)
      /\ \A x \in Awaited : Contains(r, x) <=> Contains(q, x) /\ x # h
  BY Served DEF Agree
<1> HIDE DEF h, r
<1>2. \A job \in WarmJobs : Contains(r, job) <=> v.at = job
  <2>1. CASE h \in WarmJobs
    <3>1. w.at = h  BY <1>1, <2>1 DEF Agree
    <3>2. \A job \in WarmJobs : ~Contains(r, job)
      BY <1>1, <3>1 DEF Agree, Awaited
    <3> QED  BY <2>1, <3>2 DEF h
  <2>2. CASE h \notin WarmJobs
    BY <1>1, <2>2 DEF Agree, Awaited, h
  <2> QED  BY <2>1, <2>2
<1>3. \A job \in TalkJobs : Contains(r, job) <=> u.at = job
  <2>1. CASE h \in TalkJobs
    <3>1. t.at = h  BY <1>1, <2>1 DEF Agree
    <3>2. \A job \in TalkJobs : ~Contains(r, job)
      BY <1>1, <3>1 DEF Agree, Awaited
    <3> QED  BY <2>1, <3>2 DEF h
  <2>2. CASE h \notin TalkJobs
    BY <1>1, <2>2 DEF Agree, Awaited, h
  <2> QED  BY <2>1, <2>2
<1> QED  BY <1>1, <1>2, <1>3 DEF Agree, r

\* A process that starts or ends leaves nothing queued or awaited.
LEMMA AgreeOnNothing == Agree(<<>>, Asleep, NoTalk)
BY NothingQueued DEF Agree, Asleep, NoTalk, WarmJobs, TalkJobs

-----------------------------------------------------------------------------
(***************************************************************************)
(* Ranges, step by step.                                                   *)
(***************************************************************************)
Lives == [witnesses: 0 .. RELOAD_WITNESSES, reload_requested: BOOLEAN]

\* The constants, as the ranges use them.
LEMMA Limits ==
  /\ KEEPWARM \in Nat /\ WEIGHTS_CHECK \in Nat /\ Never \in Nat
  /\ RELOAD_WITNESSES \in Nat /\ FailLimit \in Nat /\ FailLimit >= 1
  /\ MaxFaults \in Nat /\ MaxClients \in Nat
BY SelfHealAssumption DEF Never, FailLimit

LEMMA Initially ==
  /\ NoWitness \in Lives /\ NoTalk \in Talks
  /\ \A good \in {0, Never} :
       [transcribe |-> 0, good |-> good, check |-> 0, slept |-> 0] \in Ages
BY Limits DEF Lives, NoWitness, Talks, NoTalk, Ages

LEMMA FaultIsCounted == Ranges /\ Fault => spent' \in [faults: 0 .. MaxFaults, clients: 0 .. MaxClients]
BY Limits DEF Ranges, Fault

\* A client more, within the bound.
LEMMA ClientIsCounted ==
  ASSUME Ranges, spent.clients < MaxClients, spent' = [spent EXCEPT !.clients = @ + 1]
  PROVE  spent' \in [faults: 0 .. MaxFaults, clients: 0 .. MaxClients]
<1>1. spent \in [faults: 0 .. MaxFaults, clients: 0 .. MaxClients]  BY DEF Ranges
<1>2. spent.clients + 1 \in 0 .. MaxClients  BY <1>1, Limits
<1> QED  BY <1>1, <1>2

\* min(n + 1, limit)
LEMMA CountIsBounded ==
  ASSUME NEW n \in Nat, NEW a \in 0 .. n
  PROVE  Min({a + 1, n}) \in 0 .. n
BY GrownIsBounded DEF Grown

\* _note_session_outcome keeps the number of witnesses in range.
LEMMA OutcomeIsNoted ==
  ASSUME Ranges, NEW final, NoteSessionOutcome(final)
  PROVE  live' \in Lives
<1> DEFINE n == Min({live.witnesses + 1, RELOAD_WITNESSES})
<1>1. live \in Lives  BY DEF Ranges, Lives
<1>2. n \in 0 .. RELOAD_WITNESSES  BY <1>1, Limits, CountIsBounded DEF Lives
<1>3. 0 \in 0 .. RELOAD_WITNESSES  BY Limits
<1> HIDE DEF n
<1>4. (live.reload_requested \/ n = RELOAD_WITNESSES) \in BOOLEAN  OBVIOUS
<1>5. \/ live' = [live EXCEPT !.witnesses = 0]
      \/ live' = live
      \/ live' = [witnesses |-> n,
                  reload_requested |-> live.reload_requested \/ n = RELOAD_WITNESSES]
  BY Zenon DEF NoteSessionOutcome, n
<1>6. [live EXCEPT !.witnesses = 0] \in Lives  BY <1>1, <1>3 DEF Lives
<1>7. \A b \in BOOLEAN : [witnesses |-> n, reload_requested |-> b] \in Lives
  BY <1>2 DEF Lives
<1> QED  BY <1>1, <1>4, <1>5, <1>6, <1>7

\* An age that is set back is in range.
LEMMA AgesStay ==
  ASSUME Ranges
  PROVE  /\ [age EXCEPT !.slept = 0] \in Ages /\ [age EXCEPT !.check = 0] \in Ages
         /\ [age EXCEPT !.transcribe = 0] \in Ages /\ [age EXCEPT !.good = 0] \in Ages
         /\ [age EXCEPT !.good = 0, !.slept = 0] \in Ages
<1>1. age \in Ages  BY DEF Ranges
<1>2. 0 \in 0 .. KEEPWARM /\ 0 \in 0 .. Never /\ 0 \in 0 .. WEIGHTS_CHECK  BY Limits
<1>3. [age EXCEPT !.slept = 0] \in Ages /\ [age EXCEPT !.check = 0] \in Ages
  BY <1>1, <1>2 DEF Ages
<1>4. [age EXCEPT !.transcribe = 0] \in Ages /\ [age EXCEPT !.good = 0] \in Ages
  BY <1>1, <1>2 DEF Ages
<1>5. [age EXCEPT !.good = 0, !.slept = 0] \in Ages
  BY <1>1, <1>2 DEF Ages
<1> QED  BY <1>3, <1>4, <1>5

LEMMA InitTypes == Init => Ranges /\ Agree(gpu, warm, talk)
<1> SUFFICES ASSUME Init PROVE Ranges /\ Agree(gpu, warm, talk)
  OBVIOUS
<1>1. Agree(gpu, warm, talk)  BY AgreeOnNothing DEF Init
<1>2. /\ failures \in 0 .. FailLimit /\ 0 \in 0 .. MaxFaults /\ 0 \in 0 .. MaxClients
      /\ evicts \in BOOLEAN
  BY Limits, SelfHealAssumption DEF Init
<1> QED  BY <1>1, <1>2, Initially DEF Init, Ranges, Lives

-----------------------------------------------------------------------------
(***************************************************************************)
(* Each step keeps ranges and agreement.                                   *)
(***************************************************************************)
StepTypes == Ranges' /\ Agree(gpu', warm', talk')

\* Time.
LEMMA TickTypes == TypeInv /\ Tick => StepTypes
<1> SUFFICES ASSUME TypeInv, Tick PROVE StepTypes
  OBVIOUS
<1>1. age \in Ages  BY DEF TypeInv, Ranges
<1>2. /\ Grown(age.transcribe, KEEPWARM) \in 0 .. KEEPWARM
      /\ Grown(age.good, Never) \in 0 .. Never
      /\ Grown(age.check, WEIGHTS_CHECK) \in 0 .. WEIGHTS_CHECK
      /\ Grown(age.slept, KEEPWARM) \in 0 .. KEEPWARM
  BY <1>1, Limits, GrownIsBounded DEF Ages
<1>3. age' \in Ages  BY <1>2 DEF Tick, Ages
<1>4. Ranges'  BY <1>3 DEF TypeInv, Ranges, Tick
<1>5. warm'.at = warm.at  BY DEF TypeInv, ResidencyInv, WarmLoop, Tick
<1>6. gpu' = gpu /\ talk' = talk  BY DEF Tick
<1> QED  BY <1>4, <1>5, <1>6, AgreeStays DEF StepTypes, TypeInv

\* The world.
LEMMA WorldTypes == TypeInv /\ (WipeOrRestore \/ Rot) => StepTypes
<1> SUFFICES ASSUME TypeInv, WipeOrRestore \/ Rot PROVE StepTypes
  OBVIOUS
<1>1. spent' \in [faults: 0 .. MaxFaults, clients: 0 .. MaxClients]
  BY FaultIsCounted DEF TypeInv, WipeOrRestore, Rot
<1>2. disk' \in BOOLEAN  BY DEF TypeInv, Ranges, WipeOrRestore, Rot
<1>3. UNCHANGED <<up, evicts, gpu, age, present, failures, live, warm, talk>>
  BY DEF WipeOrRestore, Rot
<1> QED  BY <1>1, <1>2, <1>3 DEF StepTypes, TypeInv, Ranges

\* The process starts.
LEMMA RestartTypes == TypeInv /\ Restart => StepTypes
<1> SUFFICES ASSUME TypeInv, Restart PROVE StepTypes
  OBVIOUS
<1>1. spent' \in [faults: 0 .. MaxFaults, clients: 0 .. MaxClients]
  <2>1. CASE Fault  BY <2>1, FaultIsCounted DEF TypeInv
  <2>2. CASE UNCHANGED spent  BY <2>2 DEF TypeInv, Ranges
  <2> QED  BY <2>1, <2>2 DEF Restart
<1>2. UNCHANGED <<evicts, disk>>  BY DEF Restart
<1>3. CASE UNCHANGED <<up, manager, gpu, age, present, failures, live, warm, talk>>
  BY <1>1, <1>2, <1>3 DEF StepTypes, TypeInv, Ranges
<1>4. ASSUME NEW probed \in BOOLEAN, NEW loaded, Started(probed, loaded)
      PROVE  StepTypes
  <2>1. age' \in Ages  BY <1>4, Initially DEF Started
  <2>2. failures' \in 0 .. FailLimit  BY <1>4, Limits DEF Started
  <2>3. up' = TRUE /\ present' = TRUE  BY <1>4 DEF Started
  <2>4. live' = NoWitness /\ talk' = NoTalk /\ warm' = Asleep /\ gpu' = <<>>
    BY <1>4 DEF Started
  <2>5. Ranges'
    BY <1>1, <1>2, <2>1, <2>2, <2>3, <2>4, Initially DEF TypeInv, Ranges, Lives
  <2> QED  BY <2>4, <2>5, AgreeOnNothing DEF StepTypes
<1> QED  BY <1>3, <1>4, StartIsGood

\* The sweep, and the requests that use or free the model: nobody awaits them.
LEMMA QueueTypes == TypeInv /\ (Sweep \/ Request) => StepTypes
<1> SUFFICES ASSUME TypeInv, Sweep \/ Request PROVE StepTypes
  OBVIOUS
<1>1. PICK job \in {"sweep"} \cup Requests : gpu' = Append(gpu, job)
  BY DEF Sweep, Request
<1>2. job \in Jobs \ Awaited
  BY SelfHealAssumption DEF Jobs, LoopJobs, Awaited, WarmJobs, TalkJobs
<1>3. Agree(gpu', warm, talk)
  BY <1>1, <1>2, AgreeQueues DEF TypeInv, ResidencyInv
<1>4. spent' \in [faults: 0 .. MaxFaults, clients: 0 .. MaxClients]
  <2>1. CASE Sweep  BY <2>1 DEF Sweep, TypeInv, Ranges
  <2>2. CASE Request  BY <2>2, ClientIsCounted DEF Request, TypeInv
  <2> QED  BY <2>1, <2>2
<1>5. UNCHANGED <<up, evicts, disk, age, present, failures, live, warm, talk>>
  BY DEF Sweep, Request
<1> QED  BY <1>3, <1>4, <1>5 DEF StepTypes, TypeInv, Ranges

\* A dictation as it runs.
LEMMA TalkTypes == TypeInv /\ (Talk \/ Frame \/ AskPartial) => StepTypes
<1> SUFFICES ASSUME TypeInv, Talk \/ Frame \/ AskPartial PROVE StepTypes
  OBVIOUS
<1>0. /\ Ranges /\ talk \in Talks /\ gpu \in Seq(Jobs) /\ Agree(gpu, warm, talk)
  BY DEF TypeInv, Ranges, ResidencyInv
<1>1. CASE Talk
  <2>1. spent' \in [faults: 0 .. MaxFaults, clients: 0 .. MaxClients]
    BY <1>0, <1>1, ClientIsCounted DEF Talk
  <2>2. talk' \in Talks /\ talk'.at = "live"
    BY <1>1, Initially DEF Talk, Talks
  <2>3. talk.at = "none"  BY <1>1 DEF Talk
  <2>4. UNCHANGED <<up, evicts, disk, gpu, age, present, failures, live, warm>>
    BY <1>1 DEF Talk
  <2>5. Agree(gpu, warm, talk')
    BY <1>0, <2>2, <2>3, AgreeStays DEF TalkJobs
  <2> QED  BY <1>0, <2>1, <2>2, <2>4, <2>5 DEF StepTypes, Ranges
<1>2. CASE Frame
  <2>1. UNCHANGED <<up, evicts, disk, gpu, age, present, failures, live, warm, talk, spent>>
    BY <1>2 DEF Frame
  <2> QED  BY <1>0, <2>1 DEF StepTypes, Ranges
<1>3. CASE AskPartial
  <2>1. talk' \in Talks /\ talk'.at = "partial" /\ talk.at = "live"
    BY <1>0, <1>3 DEF AskPartial, Talks
  <2>2. age' \in Ages /\ gpu' = Append(gpu, "partial")
    BY <1>0, <1>3, AgesStay DEF AskPartial, Transcribe
  <2>3. Agree(gpu', warm, talk')
    BY <1>0, <2>1, <2>2, TalkAwaits DEF TalkJobs
  <2>4. UNCHANGED <<up, evicts, disk, present, failures, live, warm, spent>>
    BY <1>3 DEF AskPartial
  <2> QED  BY <1>0, <2>1, <2>2, <2>3, <2>4 DEF StepTypes, Ranges
<1> QED  BY <1>1, <1>2, <1>3

\* A dictation as it ends.
LEMMA TalkEndsTypes == TypeInv /\ TalkEnds => StepTypes
<1> SUFFICES ASSUME TypeInv, TalkEnds PROVE StepTypes
  OBVIOUS
<1>0. /\ Ranges /\ talk \in Talks /\ gpu \in Seq(Jobs) /\ Agree(gpu, warm, talk)
      /\ NoTalk \in Talks /\ NoTalk.at = "none"
  BY Initially DEF TypeInv, Ranges, ResidencyInv, NoTalk
<1>1. CASE Stop
  <2>1. talk' \in Talks /\ talk'.at = "final" /\ talk.at = "live"
    BY <1>0, <1>1 DEF Stop, Talks
  <2>2. age' \in Ages /\ gpu' = Append(gpu, "final")
    BY <1>0, <1>1, AgesStay DEF Stop, Transcribe
  <2>3. Agree(gpu', warm, talk')
    BY <1>0, <2>1, <2>2, TalkAwaits DEF TalkJobs
  <2>4. UNCHANGED <<up, evicts, disk, present, failures, live, warm, spent>>
    BY <1>1 DEF Stop
  <2> QED  BY <1>0, <2>1, <2>2, <2>3, <2>4 DEF StepTypes, Ranges
<1>2. CASE Leave
  <2>1. talk' = NoTalk /\ talk.at = "live" /\ live' \in Lives
    BY <1>0, <1>2, OutcomeIsNoted DEF Leave
  <2>2. UNCHANGED <<up, evicts, disk, gpu, age, present, failures, warm, spent>>
    BY <1>2 DEF Leave
  <2>3. Agree(gpu, warm, talk')
    BY <1>0, <2>1, AgreeStays DEF TalkJobs
  <2> QED  BY <1>0, <2>1, <2>2, <2>3 DEF StepTypes, Ranges, Lives
<1>3. CASE TalkReadsDisk
  <2>1. disk \in BOOLEAN  BY <1>0 DEF Ranges
  <2>2. talk' \in Talks /\ talk'.at = "checked" /\ talk.at = "check"
    BY <1>0, <1>3, <2>1 DEF TalkReadsDisk, Talks
  <2>3. UNCHANGED <<up, evicts, disk, gpu, age, present, failures, live, warm, spent>>
    BY <1>3 DEF TalkReadsDisk
  <2>4. Agree(gpu, warm, talk')
    BY <1>0, <2>2, AgreeStays DEF TalkJobs
  <2> QED  BY <1>0, <2>2, <2>3, <2>4 DEF StepTypes, Ranges
<1>4. CASE TalkFails
  <2>1. talk' = NoTalk /\ talk.at = "checked" /\ live' \in Lives
    BY <1>0, <1>4, OutcomeIsNoted DEF TalkFails
  <2>2. present' \in BOOLEAN
    BY <1>0, <1>4 DEF TalkFails, Talks
  <2>3. UNCHANGED <<up, evicts, disk, gpu, age, failures, warm, spent>>
    BY <1>4 DEF TalkFails
  <2>4. Agree(gpu, warm, talk')
    BY <1>0, <2>1, AgreeStays DEF TalkJobs
  <2> QED  BY <1>0, <2>1, <2>2, <2>3, <2>4 DEF StepTypes, Ranges, Lives
<1> QED  BY <1>1, <1>2, <1>3, <1>4 DEF TalkEnds

\* What a dictation sees of its decode.
LEMMA TalkResultTypes ==
  ASSUME Ranges, NEW job \in TalkJobs, NEW ok \in BOOLEAN, TalkResult(job, ok)
  PROVE  /\ age' \in Ages /\ live' \in Lives
         /\ talk' \in Talks /\ talk'.at \notin TalkJobs
<1>0. talk \in Talks /\ live \in Lives /\ age \in Ages /\ NoTalk \in Talks /\ NoTalk.at = "none"
  BY Initially DEF Ranges, Lives, NoTalk
<1>1. CASE ~Loads(manager, "asr", ok)
  <2>1. talk' = [talk EXCEPT !.at = "check"] /\ age' = [age EXCEPT !.check = 0] /\ live' = live
    BY <1>1 DEF TalkResult
  <2> QED  BY <1>0, <2>1, AgesStay DEF Talks, TalkJobs
<1>2. CASE Loads(manager, "asr", ok)
  <2> DEFINE text == /\ talk.spoke /\ ok /\ (job = "final" \/ ShortDecodeHasText(ok))
  <2>1. /\ talk' = IF job = "final" THEN NoTalk
                   ELSE [talk EXCEPT !.at = "live", !.partials = text]
        /\ age' = [age EXCEPT !.good = IF text THEN 0 ELSE @]
        /\ IF job = "final" THEN NoteSessionOutcome(text) ELSE UNCHANGED live
    BY <1>2, Zenon DEF TalkResult
  <2>2. text \in BOOLEAN  OBVIOUS
  <2> HIDE DEF text
  <2>3. talk' \in Talks /\ talk'.at \notin TalkJobs
    BY <1>0, <2>1, <2>2 DEF Talks, TalkJobs
  <2>4. age' \in {[age EXCEPT !.good = 0], age}
    BY <1>0, <2>1 DEF Ages
  <2>5. live' \in Lives
    BY <1>0, <2>1, OutcomeIsNoted
  <2> QED  BY <1>0, <2>3, <2>4, <2>5, AgesStay
<1> QED  BY <1>1, <1>2

\* A job of the GPU thread: it ends the await of who queued it, and of nobody else.
LEMMA RunTypes ==
  ASSUME TypeInv, gpu # <<>>, NEW ok \in BOOLEAN, Run(Head(gpu), ok)
  PROVE  /\ age' \in Ages /\ live' \in Lives /\ talk' \in Talks
         /\ Agree(Tail(gpu), warm', talk')
<1> DEFINE h == Head(gpu)
<1>0. /\ Ranges /\ warm \in WarmLoop /\ gpu \in Seq(Jobs) /\ Agree(gpu, warm, talk)
      /\ h \in Jobs /\ talk \in Talks /\ live \in Lives /\ age \in Ages
  BY DEF TypeInv, Ranges, ResidencyInv, Lives
<1>1. IF h \in WarmJobs THEN warm'.at \notin WarmJobs ELSE warm' = warm
  <2>1. WarmResult(h, ok)  BY DEF Run
  <2>2. CASE h = "probe"
    <3>1. warm' \in {[warm EXCEPT !.at = "probed", !.outcome = o] : o \in {"text", "blank"}}
      BY <2>1, <2>2 DEF WarmResult
    <3> QED  BY <1>0, <2>2, <3>1 DEF WarmLoop, WarmJobs
  <2>3. CASE h = "warm_reload"
    <3>1. warm' \in {[warm EXCEPT !.at = "reloaded", !.outcome = o] : o \in {"done", "raised"}}
      BY <2>1, <2>3 DEF WarmResult
    <3> QED  BY <1>0, <2>3, <3>1 DEF WarmLoop, WarmJobs
  <2>4. CASE h = "heal_reload"
    BY <2>1, <2>4 DEF WarmResult, Asleep, WarmJobs
  <2>5. CASE h \notin WarmJobs
    BY <2>1, <2>5 DEF WarmResult, WarmJobs
  <2> QED  BY <2>2, <2>3, <2>4, <2>5 DEF WarmJobs
<1>2. CASE h \in TalkJobs
  <2>1. TalkResult(h, ok)  BY <1>2 DEF Run, TalkJobs
  <2>2. age' \in Ages /\ live' \in Lives /\ talk' \in Talks /\ talk'.at \notin TalkJobs
    BY <1>0, <1>2, <2>1, TalkResultTypes
  <2>3. Agree(Tail(gpu), warm', talk')
    BY <1>0, <1>1, <1>2, <2>2, AgreeServes
  <2> QED  BY <2>2, <2>3
<1>3. CASE h \notin TalkJobs
  <2>1. age' \in {[age EXCEPT !.slept = 0], age} /\ UNCHANGED <<live, talk>>
    BY <1>3 DEF Run, TalkJobs
  <2>2. Agree(Tail(gpu), warm', talk')
    BY <1>0, <1>1, <1>3, <2>1, AgreeServes
  <2> QED  BY <1>0, <2>1, <2>2, AgesStay
<1> QED  BY <1>2, <1>3

LEMMA GpuTypes == TypeInv /\ GpuStep => StepTypes
<1> SUFFICES ASSUME TypeInv, GpuStep PROVE StepTypes
  OBVIOUS
<1>1. PICK ok \in BOOLEAN : Run(Head(gpu), ok)  BY DEF GpuStep
<1>2. gpu # <<>> /\ gpu' = Tail(gpu) /\ UNCHANGED <<up, evicts, disk, present, failures>>
  BY DEF GpuStep
<1>3. /\ age' \in Ages /\ live' \in Lives /\ talk' \in Talks
      /\ Agree(Tail(gpu), warm', talk')
  BY <1>1, <1>2, RunTypes
<1>4. spent' \in [faults: 0 .. MaxFaults, clients: 0 .. MaxClients]
  <2>1. UNCHANGED spent \/ Fault  BY DEF GpuStep
  <2> QED  BY <2>1, FaultIsCounted DEF TypeInv, Ranges
<1> QED  BY <1>2, <1>3, <1>4 DEF StepTypes, TypeInv, Ranges, Lives

\* The gate of the loop: back to sleep, or a job of its own.
LEMMA GateTypes ==
  ASSUME TypeInv, Gate, warm.at \notin WarmJobs, UNCHANGED talk
  PROVE  age' \in Ages /\ live' \in Lives /\ Agree(gpu', warm', talk')
<1>0. /\ Ranges /\ age \in Ages /\ live \in Lives /\ gpu \in Seq(Jobs) /\ Agree(gpu, warm, talk)
  BY DEF TypeInv, Ranges, ResidencyInv, Lives
<1>1. live' \in {NoWitness, live}  BY DEF Gate
<1>2. \/ warm' = Asleep /\ gpu' = gpu /\ age' = [age EXCEPT !.slept = 0]
      \/ /\ warm' = [Asleep EXCEPT !.at = "warm_reload", !.idle_before = manager.idle]
         /\ gpu' = Append(gpu, "warm_reload") /\ age' = age
      \/ /\ warm' = [Asleep EXCEPT !.at = "probe", !.idle_before = manager.idle]
         /\ gpu' = Append(gpu, "probe") /\ age' = [age EXCEPT !.transcribe = 0]
  BY Zenon DEF Gate, BackToSleep, StartProbe, Transcribe
<1>3. age' \in Ages  BY <1>0, <1>2, AgesStay
<1>4. ASSUME warm' = Asleep, gpu' = gpu  PROVE Agree(gpu', warm', talk')
  <2>1. Agree(gpu, warm', talk)  BY <1>0, <1>4, AgreeStays DEF Asleep, WarmJobs
  <2> QED  BY <1>4, <2>1
<1>5. ASSUME NEW job \in {"warm_reload", "probe"},
             warm' = [Asleep EXCEPT !.at = job, !.idle_before = manager.idle],
             gpu' = Append(gpu, job)
      PROVE  Agree(gpu', warm', talk')
  <2>1. warm'.at = job /\ job \in WarmJobs  BY <1>5 DEF Asleep, WarmJobs
  <2>2. Agree(Append(gpu, job), warm', talk)  BY <1>0, <2>1, WarmAwaits
  <2> QED  BY <1>5, <2>2
<1>6. Agree(gpu', warm', talk')  BY <1>2, <1>4, <1>5
<1> QED  BY <1>0, <1>1, <1>3, <1>6, Initially

\* The keep-warm loop.
LEMMA WarmTypes == TypeInv /\ WarmStep => StepTypes
<1> SUFFICES ASSUME TypeInv, WarmStep PROVE StepTypes
  OBVIOUS
<1>0. /\ Ranges /\ age \in Ages /\ live \in Lives /\ gpu \in Seq(Jobs) /\ Agree(gpu, warm, talk)
      /\ warm \in WarmLoop /\ Asleep.at = "asleep"
  BY DEF TypeInv, Ranges, ResidencyInv, Lives, Asleep
<1>1. CASE WarmWakes
  <2>1. warm.at = "asleep" /\ UNCHANGED <<up, evicts, disk, present, failures, talk, spent>>
    BY <1>1 DEF WarmWakes
  <2>2. CASE Gate
    BY <1>0, <2>1, <2>2, GateTypes DEF StepTypes, Ranges, WarmJobs, Lives
  <2>3. CASE /\ warm' = [Asleep EXCEPT !.at = "check"] /\ age' = [age EXCEPT !.check = 0]
             /\ UNCHANGED <<gpu, live>>
    <3>1. warm'.at = "check"  BY <2>3 DEF Asleep
    <3>2. Agree(gpu, warm', talk)  BY <1>0, <2>1, <3>1, AgreeStays DEF WarmJobs
    <3>3. age' \in Ages  BY <1>0, <2>3, AgesStay
    <3> QED  BY <1>0, <2>1, <2>3, <3>2, <3>3 DEF StepTypes, Ranges
  <2> QED  BY <1>1, <2>2, <2>3 DEF WarmWakes
<1>2. CASE WarmReadsDisk
  <2>1. warm'.at = "checked" /\ warm.at = "check"  BY <1>0, <1>2 DEF WarmReadsDisk, WarmLoop
  <2>2. UNCHANGED <<up, evicts, disk, gpu, age, present, failures, live, talk, spent>>
    BY <1>2 DEF WarmReadsDisk
  <2>3. Agree(gpu, warm', talk)  BY <1>0, <2>1, AgreeStays DEF WarmJobs
  <2> QED  BY <1>0, <2>2, <2>3 DEF StepTypes, Ranges
<1>3. CASE WarmChecked
  <2>1. /\ warm.at = "checked" /\ Gate /\ present' = warm.read
        /\ UNCHANGED <<up, evicts, disk, failures, talk, spent>>
    BY <1>3 DEF WarmChecked
  <2>2. present' \in BOOLEAN  BY <1>0, <2>1 DEF WarmLoop
  <2>3. age' \in Ages /\ live' \in Lives /\ Agree(gpu', warm', talk')
    BY <2>1, GateTypes DEF WarmJobs
  <2> QED  BY <1>0, <2>1, <2>2, <2>3 DEF StepTypes, Ranges, Lives
<1>4. CASE WarmReloaded
  <2>1. warm.at = "reloaded" /\ UNCHANGED <<up, evicts, disk, present, failures, talk, spent>>
    BY <1>4 DEF WarmReloaded
  <2>2. CASE warm' = Asleep /\ age' = [age EXCEPT !.slept = 0] /\ UNCHANGED <<gpu, live>>
    <3>1. Agree(gpu, warm', talk)  BY <1>0, <2>1, <2>2, AgreeStays DEF WarmJobs
    <3>2. age' \in Ages  BY <1>0, <2>2, AgesStay
    <3> QED  BY <1>0, <2>1, <2>2, <3>1, <3>2 DEF StepTypes, Ranges
  <2>3. CASE live' = NoWitness /\ StartProbe(Restored)
    <3>1. warm' = [Asleep EXCEPT !.at = "probe", !.idle_before = Restored.idle]
          /\ age' = [age EXCEPT !.transcribe = 0] /\ gpu' = Append(gpu, "probe")
      BY <2>3 DEF StartProbe, Transcribe
    <3>2. warm'.at = "probe" /\ "probe" \in WarmJobs  BY <3>1 DEF Asleep, WarmJobs
    <3>3. Agree(gpu', warm', talk)
      BY <1>0, <2>1, <3>1, <3>2, WarmAwaits DEF WarmJobs
    <3>4. age' \in Ages /\ live' \in Lives  BY <1>0, <2>3, <3>1, AgesStay, Initially
    <3> QED  BY <1>0, <2>1, <3>3, <3>4 DEF StepTypes, Ranges, Lives
  <2> QED  BY <1>4, <2>2, <2>3 DEF WarmReloaded, BackToSleep
<1>5. CASE ProbeFindsText
  <2>1. /\ warm.at = "probed" /\ warm' = Asleep /\ failures' = 0
        /\ age' = [age EXCEPT !.good = 0, !.slept = 0]
        /\ UNCHANGED <<up, evicts, disk, gpu, present, live, talk, spent>>
    BY <1>5 DEF ProbeFindsText
  <2>2. Agree(gpu, warm', talk)  BY <1>0, <2>1, AgreeStays DEF WarmJobs
  <2>3. age' \in Ages /\ failures' \in 0 .. FailLimit  BY <1>0, <2>1, AgesStay, Limits
  <2> QED  BY <1>0, <2>1, <2>2, <2>3 DEF StepTypes, Ranges
<1>6. CASE ProbeIsBlank
  <2>1. warm.at = "probed" /\ UNCHANGED <<evicts, disk, present, spent>>
    BY <1>6 DEF ProbeIsBlank
  <2>2. failures' \in 0 .. FailLimit
    <3>1. failures' = Min({failures + 1, FailLimit})  BY <1>6 DEF ProbeIsBlank
    <3> QED  BY <1>0, <3>1, Limits, CountIsBounded DEF Ranges
  <2>3. \/ BackToSleep /\ UNCHANGED <<up, gpu, live, talk>>
        \/ Exit /\ UNCHANGED age
        \/ /\ warm' = [Asleep EXCEPT !.at = "heal_reload"]
           /\ gpu' = Append(gpu, "heal_reload")
           /\ UNCHANGED <<up, age, live, talk>>
    BY <1>6, Zenon DEF ProbeIsBlank
  <2>4. CASE BackToSleep /\ UNCHANGED <<up, gpu, live, talk>>
    <3>1. warm' = Asleep /\ age' = [age EXCEPT !.slept = 0]  BY <2>4 DEF BackToSleep
    <3>2. Agree(gpu, warm', talk)  BY <1>0, <2>1, <3>1, AgreeStays DEF WarmJobs
    <3>3. age' \in Ages  BY <1>0, <3>1, AgesStay
    <3> QED  BY <1>0, <2>1, <2>2, <2>4, <3>2, <3>3 DEF StepTypes, Ranges
  <2>5. CASE Exit /\ UNCHANGED age
    <3>1. /\ up' = FALSE /\ gpu' = <<>> /\ live' = NoWitness /\ warm' = Asleep
          /\ talk' = NoTalk /\ age' = age
      BY <2>5 DEF Exit
    <3> QED
      BY <1>0, <2>1, <2>2, <3>1, AgreeOnNothing, Initially DEF StepTypes, Ranges, Lives
  <2>6. CASE /\ warm' = [Asleep EXCEPT !.at = "heal_reload"]
             /\ gpu' = Append(gpu, "heal_reload")
             /\ UNCHANGED <<up, age, live, talk>>
    <3>1. warm'.at = "heal_reload" /\ "heal_reload" \in WarmJobs
      BY <2>6 DEF Asleep, WarmJobs
    <3>2. Agree(gpu', warm', talk)  BY <1>0, <2>1, <2>6, <3>1, WarmAwaits DEF WarmJobs
    <3> QED  BY <1>0, <2>1, <2>2, <2>6, <3>2 DEF StepTypes, Ranges
  <2> QED  BY <2>3, <2>4, <2>5, <2>6
<1> QED  BY <1>1, <1>2, <1>3, <1>4, <1>5, <1>6 DEF WarmStep

LEMMA StepKeepsTypes == TypeInv /\ [Next]_vars => TypeInv'
<1> SUFFICES ASSUME TypeInv, [Next]_vars PROVE TypeInv'
  OBVIOUS
<1>1. ResidencyInv'  BY StepKeepsResidency DEF TypeInv
<1>2. StepTypes
  <2>1. CASE UNCHANGED vars
    BY <2>1 DEF vars, TypeInv, StepTypes, Ranges
  <2>2. CASE Next
    BY <2>2, TickTypes, WorldTypes, RestartTypes, QueueTypes, TalkTypes, TalkEndsTypes,
       GpuTypes, WarmTypes DEF Next
  <2> QED  BY <2>1, <2>2
<1> QED  BY <1>1, <1>2 DEF TypeInv, StepTypes

\* Counters, ages and states stay in range, and a coroutine that awaits a job of
\* the GPU thread has it in the queue: the keep-warm loop and the dictation are
\* never left waiting for a job that an exit, a restart or another's job took away.
THEOREM TypeCorrect == Spec => []TypeOK
<1>1. Init => TypeInv  BY InitResidency, InitTypes DEF TypeInv
<1>2. TypeInv => TypeOK
  BY DEF TypeInv, ResidencyInv, Good, Ranges, Agree, TypeOK, WarmJobs, TalkJobs
<1> QED  BY <1>1, <1>2, StepKeepsTypes, PTL DEF Spec

=============================================================================
