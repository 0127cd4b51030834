---------------------------- MODULE ModelManager ----------------------------
(***************************************************************************)
(* AsrModelManager (polyasr_manager.py): which model units are resident,   *)
(* what each one holds, and how long ago the manager was last used.  A     *)
(* manager is a record                                                     *)
(*   resident  the units in _resident                                      *)
(*   model     model[u]: what units[u].model is: "none" (not loaded),      *)
(*             "sound", or "rotted", a loaded session whose short-window   *)
(*             decode has gone blank                                       *)
(*   idle      ticks since last_used, counted up to IDLE_EVICT + 1         *)
(* Every operation runs whole on the GPU thread under _guard, except touch *)
(* which is one assignment.                                                *)
(***************************************************************************)
EXTENDS Naturals, FiniteSetsExt

CONSTANTS
  Units,        \* names of the managed units; "asr" is the streaming model
  IDLE_EVICT    \* POLYASR_IDLE_EVICT_SECONDS in ticks, where it is on

ASSUME ManagerAssumption == "asr" \in Units /\ IDLE_EVICT \in Nat \ {0}

Managers ==
  [resident: SUBSET Units,
   model: [Units -> {"none", "sound", "rotted"}],
   idle: 0 .. IDLE_EVICT + 1]

\* What is called resident holds a model; with co-load off one unit does.
Consistent(m, coload) ==
  /\ m.resident = {u \in Units : m.model[u] # "none"}
  /\ ~coload => \A u, v \in m.resident : u = v

\* Every unit of S unloaded: its model dropped and its name discarded.
Unload(m, S) ==
  [m EXCEPT !.resident = @ \ S,
            !.model = [u \in Units |-> IF u \in S THEN "none" ELSE @[u]]]

NoneResident == [resident |-> {}, model |-> [u \in Units |-> "none"], idle |-> 0]

\* ensure(u) where the unit is resident, or its load succeeds: with co-load
\* off every other unit is unloaded before the load.
Ensure(m, coload, u) ==
  LET room == IF coload THEN m ELSE Unload(m, m.resident \ {u})
  IN IF u \in m.resident
     THEN [m EXCEPT !.idle = 0]
     ELSE [room EXCEPT !.resident = @ \cup {u}, !.model[u] = "sound", !.idle = 0]

\* Mutant: the name is added before the load that may raise.
EnsureRaisesLate(m, coload, u) ==
  [(IF coload THEN m ELSE Unload(m, m.resident \ {u})) EXCEPT !.resident = @ \cup {u}]

\* ensure(u) where the load raises: what was unloaded to make room stays so.
EnsureRaises(m, coload, u) ==
  IF coload THEN m ELSE Unload(m, m.resident \ {u})

Touch(m) == [m EXCEPT !.idle = 0]

UnloadNow(m) == Unload(m, m.resident)

EvictUnit(m, u) == Unload(m, m.resident \cap {u})

\* maybe_evict() where POLYASR_IDLE_EVICT_SECONDS is positive.
MaybeEvict(m) ==
  IF m.resident # {} /\ m.idle > IDLE_EVICT THEN Unload(m, m.resident) ELSE m

\* One tick of time.
Aged(m) == [m EXCEPT !.idle = Min({@ + 1, IDLE_EVICT + 1})]

=============================================================================
