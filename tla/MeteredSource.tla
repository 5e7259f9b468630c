--------------------------- MODULE MeteredSource ---------------------------
(***************************************************************************)
(* One plug and all that the emulator does with its energy: the two        *)
(* counters in the hardware, the client that selects one (ShellyClient),   *)
(* the virtual counter (EnergyCounter), what of it is on disk, restarts    *)
(* with other settings.  MeterRuntime and StateFile show how the disk is   *)
(* written; here a save is one step.                                       *)
(*                                                                         *)
(* The plug is external.  Each of its counters only grows until the plug   *)
(* is reset; it reports a counter up to Jitter too low, which is what the  *)
(* reset tolerance of update() is for.                                     *)
(***************************************************************************)
EXTENDS EnergyCounter, ShellyClient

CONSTANTS
    Jitter,     \* what a reported counter may lack
    MaxCount,   \* bound: the plug counts no more than this
    Powers,     \* active power a payload may report
    Configured  \* the settings the user may choose

ASSUME SourceAssumption ==
    /\ Fields = {"aenergy", "ret_aenergy"}
    /\ Jitter \in 0..WattHour
    /\ MaxCount \in Nat
    /\ Powers \subseteq Int
    /\ Configured \subseteq Settings
    /\ MinPower \in Nat
    /\ Missing \notin Nat
    /\ Undetermined \notin BOOLEAN

VARIABLES
    plug,       \* the two counters in the hardware
    counted,    \* all energy they have counted
    set,        \* the settings the process runs with
    latch,      \* _auto_uses_negative
    counter,    \* the virtual counter in memory
    stored,     \* and on disk
    credit,     \* history: the energy that may be shown at most
    owed,       \* history: the energy shown once the plug is read again
    wasReset    \* the selected counter was reset since it was selected

plugVars == <<plug, counted>>
clientVars == <<set, latch>>
counterVars == <<counter, stored>>
historyVars == <<credit, owed, wasReset>>
vars == <<plugVars, clientVars, counterVars, historyVars>>

Init ==
    /\ plug = [f \in Fields |-> 0] /\ counted = 0
    /\ set \in Configured /\ latch = Undetermined
    /\ counter = NoCounter /\ stored = NoCounter
    /\ credit = 0 /\ owed = 0 /\ wasReset = FALSE
-----------------------------------------------------------------------------
(* The plug *)

Selected(f) == counter # NoCounter /\ counter.field = f

\* One unit of energy flows in the direction that counter f counts.
Count(f) ==
    /\ counted < MaxCount
    /\ counted' = counted + 1
    /\ plug' = [plug EXCEPT ![f] = @ + 1]
    /\ credit' = IF Selected(f) THEN credit + 1 ELSE credit
    /\ owed' = IF Selected(f) THEN owed + 1 ELSE owed
    /\ UNCHANGED <<clientVars, counterVars, wasReset>>

\* Both counters restart at zero (a replaced or factory-reset plug).
ResetPlug ==
    /\ plug # [f \in Fields |-> 0]
    /\ plug' = [f \in Fields |-> 0]
    /\ wasReset' = (counter # NoCounter)
    /\ UNCHANGED <<counted, clientVars, counterVars, credit, owed>>

\* What a counter may read in a payload: a little less, or nothing.
Reported(n) == {Missing} \cup {n - j : j \in {k \in 0..Jitter : k <= n}}

Payloads ==
    {p \in [power : Powers, total : [Fields -> {Missing} \cup 0..MaxCount]] :
        \A f \in Fields : p.total[f] \in Reported(plug[f])}
-----------------------------------------------------------------------------
(* Poll, save, restart *)

\* A reading the meter accepts: its latch, and the counter it leads to.  What
\* is urgent or raises the energy is on disk before it is shown.
Poll(p) ==
    LET r == Parse(set, latch, p)
        c == UpdateCounter(counter, r.raw, r.field)
        selects == counter = NoCounter \/ r.field # counter.field
    IN  /\ Usable(set, latch, p)
        /\ UpdateAllowed(counter, r.raw, r.field)
        /\ latch' = Latch(set, latch, r)
        /\ counter' = c
        /\ stored' = IF UrgentUpdate(counter, r.raw, r.field) \/ Energy(c) # Energy(counter)
                     THEN c ELSE stored
        /\ credit' = IF selects THEN Energy(c) + (plug[r.field] - r.raw) ELSE credit
        /\ owed' = IF selects THEN Energy(c) ELSE owed
        /\ wasReset' = (wasReset /\ ~selects)
        /\ UNCHANGED <<plugVars, set>>

\* flush_metadata(), or a graceful stop.
Flush ==
    /\ stored # counter
    /\ stored' = counter
    /\ UNCHANGED <<plugVars, clientVars, counter, historyVars>>

\* The process ends in any way and starts again, perhaps with new settings.
Restart ==
    /\ set' \in Configured
    /\ latch' = Undetermined
    /\ counter' = stored
    /\ UNCHANGED <<plugVars, stored, historyVars>>

Next ==
    \/ \E f \in Fields : Count(f)
    \/ ResetPlug
    \/ \E p \in Payloads : Poll(p)
    \/ Flush
    \/ Restart

Spec == Init /\ [][Next]_vars
-----------------------------------------------------------------------------
(* Properties *)

\* The variables have their types.
TypeOK ==
    /\ plug \in [Fields -> 0..counted] /\ counted \in 0..MaxCount
    /\ set \in Settings /\ latch \in Latches
    /\ counter \in Counter \cup {NoCounter} /\ stored \in Counter \cup {NoCounter}
    /\ credit \in Nat /\ owed \in Nat /\ wasReset \in BOOLEAN

\* No energy is counted twice: the meter shows no more than it showed when the
\* field was selected (the plug's own total at first), and what the plug has
\* counted in that field since.  Resets, crashes with stale metadata, and the
\* history a newly selected field brings along add nothing.
NoOverCount == Energy(counter) <= credit

\* While the plug is not reset no energy is lost: the next exact reading shows
\* everything the selected counter has counted, unless it is more than float32
\* holds: whatever polls were missed, whatever metadata a crash has taken back.
NothingLost ==
    (counter # NoCounter /\ ~wasReset) =>
        LET f == counter.field
        IN  UpdateAllowed(counter, plug[f], f) =>
                owed <= Energy(UpdateCounter(counter, plug[f], f))

\* The automatic choice is made once per process: a plug whose ret_aenergy is
\* missing for a while is not read from its other counter.
FieldIsPinned ==
    [][latch # Undetermined /\ counter # NoCounter => counter'.field = counter.field]_vars

\* With automatic settings, a reading shows power for the direction whose
\* energy it reports, and for no other: at night, with a counter missing,
\* before and after the choice has been pinned.
PowerMatchesEnergy ==
    (set.direction = "auto" /\ set.field = "auto") =>
        \A p \in Payloads :
            LET r == Parse(set, latch, p)
            IN  r.power > 0 => (r.field = "ret_aenergy" <=> p.power < 0)
=============================================================================
