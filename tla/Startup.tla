------------------------------ MODULE Startup ------------------------------
(***************************************************************************)
(* From the settings to the first register image (config.py: load_config;  *)
(* app.py: run up to the poller; state.py: set_phases).  The service is    *)
(* started again and again, with other settings each time if the operator  *)
(* likes, over one state file, whose first document may be of a version    *)
(* that saved no phases.  While it serves, energy grows; MeterRuntime has  *)
(* the details of that.                                                    *)
(*                                                                         *)
(* The synchronous part of a start is one action: it ends at the startup   *)
(* save, the only await before anything is shown.                          *)
(***************************************************************************)
EXTENDS Aggregation

CONSTANTS
    Slots,          \* "shelly_1" and "shelly_2": the plugs that can be configured
    Names,          \* every source a state file may mention
    BadPhase,       \* a SHELLY_n_PHASE that is no phase
    Environments,   \* the settings the operator may choose
    Levels,         \* the energies a source may reach
    InitDocument,   \* the state file before the first start
    FaultSets       \* faults that may meet in one history, see DurableStore

NoDocument == [energy |-> [n \in {} |-> 0], phases |-> [n \in {} |-> "L1"]]

\* Settings: for each slot its host (or none), phase and the rest; the meter
\* model; whether everything else is in range.
ASSUME StartupAssumption ==
    /\ Slots \subseteq Names /\ IsFiniteSet(Names)
    /\ BadPhase \notin Phases
    /\ \A e \in Environments :
          \A n \in Slots : e.slot[n].phase \in Phases \cup {BadPhase}
    /\ Levels \subseteq Nat
    /\ DOMAIN InitDocument.energy \subseteq Names
    /\ DOMAIN InitDocument.phases \subseteq Names
    /\ \A n \in DOMAIN InitDocument.energy : InitDocument.energy[n] \in Levels
    /\ \A n \in DOMAIN InitDocument.phases : InitDocument.phases[n] \in Phases
    /\ FaultSets \subseteq SUBSET {"kill", "power", "early", "late"}

VARIABLES
    visible, outcomes, writer, doc,     \* the state file, see DurableStore
    faults,     \* the faults of this history, the same throughout
    env,        \* the environment variables
    run,        \* "down", "saving" (startup save), "opening", "serving", "growing"
    energy,     \* state._sources: the energy of each
    phases,     \* state._source_phases
    bank,       \* exported energy per phase, as clients can read it
    shown       \* history: the last total energy clients could read

Store == INSTANCE DurableStore WITH Faults <- UNION FaultSets

storeVars == <<visible, outcomes, writer, doc>>
stateVars == <<energy, phases>>
meterVars == <<bank, shown>>
vars == <<storeVars, faults, env, run, stateVars, meterVars>>
-----------------------------------------------------------------------------
(* load_config() *)

Active(e) == {n \in Slots : e.slot[n].host}

\* A plug without a host is off, and its other settings are not looked at.
LoadsConfig(e) ==
    /\ e.legal /\ e.model \in MeterModels
    /\ Active(e) # {}
    /\ \A n \in Active(e) : e.slot[n].legal /\ e.slot[n].phase \in Phases
-----------------------------------------------------------------------------
(* set_phases() *)

\* Mutant of PhaseFor: the setting of a disabled plug beats its saved phase.
PhaseForSettingFirst(n, saved, e) ==
    IF n \in Slots THEN e.slot[n].phase
    ELSE IF n \in DOMAIN saved THEN saved[n]
    ELSE BadPhase

\* The setting of an active plug, else the saved phase, else the setting of a
\* disabled plug (legacy_source_phases), else none.
PhaseFor(n, saved, e) ==
    IF n \in Active(e) THEN e.slot[n].phase
    ELSE IF n \in DOMAIN saved THEN saved[n]
    ELSE IF n \in Slots THEN e.slot[n].phase
    ELSE BadPhase

\* Mutant of Placed: only active plugs get a phase.
PlacedActive(counted, e) == Active(e)

\* The sources that need a phase.
Placed(counted, e) == DOMAIN counted \cup Active(e)

\* Otherwise StateError
Assignable(counted, saved, e) ==
    \A n \in Placed(counted, e) : PhaseFor(n, saved, e) \in Phases

WithPhasesSet(counted, saved, e) ==
    [n \in Placed(counted, e) \cup DOMAIN saved |->
        IF n \in Placed(counted, e) THEN PhaseFor(n, saved, e) ELSE saved[n]]
-----------------------------------------------------------------------------
(* run() *)

Exported(counted, placed) == [p \in Phases |-> PhaseEnergy(counted, placed, p)]

Total(counted, placed) ==
    LET on == Exported(counted, placed) IN on["L1"] + on["L2"] + on["L3"]

\* _registers(config, [], candidate) does not raise.
Fits(e, counted, placed) ==
    Buildable(e.model, Aggregate([n \in {} |-> 0], counted, placed))

\* What run() finds out about a stored document before it does anything.
Accepts(e, d) ==
    /\ LoadsConfig(e)
    /\ Assignable(d.energy, d.phases, e)
    /\ Fits(e, d.energy, WithPhasesSet(d.energy, d.phases, e))

Show(counted, placed) ==
    /\ bank' = Exported(counted, placed)
    /\ shown' = Total(counted, placed)

NoEnergy == [p \in Phases |-> 0]

Init ==
    /\ Store!StoreInit
    /\ faults \in FaultSets
    /\ env \in Environments /\ run = "down"
    /\ energy = NoDocument.energy /\ phases = NoDocument.phases
    /\ bank = NoEnergy /\ shown = 0

Configure ==
    /\ run = "down"
    /\ env' \in Environments
    /\ UNCHANGED <<storeVars, run, stateVars, meterVars>>

\* Mutant of StartSaving: Modbus is opened while the startup save runs.
StartSavingOpen(placed) ==
    /\ Store!BeginSave([energy |-> visible.energy, phases |-> placed])
    /\ run' = "opening"
    /\ Show(visible.energy, placed)

StartSaving(placed) ==
    /\ Store!BeginSave([energy |-> visible.energy, phases |-> placed])
    /\ run' = "saving"
    /\ UNCHANGED meterVars

\* A document from the backup is saved in any case.  A start that is refused
\* changes nothing.
Start ==
    LET placed == WithPhasesSet(visible.energy, visible.phases, env)
    IN  /\ run = "down"
        /\ Accepts(env, visible)
        /\ energy' = visible.energy /\ phases' = placed
        /\ \/ StartSaving(placed)
           \/ /\ placed = visible.phases
              /\ run' = "opening"
              /\ Show(visible.energy, placed)
              /\ UNCHANGED storeVars
        /\ UNCHANGED env

StartSaved ==
    /\ run = "saving"
    /\ Store!Joined("saved")
    /\ run' = "opening"
    /\ Show(energy, phases)
    /\ UNCHANGED <<env, stateVars>>

\* server.start() has opened the port; _poll_sources sets the phases again.
Opened ==
    /\ run = "opening"
    /\ run' = "serving"
    /\ phases' = WithPhasesSet(energy, phases, env)
    /\ UNCHANGED <<storeVars, env, energy, meterVars>>

\* Mutant of MayGrow: the energy is not tried on the registers first.
MayGrowUnchecked(grown) == TRUE

MayGrow(grown) == Fits(env, grown, phases)

\* Mutant of GrowSaving: the new energy is published before it is saved.
GrowSavingShown(grown) ==
    /\ Store!BeginSave([energy |-> grown, phases |-> phases])
    /\ Show(grown, phases)

GrowSaving(grown) ==
    /\ Store!BeginSave([energy |-> grown, phases |-> phases])
    /\ UNCHANGED meterVars

\* accept(): a plug's energy has grown, or is read for the first time.
Grow(n) ==
    /\ run = "serving" /\ n \in Active(env)
    /\ \E level \in Levels :
          LET grown == [m \in DOMAIN energy \cup {n} |-> IF m = n THEN level ELSE energy[m]]
          IN  /\ n \in DOMAIN energy => level > energy[n]
              /\ MayGrow(grown) /\ GrowSaving(grown)
    /\ run' = "growing"
    /\ UNCHANGED <<env, stateVars>>

Grown ==
    /\ run = "growing"
    /\ Store!Joined("saved")
    /\ run' = "serving"
    /\ energy' = doc.energy
    /\ Show(doc.energy, phases)
    /\ UNCHANGED <<env, phases>>

WriterSteps ==
    /\ Store!SaveStep
    /\ writer' = "failed" => (IF writer = "writing" THEN "early" ELSE "late") \in faults
    /\ UNCHANGED <<env, run, stateVars, meterVars>>
-----------------------------------------------------------------------------
(* The end of a run: what clients have seen stays known *)

Ends ==
    /\ run' = "down"
    /\ energy' = NoDocument.energy /\ phases' = NoDocument.phases
    /\ bank' = NoEnergy
    /\ UNCHANGED <<env, shown>>

\* Stopped, or the port is taken.
Stop ==
    /\ run \in {"opening", "serving"}
    /\ Ends
    /\ UNCHANGED storeVars

SaveFailed ==
    /\ run \in {"saving", "growing"}
    /\ Store!Joined("failed")
    /\ Ends

Killed ==
    /\ "kill" \in faults /\ run # "down"
    /\ Store!StoreKilled
    /\ Ends

PowerLoss ==
    /\ "power" \in faults
    /\ Store!StorePowerLoss
    /\ Ends

Next ==
    /\ \/ Configure \/ Start \/ StartSaved \/ Opened
       \/ \E n \in Slots : Grow(n)
       \/ Grown \/ WriterSteps
       \/ Stop \/ SaveFailed \/ Killed \/ PowerLoss
    /\ UNCHANGED faults

Spec == Init /\ [][Next]_vars
-----------------------------------------------------------------------------
(* Properties *)

IsDocument(d) ==
    /\ DOMAIN d.energy \subseteq Names /\ DOMAIN d.phases \subseteq Names
    /\ \A n \in DOMAIN d.energy : d.energy[n] \in Levels
    /\ \A n \in DOMAIN d.phases : d.phases[n] \in Phases

\* The variables have their types.
TypeOK ==
    /\ \A d \in outcomes \cup {visible, doc} : IsDocument(d)
    /\ IsDocument([energy |-> energy, phases |-> phases])
    /\ writer \in {"idle", "writing", "renamed", "saved", "failed"}
    /\ faults \in FaultSets
    /\ env \in Environments
    /\ run \in {"down", "saving", "opening", "serving", "growing"}

\* What the next start may load: with a power loss between, or without.
Survivors == {visible} \cup (IF "power" \in faults THEN outcomes ELSE {})

Shows == run \in {"opening", "serving", "growing"}

\* Clients see the energy of every source the state file has, disabled ones
\* and those of an old file without phases included (set_phases,
\* aggregate_readings: a source without a phase would be left out).
ShownIsEverything ==
    Shows => LET counted == energy
                 all == [n \in DOMAIN counted |-> "L1"]
             IN  bank["L1"] + bank["L2"] + bank["L3"] = PhaseEnergy(counted, all, "L1")

\* What clients can read on a phase is on that phase in whatever a crash leaves
\* behind: the migrated phases are saved before Modbus is opened, and energy
\* before it is published (run, accept).
ServedIsSaved ==
    Shows => \A d \in Survivors : \A p \in Phases :
                 PhaseEnergy(d.energy, d.phases, p) >= bank[p]

\* The settings that have served start again on whatever a crash leaves behind,
\* in the middle of the startup save or of a later one: neither the migration
\* nor growing energy leads to a file that this configuration refuses.
SameConfigStarts ==
    run # "down" => \A d \in Survivors : Accepts(env, d)

\* The phases a crash may leave of a source.
SavedPhases(n) ==
    {IF n \in DOMAIN d.phases THEN d.phases[n] ELSE BadPhase : d \in outcomes}

\* A disabled plug keeps the phase that was last saved for it, through restarts,
\* changed settings, failed saves and crashes (README: "Historischer Beitrag
\* bleibt auf der zuletzt gespeicherten Phase erhalten").
DisabledKeepsPhase ==
    [][\A n \in Names :
           n \notin Active(env) /\ BadPhase \notin SavedPhases(n) =>
               SavedPhases(n)' \subseteq SavedPhases(n)]_vars

\* The total that clients see never falls: not when plugs are disabled, change
\* their phase or come back, nor in a crash.
TotalNeverFalls == [][shown' >= shown]_vars
=============================================================================
