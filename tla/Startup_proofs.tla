--------------------------- MODULE Startup_proofs ---------------------------
(***************************************************************************)
(* For all settings and all state files, over any sequence of starts: a    *)
(* disabled plug keeps its phase, every source that has energy has one     *)
(* while the service runs and is part of the total, nothing is served that *)
(* is not saved, settings that have served serve again, and the total does *)
(* not fall.                                                               *)
(*                                                                         *)
(* For the phases: what a run holds of a disabled plug is what the state   *)
(* file had when the run began, everything it saves has the phases it      *)
(* holds, and nothing is saved while the service is down.  For the         *)
(* energies: every document that a restart may find covers what was shown  *)
(* last, source by source, and sums of more are more.                      *)
(***************************************************************************)
EXTENDS Startup, Aggregation_proofs

\* A save belongs to a run and writes the phases of that run.
SaveOwned ==
    writer # "idle" => run \in {"saving", "growing"} /\ doc.phases = phases

\* A run has accepted its settings and given every source a phase.
AllPlaced ==
    run # "down" => LoadsConfig(env) /\ Placed(energy, env) \subseteq DOMAIN phases

\* A run has the phases that the file has for disabled plugs.
DisabledAsSaved ==
    run # "down" =>
        \A n \in DOMAIN visible.phases \ Active(env) :
            n \in DOMAIN phases /\ phases[n] = visible.phases[n]

\* A save in the middle of a run is about energy that has a phase.
DocPlaced ==
    run = "growing" => Placed(doc.energy, env) \subseteq DOMAIN phases

Inv ==
    /\ TypeOK /\ SaveOwned /\ AllPlaced /\ DisabledAsSaved /\ DocPlaced
    /\ visible \in outcomes
    /\ run = "growing" => writer # "idle"

\* What a state file holds
Typed(counted, saved) ==
    /\ DOMAIN counted \subseteq Names /\ DOMAIN saved \subseteq Names
    /\ \A n \in DOMAIN saved : saved[n] \in Phases

\* What set_phases makes of it
PhasesGiven(placed, counted, saved, e) ==
    /\ DOMAIN placed = Placed(counted, e) \cup DOMAIN saved
    /\ DOMAIN placed \subseteq Names
    /\ \A n \in DOMAIN placed : placed[n] \in Phases
    /\ \A n \in DOMAIN saved \ Active(e) : placed[n] = saved[n]

\* set_phases gives valid phases to exactly the sources that need one, and
\* leaves those of others alone.
LEMMA PhasesSet ==
    ASSUME NEW e, NEW counted, NEW saved,
           Typed(counted, saved), Assignable(counted, saved, e)
    PROVE  PhasesGiven(WithPhasesSet(counted, saved, e), counted, saved, e)
<1>1. Active(e) \subseteq Names
  BY StartupAssumption DEF Active
<1>2. DOMAIN WithPhasesSet(counted, saved, e) \subseteq Names
  BY <1>1 DEF WithPhasesSet, Placed, Typed
<1> QED BY <1>2 DEF WithPhasesSet, Placed, Assignable, PhaseFor, Typed, PhasesGiven

\* Phases that are there already are found again.
LEMMA AssignableAgain ==
    ASSUME NEW e, NEW counted, NEW saved, LoadsConfig(e),
           Placed(counted, e) \subseteq DOMAIN saved,
           \A n \in DOMAIN saved : saved[n] \in Phases
    PROVE  Assignable(counted, saved, e)
BY DEF Assignable, PhaseFor, LoadsConfig

LEMMA InitInv == Init => Inv
<1> SUFFICES ASSUME Init PROVE Inv
  OBVIOUS
<1>1. IsDocument(InitDocument)
  BY StartupAssumption DEF IsDocument
<1>2. IsDocument([energy |-> energy, phases |-> phases])
  BY DEF Init, IsDocument, NoDocument
<1>3. TypeOK
  BY <1>1, <1>2 DEF Init, TypeOK, Store!StoreInit
<1> QED BY <1>3 DEF Init, Inv, Store!StoreInit, SaveOwned, AllPlaced, DisabledAsSaved, DocPlaced

LEMMA StartInv == ASSUME Inv, UNCHANGED faults, Start PROVE Inv'
<1> DEFINE placed == WithPhasesSet(visible.energy, visible.phases, env)
<1>0. Typed(visible.energy, visible.phases)
  BY DEF Inv, TypeOK, IsDocument, Typed
<1>1. /\ run = "down" /\ LoadsConfig(env) /\ Assignable(visible.energy, visible.phases, env)
      /\ energy' = visible.energy /\ phases' = placed /\ env' = env
      /\ run' \in {"saving", "opening"}
  BY DEF Start, Accepts, StartSaving
<1>2. writer = "idle"
  BY <1>1 DEF Inv, SaveOwned
<1>3. IsDocument(visible)
  BY DEF Inv, TypeOK
<1>4. PhasesGiven(placed, visible.energy, visible.phases, env)
  BY <1>0, <1>1, PhasesSet
<1> HIDE DEF placed
<1>5. IsDocument([energy |-> visible.energy, phases |-> placed])
  BY <1>3, <1>4 DEF IsDocument, PhasesGiven
<1>6. /\ visible' = visible /\ outcomes' = outcomes
      /\ \/ writer' = "writing" /\ run' = "saving"
            /\ doc' = [energy |-> visible.energy, phases |-> placed]
         \/ writer' = writer /\ doc' = doc
  BY DEF Start, StartSaving, Store!BeginSave, storeVars, placed
<1>7. TypeOK'
  BY <1>1, <1>5, <1>6 DEF Inv, TypeOK
<1>8. SaveOwned'
  BY <1>1, <1>2, <1>6 DEF SaveOwned
<1>9. AllPlaced' /\ DisabledAsSaved' /\ DocPlaced'
  BY <1>1, <1>4, <1>6 DEF AllPlaced, DisabledAsSaved, DocPlaced, PhasesGiven
<1> QED BY <1>1, <1>6, <1>7, <1>8, <1>9 DEF Inv

LEMMA OpenedInv == ASSUME Inv, UNCHANGED faults, Opened PROVE Inv'
<1>1. /\ run = "opening" /\ run' = "serving" /\ phases' = WithPhasesSet(energy, phases, env)
      /\ UNCHANGED <<visible, outcomes, writer, doc, env, energy>>
  BY DEF Opened, storeVars
<1>2. /\ LoadsConfig(env) /\ Placed(energy, env) \subseteq DOMAIN phases
      /\ Typed(energy, phases)
  BY <1>1 DEF Inv, AllPlaced, TypeOK, IsDocument, Typed
<1>3. Assignable(energy, phases, env)
  BY <1>2, AssignableAgain DEF Typed
<1>4. PhasesGiven(WithPhasesSet(energy, phases, env), energy, phases, env)
  BY <1>2, <1>3, PhasesSet
<1>5. /\ DOMAIN phases' = Placed(energy, env) \cup DOMAIN phases
      /\ DOMAIN phases' \subseteq Names
      /\ \A n \in DOMAIN phases' : phases'[n] \in Phases
      /\ \A n \in DOMAIN phases \ Active(env) : phases'[n] = phases[n]
  BY <1>1, <1>4 DEF PhasesGiven
<1>6. TypeOK'
  BY <1>1, <1>5 DEF Inv, TypeOK, IsDocument
<1>7. writer = "idle"
  BY <1>1 DEF Inv, SaveOwned
<1> QED BY <1>1, <1>2, <1>5, <1>6, <1>7 DEF Inv, SaveOwned, AllPlaced, DisabledAsSaved, DocPlaced

LEMMA GrowInv == ASSUME Inv, UNCHANGED faults, NEW n \in Slots, Grow(n) PROVE Inv'
<1>1. PICK level \in Levels :
        Store!BeginSave([energy |-> [m \in DOMAIN energy \cup {n} |->
                                        IF m = n THEN level ELSE energy[m]],
                         phases |-> phases])
  BY DEF Grow, GrowSaving
<1> DEFINE grown == [m \in DOMAIN energy \cup {n} |-> IF m = n THEN level ELSE energy[m]]
<1>2. /\ run = "serving" /\ n \in Active(env) /\ run' = "growing"
      /\ UNCHANGED <<env, energy, phases>>
  BY DEF Grow, stateVars
<1>3. /\ visible' = visible /\ outcomes' = outcomes /\ writer' = "writing"
      /\ doc' = [energy |-> grown, phases |-> phases]
  BY <1>1 DEF Store!BeginSave
<1>4. IsDocument([energy |-> grown, phases |-> phases])
  BY StartupAssumption DEF Inv, TypeOK, IsDocument
<1>5. TypeOK'
  BY <1>2, <1>3, <1>4 DEF Inv, TypeOK
<1>6. Placed(grown, env) = Placed(energy, env)
  BY <1>2 DEF Placed
<1> HIDE DEF grown
<1> QED BY <1>2, <1>3, <1>5, <1>6 DEF Inv, SaveOwned, AllPlaced, DisabledAsSaved, DocPlaced

LEMMA GrownInv == ASSUME Inv, UNCHANGED faults, Grown PROVE Inv'
<1>1. /\ run = "growing" /\ run' = "serving" /\ energy' = doc.energy
      /\ UNCHANGED <<visible, outcomes, env, phases>>
      /\ writer' = "idle" /\ doc' = InitDocument
  BY DEF Grown, Store!Joined, Store!NoWriter
<1>2. IsDocument(doc) /\ IsDocument(InitDocument)
  BY StartupAssumption DEF Inv, TypeOK, IsDocument
<1>3. TypeOK'
  BY <1>1, <1>2 DEF Inv, TypeOK, IsDocument
<1> QED BY <1>1, <1>3 DEF Inv, SaveOwned, AllPlaced, DisabledAsSaved, DocPlaced

LEMMA WriterInv == ASSUME Inv, UNCHANGED faults, WriterSteps PROVE Inv'
<1>1. /\ UNCHANGED <<env, run, energy, phases, doc>>
      /\ writer # "idle" /\ writer' \in {"renamed", "saved", "failed"}
      /\ \/ visible' = visible /\ outcomes' \in {outcomes, {visible}}
         \/ visible' = doc /\ outcomes' = outcomes \cup {doc}
  BY DEF WriterSteps, stateVars, Store!SaveStep, Store!Rename, Store!SyncDirectory, Store!SaveFails
<1>2. TypeOK'
  BY <1>1 DEF Inv, TypeOK
<1>3. doc.phases = phases
  BY <1>1 DEF Inv, SaveOwned
<1>4. DisabledAsSaved'
  BY <1>1, <1>3 DEF Inv, DisabledAsSaved
<1> QED BY <1>1, <1>2, <1>4 DEF Inv, SaveOwned, AllPlaced, DocPlaced

\* A run that ends leaves a document behind that a crash could leave.
LEMMA EndsInv ==
    ASSUME Inv, UNCHANGED faults, Ends, visible' \in outcomes', outcomes' \subseteq outcomes,
           writer' = "idle", doc' \in {doc, InitDocument}
    PROVE  Inv'
<1>1. run' = "down" /\ env' = env
      /\ energy' = NoDocument.energy /\ phases' = NoDocument.phases
  BY DEF Ends
<1>2. IsDocument(InitDocument) /\ IsDocument([energy |-> energy', phases |-> phases'])
  BY <1>1, StartupAssumption DEF IsDocument, NoDocument
<1>3. TypeOK'
  BY <1>1, <1>2 DEF Inv, TypeOK
<1> QED BY <1>1, <1>3 DEF Inv, SaveOwned, AllPlaced, DisabledAsSaved, DocPlaced

LEMMA NextInv == ASSUME Inv, [Next]_vars PROVE Inv'
<1>0. UNCHANGED faults
  BY DEF Next, vars
<1>1. CASE Configure
  BY <1>0, <1>1 DEF Configure, storeVars, stateVars, Inv, TypeOK, SaveOwned, AllPlaced,
              DisabledAsSaved, DocPlaced, IsDocument
<1>2. CASE Start
  BY <1>0, <1>2, StartInv
<1>3. CASE StartSaved
  <2>1. /\ run = "saving" /\ run' = "opening" /\ UNCHANGED <<visible, outcomes, env, energy, phases>>
        /\ writer' = "idle" /\ doc' = InitDocument
    BY <1>3 DEF StartSaved, stateVars, Store!Joined, Store!NoWriter
  <2>2. TypeOK'
    BY <1>0, <2>1, StartupAssumption DEF Inv, TypeOK, IsDocument
  <2> QED BY <2>1, <2>2 DEF Inv, SaveOwned, AllPlaced, DisabledAsSaved, DocPlaced
<1>4. CASE Opened
  BY <1>0, <1>4, OpenedInv
<1>5. ASSUME NEW n \in Slots, Grow(n) PROVE Inv'
  BY <1>0, <1>5, GrowInv
<1>6. CASE Grown
  BY <1>0, <1>6, GrownInv
<1>7. CASE WriterSteps
  BY <1>0, <1>7, WriterInv
<1>8. CASE Stop
  BY <1>0, <1>8, EndsInv DEF Stop, storeVars, Inv, SaveOwned
<1>9. CASE SaveFailed
  BY <1>0, <1>9, EndsInv DEF SaveFailed, Store!Joined, Store!NoWriter, Inv
<1>10. CASE Killed
  BY <1>0, <1>10, EndsInv DEF Killed, Store!StoreKilled, Store!NoWriter, Inv
<1>11. CASE PowerLoss
  BY <1>0, <1>11, EndsInv DEF PowerLoss, Store!StorePowerLoss, Store!NoWriter, Inv
<1>12. CASE UNCHANGED vars
  BY <1>12 DEF vars, storeVars, stateVars, meterVars, Inv, TypeOK, SaveOwned, AllPlaced,
               DisabledAsSaved, DocPlaced, IsDocument
<1> QED
  BY <1>1, <1>2, <1>3, <1>4, <1>5, <1>6, <1>7, <1>8, <1>9, <1>10, <1>11, <1>12 DEF Next

\* The variables keep their types: set_phases never lets an invalid phase in.
THEOREM StartupTypes == Spec => []TypeOK
<1>1. Inv => TypeOK
  BY DEF Inv
<1> QED BY <1>1, InitInv, NextInv, PTL DEF Spec

\* While the service runs every source that has energy has a phase, so that
\* aggregate_readings leaves no energy out.
THEOREM EverySourceHasPhase ==
    Spec => [](run # "down" => DOMAIN energy \subseteq {n \in DOMAIN phases : phases[n] \in Phases})
<1>1. Inv => (run # "down" =>
                 DOMAIN energy \subseteq {n \in DOMAIN phases : phases[n] \in Phases})
  BY DEF Inv, AllPlaced, Placed, TypeOK, IsDocument
<1> QED BY <1>1, InitInv, NextInv, PTL DEF Spec

\* A disabled plug keeps the phase last saved for it, for all settings, state
\* files and faults.
THEOREM DisabledPhaseStays == Spec => DisabledKeepsPhase
<1> DEFINE Kept == \A n \in Names :
                       n \notin Active(env) /\ BadPhase \notin SavedPhases(n) =>
                           SavedPhases(n)' \subseteq SavedPhases(n)
<1>1. ASSUME Inv, [Next]_vars PROVE Kept
  <2>1. CASE outcomes' \subseteq outcomes
    BY <2>1 DEF SavedPhases
  <2>2. CASE WriterSteps /\ visible' = doc /\ outcomes' = outcomes \cup {doc}
    <3>0. writer # "idle"
      BY <2>2 DEF WriterSteps, Store!SaveStep, Store!Rename, Store!SyncDirectory, Store!SaveFails
    <3>1. /\ run # "down" /\ doc.phases = phases /\ visible \in outcomes
      BY <1>1, <3>0 DEF Inv, SaveOwned
    <3> SUFFICES ASSUME NEW n \in Names, n \notin Active(env), BadPhase \notin SavedPhases(n)
                 PROVE  SavedPhases(n)' \subseteq SavedPhases(n)
      OBVIOUS
    <3>2. n \in DOMAIN visible.phases /\ visible.phases[n] \in SavedPhases(n)
      BY <3>1 DEF SavedPhases
    <3>3. n \in DOMAIN doc.phases /\ doc.phases[n] = visible.phases[n]
      BY <1>1, <3>1, <3>2 DEF Inv, DisabledAsSaved
    <3> QED BY <2>2, <3>2, <3>3 DEF SavedPhases
  <2>3. \/ outcomes' \subseteq outcomes
        \/ WriterSteps /\ visible' = doc /\ outcomes' = outcomes \cup {doc}
    <3>1. CASE UNCHANGED storeVars
      BY <3>1 DEF storeVars
    <3>2. CASE \E d : Store!BeginSave(d)
      BY <3>2 DEF Store!BeginSave
    <3>3. CASE Store!Joined("saved") \/ Store!Joined("failed")
      BY <3>3 DEF Store!Joined
    <3>4. CASE WriterSteps
      BY <1>1, <3>4 DEF WriterSteps, Inv, Store!SaveStep, Store!Rename, Store!SyncDirectory,
                        Store!SaveFails
    <3>5. CASE Store!StoreKilled \/ Store!StorePowerLoss
      BY <3>5 DEF Store!StoreKilled, Store!StorePowerLoss
    <3> QED
      BY <1>1, <3>1, <3>2, <3>3, <3>4, <3>5
      DEF Next, vars, Configure, Start, StartSaving, StartSaved, Opened, Grow, GrowSaving, Grown,
          Stop, SaveFailed, Killed, PowerLoss
  <2> QED BY <2>1, <2>2, <2>3
<1>2. Inv /\ [Next]_vars => [Kept]_vars
  BY <1>1
<1> QED BY <1>2, InitInv, NextInv, PTL DEF Spec, DisabledKeepsPhase
-----------------------------------------------------------------------------
(* Energy that is counted *)

LEMMA DocumentCounts ==
    ASSUME NEW d, IsDocument(d)
    PROVE  Countable(d.energy)
  BY StartupAssumption, FS_Subset DEF IsDocument, Countable

\* Total is all the energy of the sources, when every one has a phase.
LEMMA ExportedAdds ==
    ASSUME NEW counted, NEW placed, Countable(counted), DOMAIN counted \subseteq DOMAIN placed,
           \A n \in DOMAIN counted : placed[n] \in Phases
    PROVE  Total(counted, placed) = AllEnergy(counted)
<1>1. Total(counted, placed) =
          PhaseEnergy(counted, placed, "L1") + PhaseEnergy(counted, placed, "L2")
          + PhaseEnergy(counted, placed, "L3")
  BY ThreePhases DEF Total, Exported
<1> QED BY <1>1, PhasesAdd

-----------------------------------------------------------------------------
(* What every restart finds.  A power loss that may follow a kill or a late  *)
(* failing save takes back what the next start has shown: RuntimeKillPower.  *)

PowerAlone == \A F \in FaultSets : "power" \in F => F \cap {"kill", "late"} = {}

\* A save that is over has left its document where the next start finds it.
StoreFollows ==
    /\ writer \in {"renamed", "saved"} => visible = doc
    /\ writer = "saved" => outcomes = {doc}
    /\ "power" \in faults /\ writer # "renamed" => outcomes = {visible}
    /\ run = "saving" => writer # "idle" /\ doc.energy = energy

\* set_phases has nothing left to do.
Settled ==
    run # "down" =>
        /\ WithPhasesSet(energy, phases, env) = phases
        /\ writer # "idle" => WithPhasesSet(doc.energy, phases, env) = phases

\* Clients read what the run has.
Current == Shows => bank = Exported(energy, phases)

\* The settings are accepted with everything the next start may load.
Startable ==
    run # "down" =>
        /\ writer # "idle" => Accepts(env, doc)
        /\ \A d \in Survivors : Accepts(env, d)

\* A document with all the energy of this run, on the same phases
Accounted(d) ==
    \A n \in DOMAIN energy :
        /\ n \in DOMAIN d.energy /\ d.energy[n] >= energy[n]
        /\ n \in DOMAIN d.phases /\ d.phases[n] = phases[n]

\* Every restart finds what clients can read.
Known ==
    /\ Shows => \A d \in Survivors : Accounted(d)
    /\ run = "growing" => Accounted(doc)

\* No restart finds less energy than clients have ever read.
Remembered ==
    /\ shown \in Nat
    /\ \A d \in Survivors : AllEnergy(d.energy) >= shown
    /\ writer # "idle" => AllEnergy(doc.energy) >= shown
    /\ Shows => shown = AllEnergy(energy)

SavedInv == StoreFollows /\ Startable /\ Known /\ Remembered

\* What the steps of a run do, in the words of these invariants

LEMMA StartMeans ==
    ASSUME Inv, Start
    PROVE  LET placed == WithPhasesSet(visible.energy, visible.phases, env)
           IN  /\ run = "down" /\ writer = "idle" /\ Accepts(env, visible)
               /\ energy' = visible.energy /\ phases' = placed
               /\ UNCHANGED <<visible, outcomes, env>>
               /\ \/ /\ run' = "saving" /\ writer' = "writing"
                     /\ doc' = [energy |-> visible.energy, phases |-> placed]
                     /\ UNCHANGED <<bank, shown>>
                  \/ /\ placed = visible.phases /\ run' = "opening"
                     /\ UNCHANGED <<writer, doc>>
                     /\ bank' = Exported(visible.energy, placed)
                     /\ shown' = Total(visible.energy, placed)
<1>1. writer = "idle"
  BY DEF Inv, SaveOwned, Start
<1>2. QED BY <1>1 DEF Start, StartSaving, Store!BeginSave, Show, storeVars, meterVars

LEMMA GrowMeans ==
    ASSUME Inv, NEW n \in Slots, Grow(n)
    PROVE  /\ run = "serving" /\ run' = "growing" /\ n \in Active(env)
           /\ writer = "idle" /\ writer' = "writing"
           /\ UNCHANGED <<visible, outcomes, env, energy, phases, bank, shown>>
           /\ doc'.phases = phases
           /\ DOMAIN doc'.energy = DOMAIN energy \cup {n}
           /\ \A m \in DOMAIN energy : doc'.energy[m] >= energy[m]
           /\ Fits(env, doc'.energy, phases)
<1> DEFINE Grown1(level) ==
               [m \in DOMAIN energy \cup {n} |-> IF m = n THEN level ELSE energy[m]]
<1>1. PICK level \in Levels :
          /\ n \in DOMAIN energy => level > energy[n]
          /\ MayGrow(Grown1(level)) /\ GrowSaving(Grown1(level))
  BY DEF Grow
<1>2. /\ writer = "idle" /\ writer' = "writing" /\ UNCHANGED <<visible, outcomes, bank, shown>>
      /\ doc' = [energy |-> Grown1(level), phases |-> phases]
  BY <1>1 DEF GrowSaving, Store!BeginSave, meterVars
<1>3. level \in Nat /\ \A m \in DOMAIN energy : energy[m] \in Nat
  BY StartupAssumption DEF Inv, TypeOK, IsDocument
<1>4. \A m \in DOMAIN energy : Grown1(level)[m] >= energy[m]
  BY <1>1, <1>3
<1>5. Fits(env, Grown1(level), phases)
  BY <1>1 DEF MayGrow
<1>6. run = "serving" /\ run' = "growing" /\ n \in Active(env) /\ UNCHANGED <<env, energy, phases>>
  BY DEF Grow, stateVars
<1>7. doc'.energy = Grown1(level) /\ doc'.phases = phases
  BY <1>2
<1>8. DOMAIN Grown1(level) = DOMAIN energy \cup {n}
  OBVIOUS
<1> HIDE DEF Grown1
<1>9. QED BY <1>2, <1>4, <1>5, <1>6, <1>7, <1>8

LEMMA JoinMeans ==
    ASSUME Inv, StartSaved \/ Grown
    PROVE  /\ writer = "saved" /\ writer' = "idle"
           /\ UNCHANGED <<visible, outcomes, env, phases>>
           /\ bank' = Exported(energy', phases) /\ shown' = Total(energy', phases)
           /\ \/ run = "saving" /\ run' = "opening" /\ energy' = energy
              \/ run = "growing" /\ run' = "serving" /\ energy' = doc.energy
  BY DEF StartSaved, Grown, Store!Joined, Store!NoWriter, Show, stateVars

LEMMA WriterMeans ==
    ASSUME PowerAlone, Inv, StoreFollows, UNCHANGED faults, WriterSteps
    PROVE  /\ UNCHANGED <<env, run, energy, phases, bank, shown, doc>>
           /\ writer # "idle" /\ writer' # "idle"
           /\ Survivors' \subseteq Survivors \cup {doc}
           /\ StoreFollows'
<1>1. /\ UNCHANGED <<env, run, energy, phases, bank, shown>>
      /\ writer' = "failed" => (IF writer = "writing" THEN "early" ELSE "late") \in faults
  BY DEF WriterSteps, stateVars, meterVars
<1>2. "late" \in faults => "power" \notin faults
  BY DEF PowerAlone, Inv, TypeOK
<1>3. CASE Store!Rename
  BY <1>1, <1>3 DEF Store!Rename, StoreFollows, Survivors
<1>4. CASE Store!SyncDirectory
  BY <1>1, <1>4 DEF Store!SyncDirectory, StoreFollows, Survivors
<1>5. CASE Store!SaveFails
  BY <1>1, <1>2, <1>5 DEF Store!SaveFails, StoreFollows, Survivors
<1>6. QED BY <1>3, <1>4, <1>5 DEF WriterSteps, Store!SaveStep

LEMMA EndMeans ==
    ASSUME PowerAlone, Inv, StoreFollows, UNCHANGED faults,
           Stop \/ SaveFailed \/ Killed \/ PowerLoss
    PROVE  /\ run' = "down" /\ shown' = shown /\ writer' = "idle"
           /\ Survivors' \subseteq Survivors
           /\ StoreFollows'
<1>1. /\ run' = "down" /\ shown' = shown
  BY DEF Stop, SaveFailed, Killed, PowerLoss, Ends
<1>2. "kill" \in faults => "power" \notin faults
  BY DEF PowerAlone, Inv, TypeOK
<1>3. CASE Stop
  <2>1. UNCHANGED <<visible, outcomes, writer, doc>> /\ writer = "idle"
    BY <1>3 DEF Stop, storeVars, Inv, SaveOwned
  <2>2. QED BY <1>1, <2>1 DEF StoreFollows, Survivors
<1>4. CASE SaveFailed
  BY <1>1, <1>4 DEF SaveFailed, Store!Joined, Store!NoWriter, StoreFollows, Survivors
<1>5. CASE Killed
  BY <1>1, <1>2, <1>5 DEF Killed, Store!StoreKilled, Store!NoWriter, StoreFollows, Survivors
<1>6. CASE PowerLoss
  BY <1>1, <1>6 DEF PowerLoss, Store!StorePowerLoss, Store!NoWriter, StoreFollows, Survivors
<1>7. QED BY <1>3, <1>4, <1>5, <1>6

\* A step of a run or of the operator that only reads the state file
LEMMA QuietMeans ==
    ASSUME Configure \/ UNCHANGED vars
    PROVE  /\ UNCHANGED <<visible, outcomes, writer, doc, run, energy, phases, bank, shown>>
           /\ run # "down" => env' = env
  BY DEF Configure, vars, storeVars, stateVars, meterVars

LEMMA FollowStep ==
    ASSUME PowerAlone, Inv, StoreFollows, [Next]_vars
    PROVE  StoreFollows'
<1>0. UNCHANGED faults
  BY DEF Next, vars
<1>1. CASE Configure \/ UNCHANGED vars
  BY <1>0, <1>1, QuietMeans DEF StoreFollows
<1>2. CASE Start
  BY <1>0, <1>2, StartMeans DEF StoreFollows
<1>3. CASE StartSaved \/ Grown
  BY <1>0, <1>3, JoinMeans DEF StoreFollows
<1>4. CASE Opened
  BY <1>0, <1>4 DEF Opened, storeVars, StoreFollows
<1>5. ASSUME NEW n \in Slots, Grow(n) PROVE StoreFollows'
  BY <1>0, <1>5, GrowMeans DEF StoreFollows
<1>6. CASE WriterSteps
  BY <1>0, <1>6, WriterMeans
<1>7. CASE Stop \/ SaveFailed \/ Killed \/ PowerLoss
  BY <1>0, <1>7, EndMeans
<1>8. QED BY <1>1, <1>2, <1>3, <1>4, <1>5, <1>6, <1>7 DEF Next

\* set_phases changes nothing the second time.
LEMMA PhasesSetTwice ==
    ASSUME NEW e, NEW counted, NEW more, NEW saved, Placed(more, e) = Placed(counted, e)
    PROVE  WithPhasesSet(more, WithPhasesSet(counted, saved, e), e) =
               WithPhasesSet(counted, saved, e)
<1> DEFINE placed == WithPhasesSet(counted, saved, e)
           again == WithPhasesSet(more, placed, e)
<1>1. DOMAIN placed = Placed(counted, e) \cup DOMAIN saved
  BY DEF WithPhasesSet
<1>2. /\ DOMAIN again = DOMAIN placed
      /\ \A n \in DOMAIN placed :
             again[n] = IF n \in Placed(counted, e) THEN PhaseFor(n, placed, e) ELSE placed[n]
  BY <1>1 DEF WithPhasesSet
<1>3. \A n \in DOMAIN placed :
          placed[n] = IF n \in Placed(counted, e) THEN PhaseFor(n, saved, e) ELSE saved[n]
  BY <1>1 DEF WithPhasesSet
<1>4. ASSUME NEW n \in Placed(counted, e)
      PROVE  PhaseFor(n, placed, e) = placed[n]
  <2>1. n \in DOMAIN placed /\ placed[n] = PhaseFor(n, saved, e)
    BY <1>1, <1>3
  <2> HIDE DEF placed
  <2>2. QED BY <2>1 DEF PhaseFor
<1>5. \A n \in DOMAIN placed : again[n] = placed[n]
  BY <1>2, <1>4
<1>6. placed = [n \in DOMAIN placed |-> placed[n]] /\ again = [n \in DOMAIN again |-> again[n]]
  BY DEF WithPhasesSet
<1> HIDE DEF placed, again
<1>7. again = placed
  BY <1>2, <1>5, <1>6
<1>8. QED BY <1>7 DEF placed, again

\* A step of the writer or the end of a run, whatever the faults
LEMMA OtherMeans ==
    ASSUME WriterSteps \/ Stop \/ SaveFailed \/ Killed \/ PowerLoss
    PROVE  \/ UNCHANGED <<env, run, energy, phases, bank, doc>> /\ writer # "idle"
           \/ run' = "down"
  BY DEF WriterSteps, Store!SaveStep, Store!Rename, Store!SyncDirectory, Store!SaveFails, stateVars,
         meterVars, Stop, SaveFailed, Killed, PowerLoss, Ends

LEMMA SettledStep ==
    ASSUME Inv, Settled, Current, [Next]_vars
    PROVE  Settled' /\ Current'
<1>1. CASE Configure \/ UNCHANGED vars
  BY <1>1, QuietMeans DEF Settled, Current, Shows
<1>2. CASE Start
  <2> DEFINE placed == WithPhasesSet(visible.energy, visible.phases, env)
  <2>1. /\ writer = "idle" /\ env' = env /\ energy' = visible.energy /\ phases' = placed
        /\ \/ run' = "saving" /\ doc'.energy = visible.energy
           \/ run' = "opening" /\ writer' = "idle" /\ bank' = Exported(visible.energy, placed)
    BY <1>2, StartMeans
  <2>2. WithPhasesSet(visible.energy, placed, env) = placed
    BY PhasesSetTwice
  <2> HIDE DEF placed
  <2>3. QED BY <2>1, <2>2 DEF Settled, Current, Shows
<1>3. CASE StartSaved \/ Grown
  <2>1. /\ writer = "saved" /\ writer' = "idle" /\ run # "down"
        /\ UNCHANGED <<env, phases>> /\ energy' \in {energy, doc.energy}
        /\ bank' = Exported(energy', phases')
    BY <1>3, JoinMeans
  <2>2. QED BY <2>1 DEF Settled, Current
<1>4. CASE Opened
  <2>1. /\ run = "opening" /\ UNCHANGED <<writer, doc, env, energy, bank>>
        /\ phases' = WithPhasesSet(energy, phases, env)
    BY <1>4 DEF Opened, storeVars, meterVars
  <2>2. phases' = phases
    BY <2>1 DEF Settled
  <2>3. QED BY <2>1, <2>2 DEF Settled, Current, Shows
<1>5. ASSUME NEW n \in Slots, Grow(n) PROVE Settled' /\ Current'
  <2>1. /\ run = "serving" /\ n \in Active(env)
        /\ UNCHANGED <<env, energy, phases, bank>>
        /\ DOMAIN doc'.energy = DOMAIN energy \cup {n}
    BY <1>5, GrowMeans
  <2>2. Placed(doc'.energy, env) = Placed(energy, env)
    BY <2>1 DEF Placed
  <2>3. WithPhasesSet(energy, phases, env) = phases
    BY <2>1 DEF Settled
  <2>4. WithPhasesSet(doc'.energy, phases, env) = phases
    BY <2>2, <2>3, PhasesSetTwice
  <2>5. QED BY <2>1, <2>3, <2>4 DEF Settled, Current, Shows
<1>6. CASE WriterSteps \/ Stop \/ SaveFailed \/ Killed \/ PowerLoss
  BY <1>6, OtherMeans DEF Settled, Current, Shows
<1>7. QED BY <1>1, <1>2, <1>3, <1>4, <1>5, <1>6 DEF Next

LEMMA StartableStep ==
    ASSUME PowerAlone, Inv, StoreFollows, Settled, Startable, [Next]_vars
    PROVE  Startable'
<1>0. UNCHANGED faults
  BY DEF Next, vars
<1>1. CASE Configure \/ UNCHANGED vars
  BY <1>0, <1>1, QuietMeans DEF Startable, Survivors
<1>2. CASE Start
  <2> DEFINE placed == WithPhasesSet(visible.energy, visible.phases, env)
             new == [energy |-> visible.energy, phases |-> placed]
  <2>1. /\ writer = "idle" /\ Accepts(env, visible) /\ UNCHANGED <<visible, outcomes, env>>
        /\ energy' = visible.energy /\ phases' = placed
        /\ writer' # "idle" => doc' = new
    BY <1>2, StartMeans
  <2>2. Survivors' = {visible}
    BY <1>0, <2>1 DEF StoreFollows, Survivors
  <2>3. WithPhasesSet(visible.energy, placed, env) = placed
    BY PhasesSetTwice
  <2>4. Accepts(env, new)
    <3>1. /\ LoadsConfig(env) /\ Assignable(visible.energy, visible.phases, env)
          /\ Fits(env, visible.energy, placed) /\ Typed(visible.energy, visible.phases)
      BY <2>1 DEF Accepts, Inv, TypeOK, IsDocument, Typed
    <3>2. /\ Placed(visible.energy, env) \subseteq DOMAIN placed
          /\ \A n \in DOMAIN placed : placed[n] \in Phases
      BY <3>1, PhasesSet DEF PhasesGiven
    <3> HIDE DEF placed
    <3>3. Assignable(visible.energy, placed, env)
      BY <3>1, <3>2, AssignableAgain
    <3>4. QED BY <2>3, <3>1, <3>3 DEF Accepts
  <2> HIDE DEF placed
  <2>5. QED BY <2>1, <2>2, <2>4 DEF Startable
<1>3. CASE StartSaved \/ Grown
  <2>1. /\ writer = "saved" /\ writer' = "idle" /\ run # "down"
        /\ UNCHANGED <<visible, outcomes, env, phases>> /\ energy' \in {energy, doc.energy}
    BY <1>3, JoinMeans
  <2>2. QED BY <1>0, <2>1 DEF Startable, Survivors
<1>4. CASE Opened
  <2>1. /\ run = "opening" /\ UNCHANGED <<visible, outcomes, writer, doc, env, energy>>
        /\ phases' = WithPhasesSet(energy, phases, env)
    BY <1>4 DEF Opened, storeVars
  <2>2. phases' = phases
    BY <2>1 DEF Settled
  <2>3. QED BY <1>0, <2>1, <2>2 DEF Startable, Survivors
<1>5. ASSUME NEW n \in Slots, Grow(n) PROVE Startable'
  <2>1. /\ run = "serving" /\ n \in Active(env) /\ doc'.phases = phases
        /\ UNCHANGED <<visible, outcomes, env, energy, phases>>
        /\ DOMAIN doc'.energy = DOMAIN energy \cup {n} /\ Fits(env, doc'.energy, phases)
    BY <1>5, GrowMeans
  <2>2. Placed(doc'.energy, env) = Placed(energy, env)
    BY <2>1 DEF Placed
  <2>3. WithPhasesSet(energy, phases, env) = phases
    BY <2>1 DEF Settled
  <2>4. WithPhasesSet(doc'.energy, phases, env) = phases
    BY <2>2, <2>3, PhasesSetTwice
  <2>5. /\ LoadsConfig(env) /\ Placed(energy, env) \subseteq DOMAIN phases
        /\ \A m \in DOMAIN phases : phases[m] \in Phases
    BY <2>1 DEF Inv, AllPlaced, TypeOK, IsDocument
  <2>6. Assignable(doc'.energy, phases, env)
    BY <2>2, <2>5, AssignableAgain
  <2>7. Accepts(env, doc')
    BY <2>1, <2>4, <2>5, <2>6 DEF Accepts
  <2>8. QED BY <1>0, <2>1, <2>7 DEF Startable, Survivors
<1>6. CASE WriterSteps
  <2>1. /\ UNCHANGED <<env, run, energy, phases, doc>> /\ writer # "idle"
        /\ Survivors' \subseteq Survivors \cup {doc}
    BY <1>0, <1>6, WriterMeans
  <2>2. QED BY <2>1 DEF Startable
<1>7. CASE Stop \/ SaveFailed \/ Killed \/ PowerLoss
  BY <1>0, <1>7, EndMeans DEF Startable
<1>8. QED BY <1>1, <1>2, <1>3, <1>4, <1>5, <1>6, <1>7 DEF Next

LEMMA KnownStep ==
    ASSUME PowerAlone, Inv, StoreFollows, Settled, Known, [Next]_vars
    PROVE  Known'
<1>0. UNCHANGED faults
  BY DEF Next, vars
<1>1. CASE Configure \/ UNCHANGED vars
  BY <1>0, <1>1, QuietMeans DEF Known, Shows, Accounted, Survivors
<1>2. CASE Start
  <2>1. /\ writer = "idle" /\ UNCHANGED <<visible, outcomes>>
        /\ energy' = visible.energy /\ run' \in {"saving", "opening"}
        /\ run' = "opening" => phases' = visible.phases
    BY <1>2, StartMeans
  <2>2. Survivors' = {visible}
    BY <1>0, <2>1 DEF StoreFollows, Survivors
  <2>3. /\ DOMAIN visible.energy \subseteq DOMAIN WithPhasesSet(visible.energy, visible.phases, env)
        /\ phases' = WithPhasesSet(visible.energy, visible.phases, env)
    BY <1>2, StartMeans DEF WithPhasesSet, Placed
  <2>4. \A n \in DOMAIN visible.energy : visible.energy[n] \in Nat
    BY StartupAssumption DEF Inv, TypeOK, IsDocument
  <2>5. run' = "opening" => Accounted(visible)'
    BY <2>1, <2>3, <2>4 DEF Accounted
  <2>6. QED BY <2>1, <2>2, <2>5 DEF Known, Shows
<1>3. CASE StartSaved \/ Grown
  <2>1. /\ writer = "saved" /\ writer' = "idle" /\ run # "down"
        /\ run' \in {"opening", "serving"}
        /\ UNCHANGED <<visible, outcomes, env, phases>> /\ energy' = doc.energy
    BY <1>3, JoinMeans DEF StoreFollows
  <2>2. visible = doc /\ Survivors' = {doc}
    BY <1>0, <2>1 DEF StoreFollows, Survivors
  <2>3. doc.phases = phases /\ DOMAIN doc.energy \subseteq DOMAIN phases
    <3>1. doc.phases = phases /\ WithPhasesSet(doc.energy, phases, env) = phases
      BY <2>1 DEF Inv, SaveOwned, Settled
    <3>2. DOMAIN doc.energy \subseteq DOMAIN WithPhasesSet(doc.energy, phases, env)
      BY DEF WithPhasesSet, Placed
    <3>3. QED BY <3>1, <3>2
  <2>4. \A n \in DOMAIN doc.energy : doc.energy[n] \in Nat
    BY StartupAssumption DEF Inv, TypeOK, IsDocument
  <2>5. \A n \in DOMAIN energy' :
            /\ n \in DOMAIN doc.energy /\ doc.energy[n] >= energy'[n]
            /\ n \in DOMAIN doc.phases /\ doc.phases[n] = phases'[n]
    BY <2>1, <2>3, <2>4
  <2>6. QED BY <2>1, <2>2, <2>5 DEF Known, Shows, Accounted
<1>4. CASE Opened
  <2>1. /\ run = "opening" /\ run' = "serving" /\ UNCHANGED <<visible, outcomes, energy>>
        /\ phases' = WithPhasesSet(energy, phases, env)
    BY <1>4 DEF Opened, storeVars
  <2>2. phases' = phases
    BY <2>1 DEF Settled
  <2>3. QED BY <1>0, <2>1, <2>2 DEF Known, Shows, Accounted, Survivors
<1>5. ASSUME NEW n \in Slots, Grow(n) PROVE Known'
  <2>1. /\ run = "serving" /\ run' = "growing" /\ doc'.phases = phases
        /\ UNCHANGED <<visible, outcomes, env, energy, phases>>
        /\ DOMAIN doc'.energy = DOMAIN energy \cup {n}
        /\ \A m \in DOMAIN energy : doc'.energy[m] >= energy[m]
    BY <1>5, GrowMeans
  <2>2. DOMAIN energy \subseteq DOMAIN phases
    BY <2>1 DEF Inv, AllPlaced, Placed
  <2>3. Accounted(doc)'
    BY <2>1, <2>2 DEF Accounted
  <2>4. QED BY <1>0, <2>1, <2>3 DEF Known, Shows, Accounted, Survivors
<1>6. CASE WriterSteps
  <2>1. /\ UNCHANGED <<env, run, energy, phases, doc>> /\ writer # "idle"
        /\ Survivors' \subseteq Survivors \cup {doc}
    BY <1>0, <1>6, WriterMeans
  <2>2. Shows => run = "growing"
    BY <2>1 DEF Inv, SaveOwned, Shows
  <2>3. QED BY <2>1, <2>2 DEF Known, Shows, Accounted
<1>7. CASE Stop \/ SaveFailed \/ Killed \/ PowerLoss
  BY <1>0, <1>7, EndMeans DEF Known, Shows
<1>8. QED BY <1>1, <1>2, <1>3, <1>4, <1>5, <1>6, <1>7 DEF Next

\* The sources of a run with all their phases; what clients read is their sum.
LEMMA AllShown ==
    ASSUME IsDocument([energy |-> energy, phases |-> phases]), AllPlaced, run # "down"
    PROVE  Total(energy, phases) = AllEnergy(energy) /\ AllEnergy(energy) \in Nat
<1>1. Countable(energy)
  BY DocumentCounts
<1>2. DOMAIN energy \subseteq DOMAIN phases /\ \A n \in DOMAIN energy : phases[n] \in Phases
  BY DEF AllPlaced, Placed, IsDocument
<1>3. Total(energy, phases) = AllEnergy(energy)
  BY <1>1, <1>2, ExportedAdds
<1>4. AllEnergy(energy) \in Nat
  BY <1>1, CoveredEnergy DEF Countable
<1>5. QED BY <1>3, <1>4

LEMMA AllShownNext ==
    ASSUME Inv', run' # "down"
    PROVE  Total(energy', phases') = AllEnergy(energy') /\ AllEnergy(energy') \in Nat
<1>1. (IsDocument([energy |-> energy, phases |-> phases]) /\ AllPlaced /\ run # "down" =>
           Total(energy, phases) = AllEnergy(energy) /\ AllEnergy(energy) \in Nat)'
  BY AllShown, PTL
<1>2. QED BY <1>1 DEF Inv, TypeOK

LEMMA RememberedStep ==
    ASSUME PowerAlone, Inv, Inv', StoreFollows, Remembered, [Next]_vars
    PROVE  Remembered' /\ shown' >= shown
<1>0. UNCHANGED faults /\ shown \in Nat
  BY DEF Next, vars, Remembered
<1>1. CASE Configure \/ UNCHANGED vars
  BY <1>0, <1>1, QuietMeans DEF Remembered, Shows, Survivors
<1>2. CASE Start
  <2>1. /\ run = "down" /\ writer = "idle" /\ UNCHANGED <<visible, outcomes>>
        /\ energy' = visible.energy
        /\ \/ run' = "saving" /\ doc'.energy = visible.energy /\ shown' = shown
           \/ run' = "opening" /\ writer' = "idle" /\ shown' = Total(energy', phases')
    BY <1>2, StartMeans
  <2>2. Survivors' = Survivors /\ visible \in Survivors
    BY <1>0, <2>1 DEF Survivors
  <2>3. Survivors = {visible}
    BY <2>1 DEF StoreFollows, Survivors
  <2>4. AllEnergy(visible.energy) >= shown
    BY <2>2 DEF Remembered
  <2>5. CASE run' = "saving"
    BY <1>0, <2>1, <2>2, <2>3, <2>4, <2>5 DEF Remembered, Shows
  <2>6. CASE run' = "opening"
    <3>1. shown' = AllEnergy(visible.energy) /\ shown' \in Nat
      BY <2>1, <2>6, AllShownNext
    <3>2. QED BY <2>1, <2>2, <2>3, <2>4, <2>6, <3>1 DEF Remembered
  <2>7. QED BY <2>1, <2>5, <2>6
<1>3. CASE StartSaved \/ Grown
  <2>1. /\ writer = "saved" /\ writer' = "idle" /\ run' # "down"
        /\ UNCHANGED <<visible, outcomes>> /\ energy' = doc.energy
        /\ shown' = Total(energy', phases')
    BY <1>3, JoinMeans DEF StoreFollows
  <2>2. Survivors' = {doc}
    BY <1>0, <2>1 DEF StoreFollows, Survivors
  <2>3. shown' = AllEnergy(doc.energy) /\ shown' \in Nat
    BY <2>1, AllShownNext
  <2>4. AllEnergy(doc.energy) >= shown
    BY <2>1 DEF Remembered
  <2>5. QED BY <2>1, <2>2, <2>3, <2>4 DEF Remembered
<1>4. CASE Opened
  <2>1. /\ run = "opening" /\ UNCHANGED <<visible, outcomes, writer, doc, energy, shown>>
    BY <1>4 DEF Opened, storeVars, meterVars
  <2>2. QED BY <1>0, <2>1 DEF Remembered, Shows, Survivors
<1>5. ASSUME NEW n \in Slots, Grow(n) PROVE Remembered' /\ shown' >= shown
  <2>1. /\ run = "serving" /\ UNCHANGED <<visible, outcomes, energy, shown>>
        /\ DOMAIN doc'.energy = DOMAIN energy \cup {n}
        /\ \A m \in DOMAIN energy : doc'.energy[m] >= energy[m]
    BY <1>5, GrowMeans
  <2>2. Countable(energy) /\ Countable(doc'.energy)
    <3>1. /\ IsDocument([energy |-> energy, phases |-> phases]) /\ IsDocument(doc')
      BY DEF Inv, TypeOK
    <3>2. QED BY <3>1, DocumentCounts
  <2>3. AllEnergy(doc'.energy) >= AllEnergy(energy) /\ AllEnergy(energy) = shown
    BY <2>1, <2>2, CoveredEnergy DEF Remembered, Shows
  <2>4. QED BY <1>0, <2>1, <2>3 DEF Remembered, Shows, Survivors
<1>6. CASE WriterSteps
  <2>1. /\ UNCHANGED <<run, energy, shown, doc>> /\ writer # "idle"
        /\ Survivors' \subseteq Survivors \cup {doc}
    BY <1>0, <1>6, WriterMeans
  <2>2. QED BY <1>0, <2>1 DEF Remembered, Shows
<1>7. CASE Stop \/ SaveFailed \/ Killed \/ PowerLoss
  BY <1>0, <1>7, EndMeans DEF Remembered, Shows
<1>8. QED BY <1>1, <1>2, <1>3, <1>4, <1>5, <1>6, <1>7 DEF Next

LEMMA SavedInit == Init => SavedInv
<1> SUFFICES ASSUME Init PROVE SavedInv
  OBVIOUS
<1>1. /\ visible = InitDocument /\ outcomes = {InitDocument} /\ writer = "idle"
      /\ doc = InitDocument /\ run = "down" /\ shown = 0
  BY DEF Init, Store!StoreInit
<1>2. Survivors = {InitDocument}
  BY <1>1 DEF Survivors
<1>3. Countable(InitDocument.energy)
  BY StartupAssumption, DocumentCounts DEF IsDocument
<1>4. AllEnergy(InitDocument.energy) \in Nat
  BY <1>3, CoveredEnergy DEF Countable
<1>5. QED BY <1>1, <1>2, <1>4 DEF SavedInv, StoreFollows, Startable, Known, Remembered, Shows

LEMMA CurrentAlways == Spec => [](Inv /\ Settled /\ Current)
<1>1. Init => Settled /\ Current
  BY DEF Init, Settled, Current, Shows
<1>2. QED BY <1>1, InitInv, NextInv, SettledStep, PTL DEF Spec

LEMMA SavedAlways ==
    ASSUME PowerAlone
    PROVE  Spec => [](Inv /\ Current /\ SavedInv)
<1>1. Inv /\ Inv' /\ Settled /\ SavedInv /\ [Next]_vars => SavedInv'
  BY FollowStep, StartableStep, KnownStep, RememberedStep DEF SavedInv
<1>2. QED BY <1>1, CurrentAlways, SavedInit, PTL DEF Spec

\* Clients see the energy of every source, whatever the settings.
THEOREM NothingLeftOut == Spec => []ShownIsEverything
<1>1. Inv /\ Current => ShownIsEverything
  <2> SUFFICES ASSUME Inv, Current, Shows
               PROVE  bank["L1"] + bank["L2"] + bank["L3"] =
                          PhaseEnergy(energy, [n \in DOMAIN energy |-> "L1"], "L1")
    BY DEF ShownIsEverything
  <2> DEFINE all == [n \in DOMAIN energy |-> "L1"]
  <2>1. run # "down" /\ bank = Exported(energy, phases)
    BY DEF Shows, Current
  <2>2. Total(energy, phases) = AllEnergy(energy)
    BY <2>1, AllShown DEF Inv, TypeOK
  <2>3. Countable(energy)
    BY DocumentCounts DEF Inv, TypeOK
  <2>4. Named(energy, all, "L1") = DOMAIN energy
    BY DEF Named
  <2>5. PhaseEnergy(energy, all, "L1") = AllEnergy(energy)
    BY <2>3, <2>4, PhaseEnergyIs DEF AllEnergy
  <2>6. QED BY <2>1, <2>2, <2>5 DEF Total
<1>2. QED BY <1>1, CurrentAlways, PTL

\* What clients can read on a phase is on that phase after every crash.
THEOREM ServedStaysSaved ==
    ASSUME PowerAlone
    PROVE  Spec => []ServedIsSaved
<1>1. Inv /\ Current /\ SavedInv => ServedIsSaved
  <2> SUFFICES ASSUME Inv, Current, SavedInv, Shows, NEW d \in Survivors, NEW p \in Phases
               PROVE  PhaseEnergy(d.energy, d.phases, p) >= bank[p]
    BY DEF ServedIsSaved
  <2>1. bank[p] = PhaseEnergy(energy, phases, p) /\ Accounted(d)
    BY DEF Current, SavedInv, Known, Exported
  <2>2. IsDocument(d) /\ IsDocument([energy |-> energy, phases |-> phases])
    BY DEF Inv, TypeOK, Survivors
  <2>3. Countable(energy) /\ Countable(d.energy)
    BY <2>2, DocumentCounts
  <2>4. QED BY <2>1, <2>3, CoveredPhases DEF Accounted
<1>2. QED BY <1>1, SavedAlways, PTL

\* The settings that have served start again on whatever a crash leaves behind.
THEOREM RestartsWithSameConfig ==
    ASSUME PowerAlone
    PROVE  Spec => []SameConfigStarts
<1>1. SavedInv => SameConfigStarts
  BY DEF SavedInv, Startable, SameConfigStarts
<1>2. QED BY <1>1, SavedAlways, PTL

\* The total that clients see never falls, in a crash or with other settings.
THEOREM TotalStaysUp ==
    ASSUME PowerAlone
    PROVE  Spec => TotalNeverFalls
<1>1. Inv /\ SavedInv /\ (Inv /\ SavedInv)' /\ [Next]_vars => [shown' >= shown]_vars
  BY RememberedStep DEF SavedInv
<1>2. QED BY <1>1, SavedAlways, PTL DEF Spec, TotalNeverFalls
=============================================================================
