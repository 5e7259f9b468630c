--------------------------- MODULE EnergyPromise ---------------------------
(***************************************************************************)
(* What the emulator promises a reader of its meter (README, "Dauerhafter  *)
(* Energiezustand"): the energy it shows for a source never falls, because *)
(* it is never more than what every possible restart will find.            *)
(***************************************************************************)
EXTENDS Integers

CONSTANT Sources

VARIABLES
    shown,      \* the energy of each source on the meter
    survivors   \* the energies a restart may find

promiseVars == <<shown, survivors>>

Below(a, b) == \A s \in Sources : a[s] <= b[s]

PromiseInit ==
    /\ shown = [s \in Sources |-> 0]
    /\ survivors = {shown}

\* The meter shows more, and no more than every restart will find.
Show ==
    /\ shown' \in [Sources -> Nat]
    /\ Below(shown, shown')
    /\ \A e \in survivors : Below(shown', e)
    /\ UNCHANGED survivors

\* The state file changes; nothing that is shown is lost.
Store ==
    /\ survivors' # {}
    /\ \A e \in survivors' : Below(shown, e)
    /\ UNCHANGED shown

PromiseNext == Show \/ Store

PromiseSpec == PromiseInit /\ [][PromiseNext]_promiseVars
=============================================================================
