----------------------------- MODULE MCStartup -----------------------------
(* Small instances of Startup for TLC. *)
EXTENDS Startup

MCSlots == {"shelly_1", "shelly_2"}
MCNames == MCSlots

Plug(on, phase, legal) == [host |-> on, phase |-> phase, legal |-> legal]

\* A plug on one of two phases, off with or without a phase, or misconfigured.
Plugs == {Plug(TRUE, "L1", TRUE), Plug(TRUE, "L2", TRUE), Plug(FALSE, "L3", TRUE),
          Plug(FALSE, BadPhase, FALSE), Plug(TRUE, BadPhase, TRUE), Plug(TRUE, "L1", FALSE)}

MCEnvironments ==
    {[slot |-> s, model |-> m, legal |-> TRUE] :
        s \in [MCSlots -> Plugs], m \in {203, 213}}
    \cup {[slot |-> [n \in MCSlots |-> Plug(TRUE, "L1", TRUE)], model |-> 208, legal |-> TRUE],
          [slot |-> [n \in MCSlots |-> Plug(TRUE, "L1", TRUE)], model |-> 213, legal |-> FALSE]}

MCLevels == {0, 10, 20}

\* A file of the version that saved no phases, with one plug read so far.
MCOldDocument ==
    [energy |-> [n \in {"shelly_1"} |-> 10], phases |-> [n \in {} |-> "L1"]]

\* What a power loss takes back after a process has died is left out: see
\* RuntimeKillPower.
MCFaultSets == {{"power", "early"}, {"kill", "early", "late"}}

\* Bound: one renamed document at a time that was not synced.
MCOneUnsynced == Cardinality(outcomes) <= 2
=============================================================================
