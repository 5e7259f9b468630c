---------------------------- MODULE Aggregation ----------------------------
(***************************************************************************)
(* aggregate_readings (aggregate.py): the fresh readings of the sources,   *)
(* and the energies of all sources that were ever read, become one         *)
(* three-phase snapshot, which SunSpec turns into registers.               *)
(*                                                                         *)
(* A mean is a quotient of integers: exact when the numbers are chosen so. *)
(***************************************************************************)
EXTENDS SunSpec, FiniteSets, Functions

CONSTANTS
    FallbackVoltage,    \* fallback_voltage_v
    GridFrequency       \* grid_frequency_hz

ASSUME AggregationAssumption == FallbackVoltage \in Nat \ {0} /\ GridFrequency \in Nat \ {0}

\* A quantity of the fresh readings, summed or averaged over some sources.
SumOf(fresh, names, q) == SumFunction([n \in names |-> fresh[n][q]])
MeanOf(fresh, names, q) == SumOf(fresh, names, q) \div Cardinality(names)

OnPhase(fresh, p) == {n \in DOMAIN fresh : fresh[n].phase = p}
WithVoltage(fresh, names) == {n \in names : fresh[n].voltage > 0}

\* A phase without a voltage takes the mean of all voltages, or the fallback.
PhaseVoltage(fresh, p) ==
    LET own == WithVoltage(fresh, OnPhase(fresh, p))
        all == WithVoltage(fresh, DOMAIN fresh)
    IN  IF own # {} THEN MeanOf(fresh, own, "voltage")
        ELSE IF all # {} THEN MeanOf(fresh, all, "voltage")
        ELSE FallbackVoltage

\* energy_by_source on a phase; a source without a phase is left out.
PhaseEnergy(energy, phaseOf, p) ==
    LET named == {n \in DOMAIN energy \cap DOMAIN phaseOf : phaseOf[n] = p}
    IN  SumFunction([n \in named |-> energy[n]])

Aggregate(fresh, energy, phaseOf) ==
    LET timed == {n \in DOMAIN fresh : fresh[n].frequency # NoValue}
    IN  [phase |-> [p \in Phases |->
            [current |-> SumOf(fresh, OnPhase(fresh, p), "current"),
             power |-> SumOf(fresh, OnPhase(fresh, p), "power"),
             apparent |-> SumOf(fresh, OnPhase(fresh, p), "apparent"),
             voltage |-> PhaseVoltage(fresh, p),
             exported |-> PhaseEnergy(energy, phaseOf, p)]],
         frequency |-> IF timed = {} THEN GridFrequency ELSE MeanOf(fresh, timed, "frequency")]
=============================================================================
