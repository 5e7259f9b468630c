--------------------------- MODULE MCMeterRuntime ---------------------------
(* Small instances of MeterRuntime for TLC. *)
EXTENDS MeterRuntime, TLC

CONSTANTS s1, s2

MCNever == -1

\* Answers of a plug whose apparent power is its power.
Answer(raw, f, power, current, volt, freq) ==
    [raw |-> raw, field |-> f,
     measured |-> [flow |-> [power |-> power, apparent |-> power, current |-> current],
                   volt |-> volt, freq |-> freq]]

MCFlowMax == [power |-> 3, apparent |-> 4, current |-> 3]

\* Raw energies that start, advance, step back within the tolerance, restart
\* and switch the field; a voltage beyond the limit, and a raw energy beyond
\* float32 in a field that was just selected.
RichSamples ==
    {Answer(raw, "aenergy", 1, 1, 2, 2) : raw \in {0, 1, 2, 3}}
        \cup {Answer(1, "ret_aenergy", 2, 1, 2, 2), Answer(1, "aenergy", 1, 1, 4, 2),
             Answer(5, "ret_aenergy", 1, 1, 2, 2)}

\* For two sources: 3 V or 3 Hz alone is too much, but not in the mean with 1,
\* and powers of 2 W or currents of 2 A fit alone but not together.
PairSamples ==
    {Answer(1, "aenergy", 2, 1, 1, 1), Answer(1, "aenergy", 1, 2, 1, 0),
     Answer(1, "aenergy", 1, 1, 3, 1), Answer(1, "aenergy", 0, 0, 0, 3)}
OneSample == {Answer(1, "aenergy", 1, 1, 1, 1)}

SamePhase == [s \in Sources |-> "L1"]

\* With both sources on one phase nothing tells them apart.
SourceSymmetry == Permutations({s1, s2})
=============================================================================
