--------------------------- MODULE MCMeterReader ---------------------------
(* A small instance of MeterReader for TLC. *)
EXTENDS MeterReader

Measured(p, current, power, apparent, voltage, frequency) ==
    [phase |-> p, current |-> current, power |-> power, apparent |-> apparent,
     voltage |-> voltage, frequency |-> frequency]

\* A removed plug c on the phase of a; readings at the int16 limits of power
\* and current, below the resolution, without voltage or frequency.
MCPhases == [a |-> "L1", b |-> "L2", c |-> "L1"]
MCSamples ==
    [a |-> {Measured("L1", 5000, 116000, 117000, 23400, 50020),
            Measured("L1", 14371, 327670, 327666, 22800, 49980)},
     b |-> {Measured("L2", 0, 10, 0, 0, NoValue),
            Measured("L2", 18396, 4, 4, 22800, 50000)},
     c |-> {}]

\* Energies that float32s round to 1/4, 1, 2, 4 and 8 Wh: the total is 19791872.9 Wh
\* with the lower energy of plug b, which the models round apart, the last that the
\* accumulators hold with the next, and the first beyond Float32Max with the last.
MCLevels ==
    [a |-> {83886133, 167772165}, b |-> {30146563, 587202500, 1174405040}, c |-> {1}]
MCFloatSteps == {1, 2, 4, 8}

MCUnits == {2, 3}

\* Bound: from the first probe on the meter has no reading of plug b and one of
\* plug a at most, and one energy of plug b; until then it shows anything.
MCProbesOfFew ==
    step # "idle" \/ last.model # 0 =>
        /\ \A n \in DOMAIN fresh : n = "a" /\ fresh[n].power = 116000
        /\ energy["b"] = 30146563
=============================================================================
