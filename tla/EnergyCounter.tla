--------------------------- MODULE EnergyCounter ---------------------------
(***************************************************************************)
(* The virtual lifetime energy of one source: the pure part of             *)
(* EnergyStateStore.update (state.py).  A Shelly reports a raw counter     *)
(* that may restart at zero, may step back a little when its firmware      *)
(* rounds, and may be read from either of two fields; the emulator derives *)
(* from it a value that the meter can show for life.                       *)
(*                                                                         *)
(* Energies are integers: WattHour of them make one watt hour.  Python     *)
(* computes in float64; rounding errors of that arithmetic are not         *)
(* modelled.                                                               *)
(***************************************************************************)
EXTENDS Integers

CONSTANTS
    Fields,      \* the two counters of a plug, "aenergy" and "ret_aenergy"
    WattHour,    \* units in one watt hour: the absolute reset tolerance
    Tolerance,   \* the relative reset tolerance is last / Tolerance (10^6)
    FloatMax,    \* FLOAT32_MAX, the largest raw or virtual energy
    NoCounter    \* a source that has never been read

\* The energy a counter has put on the meter, its raw value and its field.
Counter == [last : 0..FloatMax, offset : Int, value : 0..FloatMax, field : Fields]

ASSUME CounterAssumption ==
    /\ WattHour \in Nat \ {0}
    /\ Tolerance \in Nat \ {0}
    /\ FloatMax \in Nat
    /\ NoCounter \notin Counter
-----------------------------------------------------------------------------
\* The energy of a counter that may not exist yet: nothing is on the meter.
Energy(c) == IF c = NoCounter THEN 0 ELSE c.value

\* Mutant of IsReset: every step back is a reset.
IsResetStrict(c, raw) == raw < c.last

\* raw + max(1.0, last * 0.000001) < last, without the division.
IsReset(c, raw) ==
    /\ c.last - raw > WattHour
    /\ (c.last - raw) * Tolerance > c.last

\* The first reading counts in full: the plug produced it before it was met.
FirstReading(raw, f) ==
    [last |-> raw, offset |-> 0, value |-> raw, field |-> f]

\* A newly selected field starts from the value shown, whatever it reads.
Rebaselined(c, raw, f) ==
    [last |-> raw, offset |-> c.value - raw, value |-> c.value, field |-> f]

\* Mutant of Advanced: a step back within the tolerance lowers the value.
AdvancedUnclamped(c, raw) ==
    [last |-> raw, offset |-> c.offset, value |-> c.offset + raw, field |-> c.field]

\* A restarted counter has produced its whole raw value since the restart.
Restarted(c, raw) ==
    [last |-> raw, offset |-> c.value, value |-> c.value + raw, field |-> c.field]

\* The same counter went on (or stepped back within the tolerance).
Advanced(c, raw) ==
    LET total == c.offset + raw
    IN  [last |-> raw, offset |-> c.offset,
         value |-> IF total > c.value THEN total ELSE c.value, field |-> c.field]

\* The counter that update() stores for a reading.
UpdateCounter(c, raw, f) ==
    IF c = NoCounter THEN FirstReading(raw, f)
    ELSE IF f # c.field THEN Rebaselined(c, raw, f)
    ELSE IF IsReset(c, raw) THEN Restarted(c, raw)
    ELSE Advanced(c, raw)

\* Mutant of UrgentUpdate: a new baseline without new energy can wait.
UrgentReset(c, raw, f) ==
    \/ c = NoCounter
    \/ c # NoCounter /\ f = c.field /\ IsReset(c, raw)

\* The updates that set the urgent flag: they must be saved even when the
\* value did not move.
UrgentUpdate(c, raw, f) ==
    \/ c = NoCounter
    \/ c # NoCounter /\ (f # c.field \/ IsReset(c, raw))

\* Mutant of UpdateAllowed: only the virtual value is checked, not the raw one.
UpdateAllowedUnchecked(c, raw, f) ==
    /\ f \in Fields
    /\ UpdateCounter(c, raw, f).value <= FloatMax

\* update() raises ValueError, and stores nothing, unless this holds.
UpdateAllowed(c, raw, f) ==
    /\ raw \in 0..FloatMax
    /\ f \in Fields
    /\ UpdateCounter(c, raw, f).value <= FloatMax
=============================================================================
