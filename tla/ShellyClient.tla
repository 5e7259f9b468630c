---------------------------- MODULE ShellyClient ----------------------------
(***************************************************************************)
(* How ShellyClient (shelly.py) reads one Switch.GetStatus answer of a     *)
(* plug: the direction of the power, the energy counter that belongs to    *)
(* it, and the latch that pins the automatic choice.                       *)
(*                                                                         *)
(* A payload is the signed active power and the totals of the two energy   *)
(* counters, each of which may be missing; a payload that is malformed in  *)
(* any other way is an error and yields no reading.                        *)
(***************************************************************************)
EXTENDS Integers

CONSTANTS
    MinPower,       \* min_power_w: less than this is standby
    Missing,        \* a counter that the payload does not have
    Undetermined    \* the latch before a reading was accepted (None)

Directions == {"auto", "positive", "negative", "absolute"}
FieldSettings == {"auto", "aenergy", "ret_aenergy"}

\* A source's power_direction and energy_field.
Settings == [direction : Directions, field : FieldSettings]

Latches == BOOLEAN \cup {Undetermined}

\* Mutant of AutoNegative: every payload decides anew.
AutoNegativeUnpinned(set, latch, p) ==
    set.direction = "auto" /\ p.total["ret_aenergy"] # Missing

\* use_negative_auto: a plug that has a ret_aenergy counter measures both
\* directions; the first reading that was accepted decides for good.
AutoNegative(set, latch, p) ==
    /\ set.direction = "auto"
    /\ IF latch = Undetermined THEN p.total["ret_aenergy"] # Missing ELSE latch

\* Mutant of Power: automatic direction drops the sign.
PowerUnsigned(set, negative, raw) == IF raw < 0 THEN -raw ELSE raw

\* _normalise_power
Power(set, negative, raw) ==
    LET reversed == set.direction = "negative" \/ negative
        flow == IF reversed \/ (set.direction = "absolute" /\ raw < 0) THEN -raw ELSE raw
    IN  IF flow > 0 THEN flow ELSE 0

\* _select_energy
SelectedField(set, negative, p) ==
    IF set.field # "auto" THEN set.field
    ELSE IF \/ negative
            \/ set.direction = "negative" /\ p.total["ret_aenergy"] # Missing
         THEN "ret_aenergy"
         ELSE "aenergy"

\* Generation below the threshold is shown as no generation at all.
AboveStandby(power) == IF power < MinPower THEN 0 ELSE power

\* _parse_payload: the reading, if the selected counter is there.
Parse(set, latch, p) ==
    LET negative == AutoNegative(set, latch, p)
        field == SelectedField(set, negative, p)
    IN  [raw |-> p.total[field], field |-> field,
         power |-> AboveStandby(Power(set, negative, p.power)),
         negative |-> IF set.direction = "auto" THEN negative ELSE Undetermined]

Usable(set, latch, p) == Parse(set, latch, p).raw # Missing

\* accept(): only a reading that the meter accepts sets the latch.
Latch(set, latch, reading) ==
    IF set.direction = "auto" /\ latch = Undetermined THEN reading.negative ELSE latch
=============================================================================
