------------------------------ MODULE SunSpec ------------------------------
(***************************************************************************)
(* The SunSpec register image of the meter (sunspec.py): the Common Model, *)
(* the float model 213 and the integer model 203.  Registers are numbered  *)
(* as in the SunSpec documents; the PDU address is one less.               *)
(*                                                                         *)
(* Values are integers: current in mA, voltage, power and apparent power   *)
(* in hundredths, frequency in mHz, energy in tenths of a Wh, power factor *)
(* in tenths of a percent.  A register is a pair: a 16-bit word, one half  *)
(* of a float32, or a word of a text.  The bits of a float32 are not       *)
(* modelled: two halves of one float give its value, rounded as a float32  *)
(* is and read in the unit of the quantity; others give none.              *)
(***************************************************************************)
EXTENDS Integers, Sequences

CONSTANTS
    NoValue,    \* None: not measured, or not implemented (NaN, 0x8000)
    Acc32Max,   \* the largest accumulator, 0xFFFFFFFF
    Float32Max, \* the integer FLOAT32_MAX
    FloatSteps  \* 1, 2, 4, ...: how far apart float32s from 2^23 on are

ASSUME SunSpecAssumption ==
    /\ NoValue \notin Int
    /\ Acc32Max \in Nat /\ Acc32Max \div 65536 < 65536

ASSUME Float32Assumption ==
    /\ FloatSteps \subseteq Nat \ {0}
    /\ \A s \in FloatSteps : s = 1 \/ \E t \in FloatSteps : s = 2 * t
    /\ \A s, t \in FloatSteps : s < t => 2 * s <= t
    /\ Float32Max \in Nat /\ Acc32Max < Float32Max
    /\ \E s \in FloatSteps : Float32Max < 16777216 * s

PhaseOrder == <<"L1", "L2", "L3">>
Phases == {PhaseOrder[i] : i \in 1..3}
MeterModels == {203, 213}
-----------------------------------------------------------------------------
(* Registers *)

\* TLC's @@, in a form that proofs can expand: f where it is defined, else g.
f ++ g == [r \in DOMAIN f \cup DOMAIN g |-> IF r \in DOMAIN f THEN f[r] ELSE g[r]]

Words(first, values) ==
    [r \in first..(first + Len(values) - 1) |-> <<"word", values[r - first + 1]>>]

\* Python's round(n / d): halves go to the even neighbour.
RoundDiv(n, d) ==
    LET q == n \div d
        r == n % d
    IN  IF 2 * r > d \/ (2 * r = d /\ q % 2 = 1) THEN q + 1 ELSE q

Magnitude(n) == IF n < 0 THEN -n ELSE n

\* A float32 has 24 binary digits.  From 2^14 to 2^23 its neighbours are a half,
\* a quarter, ..., a 512th apart, from 2^23 on 1, 2, 4, ...
FloatParts(whole) ==
    CHOOSE f \in {2, 4, 8, 16, 32, 64, 128, 256, 512} :
        8388608 <= f * whole /\ f * whole < 16777216
FloatStep(whole) ==
    CHOOSE s \in FloatSteps : 8388608 * s <= whole /\ whole < 16777216 * s

\* struct.pack(">f", n / unit), as a client reads it to the nearest unit: below
\* 2^14 a float32 is precise to more than a thousandth.
Float32(n, unit) ==
    LET whole == Magnitude(n) \div unit
    IN  CASE n = NoValue -> NoValue
          [] n # NoValue /\ whole < 16384 -> n
          [] n # NoValue /\ 16384 <= whole /\ whole < 8388608 ->
                RoundDiv(unit * RoundDiv(FloatParts(whole) * n, unit), FloatParts(whole))
          [] OTHER -> unit * FloatStep(whole) * RoundDiv(n, unit * FloatStep(whole))

\* _write_float for consecutive points, each a high and a low word.
Floats(first, unit, values) ==
    [r \in first..(first + 2 * Len(values) - 1) |->
        <<IF (r - first) % 2 = 0 THEN "high" ELSE "low",
          Float32(values[(r - first) \div 2 + 1], unit)>>]

NotAvailable == 32768   \* 0x8000, reserved in every int16 point

\* Mutant of SignedWord: a negative number is written as it is.
SignedWordUnmasked(n) == n

SignedWord(n) == n % 65536

\* A group of int16 points that share a scale factor.
ScaledInt16(p, value) ==
    IF value = NoValue THEN NotAvailable
    ELSE SignedWord(RoundDiv(value, 10^(p.unit + p.sf)))

ScaledGroup(p) ==
    Words(p.at, [i \in DOMAIN p.values |-> ScaledInt16(p, p.values[i])]
                    \o <<SignedWord(p.sf)>>)

\* Mutant of Int16Range: the reserved -32768 is allowed.
Int16RangeFull == -32768..32767

Int16Range == -32767..32767

\* Mutant of Acc32Words: the low word first.
Acc32WordsSwapped(wh) == <<wh % 65536, wh \div 65536>>

\* _write_acc32: the high word first.
Acc32Words(wh) == <<wh \div 65536, wh % 65536>>
-----------------------------------------------------------------------------
(* Derived values *)

\* The sum of a quantity over the phases, and its value on each phase.
PhaseValues(s, q) == [i \in 1..3 |-> s.phase[PhaseOrder[i]][q]]
TotalOf(s, q) == PhaseValues(s, q)[1] + PhaseValues(s, q)[2] + PhaseValues(s, q)[3]
WithPhases(s, q) == <<TotalOf(s, q)>> \o PhaseValues(s, q)

\* _external_generator_meter_power: generation is a negative flow.
FlowValues(s) == [i \in 1..4 |-> -WithPhases(s, "power")[i]]

\* _line_voltage, to a tenth of a volt: Sqrt(a^2 + b^2 + a*b) lies between
\* 0.866 (a + b) and a + b.
LineVoltage(a, b) ==
    LET x == a \div 10
        y == b \div 10
        square == x * x + y * y + x * y
    IN  10 * CHOOSE r \in ((43 * (x + y)) \div 50)..(x + y) :
                r * r - r < square /\ square <= r * r + r

\* Average, phases; average line voltage (of the rounded ones), line voltages.
VoltageValues(s) ==
    LET v == PhaseValues(s, "voltage")
        line == <<LineVoltage(v[1], v[2]), LineVoltage(v[2], v[3]), LineVoltage(v[3], v[1])>>
    IN  <<TotalOf(s, "voltage") \div 3>> \o v
            \o <<(line[1] + line[2] + line[3]) \div 3>> \o line

\* _power_factor; a phase has none of its own (aggregate_readings).
PowerFactor(power, apparent) ==
    IF apparent = 0 THEN NoValue
    ELSE LET pf == RoundDiv(1000 * power, apparent)
         IN  IF pf > 1000 THEN 1000 ELSE IF pf < -1000 THEN -1000 ELSE pf

FactorValues(s) ==
    [i \in 1..4 |-> PowerFactor(WithPhases(s, "power")[i], WithPhases(s, "apparent")[i])]

\* Exported energy, and imported energy, which the emulator does not have.
EnergyValues(s) == WithPhases(s, "exported") \o <<0, 0, 0, 0>>
-----------------------------------------------------------------------------
(* The models *)

\* Mutant of Header: the length counts the header as well.
HeaderLong(model, length) == Words(40070, <<model, length + 2>>)

Header(model, length) == Words(40070, <<model, length>>)

\* _populate_model_213: points that are not written stay NaN.
Body213(s) ==
    Header(213, 124)
        ++ Floats(40072, 1000, WithPhases(s, "current"))
        ++ Floats(40080, 100, VoltageValues(s))
        ++ Floats(40096, 1000, <<s.frequency>>)
        ++ Floats(40098, 100, FlowValues(s))
        ++ Floats(40106, 100, WithPhases(s, "apparent"))
        ++ Floats(40122, 1000, FactorValues(s))
        ++ Floats(40130, 10, EnergyValues(s))
        ++ Words(40194, <<0, 0, 65535, 0>>)
        ++ Floats(40072, 1, [i \in 1..61 |-> NoValue])

\* The int16 groups of model 203, with their fixed scale factors.
Int16Groups(s) ==
    <<[at |-> 40072, unit |-> 3, sf |-> -3, values |-> WithPhases(s, "current")],
      [at |-> 40077, unit |-> 2, sf |-> -1, values |-> VoltageValues(s)],
      [at |-> 40086, unit |-> 3, sf |-> -2, values |-> <<s.frequency>>],
      [at |-> 40088, unit |-> 2, sf |-> -1, values |-> FlowValues(s)],
      [at |-> 40093, unit |-> 2, sf |-> -1, values |-> WithPhases(s, "apparent")],
      [at |-> 40103, unit |-> 1, sf |-> -1, values |-> FactorValues(s)]>>

WholeWh(s, i) == RoundDiv(EnergyValues(s)[i], 10)

\* _populate_model_203
Body203(s) ==
    LET group == Int16Groups(s)
        zeros(n) == [i \in 1..n |-> 0]
    IN  Header(203, 105)
            ++ ScaledGroup(group[1]) ++ ScaledGroup(group[2]) ++ ScaledGroup(group[3])
            ++ ScaledGroup(group[4]) ++ ScaledGroup(group[5])
            ++ Words(40098, [i \in 1..5 |-> NotAvailable])
            ++ ScaledGroup(group[6])
            ++ Words(40108, [i \in 1..16 |-> Acc32Words(WholeWh(s, (i + 1) \div 2))[2 - (i % 2)]])
            ++ Words(40124, <<0>> \o zeros(16) \o <<NotAvailable>>)
            ++ Words(40142, zeros(32) \o <<NotAvailable, 0, 0, 65535, 0>>)

\* build_registers: SunS, Common Model 1 (its texts are not modelled), meter.
Registers(model, unit, s) ==
    Words(40001, <<21365, 28243, 1, 65>>)
        ++ [r \in 40005..40068 |-> <<"text", 0>>]
        ++ Words(40069, <<unit>>)
        ++ (IF model = 203 THEN Body203(s) ELSE Body213(s))
-----------------------------------------------------------------------------
(* What makes build_registers raise ValueError *)

Valid(s) ==
    /\ \A p \in Phases :
          /\ s.phase[p].voltage > 0
          /\ \A q \in {"current", "power", "apparent", "exported"} : s.phase[p][q] >= 0
    /\ s.frequency > 0

Fits203(s) ==
    /\ \A g \in 1..6 :
          LET p == Int16Groups(s)[g]
          IN  \A i \in DOMAIN p.values :
                 p.values[i] # NoValue =>
                     RoundDiv(p.values[i], 10^(p.unit + p.sf)) \in Int16Range
    /\ \A i \in 1..8 : WholeWh(s, i) \in 0..Acc32Max

\* No number is larger than FLOAT32_MAX.
FloatsFit(unit, values) ==
    \A i \in DOMAIN values : (Magnitude(values[i]) + unit - 1) \div unit <= Float32Max

\* A power factor always fits.
Fits213(s) ==
    /\ FloatsFit(1000, WithPhases(s, "current")) /\ FloatsFit(100, VoltageValues(s))
    /\ FloatsFit(1000, <<s.frequency>>) /\ FloatsFit(100, FlowValues(s))
    /\ FloatsFit(100, WithPhases(s, "apparent")) /\ FloatsFit(10, EnergyValues(s))

Buildable(model, s) == Valid(s) /\ (IF model = 203 THEN Fits203(s) ELSE Fits213(s))
=============================================================================
