---------------------------- MODULE MeterReader ----------------------------
(***************************************************************************)
(* The clients that read the meter, and what they read.  The emulator      *)
(* publishes one register image after the other (MeterRuntime says when)   *)
(* and may be restarted as another meter model; a probe (probe.py)         *)
(* discovers the model and reads its registers in several requests, each   *)
(* on a connection of its own and each answered from the image of its      *)
(* moment (modbus.py: _handle_pdu, RegisterBank.read); the health check    *)
(* (healthcheck.py) reads the first two registers.                         *)
(***************************************************************************)
EXTENDS Aggregation

CONSTANTS
    SourcePhase,    \* the phase of each source
    Samples,        \* for each source, the readings it may have; a removed plug has none
    Levels,         \* for each source, the energies it may have
    UnitId,         \* modbus_unit_id
    ProbeUnits,     \* unit ids a probe may be started with
    Garbled         \* two words that are not the halves of one float

ASSUME ReaderAssumption ==
    /\ DOMAIN Samples = DOMAIN SourcePhase /\ DOMAIN Levels = DOMAIN SourcePhase
    /\ IsFiniteSet(DOMAIN SourcePhase)
    /\ UnitId \in 1..247 /\ ProbeUnits \subseteq 1..247
    /\ Garbled \notin Int
    /\ \A n \in DOMAIN SourcePhase :
          /\ SourcePhase[n] \in Phases /\ Levels[n] \subseteq Nat
          /\ \A r \in Samples[n] :
                /\ r.phase = SourcePhase[n]
                /\ r.power \in Nat /\ r.apparent \in Nat

VARIABLES
    model,      \* the meter model the emulator is configured with
    up,         \* it runs and answers
    fresh,      \* its fresh readings
    energy,     \* its energies
    image,      \* the registers of its bank
    step,       \* the probe: "idle", "header", "body" or "report"
    ask,        \* unit, expected model and next request of the probe
    seen,       \* the registers it has read
    answered,   \* history: the images that answered its body requests
    excuse,     \* history: something has kept the probe from succeeding
    result,     \* what it returns, or Failed
    last        \* history: model and energy of the last successful probe

meterVars == <<model, up, fresh, energy, image>>
probeVars == <<step, ask, seen, result>>
historyVars == <<answered, excuse, last>>
vars == <<meterVars, probeVars, historyVars>>

Sources == DOMAIN SourcePhase
NoReadings == [n \in {} |-> 0]
NoRegisters == [r \in {} |-> <<"word", 0>>]
Failed == [model |-> 0]
-----------------------------------------------------------------------------
(* A request and its answer *)

Exception(code) == [exception |-> code, words |-> NoRegisters]

\* A well-formed FC03 request of one of the clients.
ReadRequest(unit, start, count) ==
    [unit |-> unit, function |-> 3, size |-> 5, start |-> start, count |-> count]

\* _handle_pdu and RegisterBank.read: registers or an exception.
Answer(req) ==
    LET asked == (req.start + 1)..(req.start + req.count)
    IN  CASE req.size = 0 -> Exception(3)
          [] req.size # 0 /\ req.unit # UnitId -> Exception(11)
          [] req.size # 0 /\ req.unit = UnitId /\ req.function # 3 -> Exception(1)
          [] OTHER ->
                IF \/ req.size # 5 \/ req.count \notin 1..125
                   \/ req.start + req.count > 65536
                THEN Exception(3)
                ELSE IF ~(asked \subseteq DOMAIN image) THEN Exception(2)
                ELSE [exception |-> 0, words |-> [r \in asked |-> image[r]]]

\* check(): "SunS" is the answer to the health check's request.
Healthy ==
    LET reply == Answer(ReadRequest(UnitId, 40000, 2))
    IN  reply.exception = 0 /\ reply.words = Words(40001, <<21365, 28243>>)
-----------------------------------------------------------------------------
(* What the probe makes of the registers *)

IsWord(regs, r) == regs[r][1] = "word"

Signed(word) == IF word >= 32768 THEN word - 65536 ELSE word

ScaledAt(regs, r, sf, unit) ==
    IF ~IsWord(regs, r) \/ ~IsWord(regs, sf) THEN Garbled
    ELSE IF NotAvailable \in {regs[r][2], regs[sf][2]} THEN NoValue
    ELSE Signed(regs[r][2]) * 10^(unit + Signed(regs[sf][2]))

Acc32At(regs, r, sf, unit) ==
    IF ~(IsWord(regs, r) /\ IsWord(regs, r + 1) /\ IsWord(regs, sf)) THEN Garbled
    ELSE IF regs[sf][2] = NotAvailable THEN NoValue
    ELSE (regs[r][2] * 65536 + regs[r + 1][2]) * 10^(unit + Signed(regs[sf][2]))

\* _float_at: the halves are those of one float, and give its value.
FloatAt(regs, r) ==
    IF regs[r][1] = "high" /\ regs[r + 1] = <<"low", regs[r][2]>> THEN regs[r][2]
    ELSE Garbled

\* The values the probe returns for the model it has discovered.
Reading(m, regs) ==
    IF m = 203
    THEN [model |-> m,
          current |-> ScaledAt(regs, 40072, 40076, 3),
          voltage |-> ScaledAt(regs, 40077, 40085, 2),
          frequency |-> ScaledAt(regs, 40086, 40087, 3),
          power |-> ScaledAt(regs, 40088, 40092, 2),
          apparent |-> ScaledAt(regs, 40093, 40097, 2),
          factor |-> ScaledAt(regs, 40103, 40107, 1),
          exported |-> Acc32At(regs, 40108, 40124, 1)]
    ELSE [model |-> m,
          current |-> FloatAt(regs, 40072),
          voltage |-> FloatAt(regs, 40080),
          frequency |-> FloatAt(regs, 40096),
          power |-> FloatAt(regs, 40098),
          apparent |-> FloatAt(regs, 40106),
          factor |-> FloatAt(regs, 40122),
          exported |-> FloatAt(regs, 40130)]

ModelLength(m) == IF m = 203 THEN 105 ELSE 124

\* Mutant of ChainMatches: the end model is not looked at.
ChainMatchesOpen(regs, unit) ==
    /\ \A r \in 40001..40004 : regs[r] = Words(40001, <<21365, 28243, 1, 65>>)[r]
    /\ regs[40069] = <<"word", unit>>

\* Signature, Common Model, device address and end model are as expected.
ChainMatches(regs, unit) ==
    LET end == IF regs[40070][2] = 203 THEN 40177 ELSE 40196
    IN  /\ \A r \in 40001..40004 : regs[r] = Words(40001, <<21365, 28243, 1, 65>>)[r]
        /\ regs[40069] = <<"word", unit>>
        /\ regs[end] = <<"word", 65535>> /\ regs[end + 1] = <<"word", 0>>
-----------------------------------------------------------------------------
(* The emulator *)

Init ==
    /\ model \in MeterModels /\ up = FALSE
    /\ fresh = NoReadings /\ image = NoRegisters
    /\ energy \in [Sources -> UNION {Levels[n] : n \in Sources}]
    /\ \A n \in Sources : energy[n] \in Levels[n]
    /\ step = "idle" /\ ask = [unit |-> UnitId, expected |-> NoValue, start |-> 0, left |-> 0]
    /\ seen = NoRegisters /\ result = Failed
    /\ answered = {} /\ excuse = FALSE /\ last = [model |-> 0, exported |-> 0]

\* The probe is busy: what happens to the meter now may disturb it.
Busy == step \in {"header", "body"}

\* build_registers and RegisterBank.publish: an image that cannot be built
\* leaves everything as it was.
PublishAs(m, readings, energies) ==
    LET snapshot == Aggregate(readings, energies, SourcePhase)
    IN  /\ Buildable(m, snapshot)
        /\ image' = Registers(m, UnitId, snapshot)
        /\ fresh' = readings /\ energy' = energies

\* A source has a new reading, and its energy has grown or not.
NewReading(n) ==
    /\ up
    /\ \E sample \in Samples[n], level \in Levels[n] :
          /\ level >= energy[n]
          /\ PublishAs(model, [o \in {n} |-> sample] ++ fresh, [energy EXCEPT ![n] = level])
    /\ UNCHANGED <<model, up, probeVars, historyVars>>

\* Its last reading is too old.
Expire(n) ==
    /\ up /\ n \in DOMAIN fresh
    /\ PublishAs(model, [o \in DOMAIN fresh \ {n} |-> fresh[o]], energy)
    /\ UNCHANGED <<model, up, probeVars, historyVars>>

Stop ==
    /\ up
    /\ up' = FALSE /\ fresh' = NoReadings /\ image' = NoRegisters
    /\ excuse' = (excuse \/ Busy)
    /\ UNCHANGED <<model, energy, probeVars, answered, last>>

\* run() starts, with the model configured now, if that can show the energy.
Start ==
    /\ ~up
    /\ model' \in MeterModels
    /\ PublishAs(model', NoReadings, energy)
    /\ up' = TRUE
    /\ excuse' = (excuse \/ Busy)
    /\ UNCHANGED <<probeVars, answered, last>>
-----------------------------------------------------------------------------
(* probe() *)

ProbeStart ==
    /\ step = "idle"
    /\ \E unit \in ProbeUnits, expected \in MeterModels \cup {NoValue} :
          /\ ask' = [unit |-> unit, expected |-> expected, start |-> 40000, left |-> 71]
          /\ excuse' = (unit # UnitId)
    /\ step' = "header" /\ seen' = NoRegisters /\ answered' = {} /\ result' = Failed
    /\ UNCHANGED <<meterVars, last>>

\* The probe ends without a result.
Fail ==
    /\ step' = "report" /\ result' = Failed
    /\ seen' = NoRegisters /\ ask' = [ask EXCEPT !.start = 0, !.left = 0]
    /\ UNCHANGED <<meterVars, last>>

\* The connection is refused, breaks, or times out.
Unanswered == Busy /\ Fail /\ excuse' = TRUE /\ UNCHANGED answered

\* The answer to the first request: is it a meter of a known model?
HeaderReply(reply) ==
    LET m == reply.words[40070][2]
    IN  IF \/ reply.exception # 0
           \/ m \notin MeterModels
           \/ reply.words[40071] # <<"word", ModelLength(m)>>
        THEN Fail /\ UNCHANGED excuse
        ELSE /\ seen' = reply.words
             /\ ask' = [ask EXCEPT !.start = 40071, !.left = ModelLength(m) + 2]
             /\ step' = "body"
             /\ UNCHANGED <<meterVars, excuse, result, last>>

\* The first request: Common Model and the header of the meter model.
AskHeader ==
    /\ step = "header" /\ up
    /\ HeaderReply(Answer(ReadRequest(ask.unit, 40000, 71)))
    /\ UNCHANGED answered

\* Mutant of ChunkSize: one register more than a request may ask for.
ChunkSizeOver(left) == IF left > 126 THEN 126 ELSE left

\* min(125, remaining)
ChunkSize(left) == IF left > 125 THEN 125 ELSE left

\* The last answer completes the registers: the probe checks and returns.
Finish(regs) ==
    LET m == regs[40070][2]
    IN  IF ~ChainMatches(regs, ask.unit) THEN Fail /\ UNCHANGED excuse
        ELSE IF ask.expected \notin {NoValue, m}
        THEN Fail /\ excuse' = (excuse \/ ask.expected # model)
        ELSE /\ step' = "report" /\ result' = Reading(m, regs)
             /\ last' = [model |-> m, exported |-> Reading(m, regs).exported]
             /\ seen' = NoRegisters /\ ask' = [ask EXCEPT !.start = 0, !.left = 0]
             /\ UNCHANGED <<meterVars, excuse>>

\* The answer to one of the requests for the body.
BodyReply(reply, count) ==
    LET regs == seen ++ reply.words
    IN  IF reply.exception # 0 THEN Fail /\ UNCHANGED <<excuse, answered>>
        ELSE /\ answered' = answered \cup {image}
             /\ IF ask.left = count THEN Finish(regs)
                ELSE /\ seen' = regs
                     /\ ask' = [ask EXCEPT !.start = @ + count, !.left = @ - count]
                     /\ UNCHANGED <<meterVars, step, excuse, result, last>>

\* while remaining: the body of the model and the end model after it.
AskBody ==
    /\ step = "body" /\ up
    /\ BodyReply(Answer(ReadRequest(ask.unit, ask.start, ChunkSize(ask.left))),
                 ChunkSize(ask.left))

\* The probe prints its result and ends.
Report ==
    /\ step = "report"
    /\ step' = "idle" /\ result' = Failed /\ answered' = {} /\ excuse' = FALSE
    /\ UNCHANGED <<meterVars, ask, seen, last>>

Next ==
    \/ \E n \in Sources : NewReading(n) \/ Expire(n)
    \/ Stop \/ Start
    \/ ProbeStart \/ AskHeader \/ AskBody \/ Unanswered \/ Report

Spec == Init /\ [][Next]_vars
-----------------------------------------------------------------------------
(* Properties *)

UInt16 == 0..65535

\* How far the float32 of a number may be from it, in the unit of the number: a
\* float32 is precise to one part in 2^24, rounded here to the unit.
FloatError(n) == (Magnitude(n) + 8388608) \div 16777216

\* Every register is a 16-bit word, as RegisterBank.replace demands, and the
\* variables have their types.
TypeOK ==
    /\ model \in MeterModels /\ up \in BOOLEAN /\ excuse \in BOOLEAN
    /\ step \in {"idle", "header", "body", "report"}
    /\ DOMAIN fresh \subseteq Sources
    /\ \A n \in Sources : energy[n] \in Levels[n]
    /\ \A r \in DOMAIN image : IsWord(image, r) => image[r][2] \in UInt16
    /\ DOMAIN seen \subseteq 40001..40197

\* The header that follows a model, by the length in its own header.
Following(header) == header + 2 + image[header + 1][2]

\* A client that trusts nothing but ids and lengths walks from the Common
\* Model to the meter model and on to the end model, and the image ends
\* right after it, without a hole (sunspec.py: build_registers).
ChainIsWalkable ==
    up => LET meter == Following(40003)
              end == Following(meter)
          IN  /\ DOMAIN image = 40001..(end + 1)
              /\ image[meter] = <<"word", model>>
              /\ image[end] = <<"word", 65535>> /\ image[end + 1] = <<"word", 0>>

\* A value that is there, and off by half at most.
Near(value, exact, half) ==
    value \notin {NoValue, Garbled} /\ value - exact \in (-half)..half

\* What a client reads is what the sources measure, off by half a unit of the
\* registers of model 203, or by the error of a float32 in model 213: power is
\* the negative sum of the fresh readings, in all and on each phase, and never
\* looks like "not implemented"; energy counts every source, read or not; the
\* power factor is absent exactly when there is no apparent power, which the
\* rounded register alone would not tell.
MeterReadsBack ==
    up => LET shown == Reading(model, image)
              Shows(value, exact) ==
                  Near(value, exact, IF model = 203 THEN 5 ELSE FloatError(exact))
              PowerOn(i) == IF model = 203 THEN ScaledAt(image, 40088 + i, 40092, 2)
                            ELSE FloatAt(image, 40098 + 2 * i)
              EnergyOn(i) == IF model = 203 THEN Acc32At(image, 40108 + 2 * i, 40124, 1)
                             ELSE FloatAt(image, 40130 + 2 * i)
              On(i) == {n \in Sources : SourcePhase[n] = PhaseOrder[i]}
              Measured(names) == -SumOf(fresh, names \cap DOMAIN fresh, "power")
              Counted(names) == SumFunction([n \in names |-> energy[n]])
              apparent == SumOf(fresh, DOMAIN fresh, "apparent")
          IN  /\ Shows(shown.power, Measured(Sources))
              /\ Shows(shown.exported, Counted(Sources))
              /\ \A i \in 1..3 : /\ Shows(PowerOn(i), Measured(On(i)))
                                 /\ Shows(EnergyOn(i), Counted(On(i)))
              /\ Shows(shown.apparent, apparent)
              /\ (shown.factor = NoValue) <=> (apparent = 0)

\* A probe that succeeds returns values of one image, not of two, whatever was
\* published, and however often the emulator was restarted, between its
\* requests (probe.py: probe checks the chain only at the end).
ProbeIsCoherent ==
    step = "report" /\ result # Failed =>
        \E a \in answered : result = Reading(a[40070][2], a)

\* A client fails for a reason: the health check of a running emulator always
\* succeeds, and a probe does unless it asked for what the emulator is not, or
\* was cut off, or the emulator was stopped or started under it.
ClientsSucceed ==
    /\ up => Healthy
    /\ step = "report" /\ result = Failed => excuse

\* The exported energy a client sees never falls from one probe to the next:
\* not by a restart or a publish in between.  Only when the emulator has become
\* another meter model may it be lower, by half a Wh, which model 203 rounds
\* by, and the error of a float32, which model 213 does: from 2^24 Wh on more
\* than 203 (sunspec.py: _write_acc32, _float_words).
EnergySeenNeverFalls ==
    [][last'.exported >= last.exported -
           (IF last'.model = last.model THEN 0 ELSE 5 + FloatError(last.exported))]_vars
=============================================================================
