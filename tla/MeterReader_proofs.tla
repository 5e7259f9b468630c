------------------------- MODULE MeterReader_proofs -------------------------
(***************************************************************************)
(* For any sources, readings, energies and unit id, and for any order of   *)
(* publishes, restarts, model changes and requests: every register is a    *)
(* 16-bit word, a client can walk the image and reads from it what the     *)
(* sources measure, a probe that succeeds returns the values of one image, *)
(* a probe fails for a reason only, and the energy that one probe after    *)
(* the other returns does not fall, but for what each model rounds by.     *)
(*                                                                         *)
(* IInv is the argument for the probe alone, whatever an image contains.   *)
(* MInv adds that the image of a running emulator is the one of its        *)
(* readings and energies; what the blocks of an image give back is in      *)
(* Aggregation_proofs.                                                     *)
(***************************************************************************)
EXTENDS MeterReader, Aggregation_proofs

(* Numbers *)

\* An int16 point gives its number back, and never looks like "not
\* implemented" (sunspec.py: _signed_word; probe.py: the two's complement).
THEOREM Int16ReadsBack ==
    ASSUME NEW n \in Int, -32767 <= n, n <= 32767
    PROVE  /\ IsWord16(SignedWord(n)) /\ SignedWord(n) # NotAvailable
           /\ Signed(SignedWord(n)) = n
<1>1. /\ SignedWord(n) = (IF n >= 0 THEN n ELSE n + 65536)
      /\ IsWord16(SignedWord(n)) /\ SignedWord(n) # NotAvailable
  BY SignedWordIs, SMT
<1> QED BY <1>1, SMT DEF Signed
-----------------------------------------------------------------------------
(* Answers *)

\* The registers of a request, and an answer to it.
Asked(start, count, r) == r \in Int /\ start + 1 <= r /\ r <= start + count

Answered(reply, start, count) ==
    /\ \A r : r \in DOMAIN reply.words <=> Asked(start, count, r)
    /\ \A r : Asked(start, count, r) => r \in DOMAIN image /\ reply.words[r] = image[r]

LEMMA AnswerIs ==
    ASSUME NEW unit, NEW start \in Nat, NEW count \in 1..125, start + count <= 65536
    PROVE  LET reply == Answer(ReadRequest(unit, start, count))
           IN  /\ reply.exception = 0 => unit = UnitId /\ Answered(reply, start, count)
               /\ unit = UnitId /\ (\A r : Asked(start, count, r) => r \in DOMAIN image)
                    => reply.exception = 0
<1> DEFINE req == ReadRequest(unit, start, count)
           reply == Answer(req)
           asked == (start + 1)..(start + count)
<1>1. /\ req.unit = unit /\ req.function = 3 /\ req.size = 5
      /\ req.start = start /\ req.count = count
  BY DEF ReadRequest
<1> HIDE DEF req
<1>2. CASE unit # UnitId
  <2>1. reply = Exception(11)
    BY <1>1, <1>2 DEF Answer
  <2> QED BY <1>2, <2>1 DEF Exception, req
<1>3. CASE unit = UnitId /\ ~(asked \subseteq DOMAIN image)
  <2>1. reply = Exception(2)
    BY <1>1, <1>3 DEF Answer
  <2> QED BY <1>3, <2>1 DEF Exception, Asked, req
<1>4. CASE unit = UnitId /\ asked \subseteq DOMAIN image
  <2>1. req.start + req.count <= 65536 /\ req.count \in 1..125
    BY <1>1
  <2>2. ~(req.start + req.count > 65536)
    BY <1>1
  <2> HIDE DEF asked
  <2>3. reply = [exception |-> 0, words |-> [r \in asked |-> image[r]]]
    BY <1>1, <1>4, <2>1, <2>2 DEF Answer, asked
  <2> QED BY <1>4, <2>3 DEF Asked, Answered, req, asked
<1> QED BY <1>2, <1>3, <1>4
-----------------------------------------------------------------------------
(* The invariant *)

\* The probe's request and position are where the protocol puts them.
Asks == [unit : ProbeUnits \cup {UnitId}, expected : MeterModels \cup {NoValue},
         start : Nat, left : Nat]

Typed ==
    /\ ask \in Asks
    /\ up \in BOOLEAN /\ excuse \in BOOLEAN

ImageInv == model \in MeterModels /\ (up => IsChain(image, model, UnitId))

AnsweredInv == \A a \in answered : \E m \in MeterModels : IsChain(a, m, UnitId)

\* What the first request has shown.
HeaderOf(regs, m) ==
    /\ regs[40001] = <<"word", 21365>> /\ regs[40002] = <<"word", 28243>>
    /\ regs[40003] = <<"word", 1>> /\ regs[40004] = <<"word", 65>>
    /\ regs[40069] = <<"word", UnitId>> /\ regs[40070] = <<"word", m>>

\* Between the requests: the header is read, or all of model 213 but its last
\* register is, and then from one image.
AtBody(m) ==
    /\ ask.start = 40071 /\ ask.left = ModelLength(m) + 2 /\ Covers(seen, 40001, 40071)

SameBody(regs, im) == \A r \in Int : 40072 <= r /\ r <= 40176 => regs[r] = im[r]

AtEnd(m) ==
    /\ m = 213 /\ ask.start = 40196 /\ ask.left = 1 /\ Covers(seen, 40001, 40196)
    /\ seen[40196] = <<"word", 65535>>
    /\ \E a \in answered : IsChain(a, 213, UnitId) /\ SameBody(seen, a)

BodyInv ==
    step = "body" => /\ ask.unit = UnitId
                     /\ \E m \in MeterModels : HeaderOf(seen, m) /\ (AtBody(m) \/ AtEnd(m))

\* An undisturbed probe reads a running emulator, of the model it has seen.
ReadyInv ==
    Busy /\ ~excuse => /\ ask.unit = UnitId
                       /\ step = "body" => up /\ seen[40070] = <<"word", model>>

FailedInv == step = "report" /\ result = Failed => excuse

IInv == Typed /\ ImageInv /\ AnsweredInv /\ BodyInv /\ ReadyInv /\ ProbeIsCoherent /\ FailedInv
-----------------------------------------------------------------------------
(* What a probe makes of equal registers *)

LEMMA ReadingIs ==
    ASSUME NEW m \in MeterModels, NEW regs, NEW im, SameBody(regs, im)
    PROVE  Reading(m, regs) = Reading(m, im)
<1>1. \A r \in 40072..40176 : regs[r] = im[r]
  BY DEF SameBody
<1>2. ASSUME NEW r \in 40072..40175, NEW sf \in 40072..40175, NEW unit
      PROVE  ScaledAt(regs, r, sf, unit) = ScaledAt(im, r, sf, unit)
  <2>1. regs[r] = im[r] /\ regs[sf] = im[sf]
    BY <1>1
  <2> QED BY <2>1 DEF ScaledAt, IsWord
<1>3. ASSUME NEW r \in 40072..40175
      PROVE  FloatAt(regs, r) = FloatAt(im, r)
  <2>1. regs[r] = im[r] /\ regs[r + 1] = im[r + 1]
    BY <1>1
  <2> QED BY <2>1 DEF FloatAt
<1>4. CASE m = 203
  <2>1. /\ ScaledAt(regs, 40072, 40076, 3) = ScaledAt(im, 40072, 40076, 3)
        /\ ScaledAt(regs, 40077, 40085, 2) = ScaledAt(im, 40077, 40085, 2)
        /\ ScaledAt(regs, 40086, 40087, 3) = ScaledAt(im, 40086, 40087, 3)
        /\ ScaledAt(regs, 40088, 40092, 2) = ScaledAt(im, 40088, 40092, 2)
        /\ ScaledAt(regs, 40093, 40097, 2) = ScaledAt(im, 40093, 40097, 2)
        /\ ScaledAt(regs, 40103, 40107, 1) = ScaledAt(im, 40103, 40107, 1)
    BY <1>2
  <2>2. Acc32At(regs, 40108, 40124, 1) = Acc32At(im, 40108, 40124, 1)
    <3>1. regs[40108] = im[40108] /\ regs[40109] = im[40109] /\ regs[40124] = im[40124]
      BY <1>1
    <3> QED BY <3>1 DEF Acc32At, IsWord
  <2> QED BY <1>4, <2>1, <2>2 DEF Reading
<1>5. CASE m = 213
  <2>1. /\ FloatAt(regs, 40072) = FloatAt(im, 40072)
        /\ FloatAt(regs, 40080) = FloatAt(im, 40080)
        /\ FloatAt(regs, 40096) = FloatAt(im, 40096)
        /\ FloatAt(regs, 40098) = FloatAt(im, 40098)
        /\ FloatAt(regs, 40106) = FloatAt(im, 40106)
        /\ FloatAt(regs, 40122) = FloatAt(im, 40122)
        /\ FloatAt(regs, 40130) = FloatAt(im, 40130)
    BY <1>3
  <2> QED BY <1>5, <2>1 DEF Reading
<1> QED BY <1>4, <1>5 DEF MeterModels
-----------------------------------------------------------------------------
(* The emulator's steps *)

LEMMA PublishedIsChain ==
    ASSUME NEW m \in MeterModels, NEW readings, NEW energies, PublishAs(m, readings, energies)
    PROVE  IsChain(image', m, UnitId)
BY ImageIsChain DEF PublishAs

LEMMA MeterStep ==
    ASSUME IInv,
           \/ \E n \in Sources : NewReading(n) \/ Expire(n)
           \/ Stop \/ Start
    PROVE  IInv'
<1>1. ImageInv'
  <2>1. ASSUME NEW n \in Sources, NewReading(n) PROVE ImageInv'
    BY <2>1, PublishedIsChain DEF IInv, ImageInv, NewReading
  <2>2. ASSUME NEW n \in Sources, Expire(n) PROVE ImageInv'
    BY <2>2, PublishedIsChain DEF IInv, ImageInv, Expire
  <2>3. CASE Stop
    BY <2>3 DEF IInv, ImageInv, Stop
  <2>4. CASE Start
    BY <2>4, PublishedIsChain DEF IInv, ImageInv, Start
  <2> QED BY <2>1, <2>2, <2>3, <2>4
<1>2. UNCHANGED <<step, ask, seen, result, answered>>
  BY DEF NewReading, Expire, Stop, Start, probeVars, historyVars
<1>3. /\ up' \in BOOLEAN /\ excuse' \in BOOLEAN /\ (excuse => excuse')
      /\ Busy /\ ~excuse' => up /\ up' /\ ~excuse /\ model' = model
  BY DEF NewReading, Expire, Stop, Start, historyVars, IInv, Typed
<1>4. Typed' /\ AnsweredInv'
  BY <1>2, <1>3 DEF IInv, Typed, AnsweredInv
<1>5. BodyInv'
  BY <1>2 DEF IInv, BodyInv, HeaderOf, AtBody, AtEnd, SameBody, Covers
<1>6. ProbeIsCoherent'
  BY <1>2 DEF IInv, ProbeIsCoherent
<1>7. FailedInv'
  BY <1>2, <1>3 DEF IInv, FailedInv
<1>8. ReadyInv'
  BY <1>2, <1>3 DEF IInv, ReadyInv, Busy
<1> QED BY <1>1, <1>4, <1>5, <1>6, <1>7, <1>8 DEF IInv
-----------------------------------------------------------------------------
(* The probe's steps *)

\* A probe that ends without a result, with or without an excuse of its own.
Failing ==
    /\ step' = "report" /\ result' = Failed
    /\ excuse' \in BOOLEAN /\ (excuse => excuse')
    /\ ask' = [ask EXCEPT !.start = 0, !.left = 0] /\ UNCHANGED <<model, up, image, last>>

LEMMA FailStep ==
    ASSUME IInv, Failing, excuse', AnsweredInv'
    PROVE  IInv'
<1>1. Typed'
  BY DEF IInv, Typed, Asks, Failing
<1>2. ImageInv'
  BY DEF IInv, ImageInv, Failing
<1>3. BodyInv' /\ ReadyInv'
  BY DEF BodyInv, ReadyInv, Busy, Failing
<1>4. ProbeIsCoherent' /\ FailedInv'
  BY DEF ProbeIsCoherent, FailedInv, Failed, Failing
<1> QED BY <1>1, <1>2, <1>3, <1>4 DEF IInv

\* The next request of the same probe.
Moved(start, left) ==
    /\ ask' \in Asks /\ ask'.unit = ask.unit
    /\ ask'.start = start /\ ask'.left = left

LEMMA AskMoves ==
    ASSUME Typed, NEW start \in Nat, NEW left \in Nat,
           ask' = [ask EXCEPT !.start = start, !.left = left]
    PROVE  Moved(start, left)
BY DEF Typed, Asks, Moved

LEMMA StartStep == ASSUME IInv, ProbeStart PROVE IInv'
<1>1. PICK unit \in ProbeUnits, expected \in MeterModels \cup {NoValue} :
          /\ ask' = [unit |-> unit, expected |-> expected, start |-> 40000, left |-> 71]
          /\ excuse' = (unit # UnitId)
  BY DEF ProbeStart
<1>2. /\ step = "idle" /\ step' = "header" /\ answered' = {}
      /\ UNCHANGED <<model, up, image>>
  BY DEF ProbeStart, meterVars
<1>3. Typed' /\ ImageInv' /\ AnsweredInv' /\ BodyInv'
  BY <1>1, <1>2 DEF IInv, Typed, Asks, ImageInv, AnsweredInv, BodyInv
<1>4. ReadyInv'
  <2>1. step' # "body" /\ ask'.unit = unit
    BY <1>1, <1>2
  <2>2. excuse' = (unit # UnitId)
    BY <1>1
  <2>3. ~excuse' => unit = UnitId
    BY <2>2, Zenon
  <2> QED BY <2>1, <2>3 DEF ReadyInv
<1>5. ProbeIsCoherent' /\ FailedInv'
  BY <1>2 DEF ProbeIsCoherent, FailedInv
<1> QED BY <1>3, <1>4, <1>5 DEF IInv

LEMMA ReportStep == ASSUME IInv, Report PROVE IInv'
<1>1. /\ step' = "idle" /\ answered' = {} /\ excuse' = FALSE
      /\ UNCHANGED <<model, up, image, ask>>
  BY DEF Report, meterVars
<1>2. Typed' /\ ImageInv' /\ AnsweredInv' /\ BodyInv'
  BY <1>1 DEF IInv, Typed, ImageInv, AnsweredInv, BodyInv
<1>3. ReadyInv' /\ ProbeIsCoherent' /\ FailedInv'
  BY <1>1 DEF ReadyInv, Busy, ProbeIsCoherent, FailedInv
<1> QED BY <1>2, <1>3 DEF IInv

\* The first answer is not of a meter, or it is and the probe goes on.
HeaderBad(reply, m) ==
    \/ reply.exception # 0 \/ m \notin MeterModels
    \/ reply.words[40071] # <<"word", ModelLength(m)>>

HeaderGood(reply, m) ==
    /\ seen' = reply.words
    /\ ask' = [ask EXCEPT !.start = 40071, !.left = ModelLength(m) + 2]
    /\ step' = "body" /\ UNCHANGED <<model, up, image, excuse, result>>

LEMMA HeaderReplyCases ==
    ASSUME IInv, NEW reply, HeaderReply(reply), NEW m, m = reply.words[40070][2]
    PROVE  IF HeaderBad(reply, m) THEN Failing /\ excuse' = excuse ELSE HeaderGood(reply, m)
<1>1. CASE HeaderBad(reply, m)
  <2>1. Fail /\ UNCHANGED excuse
    BY <1>1 DEF HeaderReply, HeaderBad
  <2> QED BY <1>1, <2>1 DEF Fail, Failing, meterVars, IInv, Typed
<1>2. CASE ~HeaderBad(reply, m)
  BY <1>2 DEF HeaderReply, HeaderBad, HeaderGood, meterVars
<1> QED BY <1>1, <1>2

LEMMA AskHeaderStep == ASSUME IInv, AskHeader PROVE IInv'
<1>1. PICK reply : /\ HeaderReply(reply)
                   /\ reply = Answer(ReadRequest(ask.unit, 40000, 71))
  BY DEF AskHeader
<1>2. step = "header" /\ up /\ answered' = answered
  BY DEF AskHeader
<1>3. AnsweredInv'
  BY <1>2 DEF IInv, AnsweredInv
<1>4. /\ reply.exception = 0 => ask.unit = UnitId /\ Answered(reply, 40000, 71)
      /\ ask.unit = UnitId /\ (\A r : Asked(40000, 71, r) => r \in DOMAIN image)
            => reply.exception = 0
  BY <1>1, AnswerIs
<1>5. IsChain(image, model, UnitId) /\ model \in MeterModels /\ EndModel(model) >= 40177
  BY <1>2 DEF IInv, ImageInv, EndModel
<1>6. \A r : Asked(40000, 71, r) => r \in DOMAIN image
  BY <1>5 DEF IsChain, Covers, Asked, EndModel
<1> DEFINE m == reply.words[40070][2]
<1>7. ASSUME reply.exception = 0
      PROVE  /\ m = model /\ reply.words[40071] = <<"word", ModelLength(m)>>
             /\ ask.unit = UnitId /\ Covers(reply.words, 40001, 40071)
             /\ \A r \in {40001, 40002, 40003, 40004, 40069, 40070} : reply.words[r] = image[r]
  <2>1. Answered(reply, 40000, 71) /\ ask.unit = UnitId
    BY <1>4, <1>7
  <2>2. Covers(reply.words, 40001, 40071)
    BY <2>1 DEF Answered, Asked, Covers
  <2>3. \A r \in {40001, 40002, 40003, 40004, 40069, 40070, 40071} : reply.words[r] = image[r]
    BY <2>1 DEF Answered, Asked
  <2>4. image[40070] = <<"word", model>> /\ image[40071] = <<"word", ModelLength(model)>>
    BY <1>5 DEF IsChain, ModelLength
  <2>5. m = model
    BY <2>3, <2>4
  <2> QED BY <2>1, <2>2, <2>3, <2>4, <2>5
<1>8. IF HeaderBad(reply, m) THEN Failing /\ excuse' = excuse ELSE HeaderGood(reply, m)
  BY <1>1, HeaderReplyCases
<1> HIDE DEF m
<1>9. CASE reply.exception # 0
  <2>1. Failing /\ excuse' = excuse
    BY <1>8, <1>9 DEF HeaderBad
  <2>2. excuse
    BY <1>2, <1>4, <1>6, <1>9 DEF IInv, ReadyInv, Busy
  <2> QED BY <1>3, <2>1, <2>2, FailStep
<1>10. CASE reply.exception = 0
  <2>1. /\ m = model /\ reply.words[40071] = <<"word", ModelLength(m)>>
        /\ ask.unit = UnitId /\ Covers(reply.words, 40001, 40071)
        /\ \A r \in {40001, 40002, 40003, 40004, 40069, 40070} : reply.words[r] = image[r]
    BY <1>7, <1>10
  <2>2. /\ seen' = reply.words
        /\ ask' = [ask EXCEPT !.start = 40071, !.left = ModelLength(m) + 2]
        /\ step' = "body" /\ UNCHANGED <<model, up, image, excuse, result>>
    BY <1>5, <1>8, <1>10, <2>1 DEF HeaderBad, HeaderGood
  <2>3. ask'.unit = UnitId /\ ask'.start = 40071 /\ ask'.left = ModelLength(model) + 2 /\ Typed'
    <3>1. ModelLength(m) + 2 \in Nat
      BY DEF ModelLength
    <3>2. Typed
      BY DEF IInv
    <3>3. PICK start \in Nat, left \in Nat : start = 40071 /\ left = ModelLength(m) + 2
      BY <3>1
    <3>4. ask' = [ask EXCEPT !.start = start, !.left = left]
      BY <2>2, <3>3
    <3>5. Moved(start, left)
      BY <3>2, <3>4, AskMoves
    <3> QED BY <2>1, <2>2, <3>2, <3>3, <3>5 DEF Typed, Moved
  <2>4. HeaderOf(seen, model)'
    BY <1>5, <2>1, <2>2 DEF IsChain, HeaderOf
  <2>5. AtBody(model)'
    BY <2>1, <2>2, <2>3 DEF AtBody, Covers, ModelLength
  <2>6. BodyInv' /\ ReadyInv'
    BY <1>2, <1>5, <2>2, <2>3, <2>4, <2>5 DEF BodyInv, ReadyInv, HeaderOf
  <2>7. ImageInv' /\ ProbeIsCoherent' /\ FailedInv'
    BY <2>2 DEF IInv, ImageInv, ProbeIsCoherent, FailedInv
  <2> QED BY <1>3, <2>3, <2>6, <2>7 DEF IInv
<1> QED BY <1>9, <1>10

\* There is more to ask for.
More(regs, count) ==
    /\ seen' = regs /\ ask' = [ask EXCEPT !.start = @ + count, !.left = @ - count]
    /\ UNCHANGED <<model, up, image, step, excuse, result, last>>

LEMMA BodyReplyCases ==
    ASSUME IInv, NEW reply, NEW count, BodyReply(reply, count),
           NEW regs, regs = seen ++ reply.words
    PROVE  IF reply.exception # 0
           THEN Failing /\ excuse' = excuse /\ answered' = answered
           ELSE /\ answered' = answered \cup {image}
                /\ IF ask.left = count THEN Finish(regs) ELSE More(regs, count)
<1>1. CASE reply.exception # 0
  <2>1. Fail /\ UNCHANGED <<excuse, answered>>
    BY <1>1 DEF BodyReply
  <2> QED BY <1>1, <2>1 DEF Fail, Failing, meterVars, IInv, Typed
<1>2. CASE reply.exception = 0
  BY <1>2 DEF BodyReply, More, meterVars
<1> QED BY <1>1, <1>2

\* How the last answer ends the probe.
Returns(regs, m) ==
    /\ step' = "report" /\ result' = Reading(m, regs)
    /\ last' = [model |-> m, exported |-> Reading(m, regs).exported]
    /\ ask' = [ask EXCEPT !.start = 0, !.left = 0]
    /\ UNCHANGED <<model, up, image, excuse>>

LEMMA Excused ==
    ASSUME excuse \in BOOLEAN, excuse' = (excuse \/ ask.expected # model)
    PROVE  excuse' \in BOOLEAN /\ (excuse => excuse') /\ (ask.expected # model => excuse')
OBVIOUS

LEMMA FinishCases ==
    ASSUME IInv, NEW regs, Finish(regs), NEW m, m = regs[40070][2]
    PROVE  \/ ~ChainMatches(regs, ask.unit) /\ Failing /\ excuse' = excuse
           \/ /\ ask.expected \notin {NoValue, m} /\ Failing
              /\ ask.expected # model => excuse'
           \/ ChainMatches(regs, ask.unit) /\ Returns(regs, m)
<1>1. CASE ~ChainMatches(regs, ask.unit)
  <2>1. Fail /\ UNCHANGED excuse
    BY <1>1 DEF Finish
  <2> QED BY <1>1, <2>1 DEF Fail, Failing, meterVars, IInv, Typed
<1>2. CASE ChainMatches(regs, ask.unit) /\ ask.expected \notin {NoValue, m}
  <2>1. Fail /\ excuse' = (excuse \/ ask.expected # model)
    BY <1>2 DEF Finish
  <2>2. excuse' \in BOOLEAN /\ (excuse => excuse')
    BY <2>1, Excused DEF IInv, Typed
  <2>3. ask.expected # model => excuse'
    BY <2>1, Excused DEF IInv, Typed
  <2>4. Failing
    BY <2>1, <2>2 DEF Fail, Failing, meterVars
  <2> QED BY <1>2, <2>3, <2>4
<1>3. CASE ChainMatches(regs, ask.unit) /\ ask.expected \in {NoValue, m}
  BY <1>3 DEF Finish, Returns, meterVars
<1> QED BY <1>1, <1>2, <1>3

LEMMA ChainMatchesIs ==
    ASSUME NEW regs, NEW m \in MeterModels, HeaderOf(regs, m)
    PROVE  ChainMatches(regs, UnitId)
           <=> regs[EndModel(m)] = <<"word", 65535>> /\ regs[EndModel(m) + 1] = <<"word", 0>>
<1> DEFINE head == <<21365, 28243, 1, 65>>
<1>1. IsList(head, 4)
  BY DEF IsList
<1>2. Covers(Words(40001, head), 40001, 40004)
  BY <1>1, WordsCover
<1>3. \A r \in 40001..40004 : regs[r] = Words(40001, head)[r]
  <2>1. \A r \in 40001..40004 : Words(40001, head)[r] = <<"word", head[r - 40001 + 1]>>
    BY <1>2 DEF Words, Covers
  <2> QED BY <2>1 DEF HeaderOf
<1>4. (IF regs[40070][2] = 203 THEN 40177 ELSE 40196) = EndModel(m)
  BY DEF HeaderOf, EndModel
<1>5. regs[40069] = <<"word", UnitId>>
  BY DEF HeaderOf
<1> QED BY <1>3, <1>4, <1>5 DEF ChainMatches

\* What an answer for the body adds to what the probe has seen, or what the
\* probe returns: of the image of this moment, or of the one that it has seen.
Progress ==
    \/ step' # "body" /\ last' = last
    \/ up /\ model = 213 /\ SameBody(seen', image) /\ last' = last
    \/ /\ step' # "body"
       /\ \E m \in MeterModels : \E regs :
             /\ last' = [model |-> m, exported |-> Reading(m, regs).exported]
             /\ \/ m = 203 /\ up /\ model = 203 /\ SameBody(regs, image)
                \/ m = 213 /\ step = "body" /\ ask.left = 1 /\ SameBody(regs, seen)

LEMMA AskBodyStep == ASSUME IInv, AskBody PROVE IInv' /\ Progress
<1>1. PICK count, reply : /\ BodyReply(reply, count)
                          /\ count = ChunkSize(ask.left)
                          /\ reply = Answer(ReadRequest(ask.unit, ask.start, count))
  BY DEF AskBody
<1>2. /\ step = "body" /\ up /\ ask.unit = UnitId /\ Typed
      /\ model \in MeterModels /\ IsChain(image, model, UnitId)
  BY DEF AskBody, IInv, BodyInv, ImageInv
<1>3. PICK m \in MeterModels : HeaderOf(seen, m) /\ (AtBody(m) \/ AtEnd(m))
  BY <1>2 DEF IInv, BodyInv
<1>4. ~excuse => m = model
  BY <1>2, <1>3 DEF IInv, ReadyInv, Busy, HeaderOf
<1>5. \/ AtBody(m) /\ m = 203 /\ ask.start = 40071 /\ ask.left = 107 /\ count = 107
      \/ AtBody(m) /\ m = 213 /\ ask.start = 40071 /\ ask.left = 126 /\ count = 125
      \/ AtEnd(m) /\ m = 213 /\ ask.start = 40196 /\ ask.left = 1 /\ count = 1
  BY <1>1, <1>3 DEF AtBody, AtEnd, ModelLength, ChunkSize, MeterModels
<1>6. ask.start \in Nat /\ count \in 1..125 /\ ask.start + count <= 65536
  BY <1>5
<1>7. /\ reply.exception = 0 => Answered(reply, ask.start, count)
      /\ (\A r : Asked(ask.start, count, r) => r \in DOMAIN image) => reply.exception = 0
  BY <1>1, <1>2, <1>6, AnswerIs
<1> DEFINE regs == seen ++ reply.words
<1>8. IF reply.exception # 0
      THEN Failing /\ excuse' = excuse /\ answered' = answered
      ELSE /\ answered' = answered \cup {image}
           /\ IF ask.left = count THEN Finish(regs) ELSE More(regs, count)
  BY <1>1, BodyReplyCases
<1>9. AnsweredInv'
  BY <1>2, <1>8 DEF IInv, AnsweredInv
<1>10. CASE reply.exception # 0
  <2>1. Failing /\ excuse' = excuse
    BY <1>8, <1>10
  <2>2. m = model => \A r : Asked(ask.start, count, r) => r \in DOMAIN image
    BY <1>2, <1>5 DEF IsChain, Covers, Asked, EndModel
  <2>3. excuse
    BY <1>4, <1>7, <1>10, <2>2
  <2>4. Progress
    BY <2>1 DEF Failing, Progress
  <2> QED BY <1>9, <2>1, <2>3, <2>4, FailStep
<1>11. ASSUME reply.exception = 0
       PROVE  /\ \A r : r \in DOMAIN seen => regs[r] = seen[r]
              /\ \A r : Asked(ask.start, count, r) /\ r \notin DOMAIN seen => regs[r] = image[r]
              /\ \A r : r \in DOMAIN regs <=> r \in DOMAIN seen \/ Asked(ask.start, count, r)
  <2>1. Answered(reply, ask.start, count)
    BY <1>7, <1>11
  <2> QED BY <2>1 DEF Answered, ++
<1>12. reply.exception = 0 => HeaderOf(regs, m)
  <2>1. \A r \in {40001, 40002, 40003, 40004, 40069, 40070} : r \in DOMAIN seen
    BY <1>5 DEF AtBody, AtEnd, Covers
  <2> QED BY <1>3, <1>11, <2>1 DEF HeaderOf
<1> HIDE DEF regs
<1>13. CASE reply.exception = 0 /\ ask.left # count
  <2>1. m = 213 /\ AtBody(m) /\ ask.start = 40071 /\ ask.left = 126 /\ count = 125
    BY <1>5, <1>13
  <2>2. More(regs, count) /\ answered' = answered \cup {image}
    BY <1>8, <1>13
  <2>3. Covers(regs, 40001, 40196)
    BY <1>11, <1>13, <2>1 DEF Covers, AtBody, Asked
  <2>4. \A r : r \in Int /\ 40072 <= r /\ r <= 40196 => r \in DOMAIN image /\ regs[r] = image[r]
    BY <1>7, <1>11, <1>13, <2>1 DEF Covers, AtBody, Asked, Answered
  <2>5. model = 213
    BY <1>2, <2>4 DEF IsChain, Covers, EndModel, MeterModels
  <2>6. regs[40196] = <<"word", 65535>> /\ SameBody(regs, image)
    BY <1>2, <2>4, <2>5 DEF IsChain, EndModel, SameBody
  <2>7. Moved(40196, 1) /\ Typed'
    <3>1. PICK start \in Nat, left \in Nat : start = 40196 /\ left = 1
      OBVIOUS
    <3>2. ask' = [ask EXCEPT !.start = start, !.left = left]
      BY <2>1, <2>2, <3>1 DEF More
    <3>3. Moved(start, left)
      BY <1>2, <3>2, AskMoves
    <3> QED BY <1>2, <2>2, <3>1, <3>3 DEF Typed, More, Moved
  <2>8. HeaderOf(seen, 213)' /\ AtEnd(213)'
    BY <1>2, <1>12, <1>13, <2>1, <2>2, <2>3, <2>5, <2>6, <2>7
       DEF HeaderOf, AtEnd, More, Moved, Covers, SameBody
  <2>9. BodyInv' /\ ReadyInv'
    BY <1>2, <2>2, <2>5, <2>7, <2>8 DEF BodyInv, ReadyInv, More, Moved, MeterModels, HeaderOf
  <2>10. ImageInv' /\ ProbeIsCoherent' /\ FailedInv'
    BY <1>2, <2>2 DEF IInv, ImageInv, ProbeIsCoherent, FailedInv, More
  <2>11. Progress
    BY <1>2, <2>2, <2>5, <2>6 DEF More, Progress
  <2> QED BY <1>9, <2>7, <2>9, <2>10, <2>11 DEF IInv
<1>14. CASE reply.exception = 0 /\ ask.left = count
  <2>1. \/ AtBody(m) /\ m = 203 /\ ask.start = 40071 /\ count = 107
        \/ AtEnd(m) /\ m = 213 /\ ask.start = 40196 /\ count = 1
    BY <1>5, <1>14
  <2>2. Finish(regs) /\ answered' = answered \cup {image}
    BY <1>8, <1>14
  <2>3. ASSUME m = 203
        PROVE  \A r : r \in Int /\ 40072 <= r /\ r <= 40178 => regs[r] = image[r]
    BY <1>11, <1>14, <2>1, <2>3 DEF Covers, AtBody, Asked
  <2>4. ASSUME m = 213
        PROVE  /\ regs[40196] = <<"word", 65535>> /\ regs[40197] = image[40197]
               /\ \E a \in answered : IsChain(a, 213, UnitId) /\ SameBody(regs, a)
    <3>1. PICK a \in answered : IsChain(a, 213, UnitId) /\ SameBody(seen, a)
      BY <2>1, <2>4 DEF AtEnd
    <3>2. Covers(seen, 40001, 40196) /\ seen[40196] = <<"word", 65535>>
      BY <2>1, <2>4 DEF AtEnd
    <3>3. SameBody(regs, a)
      BY <1>11, <1>14, <3>1, <3>2 DEF SameBody, Covers
    <3>4. regs[40196] = <<"word", 65535>> /\ regs[40197] = image[40197]
      BY <1>11, <1>14, <2>1, <2>4, <3>2 DEF Covers, Asked
    <3> QED BY <3>1, <3>3, <3>4
  <2>5. ChainMatches(regs, UnitId)
        <=> regs[EndModel(m)] = <<"word", 65535>> /\ regs[EndModel(m) + 1] = <<"word", 0>>
    BY <1>12, <1>14, ChainMatchesIs
  <2>6. ASSUME m = model PROVE ChainMatches(regs, UnitId)
    <3>1. CASE m = 203
      BY <1>2, <2>3, <2>5, <2>6, <3>1 DEF IsChain, EndModel
    <3>2. CASE m = 213
      BY <1>2, <2>4, <2>5, <2>6, <3>2 DEF IsChain, EndModel
    <3> QED BY <3>1, <3>2 DEF MeterModels
  <2>7. ASSUME ChainMatches(regs, UnitId)
        PROVE  \E a \in answered' : IsChain(a, m, UnitId) /\ SameBody(regs, a)
    <3>1. CASE m = 203
      <4>1. regs[40177] = <<"word", 65535>> /\ regs[40177] = image[40177]
        BY <2>3, <2>5, <2>7, <3>1 DEF EndModel
      <4>2. model = 203
        BY <1>2, <4>1 DEF IsChain, MeterModels
      <4>3. SameBody(regs, image)
        BY <2>3, <3>1 DEF SameBody
      <4> QED BY <1>2, <2>2, <3>1, <4>2, <4>3
    <3>2. CASE m = 213
      BY <2>2, <2>4, <3>2
    <3> QED BY <3>1, <3>2 DEF MeterModels
  <2>8. m = regs[40070][2]
    BY <1>12, <1>14 DEF HeaderOf
  <2>9. \/ ~ChainMatches(regs, UnitId) /\ Failing /\ excuse' = excuse
        \/ /\ ask.expected \notin {NoValue, m} /\ Failing
           /\ ask.expected # model => excuse'
        \/ ChainMatches(regs, UnitId) /\ Returns(regs, m)
    BY <1>2, <2>2, <2>8, FinishCases
  <2>10. CASE Failing /\ (excuse' \/ (~ChainMatches(regs, UnitId) /\ excuse' = excuse))
    <3>1. excuse'
      BY <1>4, <2>6, <2>10
    <3>2. Progress
      BY <2>10 DEF Failing, Progress
    <3> QED BY <1>9, <2>10, <3>1, <3>2, FailStep
  <2>11. CASE ask.expected \notin {NoValue, m} /\ Failing /\ (ask.expected # model => excuse')
    <3>1. excuse'
      BY <1>4, <2>11 DEF Failing
    <3>2. Progress
      BY <2>11 DEF Failing, Progress
    <3> QED BY <1>9, <2>11, <3>1, <3>2, FailStep
  <2>12. CASE ChainMatches(regs, UnitId) /\ Returns(regs, m)
    <3>1. PICK a \in answered' : IsChain(a, m, UnitId) /\ SameBody(regs, a)
      BY <2>7, <2>12
    <3>2. a[40070][2] = m /\ Reading(m, regs) = Reading(m, a)
      BY <3>1, ReadingIs DEF IsChain
    <3>3. ProbeIsCoherent'
      BY <2>12, <3>1, <3>2 DEF ProbeIsCoherent, Returns
    <3>4. FailedInv'
      BY <2>12 DEF FailedInv, Returns, Failed, Reading
    <3>5. Typed' /\ ImageInv'
      BY <1>2, <2>12 DEF IInv, Typed, Asks, ImageInv, Returns
    <3>6. BodyInv' /\ ReadyInv'
      BY <2>12 DEF BodyInv, ReadyInv, Busy, Returns
    <3>7. /\ step' # "body" /\ last' = [model |-> m, exported |-> Reading(m, regs).exported]
      BY <2>12 DEF Returns
    <3>8. \/ m = 203 /\ up /\ model = 203 /\ SameBody(regs, image)
          \/ m = 213 /\ step = "body" /\ ask.left = 1 /\ SameBody(regs, seen)
      <4>1. CASE m = 203
        <5>1. regs[40177] = <<"word", 65535>> /\ regs[40177] = image[40177]
          BY <2>3, <2>5, <2>12, <4>1 DEF EndModel
        <5>2. model = 203
          BY <1>2, <5>1 DEF IsChain, MeterModels
        <5>3. SameBody(regs, image)
          BY <2>3, <4>1 DEF SameBody
        <5> QED BY <1>2, <4>1, <5>2, <5>3
      <4>2. CASE m = 213
        <5>1. Covers(seen, 40001, 40196) /\ ask.left = 1
          BY <2>1, <4>2 DEF AtEnd
        <5>2. SameBody(regs, seen)
          BY <1>11, <1>14, <5>1 DEF SameBody, Covers
        <5> QED BY <1>2, <4>2, <5>1, <5>2
      <4> QED BY <4>1, <4>2 DEF MeterModels
    <3>9. Progress
      BY <3>7, <3>8 DEF Progress
    <3> QED BY <1>9, <3>3, <3>4, <3>5, <3>6, <3>9 DEF IInv
  <2> QED BY <2>9, <2>10, <2>11, <2>12
<1> QED BY <1>10, <1>13, <1>14
-----------------------------------------------------------------------------
(* The theorems *)

LEMMA InitIInv == Init => IInv
<1> SUFFICES ASSUME Init PROVE IInv
  OBVIOUS
<1>1. Typed
  BY DEF Init, Typed, Asks
<1>2. ImageInv /\ AnsweredInv /\ BodyInv /\ ReadyInv /\ ProbeIsCoherent /\ FailedInv
  BY DEF Init, ImageInv, AnsweredInv, BodyInv, ReadyInv, Busy, ProbeIsCoherent, FailedInv
<1> QED BY <1>1, <1>2 DEF IInv

LEMMA UnansweredStep == ASSUME IInv, Unanswered PROVE IInv'
<1>1. Failing /\ excuse' /\ answered' = answered
  BY DEF Unanswered, Fail, Failing, meterVars
<1>2. AnsweredInv'
  BY <1>1 DEF IInv, AnsweredInv
<1> QED BY <1>1, <1>2, FailStep

LEMMA StutterStep == ASSUME IInv, UNCHANGED vars PROVE IInv'
<1>1. UNCHANGED <<model, up, image, step, ask, seen, result, answered, excuse>>
  BY DEF vars, meterVars, probeVars, historyVars
<1>2. Typed' /\ ImageInv' /\ AnsweredInv' /\ ProbeIsCoherent' /\ FailedInv'
  BY <1>1 DEF IInv, Typed, ImageInv, AnsweredInv, ProbeIsCoherent, FailedInv
<1>3. BodyInv'
  BY <1>1 DEF IInv, BodyInv, HeaderOf, AtBody, AtEnd
<1>4. ReadyInv'
  BY <1>1 DEF IInv, ReadyInv, Busy
<1> QED BY <1>2, <1>3, <1>4 DEF IInv

LEMMA NextIInv == IInv /\ [Next]_vars => IInv'
<1> SUFFICES ASSUME IInv, [Next]_vars PROVE IInv'
  OBVIOUS
<1>1. CASE (\E n \in Sources : NewReading(n) \/ Expire(n)) \/ Stop \/ Start
  BY <1>1, MeterStep
<1>2. CASE ProbeStart
  BY <1>2, StartStep
<1>3. CASE AskHeader
  BY <1>3, AskHeaderStep
<1>4. CASE AskBody
  BY <1>4, AskBodyStep
<1>5. CASE Unanswered
  BY <1>5, UnansweredStep
<1>6. CASE Report
  BY <1>6, ReportStep
<1>7. CASE UNCHANGED vars
  BY <1>7, StutterStep
<1> QED BY <1>1, <1>2, <1>3, <1>4, <1>5, <1>6, <1>7 DEF Next

LEMMA Invariance == Spec => []IInv
BY InitIInv, NextIInv, PTL DEF Spec

\* For any readings, energies and unit id, and whatever happens between its
\* requests, a probe that succeeds returns the values of a single image.
THEOREM ProbesAreCoherent == Spec => []ProbeIsCoherent
<1>1. IInv => ProbeIsCoherent
  BY DEF IInv
<1> QED BY <1>1, Invariance, PTL

LEMMA CoversDomain ==
    ASSUME NEW f, NEW a \in Int, NEW b \in Int, Covers(f, a, b)
    PROVE  DOMAIN f = a..b
<1>1. \A r : r \in DOMAIN f <=> r \in a..b
  BY DEF Covers
<1> DEFINE D == DOMAIN f
           R == a..b
<1>2. \A r : r \in D <=> r \in R
  BY <1>1
<1> HIDE DEF D, R
<1>3. D = R
  BY <1>2
<1> QED BY <1>3 DEF D, R

\* For any readings, energies and unit id, the image is always a complete
\* chain of models, whichever model the emulator is restarted as.
THEOREM ImagesAreWalkable == Spec => []ChainIsWalkable
<1>1. ASSUME IInv, up PROVE ChainIsWalkable
  <2>1. IsChain(image, model, UnitId) /\ model \in MeterModels
    BY <1>1 DEF IInv, ImageInv
  <2>2. Covers(image, 40001, EndModel(model) + 1)
    BY <2>1 DEF IsChain
  <2>3. DOMAIN image = 40001..(EndModel(model) + 1)
    BY <2>1, <2>2, CoversDomain DEF EndModel
  <2>4. image[40004][2] = 65
    BY <2>1 DEF IsChain
  <2>5. Following(40003) = 40070
    BY <2>4 DEF Following
  <2>6. Following(40070) = EndModel(model)
    BY <2>1 DEF IsChain, EndModel, MeterModels, Following
  <2>7. /\ image[40070] = <<"word", model>>
        /\ image[EndModel(model)] = <<"word", 65535>>
        /\ image[EndModel(model) + 1] = <<"word", 0>>
    BY <2>1 DEF IsChain
  <2> QED BY <2>3, <2>5, <2>6, <2>7 DEF ChainIsWalkable
<1>2. IInv => ChainIsWalkable
  BY <1>1 DEF ChainIsWalkable
<1> QED BY <1>2, Invariance, PTL

LEMMA RunningIsHealthy == ASSUME IInv, up PROVE Healthy
<1> DEFINE reply == Answer(ReadRequest(UnitId, 40000, 2))
           signature == Words(40001, <<21365, 28243>>)
<1>1. IsChain(image, model, UnitId) /\ model \in MeterModels
  BY DEF IInv, ImageInv
<1>2. \A r : Asked(40000, 2, r) => r \in DOMAIN image
  BY <1>1 DEF IsChain, Covers, Asked, EndModel
<1>3. reply.exception = 0 /\ reply.words = [r \in 40001..40002 |-> image[r]]
  BY <1>2 DEF Answer, ReadRequest, Asked
<1>4. signature = [r \in 40001..40002 |-> <<"word", <<21365, 28243>>[r - 40000]>>]
  BY DEF Words
<1>5. image[40001] = <<"word", 21365>> /\ image[40002] = <<"word", 28243>>
  BY <1>1 DEF IsChain
<1>6. [r \in 40001..40002 |-> image[r]] = signature
  BY <1>4, <1>5
<1> QED BY <1>3, <1>6 DEF Healthy

\* For any readings, energies and unit id, the health check of a running
\* emulator succeeds, and a probe fails only for a reason.
THEOREM ClientsAlwaysSucceed == Spec => []ClientsSucceed
<1>1. IInv => ClientsSucceed
  BY RunningIsHealthy DEF IInv, FailedInv, ClientsSucceed
<1> QED BY <1>1, Invariance, PTL
-----------------------------------------------------------------------------
(* What the image shows: the readings and energies of its moment.  The      *)
(* probe's own registers are empty except between its requests.             *)

Snapshot == Aggregate(fresh, energy, SourcePhase)

Typical ==
    /\ DOMAIN fresh \subseteq Sources /\ \A n \in DOMAIN fresh : fresh[n] \in Samples[n]
    /\ DOMAIN energy = Sources /\ \A n \in Sources : energy[n] \in Levels[n]

ShownInv ==
    IF up THEN image = Registers(model, UnitId, Snapshot) /\ Buildable(model, Snapshot)
    ELSE image = NoRegisters

ProbeInv ==
    step \in {"idle", "header", "body", "report"} /\ (step # "body" => seen = NoRegisters)

MInv == IInv /\ Typical /\ ShownInv /\ ProbeInv

\* A publish shows the new readings and energies, and they are of their sets.
LEMMA PublishShows ==
    ASSUME NEW m, NEW readings, NEW energies, PublishAs(m, readings, energies),
           model' = m, up',
           DOMAIN readings \subseteq Sources, \A n \in DOMAIN readings : readings[n] \in Samples[n],
           DOMAIN energies = Sources, \A n \in Sources : energies[n] \in Levels[n]
    PROVE  Typical' /\ ShownInv'
<1>1. fresh' = readings /\ energy' = energies
  BY DEF PublishAs
<1>2. Typical'
  BY <1>1 DEF Typical
<1>3. /\ image' = Registers(m, UnitId, Aggregate(readings, energies, SourcePhase))
      /\ Buildable(m, Aggregate(readings, energies, SourcePhase))
  BY DEF PublishAs
<1>4. ShownInv'
  BY <1>1, <1>3 DEF ShownInv, Snapshot
<1> QED BY <1>2, <1>4

LEMMA MeterShows ==
    ASSUME MInv, \/ \E n \in Sources : NewReading(n) \/ Expire(n)
                 \/ Stop \/ Start
    PROVE  Typical' /\ ShownInv'
<1>1. ASSUME NEW n \in Sources, NewReading(n) PROVE Typical' /\ ShownInv'
  <2>1. PICK sample \in Samples[n], level \in Levels[n] :
            PublishAs(model, [o \in {n} |-> sample] ++ fresh, [energy EXCEPT ![n] = level])
    BY <1>1 DEF NewReading
  <2>2. up' /\ model' = model
    BY <1>1 DEF NewReading
  <2> DEFINE readings == [o \in {n} |-> sample] ++ fresh
             energies == [energy EXCEPT ![n] = level]
  <2>3. DOMAIN readings \subseteq Sources /\ \A o \in DOMAIN readings : readings[o] \in Samples[o]
    BY DEF MInv, Typical, ++
  <2>4. DOMAIN energies = Sources /\ \A o \in Sources : energies[o] \in Levels[o]
    BY DEF MInv, Typical
  <2> HIDE DEF readings, energies
  <2> QED BY <2>1, <2>2, <2>3, <2>4, PublishShows DEF readings, energies
<1>2. ASSUME NEW n \in Sources, Expire(n) PROVE Typical' /\ ShownInv'
  <2> DEFINE readings == [o \in DOMAIN fresh \ {n} |-> fresh[o]]
  <2>1. PublishAs(model, readings, energy) /\ up' /\ model' = model
    BY <1>2 DEF Expire
  <2>2. DOMAIN readings \subseteq Sources /\ \A o \in DOMAIN readings : readings[o] \in Samples[o]
    BY DEF MInv, Typical
  <2> HIDE DEF readings
  <2> QED BY <2>1, <2>2, PublishShows DEF MInv, Typical
<1>3. CASE Stop
  BY <1>3 DEF Stop, MInv, Typical, ShownInv, NoReadings
<1>4. CASE Start
  <2>1. PublishAs(model', NoReadings, energy) /\ up'
    BY <1>4 DEF Start
  <2>2. DOMAIN NoReadings = {}
    BY DEF NoReadings
  <2> QED BY <2>1, <2>2, PublishShows DEF MInv, Typical
<1> QED BY <1>1, <1>2, <1>3, <1>4

LEMMA ProbeShows ==
    ASSUME MInv, ProbeStart \/ AskHeader \/ AskBody \/ Unanswered \/ Report
    PROVE  UNCHANGED meterVars /\ ProbeInv'
<1>1. CASE ProbeStart
  BY <1>1 DEF ProbeStart, ProbeInv
<1>2. CASE AskHeader
  BY <1>2 DEF AskHeader, HeaderReply, Fail, ProbeInv
<1>3. CASE AskBody
  BY <1>3 DEF AskBody, BodyReply, Finish, Fail, ProbeInv
<1>4. CASE Unanswered
  BY <1>4 DEF Unanswered, Fail, ProbeInv
<1>5. CASE Report
  BY <1>5 DEF Report, MInv, ProbeInv
<1> QED BY <1>1, <1>2, <1>3, <1>4, <1>5

LEMMA MInvariance == Spec => []MInv
<1>1. Init => MInv
  <2> SUFFICES ASSUME Init PROVE MInv
    OBVIOUS
  <2>1. Typical /\ ShownInv /\ ProbeInv
    BY DEF Init, Typical, ShownInv, ProbeInv, NoReadings
  <2> QED BY <2>1, InitIInv DEF MInv
<1>2. MInv /\ [Next]_vars => MInv'
  <2> SUFFICES ASSUME MInv, [Next]_vars PROVE MInv'
    OBVIOUS
  <2>1. IInv'
    BY NextIInv DEF MInv
  <2>2. CASE (\E n \in Sources : NewReading(n) \/ Expire(n)) \/ Stop \/ Start
    <3>1. Typical' /\ ShownInv'
      BY <2>2, MeterShows
    <3>2. UNCHANGED <<step, seen>>
      BY <2>2 DEF NewReading, Expire, Stop, Start, probeVars
    <3> QED BY <2>1, <3>1, <3>2 DEF MInv, ProbeInv
  <2>3. CASE ProbeStart \/ AskHeader \/ AskBody \/ Unanswered \/ Report
    <3>1. UNCHANGED meterVars /\ ProbeInv'
      BY <2>3, ProbeShows
    <3> QED BY <2>1, <3>1 DEF MInv, Typical, ShownInv, Snapshot, meterVars
  <2>4. CASE UNCHANGED vars
    BY <2>1, <2>4 DEF MInv, Typical, ShownInv, Snapshot, ProbeInv, vars, meterVars, probeVars
  <2> QED BY <2>2, <2>3, <2>4 DEF Next
<1> QED BY <1>1, <1>2, PTL DEF Spec

LEMMA Word16Is == ASSUME NEW x, IsWord16(x) PROVE x \in UInt16
<1> DEFINE b == 65535
<1>1. x \in Nat /\ x <= b /\ b \in Int
  BY DEF IsWord16
<1> HIDE DEF b
<1>2. x \in 0..b
  BY <1>1
<1> QED BY <1>2 DEF b, UInt16

\* For any readings, energies and unit id, every register that a client can be
\* sent is a 16-bit word, and the probe reads nothing beyond the chain.
THEOREM MeterTypes == Spec => []TypeOK
<1>1. ASSUME MInv PROVE TypeOK
  <2>1. /\ model \in MeterModels /\ up \in BOOLEAN /\ excuse \in BOOLEAN
        /\ step \in {"idle", "header", "body", "report"} /\ DOMAIN fresh \subseteq Sources
        /\ \A n \in Sources : energy[n] \in Levels[n]
    BY <1>1 DEF MInv, IInv, Typed, ImageInv, ProbeInv, Typical
  <2>2. Words16(image)
    <3>1. CASE up
      <4>1. IsWord16(UnitId)
        BY ReaderAssumption DEF IsWord16
      <4> QED BY <1>1, <2>1, <3>1, <4>1, ImageIsWords DEF MInv, ShownInv
    <3>2. CASE ~up
      BY <1>1, <3>2 DEF MInv, ShownInv, NoRegisters, Words16
    <3> QED BY <3>1, <3>2
  <2>3. \A r \in DOMAIN image : IsWord(image, r) => image[r][2] \in UInt16
    <3>1. ASSUME NEW r \in DOMAIN image, IsWord(image, r)
          PROVE  IsWord16(image[r][2])
      BY <2>2, <3>1 DEF Words16, IsWord
    <3> QED BY <3>1, Word16Is
  <2>4. \A r \in DOMAIN seen : r \in Int /\ 40001 <= r /\ r <= 40197
    <3>1. CASE step # "body"
      BY <1>1, <3>1 DEF MInv, ProbeInv, NoRegisters
    <3>2. CASE step = "body"
      BY <1>1, <3>2 DEF MInv, IInv, BodyInv, AtBody, AtEnd, Covers
    <3> QED BY <3>1, <3>2
  <2>5. DOMAIN seen \subseteq 40001..40197
    BY <2>4
  <2> QED BY <2>1, <2>3, <2>5 DEF TypeOK
<1>2. MInv => TypeOK
  BY <1>1
<1> QED BY <1>2, MInvariance, PTL
-----------------------------------------------------------------------------
(* What a client makes of the blocks *)

LEMMA RoundTen ==
    ASSUME NEW v \in Int
    PROVE  /\ RoundDiv(v, 10) \in Int
           /\ -5 <= 10 * RoundDiv(v, 10) - v /\ 10 * RoundDiv(v, 10) - v <= 5
BY DEF RoundDiv

LEMMA FloatReads ==
    ASSUME NEW im, NEW first \in Int, NEW unit, NEW a, NEW n, IsList(a, n),
           Keeps(im, Floats(first, unit, a)), NEW i \in 1..n
    PROVE  FloatAt(im, first + 2 * i - 2) = Float32(a[i], unit)
<1> DEFINE r == first + 2 * i - 2
           x == Float32(a[i], unit)
<1>1. im[r] = <<"high", x>> /\ im[first + 2 * i - 1] = <<"low", x>>
  BY FloatsRead
<1>2. r + 1 = first + 2 * i - 1
  BY i \in Int
<1> HIDE DEF r, x
<1>3. FloatAt(im, r) = x
  BY <1>1, <1>2 DEF FloatAt
<1> QED BY <1>3 DEF r, x

\* A point of scale 10^e, with the words of its value and of its scale factor.
LEMMA PointReads ==
    ASSUME NEW im, NEW r, NEW sf, NEW p, NEW v, NEW unit \in {1, 2},
           im[r] = <<"word", ScaledInt16(p, v)>>, im[sf] = <<"word", SignedWord(-1)>>,
           p.unit = unit, p.sf = -1
    PROVE  /\ v = NoValue => ScaledAt(im, r, sf, unit) = NoValue
           /\ v \in Int /\ RoundDiv(v, 10^(unit - 1)) \in Int16Range
                => ScaledAt(im, r, sf, unit) = RoundDiv(v, 10^(unit - 1)) * 10^(unit - 1)
<1>1. SignedWord(-1) = 65535 /\ Signed(65535) = -1
  <2>1. -1 \in Int /\ -32767 <= -1 /\ -1 <= 32767 /\ ~(-1 >= 0)
    OBVIOUS
  <2>2. SignedWord(-1) = -1 + 65536
    BY <2>1, SignedWordIs
  <2>3. Signed(65535) = -1
    BY DEF Signed
  <2> QED BY <2>2, <2>3
<1>2. p.unit + p.sf = unit - 1 /\ unit + (-1) = unit - 1
  OBVIOUS
<1>3. IsWord(im, r) /\ IsWord(im, sf) /\ im[r][2] = ScaledInt16(p, v) /\ im[sf][2] = 65535
  BY <1>1 DEF IsWord
<1>4. CASE v = NoValue
  <2>1. ScaledInt16(p, v) = NotAvailable
    BY <1>4, Zenon DEF ScaledInt16
  <2>2. ScaledAt(im, r, sf, unit) = NoValue
    BY <1>3, <2>1 DEF ScaledAt
  <2> QED BY <1>4, <2>2, SunSpecAssumption
<1>5. CASE v \in Int /\ RoundDiv(v, 10^(unit - 1)) \in Int16Range
  <2> DEFINE e == 10^(unit - 1)
             x == RoundDiv(v, e)
  <2>1. v # NoValue
    BY <1>5, SunSpecAssumption
  <2>2. ScaledInt16(p, v) = SignedWord(x)
    <3>1. ScaledInt16(p, v) = SignedWord(RoundDiv(v, 10^(p.unit + p.sf)))
      BY <2>1, Zenon DEF ScaledInt16
    <3> QED BY <1>2, <3>1
  <2> HIDE DEF x
  <2>3. x \in Int /\ -32767 <= x /\ x <= 32767
    BY <1>5, Int16RangeIs DEF x
  <2>4. SignedWord(x) # NotAvailable /\ Signed(SignedWord(x)) = x
    BY <2>3, Int16ReadsBack
  <2>5. ScaledAt(im, r, sf, unit) = Signed(im[r][2]) * 10^(unit + Signed(im[sf][2]))
    <3>1. NotAvailable \notin {im[r][2], im[sf][2]}
      BY <1>3, <2>2, <2>4 DEF NotAvailable
    <3> QED BY <1>3, <3>1 DEF ScaledAt
  <2>6. ScaledAt(im, r, sf, unit) = x * 10^(unit + (-1))
    BY <1>1, <1>3, <2>2, <2>4, <2>5
  <2>7. ScaledAt(im, r, sf, unit) = x * e
    BY <1>2, <2>6
  <2> QED BY <2>1, <2>7 DEF x
<1> QED BY <1>4, <1>5

LEMMA Powers == 10^(2 - 1) = 10 /\ 10^(1 - 1) = 1
OBVIOUS

\* A quantity in hundredths, shown in tenths.
LEMMA TenthReads ==
    ASSUME NEW im, NEW r, NEW sf, NEW p, NEW v \in Int,
           im[r] = <<"word", ScaledInt16(p, v)>>, im[sf] = <<"word", SignedWord(-1)>>,
           p.unit = 2, p.sf = -1, RoundDiv(v, 10) \in Int16Range
    PROVE  ScaledAt(im, r, sf, 2) = 10 * RoundDiv(v, 10)
<1>1. 10^(2 - 1) = 10
  BY Powers
<1>2. RoundDiv(v, 10^(2 - 1)) \in Int16Range
  BY <1>1
<1>3. ScaledAt(im, r, sf, 2) = RoundDiv(v, 10^(2 - 1)) * 10^(2 - 1)
  BY <1>2, PointReads
<1> QED BY <1>1, <1>3, RoundTen

\* The words of an accumulator, with a scale factor of 0.
LEMMA Acc32Reads ==
    ASSUME NEW im, NEW r \in Int, NEW sf, NEW wh \in Nat,
           im[r] = <<"word", Acc32Words(wh)[1]>>, im[r + 1] = <<"word", Acc32Words(wh)[2]>>,
           im[sf] = <<"word", 0>>
    PROVE  Acc32At(im, r, sf, 1) = 10 * wh
<1> DEFINE high == Acc32Words(wh)[1]
           low == Acc32Words(wh)[2]
<1>1. Acc32Words(wh) = <<high, low>> /\ high \in Int /\ low \in Int
  BY DEF Acc32Words
<1> HIDE DEF high, low
<1>2. (high * 65536) + low = wh
  BY <1>1, Acc32ReadsBack
<1>3. /\ IsWord(im, r) /\ IsWord(im, r + 1) /\ IsWord(im, sf)
      /\ im[r][2] = high /\ im[r + 1][2] = low /\ im[sf][2] = 0
  BY DEF IsWord, high, low
<1>4. Acc32At(im, r, sf, 1) = ((im[r][2] * 65536) + im[r + 1][2]) * 10^(1 + Signed(im[sf][2]))
  <2>1. im[sf][2] # NotAvailable
    BY <1>3 DEF NotAvailable
  <2> QED BY <1>3, <2>1 DEF Acc32At
<1>5. Signed(0) = 0
  BY DEF Signed
<1>6. 10^(1 + Signed(im[sf][2])) = 10
  <2>1. 1 + Signed(im[sf][2]) = 1
    BY <1>3, <1>5
  <2>2. 10^(1 + Signed(im[sf][2])) = 10^1
    BY <2>1, Zenon
  <2> QED BY <2>2
<1>7. Acc32At(im, r, sf, 1) = wh * 10
  BY <1>2, <1>3, <1>4, <1>6
<1> QED BY <1>7
-----------------------------------------------------------------------------
(* What the snapshot says of the sources *)

PlacedOn(i) == {n \in Sources : SourcePhase[n] = PhaseOrder[i]}

LEMMA TotalIs ==
    ASSUME NEW s, NEW q
    PROVE  TotalOf(s, q) = s.phase["L1"][q] + s.phase["L2"][q] + s.phase["L3"][q]
BY DEF TotalOf, PhaseValues, PhaseOrder

LEMMA SnapshotMeasures ==
    ASSUME Typical, NEW q \in {"power", "apparent"}
    PROVE  /\ \A i \in 1..3 : /\ PhaseValues(Snapshot, q)[i] \in Nat
                              /\ PhaseValues(Snapshot, q)[i]
                                   = SumOf(fresh, PlacedOn(i) \cap DOMAIN fresh, q)
           /\ TotalOf(Snapshot, q) \in Nat
           /\ TotalOf(Snapshot, q) = SumOf(fresh, DOMAIN fresh, q)
<1>1. /\ IsFiniteSet(DOMAIN fresh) /\ DOMAIN fresh \subseteq DOMAIN SourcePhase
      /\ \A n \in DOMAIN fresh : /\ fresh[n][q] \in Nat
                                 /\ fresh[n].phase = SourcePhase[n] /\ SourcePhase[n] \in Phases
  BY FS_Subset, ReaderAssumption DEF Typical, Sources
<1>2. \A p : SumOf(fresh, OnPhase(fresh, p), q) \in Nat
  BY <1>1, ReadingsAdd
<1>3. SumOf(fresh, OnPhase(fresh, "L1"), q) + SumOf(fresh, OnPhase(fresh, "L2"), q)
          + SumOf(fresh, OnPhase(fresh, "L3"), q) = SumOf(fresh, DOMAIN fresh, q)
  BY <1>1, ReadingsAdd
<1>4. ASSUME NEW p \in Phases
      PROVE  Snapshot.phase[p][q] = SumOf(fresh, OnPhase(fresh, p), q)
  BY <1>4 DEF Snapshot, Aggregate
<1>5. ASSUME NEW i \in 1..3
      PROVE  /\ PhaseValues(Snapshot, q)[i] = Snapshot.phase[PhaseOrder[i]][q]
             /\ PhaseOrder[i] \in Phases
             /\ OnPhase(fresh, PhaseOrder[i]) = PlacedOn(i) \cap DOMAIN fresh
  <2>1. OnPhase(fresh, PhaseOrder[i]) = PlacedOn(i) \cap DOMAIN fresh
    BY <1>1 DEF OnPhase, PlacedOn, Sources
  <2> QED BY <2>1 DEF PhaseValues, Phases
<1>6. ASSUME NEW i \in 1..3
      PROVE  /\ PhaseValues(Snapshot, q)[i] \in Nat
             /\ PhaseValues(Snapshot, q)[i] = SumOf(fresh, PlacedOn(i) \cap DOMAIN fresh, q)
  BY <1>2, <1>4, <1>5
<1>7. TotalOf(Snapshot, q) = SumOf(fresh, DOMAIN fresh, q)
  <2>1. "L1" \in Phases /\ "L2" \in Phases /\ "L3" \in Phases
    BY ThreePhases
  <2>2. /\ Snapshot.phase["L1"][q] = SumOf(fresh, OnPhase(fresh, "L1"), q)
        /\ Snapshot.phase["L2"][q] = SumOf(fresh, OnPhase(fresh, "L2"), q)
        /\ Snapshot.phase["L3"][q] = SumOf(fresh, OnPhase(fresh, "L3"), q)
    BY <1>4, <2>1
  <2> QED BY <1>3, <2>2, TotalIs
<1>8. SumOf(fresh, DOMAIN fresh, q) \in Nat
  BY <1>2, <1>3
<1> QED BY <1>6, <1>7, <1>8

LEMMA SnapshotCounts ==
    ASSUME Typical
    PROVE  /\ \A i \in 1..3 : /\ PhaseValues(Snapshot, "exported")[i] \in Nat
                              /\ PhaseValues(Snapshot, "exported")[i]
                                   = SumFunction([n \in PlacedOn(i) |-> energy[n]])
           /\ TotalOf(Snapshot, "exported") \in Nat
           /\ TotalOf(Snapshot, "exported") = AllEnergy(energy)
           /\ AllEnergy(energy) = SumFunction([n \in Sources |-> energy[n]])
<1>1. Countable(energy) /\ DOMAIN energy = DOMAIN SourcePhase
  BY ReaderAssumption DEF Typical, Countable, Sources
<1>2. \A p : PhaseEnergy(energy, SourcePhase, p) \in Nat
  BY <1>1, PhaseEnergyTyped
<1>3. PhaseEnergy(energy, SourcePhase, "L1") + PhaseEnergy(energy, SourcePhase, "L2")
          + PhaseEnergy(energy, SourcePhase, "L3") = AllEnergy(energy)
  BY <1>1, PhasesAdd, ReaderAssumption
<1>4. ASSUME NEW p \in Phases
      PROVE  Snapshot.phase[p].exported = PhaseEnergy(energy, SourcePhase, p)
  BY <1>4 DEF Snapshot, Aggregate
<1>5. ASSUME NEW i \in 1..3
      PROVE  /\ PhaseValues(Snapshot, "exported")[i] \in Nat
             /\ PhaseValues(Snapshot, "exported")[i] = SumFunction([n \in PlacedOn(i) |-> energy[n]])
  <2>1. PhaseValues(Snapshot, "exported")[i] = Snapshot.phase[PhaseOrder[i]].exported
    BY DEF PhaseValues
  <2>2. PhaseOrder[i] \in Phases
    BY DEF Phases
  <2>3. {n \in DOMAIN energy \cap DOMAIN SourcePhase : SourcePhase[n] = PhaseOrder[i]} = PlacedOn(i)
    BY <1>1 DEF PlacedOn, Sources
  <2>4. PhaseEnergy(energy, SourcePhase, PhaseOrder[i]) = SumFunction([n \in PlacedOn(i) |-> energy[n]])
    BY <2>3 DEF PhaseEnergy
  <2> QED BY <1>2, <1>4, <2>1, <2>2, <2>4
<1>6. TotalOf(Snapshot, "exported") = AllEnergy(energy)
  <2>1. "L1" \in Phases /\ "L2" \in Phases /\ "L3" \in Phases
    BY ThreePhases
  <2>2. /\ Snapshot.phase["L1"].exported = PhaseEnergy(energy, SourcePhase, "L1")
        /\ Snapshot.phase["L2"].exported = PhaseEnergy(energy, SourcePhase, "L2")
        /\ Snapshot.phase["L3"].exported = PhaseEnergy(energy, SourcePhase, "L3")
    BY <1>4, <2>1
  <2> QED BY <1>3, <2>2, TotalIs
<1>7. AllEnergy(energy) \in Nat
  BY <1>2, <1>3
<1>8. AllEnergy(energy) = SumFunction([n \in Sources |-> energy[n]])
  <2> DEFINE f == [n \in Sources |-> energy[n]]
  <2>1. SumFunction(f) = SumOver(f, Sources)
    BY SumMeans
  <2>2. /\ IsFiniteSet(Sources) /\ Sources = DOMAIN energy
        /\ \A n \in Sources : f[n] \in Int /\ f[n] = energy[n]
    BY <1>1 DEF Countable, Sources
  <2> HIDE DEF f
  <2>3. SumOver(f, Sources) = SumOver(energy, Sources)
    BY <2>2, SumSame
  <2> QED BY <2>1, <2>2, <2>3 DEF AllEnergy, f
<1> QED BY <1>5, <1>6, <1>7, <1>8
-----------------------------------------------------------------------------
(* What a client finds in an image of each model *)

\* A list of float32s in pairs of registers, from its first value on.
LEMMA Pairs ==
    ASSUME NEW im, NEW first \in Int, NEW unit, NEW a, NEW n \in {4, 8}, IsList(a, n),
           Keeps(im, Floats(first, unit, a))
    PROVE  /\ FloatAt(im, first) = Float32(a[1], unit)
           /\ \A i \in 1..3 : FloatAt(im, first + 2 * i) = Float32(a[i + 1], unit)
<1>1. \A j \in 1..4 : FloatAt(im, first + 2 * j - 2) = Float32(a[j], unit)
  <2>1. \A j \in 1..4 : j \in 1..n
    OBVIOUS
  <2> QED BY <2>1, FloatReads
<1>2. FloatAt(im, first) = Float32(a[1], unit)
  <2>1. 1 \in 1..4 /\ first + 2 * 1 - 2 = first
    OBVIOUS
  <2>2. FloatAt(im, first + 2 * 1 - 2) = Float32(a[1], unit)
    BY <1>1
  <2> QED BY <2>1, <2>2
<1>3. ASSUME NEW i \in 1..3 PROVE FloatAt(im, first + 2 * i) = Float32(a[i + 1], unit)
  <2>1. i + 1 \in 1..4 /\ first + 2 * (i + 1) - 2 = first + 2 * i
    OBVIOUS
  <2>2. FloatAt(im, first + 2 * (i + 1) - 2) = Float32(a[i + 1], unit)
    BY <1>1, <2>1
  <2> QED BY <2>1, <2>2
<1> QED BY <1>2, <1>3

LEMMA Reads213 ==
    ASSUME NEW im, NEW id, NEW s, im = Registers(213, id, s)
    PROVE  /\ FloatAt(im, 40098) = Float32(-TotalOf(s, "power"), 100)
           /\ \A i \in 1..3 : FloatAt(im, 40098 + 2 * i) = Float32(-PhaseValues(s, "power")[i], 100)
           /\ FloatAt(im, 40106) = Float32(TotalOf(s, "apparent"), 100)
           /\ FloatAt(im, 40122)
                = Float32(PowerFactor(TotalOf(s, "power"), TotalOf(s, "apparent")), 1000)
           /\ FloatAt(im, 40130) = Float32(TotalOf(s, "exported"), 10)
           /\ \A i \in 1..3 : FloatAt(im, 40130 + 2 * i) = Float32(PhaseValues(s, "exported")[i], 10)
<1> DEFINE flow == FlowValues(s)
           apparent == WithPhases(s, "apparent")
           factor == FactorValues(s)
           counted == EnergyValues(s)
           f4 == Floats(40098, 100, flow)
           f5 == Floats(40106, 100, apparent)
           f6 == Floats(40122, 1000, factor)
           f7 == Floats(40130, 10, counted)
<1>1. Keeps(im, Body213(s))
  BY RegistersKeep DEF MeterModels
<1>2. Keeps(im, f4) /\ Keeps(im, f5) /\ Keeps(im, f6) /\ Keeps(im, f7)
  <2>1. /\ Keeps(Body213(s), f4) /\ Keeps(Body213(s), f5)
        /\ Keeps(Body213(s), f6) /\ Keeps(Body213(s), f7)
    BY Body213Blocks
  <2> HIDE DEF f4, f5, f6, f7
  <2> QED BY <1>1, <2>1, KeepsTransitive
<1>3. /\ IsList(flow, 4) /\ IsList(apparent, 4) /\ IsList(factor, 4) /\ IsList(counted, 8)
  BY WithPhasesLen, OtherLens
<1> HIDE DEF flow, apparent, factor, counted
<1>4. /\ FloatAt(im, 40098) = Float32(flow[1], 100)
      /\ \A i \in 1..3 : FloatAt(im, 40098 + 2 * i) = Float32(flow[i + 1], 100)
  BY <1>2, <1>3, Pairs
<1>5. FloatAt(im, 40106) = Float32(apparent[1], 100)
  BY <1>2, <1>3, Pairs
<1>6. FloatAt(im, 40122) = Float32(factor[1], 1000)
  BY <1>2, <1>3, Pairs
<1>7. /\ FloatAt(im, 40130) = Float32(counted[1], 10)
      /\ \A i \in 1..3 : FloatAt(im, 40130 + 2 * i) = Float32(counted[i + 1], 10)
  BY <1>2, <1>3, Pairs
<1>8. flow[1] = -TotalOf(s, "power") /\ \A i \in 1..3 : flow[i + 1] = -PhaseValues(s, "power")[i]
  BY FlowValuesAre DEF flow
<1>9. apparent[1] = TotalOf(s, "apparent")
  BY WithPhasesAre DEF apparent
<1>10. factor[1] = PowerFactor(TotalOf(s, "power"), TotalOf(s, "apparent"))
  BY FactorValueIs DEF factor
<1>11. /\ counted[1] = TotalOf(s, "exported")
       /\ \A i \in 1..3 : counted[i + 1] = PhaseValues(s, "exported")[i]
  BY EnergyValuesAre DEF counted
<1> QED BY <1>4, <1>5, <1>6, <1>7, <1>8, <1>9, <1>10, <1>11

\* What model 203 shows of a number: the nearest multiple of ten.
Tens(v) == 10 * RoundDiv(v, 10)

PointAt(im, r, sf, p, v) ==
    im[r] = <<"word", ScaledInt16(p, v)>> /\ im[sf] = <<"word", SignedWord(-1)>>

LEMMA GroupPoint ==
    ASSUME NEW im, NEW p, NEW a, NEW n \in Nat, IsList(a, n), p.values = a, p.sf = -1,
           NEW first \in Int, p.at = first, Keeps(im, ScaledGroup(p)),
           NEW i \in 1..n, NEW r, r = first + i - 1, NEW sf, sf = first + n
    PROVE  PointAt(im, r, sf, p, a[i])
<1>1. /\ \A j \in 1..n : im[first + j - 1] = <<"word", ScaledInt16(p, p.values[j])>>
      /\ im[first + n] = <<"word", SignedWord(p.sf)>>
  BY GroupRead
<1> QED BY <1>1 DEF PointAt

\* A point of a group in hundredths, shown in tenths.
LEMMA TenthPoint ==
    ASSUME NEW im, NEW p, NEW a, NEW n \in Nat, IsList(a, n), p.values = a, p.unit = 2,
           p.sf = -1, NEW first \in Int, p.at = first, Keeps(im, ScaledGroup(p)), GroupFits(p),
           NEW i \in 1..n, a[i] \in Int, NEW r, r = first + i - 1, NEW sf, sf = first + n
    PROVE  ScaledAt(im, r, sf, 2) = Tens(a[i])
<1>2. im[r] = <<"word", ScaledInt16(p, a[i])>> /\ im[sf] = <<"word", SignedWord(-1)>>
  <2>1. PointAt(im, r, sf, p, a[i])
    BY GroupPoint
  <2> QED BY <2>1 DEF PointAt
<1>3. RoundDiv(a[i], 10) \in Int16Range
  <2>1. i \in DOMAIN p.values /\ a[i] # NoValue
    BY ListLen, SunSpecAssumption
  <2>2. RoundDiv(a[i], 10^(p.unit + p.sf)) \in Int16Range
    BY <2>1 DEF GroupFits
  <2>3. p.unit + p.sf = 2 - 1
    OBVIOUS
  <2>4. 10^(p.unit + p.sf) = 10^(2 - 1)
    BY <2>3, Zenon
  <2> QED BY <2>2, <2>4, Powers
<1> PICK v \in Int : v = a[i]
  OBVIOUS
<1>4. im[r] = <<"word", ScaledInt16(p, v)>> /\ RoundDiv(v, 10) \in Int16Range
  BY <1>2, <1>3
<1>5. ScaledAt(im, r, sf, 2) = 10 * RoundDiv(v, 10)
  BY <1>2, <1>4, TenthReads
<1> QED BY <1>5 DEF Tens

LEMMA Group203Reads ==
    ASSUME NEW im, NEW unit, NEW s, im = Registers(203, unit, s), Fits203(s)
    PROVE  /\ \A i \in 0..3 : FlowValues(s)[i + 1] \in Int =>
                  ScaledAt(im, 40088 + i, 40092, 2) = Tens(FlowValues(s)[i + 1])
           /\ WithPhases(s, "apparent")[1] \in Int =>
                  ScaledAt(im, 40093, 40097, 2) = Tens(WithPhases(s, "apparent")[1])
           /\ FactorValues(s)[1] = NoValue => ScaledAt(im, 40103, 40107, 1) = NoValue
           /\ FactorValues(s)[1] \in Int => ScaledAt(im, 40103, 40107, 1) \in Int
<1> DEFINE p4 == Int16Groups(s)[4]
           p5 == Int16Groups(s)[5]
           p6 == Int16Groups(s)[6]
           flow == FlowValues(s)
           apparent == WithPhases(s, "apparent")
           factor == FactorValues(s)
<1>1. /\ p4.at = 40088 /\ p4.unit = 2 /\ p4.sf = -1 /\ p4.values = flow
      /\ p5.at = 40093 /\ p5.unit = 2 /\ p5.sf = -1 /\ p5.values = apparent
      /\ p6.at = 40103 /\ p6.unit = 1 /\ p6.sf = -1 /\ p6.values = factor
  BY DEF Int16Groups
<1>2. /\ Keeps(im, ScaledGroup(p4)) /\ Keeps(im, ScaledGroup(p5)) /\ Keeps(im, ScaledGroup(p6))
  <2>1. Keeps(im, Body203(s))
    BY RegistersKeep DEF MeterModels
  <2>2. /\ Keeps(Body203(s), ScaledGroup(p4)) /\ Keeps(Body203(s), ScaledGroup(p5))
        /\ Keeps(Body203(s), ScaledGroup(p6))
    BY Body203Blocks
  <2> HIDE DEF p4, p5, p6
  <2> QED BY <2>1, <2>2, KeepsTransitive
<1>3. IsList(flow, 4) /\ IsList(apparent, 4) /\ IsList(factor, 4)
  BY WithPhasesLen, OtherLens
<1>4. GroupFits(p4) /\ GroupFits(p5) /\ GroupFits(p6)
  <2>1. \A g \in 1..6 : GroupFits(Int16Groups(s)[g])
    BY DEF Fits203, GroupFits
  <2>2. 4 \in 1..6 /\ 5 \in 1..6 /\ 6 \in 1..6
    OBVIOUS
  <2> QED BY <2>1, <2>2, Zenon
<1> HIDE DEF p4, p5, p6, flow, apparent, factor
<1>5. ASSUME NEW i \in 0..3, flow[i + 1] \in Int
      PROVE  ScaledAt(im, 40088 + i, 40092, 2) = Tens(flow[i + 1])
  <2>1. i + 1 \in 1..4 /\ 40088 + i = 40088 + (i + 1) - 1 /\ 40092 = 40088 + 4
    OBVIOUS
  <2> PICK k \in 1..4, r \in Int : k = i + 1 /\ r = 40088 + i
    BY <2>1
  <2>2. r = 40088 + k - 1 /\ flow[k] \in Int
    BY <1>5
  <2>3. ScaledAt(im, r, 40092, 2) = Tens(flow[k])
    BY <1>1, <1>2, <1>3, <1>4, <2>1, <2>2, TenthPoint
  <2> QED BY <2>3
<1>6. ASSUME apparent[1] \in Int
      PROVE  ScaledAt(im, 40093, 40097, 2) = Tens(apparent[1])
  <2>1. 1 \in 1..4 /\ 40093 = 40093 + 1 - 1 /\ 40097 = 40093 + 4
    OBVIOUS
  <2> QED BY <1>1, <1>2, <1>3, <1>4, <1>6, <2>1, TenthPoint
<1>7. /\ factor[1] = NoValue => ScaledAt(im, 40103, 40107, 1) = NoValue
      /\ factor[1] \in Int => ScaledAt(im, 40103, 40107, 1) \in Int
  <2>2. 1 \in 1..4 /\ 40103 = 40103 + 1 - 1 /\ 40107 = 40103 + 4
    OBVIOUS
  <2>1. PointAt(im, 40103, 40107, p6, factor[1])
    BY <1>1, <1>2, <1>3, <2>2, GroupPoint
  <2>3. im[40103] = <<"word", ScaledInt16(p6, factor[1])>> /\ im[40107] = <<"word", SignedWord(-1)>>
    BY <2>1 DEF PointAt
  <2>4. /\ factor[1] = NoValue => ScaledAt(im, 40103, 40107, 1) = NoValue
        /\ factor[1] \in Int /\ RoundDiv(factor[1], 10^(1 - 1)) \in Int16Range
             => ScaledAt(im, 40103, 40107, 1) = RoundDiv(factor[1], 10^(1 - 1)) * 10^(1 - 1)
    BY <1>1, <2>3, PointReads
  <2>5. ASSUME factor[1] \in Int PROVE RoundDiv(factor[1], 10^(1 - 1)) \in Int16Range
    <3>1. 1 \in DOMAIN p6.values
      BY <1>1, <1>3, <2>2, ListLen
    <3>2. p6.unit + p6.sf = 1 - 1
      BY <1>1
    <3>3. RoundDiv(factor[1], 10^(p6.unit + p6.sf)) \in Int16Range
      BY <1>1, <1>4, <2>5, <3>1, SunSpecAssumption DEF GroupFits
    <3> QED BY <3>2, <3>3
  <2>6. ASSUME factor[1] \in Int PROVE ScaledAt(im, 40103, 40107, 1) \in Int
    <3> DEFINE x == RoundDiv(factor[1], 10^(1 - 1))
    <3>1. x \in Int
      BY <2>5, <2>6, Int16RangeIs
    <3>2. ScaledAt(im, 40103, 40107, 1) = x * 10^(1 - 1)
      BY <2>4, <2>5, <2>6
    <3> HIDE DEF x
    <3> QED BY <3>1, <3>2, Powers
  <2> QED BY <2>4, <2>6
<1> QED BY <1>5, <1>6, <1>7 DEF flow, apparent, factor

LEMMA Energy203Reads ==
    ASSUME NEW im, NEW unit, NEW s, im = Registers(203, unit, s), Fits203(s), NEW i \in 0..3
    PROVE  Acc32At(im, 40108 + 2 * i, 40124, 1) = Tens(EnergyValues(s)[i + 1])
<1> DEFINE words == EnergyWords(s)
           wh == WholeWh(s, i + 1)
<1>1. /\ Keeps(im, Words(40108, words)) /\ Keeps(im, Words(40124, ReactiveWords))
  <2>1. Keeps(im, Body203(s))
    BY RegistersKeep DEF MeterModels
  <2>2. Keeps(Body203(s), Words(40108, words)) /\ Keeps(Body203(s), Words(40124, ReactiveWords))
    BY Body203Blocks
  <2> HIDE DEF words
  <2> QED BY <2>1, <2>2, KeepsTransitive
<1>2. IsList(words, 16) /\ IsList(ReactiveWords, 18) /\ ReactiveWords[1] = 0
  <2>1. IsList(words, 16)
    BY DEF IsList, EnergyWords
  <2> DEFINE a == <<0>>
             z == [j \in 1..16 |-> 0]
             x == <<NotAvailable>>
  <2>2. IsList(a, 1) /\ IsList(z, 16) /\ IsList(x, 1) /\ a[1] = 0
    BY DEF IsList
  <2>3. ReactiveWords = a \o z \o x
    BY DEF ReactiveWords
  <2> HIDE DEF a, z, x
  <2> DEFINE az == a \o z
  <2>4. IsList(az, 1 + 16) /\ StartsWith(az, a, 1)
    BY <2>2, ListConcat, ConcatFirst, Zenon
  <2> HIDE DEF az
  <2>5. IsList(az \o x, (1 + 16) + 1) /\ StartsWith(az \o x, az, 1 + 16)
    BY <2>2, <2>4, ListConcat, ConcatFirst, Zenon
  <2>6. ReactiveWords = az \o x
    BY <2>3 DEF az
  <2>7. az[1] = a[1]
    BY <2>4 DEF StartsWith
  <2>8. (az \o x)[1] = az[1]
    <3> HIDE DEF StartsWith
    <3> DEFINE c == az \o x
    <3>1. StartsWith(c, az, 17)
      BY <2>5
    <3> HIDE DEF c
    <3>2. c[1] = az[1]
      BY <3>1 DEF StartsWith
    <3> QED BY <3>2 DEF c
  <2>9. IsList(az \o x, 18)
    BY <2>5
  <2> QED BY <2>1, <2>2, <2>6, <2>7, <2>8, <2>9
<1>3. words[2 * i + 1] = Acc32Words(wh)[1] /\ words[2 * i + 2] = Acc32Words(wh)[2]
  <2>1. /\ 2 * i + 1 \in 1..16 /\ 2 * i + 2 \in 1..16
        /\ ((2 * i + 1) + 1) \div 2 = i + 1 /\ ((2 * i + 2) + 1) \div 2 = i + 1
        /\ 2 - ((2 * i + 1) % 2) = 1 /\ 2 - ((2 * i + 2) % 2) = 2
    OBVIOUS
  <2>2. \A j \in 1..16 : words[j] = Acc32Words(WholeWh(s, (j + 1) \div 2))[2 - (j % 2)]
    BY DEF EnergyWords
  <2>3. words[2 * i + 1] = Acc32Words(WholeWh(s, ((2 * i + 1) + 1) \div 2))[2 - ((2 * i + 1) % 2)]
    BY <2>1, <2>2
  <2>4. words[2 * i + 2] = Acc32Words(WholeWh(s, ((2 * i + 2) + 1) \div 2))[2 - ((2 * i + 2) % 2)]
    BY <2>1, <2>2
  <2> HIDE DEF words
  <2> QED BY <2>1, <2>3, <2>4
<1> HIDE DEF words
<1>4. \A j \in 1..16 : im[40108 + j - 1] = <<"word", words[j]>>
  BY <1>1, <1>2, WordsRead
<1>5. im[40124] = <<"word", 0>>
  <2>1. \A j \in 1..18 : im[40124 + j - 1] = <<"word", ReactiveWords[j]>>
    <3> DEFINE w == ReactiveWords
    <3>1. IsList(w, 18) /\ Keeps(im, Words(40124, w))
      BY <1>1, <1>2
    <3> HIDE DEF w
    <3>2. \A j \in 1..18 : im[40124 + j - 1] = <<"word", w[j]>>
      BY <3>1, WordsRead
    <3> QED BY <3>2 DEF w
  <2>2. 1 \in 1..18 /\ 40124 + 1 - 1 = 40124
    OBVIOUS
  <2> QED BY <1>2, <2>1, <2>2
<1>6. wh \in Nat
  <2>1. \A j \in 1..8 : WholeWh(s, j) \in 0..Acc32Max
    BY DEF Fits203
  <2>2. i + 1 \in 1..8 /\ Acc32Max \in Nat
    BY SunSpecAssumption
  <2> QED BY <2>1, <2>2
<1>7. wh = RoundDiv(EnergyValues(s)[i + 1], 10)
  BY DEF WholeWh
<1> HIDE DEF wh
<1> DEFINE r == 40108 + 2 * i
<1>8. /\ 2 * i + 1 \in 1..16 /\ 2 * i + 2 \in 1..16 /\ r \in Int
      /\ 40108 + (2 * i + 1) - 1 = r /\ 40108 + (2 * i + 2) - 1 = r + 1
  OBVIOUS
<1> HIDE DEF r
<1>9. im[r] = <<"word", Acc32Words(wh)[1]>> /\ im[r + 1] = <<"word", Acc32Words(wh)[2]>>
  BY <1>3, <1>4, <1>8
<1>10. Acc32At(im, r, 40124, 1) = 10 * wh
  BY <1>5, <1>6, <1>8, <1>9, Acc32Reads
<1> QED BY <1>7, <1>10 DEF Tens, r
-----------------------------------------------------------------------------
(* What a client reads is what the sources measure *)

LEMMA NearIs ==
    ASSUME NEW value \in Int, NEW exact \in Int, NEW half \in Nat,
           -half <= value - exact, value - exact <= half
    PROVE  Near(value, exact, half)
<1>1. value \notin {NoValue, Garbled}
  BY SunSpecAssumption, ReaderAssumption
<1>2. value - exact \in (-half)..half
  OBVIOUS
<1> QED BY <1>1, <1>2 DEF Near

LEMMA TensNear == ASSUME NEW v \in Int PROVE Near(Tens(v), v, 5) /\ Tens(v) \in Int
<1>1. RoundDiv(v, 10) \in Int /\ Tens(v) = 10 * RoundDiv(v, 10)
  BY RoundTen DEF Tens
<1>2. Tens(v) \in Int /\ -5 <= Tens(v) - v /\ Tens(v) - v <= 5
  BY <1>1, RoundTen
<1> QED BY <1>2, NearIs

LEMMA FloatNear ==
    ASSUME NEW v \in Int, NEW unit \in Nat \ {0}, IsFloat(Magnitude(v) \div unit)
    PROVE  Near(Float32(v, unit), v, FloatError(v))
<1> DEFINE x == Float32(v, unit)
           half == FloatError(v)
<1>1. IsClose(x, v)
  BY Float32Close
<1> HIDE DEF x
<1>2. x \in Int /\ half \in Nat /\ -half <= x - v /\ x - v <= half
  BY <1>1, SMT DEF IsClose, FloatError, Magnitude
<1> HIDE DEF half
<1>3. Near(x, v, half)
  BY <1>2, NearIs
<1> QED BY <1>3 DEF x, half

\* The sums that MeterReadsBack compares with, and the snapshot's values.
Exact(i) == -SumOf(fresh, PlacedOn(i) \cap DOMAIN fresh, "power")
Counted(i) == SumFunction([n \in PlacedOn(i) |-> energy[n]])
ExactAll == -SumOf(fresh, Sources \cap DOMAIN fresh, "power")
CountedAll == SumFunction([n \in Sources |-> energy[n]])
Apparent == SumOf(fresh, DOMAIN fresh, "apparent")

LEMMA SnapshotIs ==
    ASSUME Typical
    PROVE  /\ -TotalOf(Snapshot, "power") = ExactAll /\ ExactAll \in Int
           /\ TotalOf(Snapshot, "power") \in Nat
           /\ TotalOf(Snapshot, "exported") = CountedAll /\ CountedAll \in Int
           /\ TotalOf(Snapshot, "apparent") = Apparent /\ Apparent \in Nat
           /\ \A i \in 1..3 :
                 /\ -PhaseValues(Snapshot, "power")[i] = Exact(i) /\ Exact(i) \in Int
                 /\ PhaseValues(Snapshot, "exported")[i] = Counted(i) /\ Counted(i) \in Int
<1>1. Sources \cap DOMAIN fresh = DOMAIN fresh
  BY DEF Typical
<1>2. /\ TotalOf(Snapshot, "power") \in Nat
      /\ TotalOf(Snapshot, "power") = SumOf(fresh, Sources \cap DOMAIN fresh, "power")
  BY <1>1, SnapshotMeasures
<1>3. TotalOf(Snapshot, "apparent") \in Nat /\ TotalOf(Snapshot, "apparent") = Apparent
  BY SnapshotMeasures DEF Apparent
<1>4. TotalOf(Snapshot, "exported") \in Nat /\ TotalOf(Snapshot, "exported") = CountedAll
  BY SnapshotCounts DEF CountedAll
<1>5. ASSUME NEW i \in 1..3
      PROVE  -PhaseValues(Snapshot, "power")[i] = Exact(i) /\ Exact(i) \in Int
  <2>1. /\ PhaseValues(Snapshot, "power")[i] \in Nat
        /\ PhaseValues(Snapshot, "power")[i] = SumOf(fresh, PlacedOn(i) \cap DOMAIN fresh, "power")
    BY SnapshotMeasures
  <2> QED BY <2>1 DEF Exact
<1>6. ASSUME NEW i \in 1..3
      PROVE  PhaseValues(Snapshot, "exported")[i] = Counted(i) /\ Counted(i) \in Int
  BY SnapshotCounts DEF Counted
<1> QED BY <1>2, <1>3, <1>4, <1>5, <1>6 DEF ExactAll

\* What build_registers lets through is float32s, in model 213.
LEMMA FloatsAre ==
    ASSUME NEW unit, NEW a, NEW n, IsList(a, n), FloatsFit(unit, a), unit \in Nat \ {0},
           NEW i \in 1..n, a[i] \in Int
    PROVE  IsFloat(Magnitude(a[i]) \div unit)
<1>1. (Magnitude(a[i]) + unit - 1) \div unit <= Float32Max
  BY ListLen DEF FloatsFit
<1> QED BY <1>1, FitsIsFloat

LEMMA SnapshotFits ==
    ASSUME Typical, Fits213(Snapshot)
    PROVE  /\ IsFloat(Magnitude(ExactAll) \div 100) /\ IsFloat(Magnitude(CountedAll) \div 10)
           /\ IsFloat(Magnitude(Apparent) \div 100)
           /\ \A i \in 1..3 : /\ IsFloat(Magnitude(Exact(i)) \div 100)
                              /\ IsFloat(Magnitude(Counted(i)) \div 10)
<1> DEFINE flow == FlowValues(Snapshot)
           apparent == WithPhases(Snapshot, "apparent")
           counted == EnergyValues(Snapshot)
<1>1. FloatsFit(100, flow) /\ FloatsFit(100, apparent) /\ FloatsFit(10, counted)
  BY DEF Fits213
<1>2. IsList(flow, 4) /\ IsList(apparent, 4) /\ IsList(counted, 8)
  BY WithPhasesLen, OtherLens
<1>3. /\ flow[1] = ExactAll /\ ExactAll \in Int /\ counted[1] = CountedAll /\ CountedAll \in Int
      /\ apparent[1] = Apparent /\ Apparent \in Int
  BY FlowValuesAre, EnergyValuesAre, WithPhasesAre, SnapshotIs
<1>4. ASSUME NEW i \in 1..3
      PROVE  /\ flow[i + 1] = Exact(i) /\ Exact(i) \in Int
             /\ counted[i + 1] = Counted(i) /\ Counted(i) \in Int
  BY FlowValuesAre, EnergyValuesAre, SnapshotIs
<1> HIDE DEF flow, apparent, counted
<1>5. 1 \in 1..4 /\ 1 \in 1..8 /\ 100 \in Nat \ {0} /\ 10 \in Nat \ {0}
  OBVIOUS
<1>6. IsFloat(Magnitude(flow[1]) \div 100) /\ IsFloat(Magnitude(apparent[1]) \div 100)
  BY <1>1, <1>2, <1>3, <1>5, FloatsAre
<1>7. IsFloat(Magnitude(counted[1]) \div 10)
  BY <1>1, <1>2, <1>3, <1>5, FloatsAre
<1>8. ASSUME NEW i \in 1..3
      PROVE  IsFloat(Magnitude(Exact(i)) \div 100) /\ IsFloat(Magnitude(Counted(i)) \div 10)
  <2>1. i + 1 \in 1..4 /\ i + 1 \in 1..8
    OBVIOUS
  <2> PICK k : k = i + 1
    OBVIOUS
  <2>2. flow[k] = Exact(i) /\ flow[k] \in Int /\ counted[k] = Counted(i) /\ counted[k] \in Int
    BY <1>4
  <2>3. IsFloat(Magnitude(flow[k]) \div 100)
    BY <1>1, <1>2, <1>5, <2>1, <2>2, FloatsAre
  <2>4. IsFloat(Magnitude(counted[k]) \div 10)
    BY <1>1, <1>2, <1>5, <2>1, <2>2, FloatsAre
  <2> QED BY <2>2, <2>3, <2>4
<1> QED BY <1>3, <1>6, <1>7, <1>8

\* MeterReadsBack, of the values that a client of a model finds.
ReadsBackAs(power, powerOn(_), counted, countedOn(_), apparent, factor, half(_)) ==
    /\ Near(power, ExactAll, half(ExactAll)) /\ Near(counted, CountedAll, half(CountedAll))
    /\ \A i \in 1..3 : /\ Near(powerOn(i), Exact(i), half(Exact(i)))
                       /\ Near(countedOn(i), Counted(i), half(Counted(i)))
    /\ Near(apparent, Apparent, half(Apparent))
    /\ (factor = NoValue) <=> (Apparent = 0)

Finds203 ==
    LET powerOn(i) == ScaledAt(image, 40088 + i, 40092, 2)
        countedOn(i) == Acc32At(image, 40108 + 2 * i, 40124, 1)
        half(exact) == 5
    IN  ReadsBackAs(ScaledAt(image, 40088, 40092, 2), powerOn,
                    Acc32At(image, 40108, 40124, 1), countedOn,
                    ScaledAt(image, 40093, 40097, 2), ScaledAt(image, 40103, 40107, 1), half)

Finds213 ==
    LET powerOn(i) == FloatAt(image, 40098 + 2 * i)
        countedOn(i) == FloatAt(image, 40130 + 2 * i)
    IN  ReadsBackAs(FloatAt(image, 40098), powerOn, FloatAt(image, 40130), countedOn,
                    FloatAt(image, 40106), FloatAt(image, 40122), FloatError)

LEMMA FactorShown ==
    ASSUME Typical, NEW pf, pf = PowerFactor(TotalOf(Snapshot, "power"), TotalOf(Snapshot, "apparent"))
    PROVE  IF Apparent = 0 THEN pf = NoValue ELSE pf \in -1000..1000
<1> PICK power \in Nat, apparent \in Nat :
          power = TotalOf(Snapshot, "power") /\ apparent = TotalOf(Snapshot, "apparent")
  BY SnapshotIs
<1>1. apparent = Apparent /\ pf = PowerFactor(power, apparent)
  BY SnapshotIs
<1> QED BY <1>1, PowerFactorIs

LEMMA ReadsBack213 ==
    ASSUME Typical, image = Registers(213, UnitId, Snapshot), Fits213(Snapshot)
    PROVE  Finds213
<1>1. /\ FloatAt(image, 40098) = Float32(ExactAll, 100) /\ FloatAt(image, 40130) = Float32(CountedAll, 10)
      /\ FloatAt(image, 40106) = Float32(Apparent, 100)
      /\ ExactAll \in Int /\ CountedAll \in Int /\ Apparent \in Int
  BY Reads213, SnapshotIs
<1>2. ASSUME NEW i \in 1..3
      PROVE  /\ FloatAt(image, 40098 + 2 * i) = Float32(Exact(i), 100) /\ Exact(i) \in Int
             /\ FloatAt(image, 40130 + 2 * i) = Float32(Counted(i), 10) /\ Counted(i) \in Int
  BY Reads213, SnapshotIs
<1>3. (FloatAt(image, 40122) = NoValue) <=> (Apparent = 0)
  <2> DEFINE pf == PowerFactor(TotalOf(Snapshot, "power"), TotalOf(Snapshot, "apparent"))
  <2>1. FloatAt(image, 40122) = Float32(pf, 1000)
    BY Reads213
  <2>2. IF Apparent = 0 THEN pf = NoValue ELSE pf \in -1000..1000
    BY FactorShown
  <2> HIDE DEF pf
  <2>3. Float32(pf, 1000) = pf
    BY <2>2, Float32Keeps
  <2> QED BY <2>1, <2>2, <2>3, SunSpecAssumption
<1>4. 100 \in Nat \ {0} /\ 10 \in Nat \ {0}
  OBVIOUS
<1>5. /\ Near(FloatAt(image, 40098), ExactAll, FloatError(ExactAll))
      /\ Near(FloatAt(image, 40130), CountedAll, FloatError(CountedAll))
      /\ Near(FloatAt(image, 40106), Apparent, FloatError(Apparent))
  BY <1>1, <1>4, SnapshotFits, FloatNear
<1>6. ASSUME NEW i \in 1..3
      PROVE  /\ Near(FloatAt(image, 40098 + 2 * i), Exact(i), FloatError(Exact(i)))
             /\ Near(FloatAt(image, 40130 + 2 * i), Counted(i), FloatError(Counted(i)))
  BY <1>2, <1>4, SnapshotFits, FloatNear
<1> QED BY <1>3, <1>5, <1>6 DEF Finds213, ReadsBackAs

LEMMA ReadsBack203 ==
    ASSUME Typical, image = Registers(203, UnitId, Snapshot), Fits203(Snapshot)
    PROVE  Finds203
<1> DEFINE s == Snapshot
<1>1. /\ FlowValues(s)[1] = ExactAll /\ EnergyValues(s)[1] = CountedAll
      /\ WithPhases(s, "apparent")[1] = Apparent
      /\ ExactAll \in Int /\ CountedAll \in Int /\ Apparent \in Int
  BY FlowValuesAre, EnergyValuesAre, WithPhasesAre, SnapshotIs
<1>2. ASSUME NEW i \in 1..3
      PROVE  /\ FlowValues(s)[i + 1] = Exact(i) /\ Exact(i) \in Int
             /\ EnergyValues(s)[i + 1] = Counted(i) /\ Counted(i) \in Int
  BY FlowValuesAre, EnergyValuesAre, SnapshotIs
<1>3. /\ \A i \in 0..3 : FlowValues(s)[i + 1] \in Int =>
             ScaledAt(image, 40088 + i, 40092, 2) = Tens(FlowValues(s)[i + 1])
      /\ ScaledAt(image, 40093, 40097, 2) = Tens(Apparent)
      /\ FactorValues(s)[1] = NoValue => ScaledAt(image, 40103, 40107, 1) = NoValue
      /\ FactorValues(s)[1] \in Int => ScaledAt(image, 40103, 40107, 1) \in Int
  BY <1>1, Group203Reads
<1>4. \A i \in 0..3 : Acc32At(image, 40108 + 2 * i, 40124, 1) = Tens(EnergyValues(s)[i + 1])
  BY Energy203Reads
<1> HIDE DEF s
<1>5. /\ ScaledAt(image, 40088, 40092, 2) = Tens(ExactAll)
      /\ Acc32At(image, 40108, 40124, 1) = Tens(CountedAll)
  <2>1. 0 \in 0..3 /\ 40088 + 0 = 40088 /\ 40108 + 2 * 0 = 40108 /\ 0 + 1 = 1
    OBVIOUS
  <2>2. Acc32At(image, 40108 + 2 * 0, 40124, 1) = Tens(EnergyValues(s)[0 + 1])
    BY <1>4, <2>1
  <2>3. ScaledAt(image, 40088 + 0, 40092, 2) = Tens(FlowValues(s)[0 + 1])
    BY <1>1, <1>3, <2>1
  <2> QED BY <1>1, <2>1, <2>2, <2>3
<1>6. ASSUME NEW i \in 1..3
      PROVE  /\ ScaledAt(image, 40088 + i, 40092, 2) = Tens(Exact(i))
             /\ Acc32At(image, 40108 + 2 * i, 40124, 1) = Tens(Counted(i))
  <2>1. i \in 0..3
    OBVIOUS
  <2>2. Acc32At(image, 40108 + 2 * i, 40124, 1) = Tens(EnergyValues(s)[i + 1])
    BY <1>4, <2>1
  <2>3. ScaledAt(image, 40088 + i, 40092, 2) = Tens(FlowValues(s)[i + 1])
    BY <1>2, <1>3, <2>1
  <2> QED BY <1>2, <2>2, <2>3
<1>7. (ScaledAt(image, 40103, 40107, 1) = NoValue) <=> (Apparent = 0)
  <2>1. IF Apparent = 0 THEN FactorValues(s)[1] = NoValue ELSE FactorValues(s)[1] \in Int
    BY FactorValueIs, FactorShown DEF s
  <2> QED BY <1>3, <2>1, SunSpecAssumption
<1>8. /\ Near(ScaledAt(image, 40088, 40092, 2), ExactAll, 5)
      /\ Near(Acc32At(image, 40108, 40124, 1), CountedAll, 5)
      /\ Near(ScaledAt(image, 40093, 40097, 2), Apparent, 5)
  BY <1>1, <1>3, <1>5, TensNear
<1>9. ASSUME NEW i \in 1..3
      PROVE  /\ Near(ScaledAt(image, 40088 + i, 40092, 2), Exact(i), 5)
             /\ Near(Acc32At(image, 40108 + 2 * i, 40124, 1), Counted(i), 5)
  BY <1>2, <1>6, TensNear
<1> QED BY <1>7, <1>8, <1>9 DEF Finds203, ReadsBackAs

\* For any sources, readings, energies and unit id, and for both meter models,
\* a client reads what the sources measure, to half a unit of the registers of
\* model 203 or the error of a float32 in model 213 (sunspec.py: _float_words,
\* _signed_word, _write_acc32; probe.py: _float_at and the scaled values).
THEOREM MeterAlwaysReadsBack == Spec => []MeterReadsBack
<1>1. ASSUME MInv, up, model = 203 PROVE MeterReadsBack
  <2>1. Finds203
    BY <1>1, ReadsBack203 DEF MInv, ShownInv, Buildable
  <2>2. /\ Reading(203, image).power = ScaledAt(image, 40088, 40092, 2)
        /\ Reading(203, image).exported = Acc32At(image, 40108, 40124, 1)
        /\ Reading(203, image).apparent = ScaledAt(image, 40093, 40097, 2)
        /\ Reading(203, image).factor = ScaledAt(image, 40103, 40107, 1)
    BY DEF Reading
  <2> HIDE DEF Reading
  <2> QED BY <1>1, <2>1, <2>2
          DEF MeterReadsBack, Finds203, ReadsBackAs, Exact, Counted, ExactAll, CountedAll,
              Apparent, PlacedOn
<1>2. ASSUME MInv, up, model = 213 PROVE MeterReadsBack
  <2>1. Finds213
    BY <1>2, ReadsBack213 DEF MInv, ShownInv, Buildable
  <2>2. /\ Reading(213, image).power = FloatAt(image, 40098)
        /\ Reading(213, image).exported = FloatAt(image, 40130)
        /\ Reading(213, image).apparent = FloatAt(image, 40106)
        /\ Reading(213, image).factor = FloatAt(image, 40122)
    BY DEF Reading
  <2> HIDE DEF Reading
  <2> QED BY <1>2, <2>1, <2>2
          DEF MeterReadsBack, Finds213, ReadsBackAs, Exact, Counted, ExactAll, CountedAll,
              Apparent, PlacedOn
<1>3. MInv => MeterReadsBack
  BY <1>1, <1>2 DEF MInv, IInv, ImageInv, MeterModels, MeterReadsBack
<1> QED BY <1>3, MInvariance, PTL
-----------------------------------------------------------------------------
(* The energy that one client after the other sees.  What is shown now is    *)
(* at least what was returned last, and what a probe has in hand lies         *)
(* between the two, except that each model rounds in its own way.             *)

\* An energy as an image of model m shows it.  No image of model 213 shows one
\* beyond its range, which may only be there while nothing is shown.
Shown(m, v) ==
    IF m = 203 THEN Tens(v)
    ELSE IF m = 213 /\ IsFloat(Magnitude(v) \div 10) THEN Float32(v, 10)
    ELSE v

ShownAs(m) == Shown(m, CountedAll)

\* How far a value of model m may be below one of another model.
SlackFor(seenAs, exported, m) == IF seenAs = m THEN 0 ELSE 5 + FloatError(exported)
Slack(m) == SlackFor(last.model, last.exported, m)

LastInv ==
    /\ last.model \in MeterModels \cup {0} /\ last.exported \in Nat
    /\ last.exported <= ShownAs(last.model)

InHand(value) ==
    /\ value \in Nat /\ value <= ShownAs(213)
    /\ last.exported - Slack(213) <= value

SeenInv == step = "body" /\ ask.left = 1 => InHand(FloatAt(seen, 40130))

LEMMA TensGrow ==
    ASSUME NEW v \in Int, NEW w \in Int, v <= w
    PROVE  Tens(v) <= Tens(w)
<1>1. RoundDiv(v, 10) \in Int /\ RoundDiv(w, 10) \in Int /\ RoundDiv(v, 10) <= RoundDiv(w, 10)
  BY DEF RoundDiv
<1> QED BY <1>1 DEF Tens

LEMMA TensClose ==
    ASSUME NEW v \in Int
    PROVE  Tens(v) \in Int /\ v - 5 <= Tens(v) /\ Tens(v) <= v + 5
<1>1. RoundDiv(v, 10) \in Int /\ Tens(v) = 10 * RoundDiv(v, 10)
  BY RoundTen DEF Tens
<1>2. -5 <= (10 * RoundDiv(v, 10)) - v /\ (10 * RoundDiv(v, 10)) - v <= 5
  BY RoundTen
<1> QED BY <1>1, <1>2

\* What is shown of an energy: not less than 0, and not far from it.
LEMMA ShownClose ==
    ASSUME NEW v \in Nat
    PROVE  /\ Shown(203, v) = Tens(v) /\ Tens(v) \in Nat /\ v - 5 <= Tens(v) /\ Tens(v) <= v + 5
           /\ Shown(213, v) \in Nat /\ IsClose(Shown(213, v), v)
           /\ Shown(0, v) = v
<1>1. Tens(v) \in Nat /\ v - 5 <= Tens(v) /\ Tens(v) <= v + 5
  <2>1. RoundDiv(v, 10) \in Int /\ Tens(v) = 10 * RoundDiv(v, 10)
    BY RoundTen DEF Tens
  <2>2. 0 <= RoundDiv(v, 10)
    BY 10 * 0 <= v, RoundStays
  <2> QED BY <2>1, <2>2, TensClose
<1>2. IsClose(Shown(213, v), v)
  <2>1. CASE IsFloat(Magnitude(v) \div 10)
    <3>1. IsClose(Float32(v, 10), v)
      BY <2>1, 10 \in Nat \ {0}, Float32Close
    <3> QED BY <2>1, <3>1 DEF Shown
  <2>2. CASE ~IsFloat(Magnitude(v) \div 10)
    <3>1. Shown(213, v) = v
      BY <2>2 DEF Shown
    <3>2. IsClose(v, v)
      BY SMT DEF IsClose, Magnitude
    <3> QED BY <3>1, <3>2
  <2> QED BY <2>1, <2>2
<1>3. ASSUME NEW x, IsClose(x, v) PROVE x \in Nat
  BY <1>3, SMT DEF IsClose, Magnitude
<1> QED BY <1>1, <1>2, <1>3 DEF Shown

LEMMA ShownGrows ==
    ASSUME NEW v \in Nat, NEW w \in Nat, v <= w, NEW m,
           v = w \/ (IsFloat(Magnitude(v) \div 10) /\ IsFloat(Magnitude(w) \div 10))
    PROVE  Shown(m, v) <= Shown(m, w)
<1>1. CASE m = 203
  BY <1>1, TensGrow DEF Shown
<1>2. CASE m # 203 /\ v = w
  <2>1. Shown(m, w) \in Int
    <3>1. m = 213 => Shown(m, w) \in Nat
      BY ShownClose
    <3>2. m # 213 => Shown(m, w) = w
      BY <1>2 DEF Shown
    <3> QED BY <3>1, <3>2
  <2> QED BY <1>2, <2>1
<1>3. CASE m = 213 /\ v # w
  <2>1. Float32(v, 10) <= Float32(w, 10)
    BY <1>3, Float32Grows
  <2> QED BY <1>3, <2>1 DEF Shown
<1>4. CASE m # 203 /\ m # 213
  BY <1>4 DEF Shown
<1> QED BY <1>1, <1>2, <1>3, <1>4

\* What was shown by one model is shown by another but for what both round by.
LEMMA ShownBelow ==
    ASSUME NEW e \in Nat, NEW v \in Nat, NEW o \in MeterModels \cup {0}, NEW m \in MeterModels,
           e <= Shown(o, v)
    PROVE  SlackFor(o, e, m) \in Nat /\ e - SlackFor(o, e, m) <= Shown(m, v)
<1> DEFINE k == FloatError(e)
           tens == Shown(203, v)
           float == Shown(213, v)
<1>1. k \in Nat
  BY SMT DEF FloatError, Magnitude
<1>2. /\ tens \in Nat /\ v - 5 <= tens /\ tens <= v + 5
      /\ float \in Nat /\ IsClose(float, v) /\ Shown(0, v) = v
  BY ShownClose
<1> HIDE DEF tens, float
<1>3. e <= v + 5 => e - 5 - k <= float
  BY <1>2, SMT DEF IsClose, FloatError, Magnitude
<1>4. e <= float => e - 5 - k <= tens
  BY <1>2, SMT DEF IsClose, FloatError, Magnitude
<1>5. e <= v => e - 5 - k <= tens
  <2> HIDE DEF k
  <2> QED BY <1>1, <1>2
<1> HIDE DEF k
<1>6. CASE o = m
  BY <1>6, ShownClose DEF SlackFor, MeterModels
<1>7. CASE o # m
  <2>1. SlackFor(o, e, m) = 5 + k
    BY <1>7 DEF SlackFor, k
  <2>2. e - 5 - k <= Shown(m, v)
    <3>1. CASE m = 213
      <4>1. e <= v + 5
        BY <1>2, <1>7, <3>1 DEF MeterModels, tens
      <4> QED BY <1>3, <3>1, <4>1 DEF float
    <3>2. CASE m = 203
      <4>1. e <= v \/ e <= float
        BY <1>2, <1>7, <3>2 DEF MeterModels, float
      <4> QED BY <1>4, <1>5, <3>2, <4>1 DEF tens
    <3> QED BY <3>1, <3>2 DEF MeterModels
  <2>3. Shown(m, v) \in Nat
    BY ShownClose DEF MeterModels
  <2> QED BY <1>1, <2>1, <2>2, <2>3
<1> QED BY <1>6, <1>7

LEMMA CountedIs == Typical => CountedAll = AllEnergy(energy) /\ CountedAll \in Nat
BY SnapshotCounts DEF CountedAll

LEMMA CountedIsThen == (Typical => CountedAll = AllEnergy(energy) /\ CountedAll \in Nat)'
BY CountedIs, PTL

\* An emulator that runs shows an energy that each model could show.
LEMMA RunningFits == MInv /\ up => IsFloat(Magnitude(CountedAll) \div 10)
<1> SUFFICES ASSUME MInv, up PROVE IsFloat(Magnitude(CountedAll) \div 10)
  OBVIOUS
<1>1. Typical /\ Buildable(model, Snapshot) /\ model \in MeterModels
  BY DEF MInv, IInv, ImageInv, ShownInv
<1>2. CASE model = 213
  <2>1. Fits213(Snapshot)
    BY <1>1, <1>2 DEF Buildable
  <2> QED BY <1>1, <2>1, SnapshotFits
<1>3. CASE model = 203
  <2>1. WholeWh(Snapshot, 1) \in 0..Acc32Max
    BY <1>1, <1>3, 1 \in 1..8 DEF Buildable, Fits203
  <2>2. WholeWh(Snapshot, 1) = RoundDiv(CountedAll, 10)
    BY <1>1, EnergyValuesAre, SnapshotIs DEF WholeWh
  <2>3. CountedAll \in Nat
    BY <1>1, CountedIs
  <2>4. CountedAll \div 10 <= RoundDiv(CountedAll, 10) /\ CountedAll \div 10 \in Int
    BY <2>3, SMT DEF RoundDiv
  <2>5. Magnitude(CountedAll) = CountedAll
    BY <2>3, SMT DEF Magnitude
  <2>6. RoundDiv(CountedAll, 10) \in Int /\ RoundDiv(CountedAll, 10) <= Acc32Max
    BY <2>1, <2>2, SunSpecAssumption, SMT
  <2> QED BY <2>4, <2>5, <2>6, Float32Assumption, SunSpecAssumption, SMT DEF IsFloat
<1> QED BY <1>1, <1>2, <1>3 DEF MeterModels

LEMMA RunningFitsThen == (MInv /\ up => IsFloat(Magnitude(CountedAll) \div 10))'
BY RunningFits, PTL

\* The total does not fall, in any step, and does not grow beyond what each
\* model can show.
LEMMA TotalGrows ==
    ASSUME MInv, MInv', [Next]_vars
    PROVE  /\ CountedAll \in Nat /\ CountedAll' \in Nat /\ CountedAll <= CountedAll'
           /\ \A m : ShownAs(m) <= ShownAs(m)'
<1>1. /\ \A n \in Sources : energy[n] <= energy'[n]
      /\ energy' = energy \/ (up /\ up')
  <2>1. \A n \in Sources : energy[n] \in Nat /\ energy'[n] \in Nat
    BY ReaderAssumption DEF MInv, Typical, Sources
  <2>2. ASSUME NEW n \in Sources, NewReading(n)
        PROVE  up /\ up' /\ \A o \in Sources : energy[o] <= energy'[o]
    <3>1. PICK level \in Levels[n] : level >= energy[n] /\ energy' = [energy EXCEPT ![n] = level]
      BY <2>2 DEF NewReading, PublishAs
    <3>2. up /\ up'
      BY <2>2 DEF NewReading
    <3> QED BY <2>1, <3>1, <3>2 DEF MInv, Typical
  <2>3. CASE UNCHANGED energy
    BY <2>1, <2>3
  <2>4. CASE (\E n \in Sources : Expire(n)) \/ Stop \/ Start
    BY <2>3, <2>4 DEF Expire, Stop, Start, PublishAs
  <2>5. CASE ProbeStart \/ AskHeader \/ AskBody \/ Unanswered \/ Report
    BY <2>3, <2>5, ProbeShows DEF meterVars
  <2>6. CASE UNCHANGED vars
    BY <2>3, <2>6 DEF vars, meterVars
  <2> QED BY <2>2, <2>4, <2>5, <2>6 DEF Next
<1>2. /\ IsFiniteSet(Sources) /\ DOMAIN energy = Sources /\ DOMAIN energy' = Sources
      /\ \A n \in Sources : energy[n] \in Nat /\ energy'[n] \in Nat
  BY ReaderAssumption DEF MInv, Typical, Sources
<1>3. AllEnergy(energy') >= AllEnergy(energy)
  <2>1. Countable(energy) /\ Countable(energy')
    BY <1>2 DEF Countable
  <2> QED BY <1>1, <1>2, <2>1, CoveredEnergy
<1>4. CountedAll = AllEnergy(energy) /\ CountedAll \in Nat
  BY CountedIs DEF MInv
<1>5. CountedAll' = AllEnergy(energy') /\ CountedAll' \in Nat
  BY CountedIsThen DEF MInv
<1>6. CountedAll <= CountedAll'
  <2>1. AllEnergy(energy) \in Int /\ AllEnergy(energy') \in Int
    BY <1>4, <1>5
  <2> QED BY <1>3, <1>4, <1>5, <2>1
<1> DEFINE T == CountedAll
           U == CountedAll'
<1>7. T = U \/ (IsFloat(Magnitude(T) \div 10) /\ IsFloat(Magnitude(U) \div 10))
  <2>1. CASE energy' = energy
    BY <1>4, <1>5, <2>1
  <2>2. CASE up /\ up'
    <3>1. IsFloat(Magnitude(T) \div 10)
      BY <2>2, RunningFits
    <3>2. (IsFloat(Magnitude(CountedAll) \div 10))'
      BY <2>2, RunningFitsThen
    <3>3. IsFloat(Magnitude(U) \div 10)
      BY <3>2 DEF IsFloat, Magnitude
    <3> QED BY <3>1, <3>3
  <2> QED BY <1>1, <2>1, <2>2
<1>8. \A m : ShownAs(m) = Shown(m, T) /\ ShownAs(m)' = Shown(m, U)
  BY DEF ShownAs, Shown, Tens, RoundDiv
<1>9. T \in Nat /\ U \in Nat /\ T <= U
  BY <1>4, <1>5, <1>6
<1> HIDE DEF T, U
<1>10. \A m : Shown(m, T) <= Shown(m, U)
  BY <1>7, <1>9, ShownGrows
<1> QED BY <1>8, <1>9, <1>10 DEF T, U

\* What an image of the moment shows.
LEMMA ShowsTotal ==
    ASSUME MInv, up
    PROVE  /\ model = 213 => FloatAt(image, 40130) = ShownAs(213)
           /\ Reading(model, image).exported = ShownAs(model)
<1>1. Typical /\ image = Registers(model, UnitId, Snapshot) /\ Buildable(model, Snapshot)
  BY DEF MInv, ShownInv
<1>2. CASE model = 213
  <2>1. FloatAt(image, 40130) = Float32(CountedAll, 10)
    BY <1>1, <1>2, Reads213, SnapshotIs
  <2>2. ShownAs(213) = Float32(CountedAll, 10)
    BY RunningFits DEF ShownAs, Shown
  <2> QED BY <1>2, <2>1, <2>2 DEF Reading
<1>3. CASE model = 203
  <2>1. Fits203(Snapshot)
    BY <1>1, <1>3 DEF Buildable
  <2>2. EnergyValues(Snapshot)[0 + 1] = CountedAll
    BY <1>1, EnergyValuesAre, SnapshotIs
  <2>3. Acc32At(image, 40108 + 2 * 0, 40124, 1) = Tens(EnergyValues(Snapshot)[0 + 1])
    BY <1>1, <1>3, <2>1, 0 \in 0..3, Energy203Reads
  <2>4. 40108 + 2 * 0 = 40108
    OBVIOUS
  <2>5. Acc32At(image, 40108, 40124, 1) = Tens(CountedAll)
    BY <2>2, <2>3, <2>4
  <2> QED BY <1>3, <2>5 DEF ShownAs, Shown, Reading
<1> QED BY <1>2, <1>3 DEF MInv, IInv, ImageInv, MeterModels

LEMMA ProbeMoves ==
    ASSUME IInv, [Next]_vars
    PROVE  \/ UNCHANGED <<step, ask, seen, last>>
           \/ last' = last /\ (step' = "body" => ask'.left # 1)
           \/ Progress
<1>1. CASE (\E n \in Sources : NewReading(n) \/ Expire(n)) \/ Stop \/ Start
  BY <1>1 DEF NewReading, Expire, Stop, Start, probeVars, historyVars
<1>2. CASE ProbeStart \/ Unanswered \/ Report
  BY <1>2 DEF ProbeStart, Unanswered, Fail, Report
<1>3. CASE AskHeader
  <2>1. PICK reply : HeaderReply(reply)
    BY <1>3 DEF AskHeader
  <2> DEFINE m == reply.words[40070][2]
  <2>2. \/ Fail
        \/ /\ UNCHANGED last /\ m \in MeterModels
           /\ ask' = [ask EXCEPT !.start = 40071, !.left = ModelLength(m) + 2]
    BY <2>1 DEF HeaderReply
  <2> HIDE DEF m
  <2>3. CASE Fail
    BY <2>3 DEF Fail
  <2>4. CASE /\ UNCHANGED last /\ m \in MeterModels
             /\ ask' = [ask EXCEPT !.start = 40071, !.left = ModelLength(m) + 2]
    <3>1. PICK start \in Nat, left \in Nat : start = 40071 /\ left = ModelLength(m) + 2 /\ left # 1
      BY DEF ModelLength
    <3>2. ask' = [ask EXCEPT !.start = start, !.left = left] /\ Typed
      BY <2>4, <3>1 DEF IInv
    <3>3. Moved(start, left)
      BY <3>2, AskMoves
    <3> QED BY <2>4, <3>1, <3>3 DEF Moved
  <2> QED BY <2>2, <2>3, <2>4
<1>4. CASE AskBody
  BY <1>4, AskBodyStep
<1>5. CASE UNCHANGED vars
  BY <1>5 DEF vars, probeVars, historyVars
<1> QED BY <1>1, <1>2, <1>3, <1>4, <1>5 DEF Next

\* The numbers of a moment and of the next.
LEMMA TotalsAre ==
    ASSUME MInv, MInv', [Next]_vars, LastInv
    PROVE  /\ \A m \in MeterModels \cup {0} : /\ ShownAs(m) \in Nat /\ ShownAs(m)' \in Nat
                                              /\ ShownAs(m) <= ShownAs(m)'
           /\ \A m \in MeterModels : last.exported - Slack(m) <= ShownAs(m) /\ Slack(m) \in Nat
<1> DEFINE T == CountedAll
           U == CountedAll'
<1>1. T \in Nat /\ U \in Nat /\ \A m : ShownAs(m) <= ShownAs(m)'
  BY TotalGrows
<1>2. \A m : ShownAs(m) = Shown(m, T) /\ ShownAs(m)' = Shown(m, U)
  BY DEF ShownAs, Shown, Tens, RoundDiv
<1> HIDE DEF T, U
<1>3. \A m \in MeterModels \cup {0} : Shown(m, T) \in Nat /\ Shown(m, U) \in Nat
  BY <1>1, ShownClose DEF MeterModels
<1>4. /\ last.exported \in Nat /\ last.model \in MeterModels \cup {0}
      /\ last.exported <= Shown(last.model, T)
  BY <1>2 DEF LastInv
<1>5. \A m \in MeterModels : last.exported - Slack(m) <= Shown(m, T) /\ Slack(m) \in Nat
  BY <1>1, <1>4, ShownBelow DEF Slack
<1> QED BY <1>1, <1>2, <1>3, <1>5

\* A probe that returns takes its value from the image of this moment or from
\* what it has in hand, and leaves no less behind.
LEMMA ReturnedIs ==
    ASSUME MInv, LastInv, SeenInv, NEW m \in MeterModels, NEW regs,
           last.exported - Slack(m) <= ShownAs(m), ShownAs(m) \in Nat,
           \/ m = 203 /\ up /\ model = 203 /\ SameBody(regs, image)
           \/ m = 213 /\ step = "body" /\ ask.left = 1 /\ SameBody(regs, seen)
    PROVE  LET value == Reading(m, regs).exported
           IN  /\ value \in Nat /\ value <= ShownAs(m)
               /\ last.exported - Slack(m) <= value
<1>1. CASE m = 203 /\ up /\ model = 203 /\ SameBody(regs, image)
  <2>1. Reading(m, regs).exported = ShownAs(m)
    BY <1>1, ReadingIs, ShowsTotal
  <2> QED BY <2>1
<1>2. CASE m = 213 /\ step = "body" /\ ask.left = 1 /\ SameBody(regs, seen)
  <2>1. Reading(m, regs).exported = FloatAt(seen, 40130)
    <3>1. Reading(m, regs) = Reading(m, seen)
      BY <1>2, ReadingIs
    <3> QED BY <1>2, <3>1 DEF Reading
  <2>2. InHand(FloatAt(seen, 40130))
    BY <1>2 DEF SeenInv
  <2> QED BY <1>2, <2>1, <2>2 DEF InHand
<1> QED BY <1>1, <1>2

\* One step: what is returned is not smaller than what was returned last.
LEMMA SeenStep ==
    ASSUME MInv, MInv', LastInv, SeenInv, [Next]_vars
    PROVE  /\ LastInv' /\ SeenInv'
           /\ last' = last \/ last'.exported >= last.exported - Slack(last'.model)
<1>1. /\ \A m \in MeterModels \cup {0} : /\ ShownAs(m) \in Nat /\ ShownAs(m)' \in Nat
                                         /\ ShownAs(m) <= ShownAs(m)'
      /\ \A m \in MeterModels : last.exported - Slack(m) <= ShownAs(m) /\ Slack(m) \in Nat
      /\ 213 \in MeterModels
  BY TotalsAre DEF MeterModels
<1>2. /\ last.exported \in Nat /\ last.model \in MeterModels \cup {0}
      /\ last.exported <= ShownAs(last.model)
  BY DEF LastInv
<1>3. ASSUME last' = last PROVE LastInv'
  <2>1. PICK o \in MeterModels \cup {0} : o = last.model
    BY <1>2
  <2>2. ShownAs(o) \in Nat /\ ShownAs(o)' \in Nat /\ ShownAs(o) <= ShownAs(o)'
    BY <1>1
  <2>3. last.exported <= ShownAs(o)'
    BY <1>2, <2>1, <2>2
  <2>4. (last.exported <= ShownAs(last.model))'
    BY <1>3, <2>1, <2>3 DEF ShownAs, Shown
  <2> QED BY <1>2, <1>3, <2>4 DEF LastInv
<1>4. ASSUME NEW value, InHand(value), last' = last PROVE InHand(value)'
  <2>1. Slack(213)' = Slack(213)
    BY <1>4 DEF Slack
  <2> QED BY <1>1, <1>4, <2>1 DEF InHand
<1>5. CASE UNCHANGED <<step, ask, seen, last>>
  <2>1. SeenInv'
    <3>1. ASSUME step' = "body" /\ ask'.left = 1 PROVE InHand(FloatAt(seen, 40130))'
      <4>1. InHand(FloatAt(seen, 40130))
        BY <1>5, <3>1 DEF SeenInv
      <4>2. FloatAt(seen, 40130)' = FloatAt(seen, 40130)
        BY <1>5 DEF FloatAt
      <4> DEFINE value == FloatAt(seen, 40130)
      <4>3. Slack(213)' = Slack(213) /\ last' = last
        BY <1>5 DEF Slack
      <4> QED BY <1>1, <4>1, <4>2, <4>3 DEF InHand
    <3> QED BY <3>1 DEF SeenInv
  <2> QED BY <1>3, <1>5, <2>1
<1>6. CASE last' = last /\ (step' = "body" => ask'.left # 1)
  BY <1>3, <1>6 DEF SeenInv
<1>7. CASE Progress
  <2>1. CASE step' # "body" /\ last' = last
    BY <1>3, <2>1 DEF SeenInv
  <2>2. CASE up /\ model = 213 /\ SameBody(seen', image) /\ last' = last
    <3>1. FloatAt(seen, 40130)' = FloatAt(image, 40130)
      <4>1. seen'[40130] = image[40130] /\ seen'[40131] = image[40131]
        BY <2>2 DEF SameBody
      <4> QED BY <4>1 DEF FloatAt
    <3>2. FloatAt(image, 40130) = ShownAs(213)
      BY <2>2, ShowsTotal
    <3>3. last.exported - Slack(213) <= ShownAs(213) /\ Slack(213) \in Nat
      BY <1>1
    <3>4. Slack(213)' = Slack(213)
      BY <2>2 DEF Slack
    <3>5. InHand(FloatAt(seen, 40130))'
      BY <1>1, <2>2, <3>1, <3>2, <3>3, <3>4 DEF InHand
    <3> QED BY <1>3, <2>2, <3>5 DEF SeenInv
  <2>3. CASE /\ step' # "body"
             /\ \E m \in MeterModels : \E regs :
                   /\ last' = [model |-> m, exported |-> Reading(m, regs).exported]
                   /\ \/ m = 203 /\ up /\ model = 203 /\ SameBody(regs, image)
                      \/ m = 213 /\ step = "body" /\ ask.left = 1 /\ SameBody(regs, seen)
    <3>1. PICK m, regs :
              /\ m \in MeterModels
              /\ last' = [model |-> m, exported |-> Reading(m, regs).exported]
              /\ \/ m = 203 /\ up /\ model = 203 /\ SameBody(regs, image)
                 \/ m = 213 /\ step = "body" /\ ask.left = 1 /\ SameBody(regs, seen)
      BY <2>3
    <3> m \in MeterModels
      BY <3>1
    <3> DEFINE value == Reading(m, regs).exported
    <3>2. value \in Nat /\ value <= ShownAs(m) /\ last.exported - Slack(m) <= value
      BY <1>1, <3>1, ReturnedIs
    <3>3. last'.model = m /\ last'.exported = value
      BY <3>1
    <3> HIDE DEF value
    <3>4. ShownAs(m) \in Nat /\ ShownAs(m)' \in Nat /\ ShownAs(m) <= ShownAs(m)' /\ Slack(m) \in Nat
      BY <1>1
    <3>5. value <= ShownAs(m)'
      BY <3>2, <3>4
    <3>6. (last.exported <= ShownAs(last.model))'
      BY <3>3, <3>5 DEF ShownAs, Shown
    <3>7. LastInv'
      BY <3>2, <3>3, <3>6 DEF LastInv
    <3>8. last'.exported >= last.exported - Slack(last'.model)
      BY <1>2, <3>2, <3>3, <3>4
    <3>9. SeenInv'
      BY <2>3 DEF SeenInv
    <3> QED BY <3>7, <3>8, <3>9
  <2> QED BY <1>7, <2>1, <2>2, <2>3 DEF Progress
<1>8. \/ UNCHANGED <<step, ask, seen, last>>
      \/ last' = last /\ (step' = "body" => ask'.left # 1)
      \/ Progress
  BY ProbeMoves DEF MInv
<1> QED BY <1>5, <1>6, <1>7, <1>8

\* For any sources, energies and unit id, from one probe to the next and over
\* any restarts, changes of the meter model and publishes between and during
\* them, the exported energy a client sees never falls; only after a change of
\* the meter model may it be lower, by half a Wh and the error of a float32
\* (probe.py: probe; sunspec.py: _write_acc32, _float_words).
THEOREM SeenEnergyStaysUp == Spec => EnergySeenNeverFalls
<1>1. Init => LastInv /\ SeenInv
  <2> SUFFICES ASSUME Init PROVE LastInv /\ SeenInv
    OBVIOUS
  <2>1. Typical
    BY DEF Init, Typical, NoReadings
  <2>2. CountedAll \in Nat /\ ShownAs(0) = CountedAll
    BY <2>1, CountedIs, ShownClose DEF ShownAs
  <2>3. last = [model |-> 0, exported |-> 0] /\ step = "idle"
    BY DEF Init
  <2> QED BY <2>2, <2>3 DEF LastInv, SeenInv
<1>2. MInv /\ MInv' /\ LastInv /\ SeenInv /\ [Next]_vars => LastInv' /\ SeenInv'
  BY SeenStep
<1>3. ASSUME MInv, MInv', LastInv, SeenInv, [Next]_vars
      PROVE  [last'.exported >= last.exported
                  - (IF last'.model = last.model THEN 0 ELSE 5 + FloatError(last.exported))]_vars
  <2>1. last.exported \in Nat
    BY <1>3 DEF LastInv
  <2>2. last' = last \/ last'.exported >= last.exported - Slack(last'.model)
    BY <1>3, SeenStep
  <2>3. CASE last' = last
    BY <2>1, <2>3
  <2>4. CASE last'.exported >= last.exported - Slack(last'.model)
    BY <2>4 DEF Slack, SlackFor
  <2> QED BY <2>2, <2>3, <2>4
<1> QED BY <1>1, <1>2, <1>3, MInvariance, PTL DEF Spec, EnergySeenNeverFalls
=============================================================================
