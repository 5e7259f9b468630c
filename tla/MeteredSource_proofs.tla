------------------------ MODULE MeteredSource_proofs ------------------------
(***************************************************************************)
(* What the meter shows of a plug, for every tolerance, jitter, range and  *)
(* choice of settings: no energy twice, none lost while the plug is not    *)
(* reset, and the counter and direction chosen once stay chosen.           *)
(***************************************************************************)
EXTENDS MeteredSource, TLAPS

(* update() for all tolerances, ranges and readings *)

\* A counter never credits more than its value: the invariant of update().
Consistent(c) == c # NoCounter => c.offset + c.last <= c.value

\* An allowed update yields a counter within the ranges load() accepts.
LEMMA UpdateTyped ==
    ASSUME NEW c \in Counter \cup {NoCounter}, NEW raw, NEW f,
           UpdateAllowed(c, raw, f)
    PROVE  /\ UpdateCounter(c, raw, f) \in Counter
           /\ UpdateCounter(c, raw, f) # NoCounter
<1> USE CounterAssumption DEF Counter
<1> DEFINE u == UpdateCounter(c, raw, f)
<1>1. raw \in 0..FloatMax /\ f \in Fields /\ u.value <= FloatMax
  BY DEF UpdateAllowed
<1>2. CASE c = NoCounter
  BY <1>1, <1>2 DEF UpdateCounter, FirstReading
<1>3. CASE c # NoCounter /\ f # c.field
  BY <1>1, <1>3 DEF UpdateCounter, Rebaselined
<1>4. CASE c # NoCounter /\ f = c.field /\ IsReset(c, raw)
  BY <1>1, <1>4 DEF UpdateCounter, Restarted
<1>5. CASE c # NoCounter /\ f = c.field /\ ~IsReset(c, raw)
  BY <1>1, <1>5 DEF UpdateCounter, Advanced
<1>6. QED BY <1>2, <1>3, <1>4, <1>5

\* Every update leaves a consistent counter, so that the next one credits no
\* energy twice.
LEMMA UpdateConsistent ==
    ASSUME NEW c \in Counter \cup {NoCounter}, NEW raw, NEW f,
           UpdateAllowed(c, raw, f)
    PROVE  Consistent(UpdateCounter(c, raw, f))
<1> USE CounterAssumption DEF Counter, Consistent
<1>1. raw \in 0..FloatMax /\ f \in Fields
  BY DEF UpdateAllowed
<1>2. CASE c = NoCounter
  BY <1>1, <1>2 DEF UpdateCounter, FirstReading
<1>3. CASE c # NoCounter /\ f # c.field
  BY <1>1, <1>3 DEF UpdateCounter, Rebaselined
<1>4. CASE c # NoCounter /\ f = c.field /\ IsReset(c, raw)
  BY <1>1, <1>4 DEF UpdateCounter, Restarted
<1>5. CASE c # NoCounter /\ f = c.field /\ ~IsReset(c, raw)
  BY <1>1, <1>5 DEF UpdateCounter, Advanced
<1>6. QED BY <1>2, <1>3, <1>4, <1>5

\* While a counter neither restarts nor changes its field, a reading adds at
\* most what the raw counter has advanced by.
THEOREM AdvanceNeverOvercounts ==
    ASSUME NEW c \in Counter, Consistent(c), NEW raw \in 0..FloatMax,
           ~IsReset(c, raw)
    PROVE  LET u == UpdateCounter(c, raw, c.field)
           IN  u.value <= c.value + (IF raw > c.last THEN raw - c.last ELSE 0)
  BY CounterAssumption DEF Counter, Consistent, UpdateCounter, Advanced
-----------------------------------------------------------------------------
(* The invariants *)

\* The plug's raw value of the field that c was read from.
RawNow(c) == plug[c.field]

\* Both copies of the counter are of the same field, or both do not exist.
SameField ==
    \/ counter = NoCounter /\ stored = NoCounter
    \/ /\ counter # NoCounter /\ stored # NoCounter
       /\ counter.field = stored.field

\* What the next reading of c may show, however it is taken, is credited: the
\* same counter going on, or one that was reset after c was read.
Credited(c) ==
    c # NoCounter =>
        /\ Consistent(c)
        /\ c.value <= credit
        /\ c.offset + RawNow(c) <= credit
        /\ RawNow(c) < c.last => c.value + RawNow(c) <= credit

\* What is owed comes with the next exact reading of c.
Covered(c) ==
    (c # NoCounter /\ ~wasReset) =>
        /\ c.last <= RawNow(c)
        /\ owed <= c.offset + RawNow(c)

CreditInv == TypeOK /\ SameField /\ Credited(counter) /\ Credited(stored)
CoverInv == Covered(counter) /\ Covered(stored)

\* A usable payload's raw value is the plug's, up to the jitter.
LEMMA RawOfPlug ==
    ASSUME TypeOK, NEW p \in Payloads, Usable(set, latch, p),
           Parse(set, latch, p).field \in Fields
    PROVE  LET r == Parse(set, latch, p)
           IN  /\ r.raw \in Nat
               /\ r.raw <= plug[r.field] /\ plug[r.field] - Jitter <= r.raw
<1> DEFINE r == Parse(set, latch, p)
<1>1. r.raw = p.total[r.field]
  BY DEF Parse
<1>2. p.total[r.field] \in Reported(plug[r.field])
  BY DEF Payloads
<1>3. r.raw # Missing
  BY DEF Usable
<1>4. plug[r.field] \in Nat
  BY SourceAssumption DEF TypeOK
<1>5. QED BY <1>1, <1>2, <1>3, <1>4, SourceAssumption, CounterAssumption DEF Reported

\* Every plug has the two counters that _select_energy chooses from.
LEMMA FieldSelected ==
    ASSUME TypeOK, NEW p
    PROVE  Parse(set, latch, p).field \in Fields
  BY SourceAssumption DEF TypeOK, Settings, FieldSettings, Parse, SelectedField

\* The variables have their types in every reachable state.
LEMMA TypeInit == Init => TypeOK
<1> SUFFICES ASSUME Init PROVE TypeOK
  OBVIOUS
<1>1. plug \in [Fields -> 0..counted] /\ counted \in 0..MaxCount
  BY SourceAssumption DEF Init
<1>2. set \in Settings /\ latch \in Latches
  BY SourceAssumption DEF Init, Latches
<1>3. QED BY <1>1, <1>2 DEF Init, TypeOK

LEMMA TypeKept == TypeOK /\ [Next]_vars => TypeOK'
<1> SUFFICES ASSUME TypeOK, [Next]_vars PROVE TypeOK'
  OBVIOUS
<1> USE SourceAssumption
<1>1. CASE UNCHANGED vars
  BY <1>1 DEF vars, plugVars, clientVars, counterVars, historyVars, TypeOK
<1>2. ASSUME NEW f \in Fields, Count(f) PROVE TypeOK'
  <2>1. plug' \in [Fields -> 0..counted'] /\ counted' \in 0..MaxCount
    BY <1>2 DEF Count, TypeOK
  <2>2. QED BY <1>2, <2>1 DEF Count, clientVars, counterVars, TypeOK
<1>3. CASE ResetPlug
  BY <1>3 DEF ResetPlug, clientVars, counterVars, TypeOK
<1>4. ASSUME NEW p \in Payloads, Poll(p) PROVE TypeOK'
  <2> DEFINE r == Parse(set, latch, p)
             c == UpdateCounter(counter, r.raw, r.field)
  <2>1. r.field \in Fields /\ Usable(set, latch, p) /\ UpdateAllowed(counter, r.raw, r.field)
    BY <1>4, FieldSelected DEF Poll
  <2>2. r.raw \in Nat /\ r.raw <= plug[r.field]
    BY <2>1, RawOfPlug
  <2>3. c \in Counter /\ Energy(c) \in Nat
    BY <2>1, UpdateTyped, CounterAssumption DEF TypeOK, Counter, Energy
  <2>4. latch' \in Latches
    BY <1>4 DEF Poll, Latch, Parse, AutoNegative, TypeOK, Latches
  <2>5. plug[r.field] \in Nat
    BY <2>1 DEF TypeOK
  <2>6. credit' \in Nat /\ owed' \in Nat /\ wasReset' \in BOOLEAN
    BY <1>4, <2>2, <2>3, <2>5 DEF Poll, TypeOK
  <2>7. counter' \in Counter /\ stored' \in Counter \cup {NoCounter}
    BY <1>4, <2>3 DEF Poll, TypeOK
  <2>8. QED BY <1>4, <2>4, <2>6, <2>7 DEF Poll, plugVars, TypeOK
<1>5. CASE Flush
  BY <1>5 DEF Flush, plugVars, clientVars, historyVars, TypeOK
<1>6. CASE Restart
  BY <1>6 DEF Restart, plugVars, historyVars, TypeOK, Latches
<1>7. QED BY <1>1, <1>2, <1>3, <1>4, <1>5, <1>6 DEF Next
-----------------------------------------------------------------------------
\* A reading that selects no field advances the counter, or restarts it when
\* the plug was reset after the counter was read.
LEMMA PollCredited ==
    ASSUME TypeOK, Credited(counter), Covered(counter), NEW p \in Payloads, Poll(p)
    PROVE  Credited(counter)' /\ Covered(counter)'
<1> USE SourceAssumption, CounterAssumption
<1> DEFINE r == Parse(set, latch, p)
           n == plug[r.field]
           c == UpdateCounter(counter, r.raw, r.field)
<1>1. /\ r.field \in Fields /\ UpdateAllowed(counter, r.raw, r.field)
      /\ r.raw \in Nat /\ r.raw <= n /\ n - Jitter <= r.raw
  BY FieldSelected, RawOfPlug DEF Poll
<1>2. /\ n \in Nat /\ credit \in Nat /\ owed \in Nat
      /\ counter \in Counter \cup {NoCounter}
  BY <1>1 DEF TypeOK
<1>3. c \in Counter /\ c # NoCounter /\ Consistent(c)
  BY <1>1, <1>2, UpdateTyped, UpdateConsistent
<1>4. counter' = c /\ plug' = plug
  BY DEF Poll, plugVars
<1>5. CASE counter = NoCounter \/ r.field # counter.field
  <2>1. credit' = c.value + (n - r.raw) /\ owed' = c.value
    BY <1>3, <1>5 DEF Poll, Energy
  <2>2. c.field = r.field /\ c.last = r.raw /\ c.offset = c.value - r.raw
    BY <1>1, <1>2, <1>5 DEF UpdateCounter, FirstReading, Rebaselined, Counter
  <2>3. c.value \in Nat
    BY <1>3 DEF Counter
  <2>4. QED BY <1>1, <1>2, <1>3, <1>4, <2>1, <2>2, <2>3
            DEF Credited, Covered, RawNow, Consistent
<1>6. CASE counter # NoCounter /\ r.field = counter.field
  <2>1. credit' = credit /\ owed' = owed /\ wasReset' = wasReset
    BY <1>6, <1>2 DEF Poll, TypeOK
  <2>2. /\ counter.value \in Nat /\ counter.last \in Nat /\ counter.offset \in Int
        /\ counter.offset + counter.last <= counter.value
    BY <1>2, <1>6 DEF Counter, Credited, Consistent
  <2>3. /\ counter.value <= credit /\ counter.offset + n <= credit
        /\ n < counter.last => counter.value + n <= credit
    BY <1>6 DEF Credited, RawNow
  <2>4. ~wasReset => counter.last <= n /\ owed <= counter.offset + n
    BY <1>6 DEF Covered, RawNow
  <2>5. CASE IsReset(counter, r.raw)
    <3>1. n < counter.last
      BY <1>1, <1>2, <2>2, <2>5 DEF IsReset
    <3>2. c = Restarted(counter, r.raw)
      BY <1>6, <2>5 DEF UpdateCounter
    <3>3. /\ c.field = r.field /\ c.last = r.raw
          /\ c.offset = counter.value /\ c.value = counter.value + r.raw
      BY <1>6, <3>2 DEF Restarted
    <3>4. wasReset
      BY <1>2, <2>2, <2>4, <3>1 DEF TypeOK
    <3>5. QED BY <1>1, <1>2, <1>3, <1>4, <2>1, <2>2, <2>3, <3>1, <3>3, <3>4
              DEF Credited, Covered, RawNow
  <2>6. CASE ~IsReset(counter, r.raw)
    <3>1. c = Advanced(counter, r.raw)
      BY <1>6, <2>6 DEF UpdateCounter
    <3>2. /\ c.field = r.field /\ c.last = r.raw /\ c.offset = counter.offset
          /\ c.value = counter.value \/ c.value = counter.offset + r.raw
      BY <1>6, <3>1 DEF Advanced
    <3>3. QED BY <1>1, <1>2, <1>3, <1>4, <2>1, <2>2, <2>3, <2>4, <3>2
              DEF Credited, Covered, RawNow
  <2>7. QED BY <2>5, <2>6
<1>7. QED BY <1>5, <1>6

\* A reading that is not saved leaves the field, the credit and the debt.
LEMMA PollStored ==
    ASSUME TypeOK, SameField, Credited(stored), Covered(stored),
           Credited(counter)', Covered(counter)', NEW p \in Payloads, Poll(p)
    PROVE  SameField' /\ Credited(stored)' /\ Covered(stored)'
<1> USE SourceAssumption, CounterAssumption
<1> DEFINE r == Parse(set, latch, p)
           c == UpdateCounter(counter, r.raw, r.field)
<1>1. r.field \in Fields /\ UpdateAllowed(counter, r.raw, r.field)
  BY FieldSelected DEF Poll
<1>2. c \in Counter /\ c # NoCounter /\ counter' = c
  BY <1>1, UpdateTyped DEF Poll, TypeOK
<1>3. CASE stored' = c
  BY <1>2, <1>3 DEF SameField, Credited, Covered, RawNow
<1>4. CASE stored' # c
  <2>1. ~UrgentUpdate(counter, r.raw, r.field) /\ stored' = stored
    BY <1>4 DEF Poll
  <2>2. counter # NoCounter /\ r.field = counter.field
    BY <2>1 DEF UrgentUpdate
  <2>3. c.field = counter.field
    BY <2>1, <2>2 DEF UrgentUpdate, UpdateCounter, Advanced
  <2>4. UNCHANGED <<plug, credit, owed, wasReset>>
    BY <2>2 DEF Poll, plugVars, TypeOK
  <2>5. QED BY <1>2, <2>1, <2>2, <2>3, <2>4 DEF SameField, Credited, Covered, RawNow
<1>5. QED BY <1>3, <1>4
-----------------------------------------------------------------------------
LEMMA InvInit == Init => CreditInv /\ CoverInv
  BY TypeInit DEF Init, CreditInv, CoverInv, SameField, Credited, Covered

LEMMA InvKept == CreditInv /\ CoverInv /\ [Next]_vars => (CreditInv /\ CoverInv)'
<1> SUFFICES ASSUME CreditInv, CoverInv, [Next]_vars PROVE (CreditInv /\ CoverInv)'
  OBVIOUS
<1> USE SourceAssumption, CounterAssumption
<1>1. TypeOK /\ TypeOK'
  BY TypeKept DEF CreditInv
<1>2. CASE UNCHANGED vars
  BY <1>1, <1>2 DEF vars, plugVars, counterVars, historyVars, CreditInv, CoverInv,
     SameField, Credited, Covered, RawNow
<1>3. ASSUME NEW f \in Fields, Count(f) PROVE (CreditInv /\ CoverInv)'
  <2>1. ASSUME NEW c \in {counter, stored}
        PROVE  c # NoCounter =>
                 /\ c.field \in Fields /\ c.value \in Nat
                 /\ c.last \in Nat /\ c.offset \in Int
                 /\ c.field = f => credit' = credit + 1 /\ owed' = owed + 1
                 /\ c.field # f => credit' = credit /\ owed' = owed
    BY <1>1, <1>3 DEF TypeOK, Counter, CreditInv, SameField, Count, Selected
  <2>2. /\ UNCHANGED <<counter, stored, wasReset>>
        /\ plug[f] \in Nat
        /\ plug' = [plug EXCEPT ![f] = @ + 1]
    BY <1>1, <1>3 DEF Count, counterVars, TypeOK
  <2>3. credit \in Nat /\ owed \in Nat /\ \A g \in Fields : plug[g] \in Nat
    BY <1>1 DEF TypeOK
  <2>4. ASSUME NEW c \in {counter, stored}, c # NoCounter
        PROVE  \/ /\ plug'[c.field] = plug[c.field] + 1
                  /\ credit' = credit + 1 /\ owed' = owed + 1
               \/ /\ plug'[c.field] = plug[c.field]
                  /\ credit' = credit /\ owed' = owed
    BY <1>1, <2>1, <2>2, <2>4 DEF TypeOK
  <2>5. Credited(counter)' /\ Credited(stored)'
    BY <2>1, <2>2, <2>3, <2>4 DEF CreditInv, Credited, RawNow, Consistent
  <2>6. Covered(counter)' /\ Covered(stored)'
    BY <2>1, <2>2, <2>3, <2>4 DEF CoverInv, Covered, RawNow
  <2>7. QED BY <1>1, <2>2, <2>5, <2>6 DEF CreditInv, CoverInv, SameField
<1>4. CASE ResetPlug
  <2>1. /\ UNCHANGED <<counter, stored, credit, owed>>
        /\ wasReset' = (counter # NoCounter)
        /\ \A f \in Fields : plug'[f] = 0
    BY <1>4 DEF ResetPlug, counterVars
  <2>2. ASSUME NEW c \in {counter, stored}, c # NoCounter
        PROVE  /\ plug'[c.field] = 0
               /\ c.value \in Nat /\ c.last \in Nat /\ c.offset \in Int
    BY <1>1, <2>1, <2>2 DEF TypeOK, Counter
  <2>3. credit \in Nat
    BY <1>1 DEF TypeOK
  <2>4. Credited(counter)' /\ Credited(stored)'
    BY <2>1, <2>2, <2>3 DEF CreditInv, Credited, RawNow, Consistent
  <2>5. QED BY <1>1, <2>1, <2>4 DEF CreditInv, CoverInv, SameField, Covered
<1>5. ASSUME NEW p \in Payloads, Poll(p) PROVE (CreditInv /\ CoverInv)'
  BY <1>1, <1>5, PollCredited, PollStored DEF CreditInv, CoverInv
<1>6. CASE Flush
  BY <1>1, <1>6 DEF Flush, plugVars, historyVars, CreditInv, CoverInv,
     SameField, Credited, Covered, RawNow
<1>7. CASE Restart
  BY <1>1, <1>7 DEF Restart, plugVars, historyVars, CreditInv, CoverInv,
     SameField, Credited, Covered, RawNow
<1>8. QED BY <1>2, <1>3, <1>4, <1>5, <1>6, <1>7 DEF Next

\* No energy is counted twice, with any tolerance that covers the jitter.
THEOREM NothingCountedTwice == Spec => []NoOverCount
<1>1. CreditInv => NoOverCount
  BY DEF CreditInv, TypeOK, Credited, NoOverCount, Energy
<1>2. QED BY <1>1, InvInit, InvKept, PTL DEF Spec

\* No energy is lost while the plug is not reset: polls may be missed and
\* crashes may take back metadata.
THEOREM EnergyCatchesUp == Spec => []NothingLost
<1>1. CreditInv /\ CoverInv => NothingLost
  <2> SUFFICES ASSUME CreditInv, CoverInv, counter # NoCounter, ~wasReset,
                      UpdateAllowed(counter, plug[counter.field], counter.field)
               PROVE  owed <= Energy(UpdateCounter(counter, plug[counter.field], counter.field))
    BY DEF NothingLost
  <2> DEFINE n == plug[counter.field]
             c == UpdateCounter(counter, n, counter.field)
  <2>1. /\ counter \in Counter /\ counter.field \in Fields
        /\ n \in Nat /\ owed \in Nat
    BY DEF CreditInv, TypeOK, Counter
  <2>2. /\ counter.last \in Nat /\ counter.value \in Nat /\ counter.offset \in Int
    BY <2>1, CounterAssumption DEF Counter
  <2>3. counter.last <= n /\ owed <= counter.offset + n
    BY DEF CoverInv, Covered, RawNow
  <2>4. ~IsReset(counter, n)
    BY <2>1, <2>2, <2>3, CounterAssumption DEF IsReset
  <2>5. c = Advanced(counter, n)
    BY <2>4 DEF UpdateCounter
  <2>6. c.value >= counter.offset + n
    BY <2>1, <2>2, <2>5 DEF Advanced
  <2>7. c # NoCounter /\ c.value \in Nat
    BY <2>1, UpdateTyped, CounterAssumption DEF Counter
  <2>8. QED BY <2>1, <2>2, <2>3, <2>6, <2>7 DEF Energy
<1>2. QED BY <1>1, InvInit, InvKept, PTL DEF Spec
-----------------------------------------------------------------------------
(* The direction and the counter that belongs to it                          *)

\* The field a payload is read from while the latch is set.
PinnedField ==
    IF set.field # "auto" THEN set.field ELSE IF latch THEN "ret_aenergy" ELSE "aenergy"

\* Once the latch is set the counter is of the field it selects.
PinInv ==
    latch # Undetermined =>
        /\ set.direction = "auto"
        /\ counter # NoCounter => counter.field = PinnedField

LEMMA PayloadPower ==
    ASSUME NEW p \in Payloads
    PROVE  p.power \in Int
  BY SourceAssumption DEF Payloads

\* The negative flag of a reading is the one its field was selected by.
LEMMA ParseNegative ==
    ASSUME TypeOK, set.direction = "auto", NEW p
    PROVE  LET r == Parse(set, latch, p)
           IN  /\ r.negative \in BOOLEAN
               /\ latch # Undetermined => r.negative = latch
               /\ r.field = IF set.field # "auto" THEN set.field
                            ELSE IF r.negative THEN "ret_aenergy" ELSE "aenergy"
<1>1. latch = Undetermined \/ latch \in BOOLEAN
  BY DEF TypeOK, Latches
<1>2. AutoNegative(set, latch, p) \in BOOLEAN
  BY <1>1 DEF AutoNegative
<1>3. latch # Undetermined => AutoNegative(set, latch, p) = latch
  BY <1>1 DEF AutoNegative
<1>4. Parse(set, latch, p).negative = AutoNegative(set, latch, p)
  BY DEF Parse
<1>5. Parse(set, latch, p).field = SelectedField(set, AutoNegative(set, latch, p), p)
  BY DEF Parse
<1>6. QED BY <1>2, <1>3, <1>4, <1>5 DEF SelectedField

\* An update leaves the counter of the field it was read from.
LEMMA UpdateField ==
    ASSUME NEW c \in Counter \cup {NoCounter}, NEW raw, NEW f
    PROVE  UpdateCounter(c, raw, f).field = f
  BY DEF UpdateCounter, FirstReading, Rebaselined, Restarted, Advanced

LEMMA PollPinned ==
    ASSUME TypeOK, PinInv, NEW p \in Payloads, Poll(p)
    PROVE  /\ PinInv'
           /\ latch # Undetermined /\ counter # NoCounter => counter'.field = counter.field
<1> DEFINE r == Parse(set, latch, p)
<1>1. set' = set /\ latch' = Latch(set, latch, r) /\ counter'.field = r.field
  BY UpdateField DEF Poll, TypeOK
<1>2. CASE set.direction # "auto"
  <2>1. latch = Undetermined /\ latch' = Undetermined
    BY <1>1, <1>2 DEF PinInv, Latch
  <2>2. QED BY <2>1 DEF PinInv
<1>3. CASE set.direction = "auto"
  <2>1. latch' = r.negative
    BY <1>1, <1>3, ParseNegative DEF Latch
  <2>2. r.field = PinnedField'
    BY <1>1, <1>3, <2>1, ParseNegative DEF PinnedField
  <2>3. latch # Undetermined => r.field = PinnedField
    BY <1>3, ParseNegative DEF PinnedField
  <2>4. QED BY <1>1, <1>3, <2>2, <2>3 DEF PinInv
<1>4. QED BY <1>2, <1>3

LEMMA PinStep ==
    ASSUME CreditInv, PinInv, [Next]_vars
    PROVE  /\ PinInv'
           /\ latch # Undetermined /\ counter # NoCounter => counter'.field = counter.field
<1>1. ASSUME NEW p \in Payloads, Poll(p)
      PROVE  /\ PinInv'
             /\ latch # Undetermined /\ counter # NoCounter => counter'.field = counter.field
  BY <1>1, PollPinned DEF CreditInv
<1>2. CASE UNCHANGED vars \/ ResetPlug \/ Flush \/ \E f \in Fields : Count(f)
  BY <1>2 DEF vars, ResetPlug, Flush, Count, clientVars, counterVars, PinInv, PinnedField
<1>3. CASE Restart
  BY <1>3 DEF Restart, PinInv, CreditInv, SameField
<1>4. QED BY <1>1, <1>2, <1>3 DEF Next

\* The automatic choice is made once per process: no later payload moves the
\* source to its other counter.
THEOREM ChoiceIsPinned == Spec => FieldIsPinned
<1>1. Init => PinInv
  BY DEF Init, PinInv
<1>2. CreditInv /\ PinInv /\ [Next]_vars => PinInv'
  BY PinStep
<1>3. CreditInv /\ PinInv /\ [Next]_vars =>
          [latch # Undetermined /\ counter # NoCounter => counter'.field = counter.field]_vars
  BY PinStep
<1>4. QED BY <1>1, <1>2, <1>3, InvInit, InvKept, PTL DEF Spec, FieldIsPinned

\* With automatic settings a reading shows power only for the direction whose
\* energy it reports.
THEOREM DirectionsMatch == Spec => []PowerMatchesEnergy
<1>1. TypeOK => PowerMatchesEnergy
  <2> SUFFICES ASSUME TypeOK, set.direction = "auto", set.field = "auto",
                      NEW p \in Payloads, Parse(set, latch, p).power > 0
               PROVE  Parse(set, latch, p).field = "ret_aenergy" <=> p.power < 0
    BY DEF PowerMatchesEnergy
  <2> DEFINE r == Parse(set, latch, p)
  <2>1. /\ r.negative \in BOOLEAN
        /\ r.field = IF r.negative THEN "ret_aenergy" ELSE "aenergy"
    BY ParseNegative
  <2>2. r.power = AboveStandby(Power(set, r.negative, p.power))
    BY DEF Parse
  <2>3. CASE r.negative
    BY <2>1, <2>2, <2>3, PayloadPower, SourceAssumption DEF AboveStandby, Power
  <2>4. CASE ~r.negative
    BY <2>1, <2>2, <2>4, PayloadPower, SourceAssumption DEF AboveStandby, Power
  <2>5. QED BY <2>1, <2>3, <2>4
<1>2. QED BY <1>1, InvInit, InvKept, PTL DEF Spec, CreditInv
=============================================================================
