------------------------- MODULE Aggregation_proofs -------------------------
(***************************************************************************)
(* What holds of every register image, whatever is measured: where its     *)
(* models are, and what the encodings of numbers keep; and of the sums     *)
(* over any finite set of sources that aggregate_readings takes.           *)
(***************************************************************************)
EXTENDS Aggregation, SequenceTheorems, FiniteSetTheorems, WellFoundedInduction, TLAPS

IsWord16(x) == x \in Nat /\ x < 65536

\* The bits of a number of Int16Range never look like "not implemented".
LEMMA SignedWordIs ==
    ASSUME NEW n \in Int, -32767 <= n, n <= 32767
    PROVE  /\ SignedWord(n) = (IF n >= 0 THEN n ELSE n + 65536)
           /\ IsWord16(SignedWord(n)) /\ SignedWord(n) # NotAvailable
BY SMT DEF SignedWord, NotAvailable, IsWord16

\* The two words of an accumulator give it back (sunspec.py: _write_acc32).
THEOREM Acc32ReadsBack ==
    ASSUME NEW wh \in Nat, NEW high, NEW low, Acc32Words(wh) = <<high, low>>
    PROVE  (high * 65536) + low = wh
<1>1. Acc32Words(wh) = <<wh \div 65536, wh % 65536>>
  BY SMT DEF Acc32Words
<1>2. high = wh \div 65536 /\ low = wh % 65536
  BY <1>1, SMT
<1>3. ((wh \div 65536) * 65536) + (wh % 65536) = wh
  BY SMT
<1> QED BY <1>2, <1>3, SMT

\* Each of them is a 16-bit word, up to 2^32 - 1 Wh, which is more than TLC's
\* integers reach.
THEOREM Acc32Fits ==
    ASSUME NEW wh \in Nat, wh <= 4294967295
    PROVE  IsWord16(wh \div 65536) /\ IsWord16(wh % 65536)
BY SMT DEF IsWord16

\* A sequence of length n, of any values.
IsList(a, n) == n \in Nat /\ a = [i \in 1..n |-> a[i]]

LEMMA ListLen ==
    ASSUME NEW a, NEW n, IsList(a, n)
    PROVE  Len(a) = n /\ DOMAIN a = 1..n
<1>1. a \in Seq({a[i] : i \in 1..n})
  BY DEF IsList
<1> QED BY <1>1 DEF IsList

\* A list of m + n values that ends with the n values of b.
EndsWith(c, b, m, n) == \A j \in (m + 1)..(m + n) : c[j] = b[j - m]

LEMMA ListConcat ==
    ASSUME NEW a, NEW b, NEW m, NEW n, IsList(a, m), IsList(b, n)
    PROVE  IsList(a \o b, m + n) /\ EndsWith(a \o b, b, m, n)
<1> DEFINE S == {a[i] : i \in 1..m} \cup {b[i] : i \in 1..n}
<1>0. m \in Nat /\ n \in Nat /\ a \in [1..m -> S] /\ b \in [1..n -> S]
  BY DEF IsList
<1>1. a \in Seq(S) /\ b \in Seq(S) /\ m \in Nat /\ n \in Nat
  BY <1>0, SeqDef
<1>2. Len(a) = m /\ Len(b) = n
  BY ListLen
<1> HIDE DEF S
<1>3. a \o b \in Seq(S) /\ Len(a \o b) = m + n
  BY <1>1, <1>2
<1>4. a \o b = [i \in 1..(m + n) |-> (a \o b)[i]]
  <2>1. a \o b \in [1..(m + n) -> S]
    BY <1>3, LenProperties
  <2> QED BY <2>1
<1>5. \A j \in (m + 1)..(m + n) : (a \o b)[j] = b[j - m]
  BY <1>1, <1>2
<1> QED BY <1>1, <1>4, <1>5 DEF IsList, EndsWith

LEMMA Tuples ==
    ASSUME NEW u, NEW v, NEW w, NEW x, NEW y
    PROVE  /\ IsList(<<u>>, 1) /\ IsList(<<u, v>>, 2) /\ IsList(<<u, v, w>>, 3)
           /\ IsList(<<u, v, w, x>>, 4) /\ IsList(<<u, v, w, x, y>>, 5)
BY DEF IsList

\* The registers of a block, in a form that the prover can instantiate.
Covers(f, a, b) == \A r : r \in DOMAIN f <=> r \in Int /\ a <= r /\ r <= b

LEMMA FloatsCover ==
    ASSUME NEW first \in Int, NEW unit, NEW a, NEW n, IsList(a, n)
    PROVE  Covers(Floats(first, unit, a), first, first + 2 * n - 1)
<1>1. n \in Nat /\ Len(a) = n
  BY ListLen DEF IsList
<1> QED BY <1>1 DEF Floats, Covers

LEMMA WordsCover ==
    ASSUME NEW first \in Int, NEW a, NEW n, IsList(a, n)
    PROVE  Covers(Words(first, a), first, first + n - 1)
<1>1. n \in Nat /\ Len(a) = n
  BY ListLen DEF IsList
<1> QED BY <1>1 DEF Words, Covers
-----------------------------------------------------------------------------
(* Lengths of the value groups *)

LEMMA PhaseValuesLen ==
    ASSUME NEW s, NEW q PROVE IsList(PhaseValues(s, q), 3)
BY DEF PhaseValues, IsList

LEMMA WithPhasesLen ==
    ASSUME NEW s, NEW q PROVE IsList(WithPhases(s, q), 4)
<1>1. IsList(<<TotalOf(s, q)>>, 1) /\ IsList(PhaseValues(s, q), 3)
  BY PhaseValuesLen, Tuples
<1>2. IsList(WithPhases(s, q), 1 + 3)
  BY <1>1, ListConcat, Zenon DEF WithPhases
<1> QED BY <1>2

LEMMA VoltageValuesLen ==
    ASSUME NEW s PROVE IsList(VoltageValues(s), 8)
<1> DEFINE v == PhaseValues(s, "voltage")
           line == <<LineVoltage(v[1], v[2]), LineVoltage(v[2], v[3]), LineVoltage(v[3], v[1])>>
           mean == <<TotalOf(s, "voltage") \div 3>>
           lineMean == <<(line[1] + line[2] + line[3]) \div 3>>
<1>1. IsList(v, 3)
  BY PhaseValuesLen
<1>2. IsList(line, 3) /\ IsList(mean, 1) /\ IsList(lineMean, 1)
  BY Tuples
<1>3. VoltageValues(s) = mean \o v \o lineMean \o line
  BY DEF VoltageValues
<1> HIDE DEF v, line, mean, lineMean
<1>4. IsList(mean \o v, 1 + 3)
  BY <1>1, <1>2, ListConcat, Zenon
<1>5. IsList(mean \o v \o lineMean, (1 + 3) + 1)
  BY <1>2, <1>4, ListConcat, Zenon
<1>6. IsList(mean \o v \o lineMean \o line, ((1 + 3) + 1) + 3)
  BY <1>2, <1>5, ListConcat, Zenon
<1> QED BY <1>3, <1>6

LEMMA OtherLens ==
    ASSUME NEW s
    PROVE  IsList(FlowValues(s), 4) /\ IsList(FactorValues(s), 4) /\ IsList(EnergyValues(s), 8)
<1>1. IsList(FlowValues(s), 4) /\ IsList(FactorValues(s), 4)
  BY DEF FlowValues, FactorValues, IsList
<1>2. IsList(WithPhases(s, "exported"), 4) /\ IsList(<<0, 0, 0, 0>>, 4)
  BY WithPhasesLen, Tuples
<1>3. IsList(EnergyValues(s), 4 + 4)
  BY <1>2, ListConcat, Zenon DEF EnergyValues
<1> QED BY <1>1, <1>3
-----------------------------------------------------------------------------
(* Where the models are *)

\* A stack of blocks has the values of its first one.
Keeps(h, f) == \A r \in DOMAIN f : r \in DOMAIN h /\ h[r] = f[r]

\* A stack within a range, or of exactly that range.
Within(h, f, a, b) == Keeps(h, f) /\ \A r \in DOMAIN h : r \in Int /\ a <= r /\ r <= b
Fills(h, f, a, b) == Keeps(h, f) /\ Covers(h, a, b)

LEMMA StackDomain ==
    ASSUME NEW h, NEW g
    PROVE  DOMAIN (h ++ g) = DOMAIN h \cup DOMAIN g
BY DEF ++

LEMMA StackKeeps ==
    ASSUME NEW h, NEW f, NEW g, Keeps(h, f)
    PROVE  Keeps(h ++ g, f)
BY DEF Keeps, ++

\* Registers that the first blocks do not have are those of the last one.
LEMMA StackLast ==
    ASSUME NEW h, NEW g, NEW r, r \in DOMAIN g, r \notin DOMAIN h
    PROVE  (h ++ g)[r] = g[r]
BY DEF ++

LEMMA StackWithin ==
    ASSUME NEW h, NEW f, NEW g, NEW a \in Int, NEW b \in Int, NEW c \in Int, NEW d \in Int,
           Within(h, f, a, b), Covers(g, c, d), a <= c, b <= d
    PROVE  Within(h ++ g, f, a, d)
<1>1. Keeps(h ++ g, f)
  BY StackKeeps DEF Within
<1>2. ASSUME NEW r \in DOMAIN (h ++ g) PROVE r \in Int /\ a <= r /\ r <= d
  <2>1. r \in DOMAIN h \/ r \in DOMAIN g
    BY <1>2, StackDomain
  <2> QED BY <2>1 DEF Within, Covers
<1> QED BY <1>1, <1>2 DEF Within

LEMMA StackFills ==
    ASSUME NEW h, NEW f, NEW g, NEW a \in Int, NEW b \in Int, NEW c \in Int, NEW d \in Int,
           Fills(h, f, a, b), Covers(g, c, d), a <= b, c = b + 1, c <= d
    PROVE  Fills(h ++ g, f, a, d)
<1>1. Keeps(h ++ g, f)
  BY StackKeeps DEF Fills
<1>2. DOMAIN (h ++ g) = DOMAIN h \cup DOMAIN g
  BY StackDomain
<1>3. Covers(h ++ g, a, d)
  BY <1>2 DEF Fills, Covers
<1> QED BY <1>1, <1>3 DEF Fills

LEMMA GroupCovers ==
    ASSUME NEW p, NEW first \in Int, p.at = first, NEW n, IsList(p.values, n)
    PROVE  Covers(ScaledGroup(p), first, first + n)
<1> DEFINE a == [i \in DOMAIN p.values |-> ScaledInt16(p, p.values[i])]
           b == <<SignedWord(p.sf)>>
<1>1. IsList(a, n) /\ n \in Nat
  BY ListLen DEF IsList
<1>2. IsList(b, 1)
  BY Tuples
<1>3. ScaledGroup(p) = Words(first, a \o b)
  BY DEF ScaledGroup
<1> HIDE DEF a, b
<1>4. IsList(a \o b, n + 1)
  BY <1>1, <1>2, ListConcat, Zenon
<1>5. Covers(Words(first, a \o b), first, first + (n + 1) - 1)
  BY <1>4, WordsCover, Zenon
<1> QED BY <1>1, <1>3, <1>5

LEMMA HeaderAre ==
    ASSUME NEW m, NEW length
    PROVE  /\ Covers(Header(m, length), 40070, 40071)
           /\ Header(m, length)[40070] = <<"word", m>>
           /\ Header(m, length)[40071] = <<"word", length>>
<1>1. IsList(<<m, length>>, 2)
  BY Tuples
<1>2. Covers(Words(40070, <<m, length>>), 40070, 40071)
  BY <1>1, WordsCover
<1> QED BY <1>2 DEF Header, Words

LEMMA Body213Is ==
    ASSUME NEW s
    PROVE  /\ Covers(Body213(s), 40070, 40197)
           /\ Body213(s)[40070] = <<"word", 213>> /\ Body213(s)[40071] = <<"word", 124>>
           /\ Body213(s)[40196] = <<"word", 65535>> /\ Body213(s)[40197] = <<"word", 0>>
           /\ Body213(s)[40177][1] # "word"
<1> DEFINE f0 == Header(213, 124)
           f1 == Floats(40072, 1000, WithPhases(s, "current"))
           f2 == Floats(40080, 100, VoltageValues(s))
           f3 == Floats(40096, 1000, <<s.frequency>>)
           f4 == Floats(40098, 100, FlowValues(s))
           f5 == Floats(40106, 100, WithPhases(s, "apparent"))
           f6 == Floats(40122, 1000, FactorValues(s))
           f7 == Floats(40130, 10, EnergyValues(s))
           f8 == Words(40194, <<0, 0, 65535, 0>>)
           f9 == Floats(40072, 1, [i \in 1..61 |-> NoValue])
<1>1. Body213(s) = f0 ++ f1 ++ f2 ++ f3 ++ f4 ++ f5 ++ f6 ++ f7 ++ f8 ++ f9
  BY DEF Body213
<1>2. /\ Covers(f0, 40070, 40071)
      /\ f0[40070] = <<"word", 213>> /\ f0[40071] = <<"word", 124>>
  BY HeaderAre
<1>3. /\ Covers(f1, 40072, 40079) /\ Covers(f2, 40080, 40095) /\ Covers(f3, 40096, 40097)
      /\ Covers(f4, 40098, 40105) /\ Covers(f5, 40106, 40113) /\ Covers(f6, 40122, 40129)
      /\ Covers(f7, 40130, 40145)
  <2>1. /\ IsList(WithPhases(s, "current"), 4) /\ IsList(VoltageValues(s), 8)
        /\ IsList(<<s.frequency>>, 1) /\ IsList(FlowValues(s), 4)
        /\ IsList(WithPhases(s, "apparent"), 4) /\ IsList(FactorValues(s), 4)
        /\ IsList(EnergyValues(s), 8)
    BY WithPhasesLen, VoltageValuesLen, OtherLens, Tuples
  <2>2. Covers(f1, 40072, 40079) /\ Covers(f5, 40106, 40113)
    BY <2>1, FloatsCover
  <2>3. Covers(f2, 40080, 40095)
    BY <2>1, FloatsCover
  <2>4. Covers(f3, 40096, 40097)
    <3> DEFINE frequency == <<s.frequency>>
    <3>1. IsList(frequency, 1)
      BY Tuples
    <3> HIDE DEF frequency
    <3>2. Covers(Floats(40096, 1000, frequency), 40096, 40097)
      BY <3>1, FloatsCover
    <3> QED BY <3>2 DEF frequency
  <2>5. Covers(f4, 40098, 40105)
    BY <2>1, FloatsCover
  <2>6. Covers(f6, 40122, 40129)
    <3> DEFINE factors == FactorValues(s)
    <3>1. IsList(factors, 4)
      BY OtherLens
    <3> HIDE DEF factors
    <3>2. Covers(Floats(40122, 1000, factors), 40122, 40129)
      BY <3>1, FloatsCover
    <3> QED BY <3>2 DEF factors
  <2>7. Covers(f7, 40130, 40145)
    BY <2>1, FloatsCover
  <2> QED BY <2>2, <2>3, <2>4, <2>5, <2>6, <2>7
<1>4. /\ Covers(f8, 40194, 40197)
      /\ f8[40196] = <<"word", 65535>> /\ f8[40197] = <<"word", 0>>
  <2>1. IsList(<<0, 0, 65535, 0>>, 4)
    BY DEF IsList
  <2>2. Covers(f8, 40194, 40197)
    BY <2>1, WordsCover
  <2> QED BY <2>2 DEF Words
<1>5. Covers(f9, 40072, 40193) /\ f9[40177][1] # "word"
  <2>1. IsList([i \in 1..61 |-> NoValue], 61)
    BY DEF IsList
  <2>2. Covers(f9, 40072, 40193)
    BY <2>1, FloatsCover
  <2> QED BY <2>2 DEF Floats, Covers
<1> HIDE DEF f0, f1, f2, f3, f4, f5, f6, f7, f8, f9
<1> DEFINE g3 == f0 ++ f1 ++ f2 ++ f3
           g7 == g3 ++ f4 ++ f5 ++ f6 ++ f7
<1>6. Within(g3, f0, 40070, 40097)
  <2>1. Within(f0, f0, 40070, 40071)
    BY <1>2 DEF Within, Keeps, Covers
  <2>2. Within(f0 ++ f1, f0, 40070, 40079)
    BY <1>3, <2>1, StackWithin
  <2>3. Within(f0 ++ f1 ++ f2, f0, 40070, 40095)
    BY <1>3, <2>2, StackWithin
  <2> QED BY <1>3, <2>3, StackWithin
<1>7. Within(g7, f0, 40070, 40145)
  <2> HIDE DEF g3
  <2>1. Within(g3 ++ f4, f0, 40070, 40105)
    BY <1>3, <1>6, StackWithin
  <2>2. Within(g3 ++ f4 ++ f5, f0, 40070, 40113)
    BY <1>3, <2>1, StackWithin
  <2>3. Within(g3 ++ f4 ++ f5 ++ f6, f0, 40070, 40129)
    BY <1>3, <2>2, StackWithin
  <2> QED BY <1>3, <2>3, StackWithin
<1>8. Body213(s) = g7 ++ f8 ++ f9
  BY <1>1
<1> HIDE DEF g3, g7
<1> DEFINE g8 == g7 ++ f8
           g9 == g8 ++ f9
<1>9. DOMAIN g8 = DOMAIN g7 \cup DOMAIN f8
  BY StackDomain
<1>10. DOMAIN g9 = DOMAIN g8 \cup DOMAIN f9
  BY StackDomain
<1>11. Keeps(g9, f0) /\ Keeps(g9, g8)
  <2>1. Keeps(g8, f0)
    BY <1>7, StackKeeps DEF Within
  <2>2. Keeps(g8, g8)
    BY DEF Keeps
  <2> HIDE DEF g8
  <2> QED BY <2>1, <2>2, StackKeeps
<1>12. g8[40196] = f8[40196] /\ g8[40197] = f8[40197]
  <2>1. /\ 40196 \in DOMAIN f8 /\ 40197 \in DOMAIN f8
        /\ 40196 \notin DOMAIN g7 /\ 40197 \notin DOMAIN g7
    BY <1>4, <1>7 DEF Within, Covers
  <2> QED BY <2>1, StackLast
<1>13. g9[40177] = f9[40177]
  <2>1. 40177 \in DOMAIN f9 /\ 40177 \notin DOMAIN g8
    BY <1>4, <1>5, <1>7, <1>9 DEF Within, Covers
  <2> QED BY <2>1, StackLast
<1>14. Body213(s) = g9
  BY <1>8
<1> HIDE DEF g8, g9
<1>15. Covers(g9, 40070, 40197)
  BY <1>2, <1>4, <1>5, <1>7, <1>9, <1>10 DEF Within, Keeps, Covers
<1>16. g9[40070] = f0[40070] /\ g9[40071] = f0[40071]
  BY <1>2, <1>11 DEF Keeps, Covers
<1>17. g9[40196] = f8[40196] /\ g9[40197] = f8[40197]
  BY <1>4, <1>9, <1>11, <1>12 DEF Keeps, Covers
<1> QED BY <1>2, <1>4, <1>5, <1>13, <1>14, <1>15, <1>16, <1>17

LEMMA ZerosLen == ASSUME NEW n \in Nat PROVE IsList([i \in 1..n |-> 0], n)
BY DEF IsList

LEMMA ReactiveLen ==
    ASSUME NEW z, IsList(z, 16), NEW x
    PROVE  IsList(<<0>> \o z \o <<x>>, 18)
<1>1. IsList(<<0>>, 1) /\ IsList(<<x>>, 1)
  BY Tuples
<1>2. IsList(<<0>> \o z, 1 + 16)
  BY <1>1, ListConcat, Zenon
<1>3. IsList(<<0>> \o z \o <<x>>, (1 + 16) + 1)
  BY <1>1, <1>2, ListConcat, Zenon
<1> QED BY <1>3

LEMMA Body203Is ==
    ASSUME NEW s
    PROVE  /\ Covers(Body203(s), 40070, 40178)
           /\ Body203(s)[40070] = <<"word", 203>> /\ Body203(s)[40071] = <<"word", 105>>
           /\ Body203(s)[40177] = <<"word", 65535>> /\ Body203(s)[40178] = <<"word", 0>>
<1> DEFINE zeros(n) == [i \in 1..n |-> 0]
           f0 == Header(203, 105)
           p1 == Int16Groups(s)[1]
           p2 == Int16Groups(s)[2]
           p3 == Int16Groups(s)[3]
           p4 == Int16Groups(s)[4]
           p5 == Int16Groups(s)[5]
           p6 == Int16Groups(s)[6]
           unused == [i \in 1..5 |-> NotAvailable]
           energy == [i \in 1..16 |-> Acc32Words(WholeWh(s, (i + 1) \div 2))[2 - (i % 2)]]
           reactive == <<0>> \o zeros(16) \o <<NotAvailable>>
           tail == <<NotAvailable, 0, 0, 65535, 0>>
           rest == zeros(32) \o tail
           w1 == Words(40098, unused)
           w2 == Words(40108, energy)
           w3 == Words(40124, reactive)
           w4 == Words(40142, rest)
<1>1. Body203(s) = f0 ++ ScaledGroup(p1) ++ ScaledGroup(p2) ++ ScaledGroup(p3)
                      ++ ScaledGroup(p4) ++ ScaledGroup(p5) ++ w1 ++ ScaledGroup(p6)
                      ++ w2 ++ w3 ++ w4
  BY DEF Body203
<1>2. /\ Covers(f0, 40070, 40071)
      /\ f0[40070] = <<"word", 203>> /\ f0[40071] = <<"word", 105>>
  BY HeaderAre
<1>3. /\ p1.at = 40072 /\ p1.values = WithPhases(s, "current")
      /\ p2.at = 40077 /\ p2.values = VoltageValues(s)
      /\ p3.at = 40086 /\ p3.values = <<s.frequency>>
      /\ p4.at = 40088 /\ p4.values = FlowValues(s)
      /\ p5.at = 40093 /\ p5.values = WithPhases(s, "apparent")
      /\ p6.at = 40103 /\ p6.values = FactorValues(s)
  BY DEF Int16Groups
<1>4. /\ IsList(p1.values, 4) /\ IsList(p2.values, 8) /\ IsList(p3.values, 1)
      /\ IsList(p4.values, 4) /\ IsList(p5.values, 4) /\ IsList(p6.values, 4)
  <2> HIDE DEF p1, p2, p3, p4, p5, p6
  <2>1. IsList(p1.values, 4) /\ IsList(p5.values, 4)
    BY <1>3, WithPhasesLen
  <2>2. IsList(p2.values, 8)
    BY <1>3, VoltageValuesLen
  <2>3. IsList(p3.values, 1)
    BY <1>3 DEF IsList
  <2>4. IsList(p4.values, 4) /\ IsList(p6.values, 4)
    BY <1>3, OtherLens
  <2> QED BY <2>1, <2>2, <2>3, <2>4
<1>5. IsList(unused, 5) /\ IsList(energy, 16)
  BY DEF IsList
<1>6. IsList(reactive, 18)
  <2>1. IsList(zeros(16), 16)
    BY ZerosLen
  <2> HIDE DEF zeros
  <2> QED BY <2>1, ReactiveLen
<1>7. IsList(rest, 37) /\ rest[36] = 65535 /\ rest[37] = 0
  <2>1. IsList(tail, 5)
    BY DEF IsList
  <2>2. IsList(zeros(32), 32)
    BY ZerosLen
  <2>3. tail[4] = 65535 /\ tail[5] = 0
    OBVIOUS
  <2> HIDE DEF tail, zeros
  <2>4. IsList(rest, 32 + 5) /\ EndsWith(rest, tail, 32, 5)
    BY <2>1, <2>2, ListConcat
  <2> HIDE DEF rest
  <2>5. rest[36] = tail[36 - 32] /\ rest[37] = tail[37 - 32]
    BY <2>4 DEF EndsWith
  <2> QED BY <2>3, <2>4, <2>5
<1> HIDE DEF zeros, unused, energy, reactive, tail, rest, p1, p2, p3, p4, p5, p6, f0
<1>8. /\ Covers(ScaledGroup(p1), 40072, 40076) /\ Covers(ScaledGroup(p2), 40077, 40085)
      /\ Covers(ScaledGroup(p3), 40086, 40087) /\ Covers(ScaledGroup(p4), 40088, 40092)
      /\ Covers(ScaledGroup(p5), 40093, 40097) /\ Covers(ScaledGroup(p6), 40103, 40107)
  <2>1. Covers(ScaledGroup(p1), 40072, 40076)
    BY <1>3, <1>4, GroupCovers
  <2>2. Covers(ScaledGroup(p2), 40077, 40085)
    BY <1>3, <1>4, GroupCovers
  <2>3. Covers(ScaledGroup(p3), 40086, 40087)
    BY <1>3, <1>4, GroupCovers
  <2>4. Covers(ScaledGroup(p4), 40088, 40092)
    BY <1>3, <1>4, GroupCovers
  <2>5. Covers(ScaledGroup(p5), 40093, 40097)
    BY <1>3, <1>4, GroupCovers
  <2>6. Covers(ScaledGroup(p6), 40103, 40107)
    BY <1>3, <1>4, GroupCovers
  <2> QED BY <2>1, <2>2, <2>3, <2>4, <2>5, <2>6
<1>9. /\ Covers(w1, 40098, 40102) /\ Covers(w2, 40108, 40123)
       /\ Covers(w3, 40124, 40141) /\ Covers(w4, 40142, 40178)
  <2>1. Covers(w1, 40098, 40102)
    BY <1>5, WordsCover
  <2>2. Covers(w2, 40108, 40123)
    BY <1>5, WordsCover
  <2>3. Covers(w3, 40124, 40141)
    BY <1>6, WordsCover
  <2>4. Covers(w4, 40142, 40178)
    BY <1>7, WordsCover
  <2> QED BY <2>1, <2>2, <2>3, <2>4
<1>10. w4[40177] = <<"word", 65535>> /\ w4[40178] = <<"word", 0>>
  <2>1. DOMAIN w4 = 40142..(40142 + Len(rest) - 1)
    BY DEF Words
  <2>2. 40177 \in DOMAIN w4 /\ 40178 \in DOMAIN w4
    BY <1>9 DEF Covers
  <2> HIDE DEF rest
  <2>3. \A r \in DOMAIN w4 : w4[r] = <<"word", rest[r - 40142 + 1]>>
    BY DEF Words
  <2>4. w4[40177] = <<"word", rest[36]>> /\ w4[40178] = <<"word", rest[37]>>
    BY <2>2, <2>3
  <2> QED BY <1>7, <2>4
<1> HIDE DEF w1, w2, w3, w4
<1> DEFINE g3 == f0 ++ ScaledGroup(p1) ++ ScaledGroup(p2) ++ ScaledGroup(p3)
           g6 == g3 ++ ScaledGroup(p4) ++ ScaledGroup(p5) ++ w1
           g9 == g6 ++ ScaledGroup(p6) ++ w2 ++ w3
<1>11. Fills(g3, f0, 40070, 40087)
  <2>1. Fills(f0, f0, 40070, 40071)
    BY <1>2 DEF Fills, Keeps
  <2>2. Fills(f0 ++ ScaledGroup(p1), f0, 40070, 40076)
    BY <1>8, <2>1, StackFills
  <2>3. Fills(f0 ++ ScaledGroup(p1) ++ ScaledGroup(p2), f0, 40070, 40085)
    BY <1>8, <2>2, StackFills
  <2> QED BY <1>8, <2>3, StackFills
<1>12. Fills(g6, f0, 40070, 40102)
  <2> HIDE DEF g3
  <2>1. Fills(g3 ++ ScaledGroup(p4), f0, 40070, 40092)
    BY <1>8, <1>11, StackFills
  <2>2. Fills(g3 ++ ScaledGroup(p4) ++ ScaledGroup(p5), f0, 40070, 40097)
    BY <1>8, <2>1, StackFills
  <2> QED BY <1>9, <2>2, StackFills
<1>13. Fills(g9, f0, 40070, 40141)
  <2> HIDE DEF g6
  <2>1. Fills(g6 ++ ScaledGroup(p6), f0, 40070, 40107)
    BY <1>8, <1>12, StackFills
  <2>2. Fills(g6 ++ ScaledGroup(p6) ++ w2, f0, 40070, 40123)
    BY <1>9, <2>1, StackFills
  <2> QED BY <1>9, <2>2, StackFills
<1>14. Body203(s) = g9 ++ w4
  BY <1>1
<1> HIDE DEF g3, g6, g9
<1>15. Fills(g9 ++ w4, f0, 40070, 40178)
  BY <1>9, <1>13, StackFills
<1>16. (g9 ++ w4)[40177] = w4[40177] /\ (g9 ++ w4)[40178] = w4[40178]
  <2>1. /\ 40177 \in DOMAIN w4 /\ 40178 \in DOMAIN w4
        /\ 40177 \notin DOMAIN g9 /\ 40178 \notin DOMAIN g9
    BY <1>9, <1>13 DEF Fills, Covers
  <2> QED BY <2>1, StackLast
<1>17. Body203(s)[40070] = f0[40070] /\ Body203(s)[40071] = f0[40071]
  BY <1>2, <1>14, <1>15 DEF Fills, Keeps, Covers
<1> QED BY <1>2, <1>10, <1>14, <1>15, <1>16, <1>17 DEF Fills
-----------------------------------------------------------------------------
(* The whole image *)

EndModel(m) == IF m = 203 THEN 40177 ELSE 40196

\* An image that a client can walk from model to model.
IsChain(im, m, unit) ==
    /\ Covers(im, 40001, EndModel(m) + 1)
    /\ im[40001] = <<"word", 21365>> /\ im[40002] = <<"word", 28243>>
    /\ im[40003] = <<"word", 1>> /\ im[40004] = <<"word", 65>>
    /\ im[40069] = <<"word", unit>>
    /\ im[40070] = <<"word", m>> /\ im[40071] = <<"word", IF m = 203 THEN 105 ELSE 124>>
    /\ im[EndModel(m)] = <<"word", 65535>> /\ im[EndModel(m) + 1] = <<"word", 0>>
    /\ m = 213 => im[40177][1] # "word"

\* Whatever the sources measure, build_registers builds such an image: every
\* register from SunS to the end model, without a hole.
THEOREM ImageIsChain ==
    ASSUME NEW m \in MeterModels, NEW unit, NEW s
    PROVE  IsChain(Registers(m, unit, s), m, unit)
<1> DEFINE f == Words(40001, <<21365, 28243, 1, 65>>)
           t == [r \in 40005..40068 |-> <<"text", 0>>]
           u == Words(40069, <<unit>>)
           b == IF m = 203 THEN Body203(s) ELSE Body213(s)
           h == f ++ t ++ u
<1>1. Registers(m, unit, s) = h ++ b
  BY DEF Registers
<1>2. /\ Covers(f, 40001, 40004) /\ Covers(t, 40005, 40068) /\ Covers(u, 40069, 40069)
      /\ f[40001] = <<"word", 21365>> /\ f[40002] = <<"word", 28243>>
      /\ f[40003] = <<"word", 1>> /\ f[40004] = <<"word", 65>>
      /\ u[40069] = <<"word", unit>>
  <2>1. IsList(<<21365, 28243, 1, 65>>, 4) /\ IsList(<<unit>>, 1)
    BY DEF IsList
  <2>2. Covers(f, 40001, 40004)
    BY <2>1, WordsCover
  <2>3. Covers(u, 40069, 40069)
    BY <2>1, WordsCover
  <2>4. Covers(t, 40005, 40068)
    BY DEF Covers
  <2>5. /\ f[40001] = <<"word", 21365>> /\ f[40002] = <<"word", 28243>>
        /\ f[40003] = <<"word", 1>> /\ f[40004] = <<"word", 65>>
        /\ u[40069] = <<"word", unit>>
    BY <2>2, <2>3 DEF Words
  <2> QED BY <2>2, <2>3, <2>4, <2>5
<1>3. /\ Covers(b, 40070, EndModel(m) + 1)
      /\ b[40070] = <<"word", m>> /\ b[40071] = <<"word", IF m = 203 THEN 105 ELSE 124>>
      /\ b[EndModel(m)] = <<"word", 65535>> /\ b[EndModel(m) + 1] = <<"word", 0>>
      /\ m = 213 => b[40177][1] # "word"
  <2>1. CASE m = 203
    BY <2>1, Body203Is DEF EndModel
  <2>2. CASE m = 213
    BY <2>2, Body213Is DEF EndModel
  <2> QED BY <2>1, <2>2 DEF MeterModels
<1> HIDE DEF f, t, u, b
<1>4. Covers(h, 40001, 40069) /\ Keeps(h, f) /\ h[40069] = <<"word", unit>>
  <2>1. Fills(f, f, 40001, 40004)
    BY <1>2 DEF Fills, Keeps
  <2>2. Fills(f ++ t, f, 40001, 40068)
    BY <1>2, <2>1, StackFills
  <2>3. Fills(h, f, 40001, 40069)
    BY <1>2, <2>2, StackFills
  <2> DEFINE g == f ++ t
  <2>4. Covers(g, 40001, 40068) /\ h = g ++ u
    BY <2>2 DEF Fills
  <2> HIDE DEF g, h
  <2>5. h[40069] = u[40069]
    BY <1>2, <2>4 DEF Covers, ++
  <2> QED BY <1>2, <2>3, <2>5 DEF Fills
<1>5. /\ h[40001] = <<"word", 21365>> /\ h[40002] = <<"word", 28243>>
      /\ h[40003] = <<"word", 1>> /\ h[40004] = <<"word", 65>>
  BY <1>2, <1>4 DEF Covers, Keeps
<1> HIDE DEF h
<1>6. EndModel(m) \in Int /\ EndModel(m) > 40071
  BY DEF EndModel
<1>7. Covers(h ++ b, 40001, EndModel(m) + 1)
  BY <1>3, <1>4, <1>6 DEF Covers, ++
<1>8. \A r : r \in DOMAIN b => (h ++ b)[r] = b[r]
  BY <1>3, <1>4 DEF Covers, ++
<1>9. \A r : r \in DOMAIN h => (h ++ b)[r] = h[r]
  BY DEF ++
<1> DEFINE im == h ++ b
<1>10. /\ im[40001] = <<"word", 21365>> /\ im[40002] = <<"word", 28243>>
       /\ im[40003] = <<"word", 1>> /\ im[40004] = <<"word", 65>>
       /\ im[40069] = <<"word", unit>>
  BY <1>4, <1>5, <1>9 DEF Covers
<1>11. /\ im[40070] = <<"word", m>> /\ im[40071] = <<"word", IF m = 203 THEN 105 ELSE 124>>
       /\ im[EndModel(m)] = <<"word", 65535>> /\ im[EndModel(m) + 1] = <<"word", 0>>
       /\ m = 213 => im[40177][1] # "word"
  <2>1. /\ 40070 \in DOMAIN b /\ 40071 \in DOMAIN b
        /\ EndModel(m) \in DOMAIN b /\ EndModel(m) + 1 \in DOMAIN b
        /\ m = 213 => 40177 \in DOMAIN b
    BY <1>3, <1>6 DEF Covers, EndModel
  <2> QED BY <1>3, <1>8, <2>1
<1> HIDE DEF im
<1> QED BY <1>1, <1>7, <1>10, <1>11 DEF IsChain, im
-----------------------------------------------------------------------------
(* What is in the blocks *)

StartsWith(c, a, m) == \A i \in 1..m : c[i] = a[i]

LEMMA ConcatFirst ==
    ASSUME NEW a, NEW b, NEW m, NEW n, IsList(a, m), IsList(b, n)
    PROVE  StartsWith(a \o b, a, m)
<1> DEFINE S == {a[i] : i \in 1..m} \cup {b[i] : i \in 1..n}
<1>0. m \in Nat /\ n \in Nat /\ a \in [1..m -> S] /\ b \in [1..n -> S]
  BY DEF IsList
<1>1. a \in Seq(S) /\ b \in Seq(S) /\ m \in Nat /\ n \in Nat
  BY <1>0, SeqDef
<1>2. Len(a) = m /\ Len(b) = n
  BY ListLen
<1> HIDE DEF S
<1> QED BY <1>1, <1>2 DEF StartsWith

\* A client that finds a block of floats finds its values, as float32s, in pairs.
LEMMA FloatsRead ==
    ASSUME NEW im, NEW first \in Int, NEW unit, NEW a, NEW n, IsList(a, n),
           Keeps(im, Floats(first, unit, a)), NEW i \in 1..n
    PROVE  /\ im[first + 2 * i - 2] = <<"high", Float32(a[i], unit)>>
           /\ im[first + 2 * i - 1] = <<"low", Float32(a[i], unit)>>
<1>1. n \in Nat /\ Len(a) = n
  BY ListLen DEF IsList
<1> DEFINE f == Floats(first, unit, a)
           h == first + 2 * i - 2
           l == first + 2 * i - 1
<1>2. f = [r \in first..(first + 2 * n - 1) |->
              <<IF (r - first) % 2 = 0 THEN "high" ELSE "low",
                Float32(a[(r - first) \div 2 + 1], unit)>>]
  BY <1>1 DEF Floats
<1>3. h \in first..(first + 2 * n - 1) /\ l \in first..(first + 2 * n - 1)
  BY <1>1
<1>4. /\ (h - first) % 2 = 0 /\ (h - first) \div 2 + 1 = i
      /\ (l - first) % 2 = 1 /\ (l - first) \div 2 + 1 = i
  BY <1>1
<1> HIDE DEF h, l
<1>5. /\ f[h] = <<"high", Float32(a[i], unit)>> /\ f[l] = <<"low", Float32(a[i], unit)>>
      /\ h \in DOMAIN f /\ l \in DOMAIN f
  BY <1>2, <1>3, <1>4
<1> HIDE DEF f
<1>6. im[h] = f[h] /\ im[l] = f[l]
  BY <1>5 DEF Keeps, f
<1> QED BY <1>5, <1>6 DEF h, l

LEMMA WordsRead ==
    ASSUME NEW im, NEW first \in Int, NEW a, NEW n, IsList(a, n),
           Keeps(im, Words(first, a)), NEW i \in 1..n
    PROVE  im[first + i - 1] = <<"word", a[i]>>
<1>1. n \in Nat /\ Len(a) = n
  BY ListLen DEF IsList
<1> DEFINE f == Words(first, a)
           r == first + i - 1
<1>2. f = [x \in first..(first + n - 1) |-> <<"word", a[x - first + 1]>>]
  BY <1>1 DEF Words
<1>3. r \in first..(first + n - 1) /\ r - first + 1 = i
  BY <1>1
<1> HIDE DEF r
<1>4. f[r] = <<"word", a[i]>> /\ r \in DOMAIN f
  BY <1>2, <1>3
<1> HIDE DEF f
<1>5. im[r] = f[r]
  BY <1>4 DEF Keeps, f
<1> QED BY <1>4, <1>5 DEF r

\* A group's points, and its scale factor after them.
LEMMA GroupRead ==
    ASSUME NEW im, NEW p, NEW first \in Int, p.at = first, NEW n \in Nat, IsList(p.values, n),
           Keeps(im, ScaledGroup(p))
    PROVE  /\ \A i \in 1..n : im[first + i - 1] = <<"word", ScaledInt16(p, p.values[i])>>
           /\ im[first + n] = <<"word", SignedWord(p.sf)>>
<1> DEFINE a == [i \in DOMAIN p.values |-> ScaledInt16(p, p.values[i])]
           b == <<SignedWord(p.sf)>>
           c == a \o b
<1>1. IsList(a, n) /\ n \in Nat /\ \A i \in 1..n : a[i] = ScaledInt16(p, p.values[i])
  BY ListLen DEF IsList
<1>2. IsList(b, 1) /\ b[1] = SignedWord(p.sf)
  BY Tuples
<1>3. ScaledGroup(p) = Words(first, c)
  BY DEF ScaledGroup
<1> HIDE DEF a, b
<1>4. IsList(c, n + 1) /\ EndsWith(c, b, n, 1)
  BY <1>1, <1>2, ListConcat, Zenon
<1>5. StartsWith(c, a, n)
  BY <1>1, <1>2, ConcatFirst, Zenon
<1> HIDE DEF c
<1>6. c[n + 1] = b[1]
  <2>1. \A j \in (n + 1)..(n + 1) : c[j] = b[j - n]
    BY <1>4 DEF EndsWith
  <2>2. n + 1 \in (n + 1)..(n + 1) /\ (n + 1) - n = 1
    BY <1>1
  <2> QED BY <2>1, <2>2
<1>7. \A i \in 1..(n + 1) : im[first + i - 1] = <<"word", c[i]>>
  BY <1>3, <1>4, WordsRead
<1>8. n + 1 \in 1..(n + 1) /\ first + (n + 1) - 1 = first + n /\ \A i \in 1..n : i \in 1..(n + 1)
  BY <1>1
<1>9. im[first + n] = <<"word", c[n + 1]>>
  BY <1>7, <1>8
<1>10. ASSUME NEW i \in 1..n
       PROVE  im[first + i - 1] = <<"word", ScaledInt16(p, p.values[i])>>
  BY <1>1, <1>5, <1>7, <1>8 DEF StartsWith
<1> QED BY <1>2, <1>6, <1>9, <1>10
-----------------------------------------------------------------------------
(* Where the blocks are *)

\* A stack whose registers all come before the next block keeps that too.
Below(h, b) == \A r \in DOMAIN h : r \in Int /\ r <= b

LEMMA StackNext ==
    ASSUME NEW h, NEW g, NEW b \in Int, NEW c \in Int, NEW d \in Int,
           Below(h, b), Covers(g, c, d), b < c, b <= d
    PROVE  Below(h ++ g, d) /\ Keeps(h ++ g, g)
<1>1. ASSUME NEW r \in DOMAIN (h ++ g) PROVE r \in Int /\ r <= d
  <2>1. r \in DOMAIN h \/ r \in DOMAIN g
    BY <1>1, StackDomain
  <2> QED BY <2>1 DEF Below, Covers
<1>2. ASSUME NEW r \in DOMAIN g PROVE r \in DOMAIN (h ++ g) /\ (h ++ g)[r] = g[r]
  <2>1. r \notin DOMAIN h
    BY <1>2 DEF Below, Covers
  <2> QED BY <2>1, StackLast, StackDomain
<1> QED BY <1>1, <1>2 DEF Below, Keeps

LEMMA KeepsTransitive ==
    ASSUME NEW f, NEW g, NEW h, Keeps(h, g), Keeps(g, f)
    PROVE  Keeps(h, f)
BY DEF Keeps

\* The blocks of model 213 that a client reads.
LEMMA Body213Blocks ==
    ASSUME NEW s
    PROVE  /\ Keeps(Body213(s), Floats(40098, 100, FlowValues(s)))
           /\ Keeps(Body213(s), Floats(40106, 100, WithPhases(s, "apparent")))
           /\ Keeps(Body213(s), Floats(40122, 1000, FactorValues(s)))
           /\ Keeps(Body213(s), Floats(40130, 10, EnergyValues(s)))
<1> DEFINE f0 == Header(213, 124)
           f1 == Floats(40072, 1000, WithPhases(s, "current"))
           f2 == Floats(40080, 100, VoltageValues(s))
           f3 == Floats(40096, 1000, <<s.frequency>>)
           f4 == Floats(40098, 100, FlowValues(s))
           f5 == Floats(40106, 100, WithPhases(s, "apparent"))
           f6 == Floats(40122, 1000, FactorValues(s))
           f7 == Floats(40130, 10, EnergyValues(s))
           f8 == Words(40194, <<0, 0, 65535, 0>>)
           f9 == Floats(40072, 1, [i \in 1..61 |-> NoValue])
           h3 == f0 ++ f1 ++ f2 ++ f3
           h4 == h3 ++ f4
           h5 == h4 ++ f5
           h6 == h5 ++ f6
           h7 == h6 ++ f7
           h8 == h7 ++ f8
<1>1. Body213(s) = h8 ++ f9
  BY DEF Body213
<1>2. /\ IsList(WithPhases(s, "current"), 4) /\ IsList(VoltageValues(s), 8)
      /\ IsList(<<s.frequency>>, 1) /\ IsList(FlowValues(s), 4)
      /\ IsList(WithPhases(s, "apparent"), 4) /\ IsList(FactorValues(s), 4)
      /\ IsList(EnergyValues(s), 8)
  BY WithPhasesLen, VoltageValuesLen, OtherLens, Tuples
<1>3. Covers(f0, 40070, 40071)
  BY HeaderAre
<1>4. Covers(f1, 40072, 40079) /\ Covers(f2, 40080, 40095)
  <2>1. Covers(f1, 40072, 40079)
    BY <1>2, FloatsCover
  <2>2. Covers(f2, 40080, 40095)
    BY <1>2, FloatsCover
  <2> QED BY <2>1, <2>2
<1>5. Covers(f3, 40096, 40097) /\ Covers(f4, 40098, 40105)
  <2>1. Covers(f3, 40096, 40097)
    <3> DEFINE frequency == <<s.frequency>>
    <3>1. IsList(frequency, 1)
      BY <1>2
    <3> HIDE DEF frequency
    <3>2. Covers(Floats(40096, 1000, frequency), 40096, 40097)
      BY <3>1, FloatsCover
    <3> QED BY <3>2 DEF frequency
  <2>2. Covers(f4, 40098, 40105)
    BY <1>2, FloatsCover
  <2> QED BY <2>1, <2>2
<1>6. Covers(f5, 40106, 40113) /\ Covers(f7, 40130, 40145)
  <2>1. Covers(f5, 40106, 40113)
    BY <1>2, FloatsCover
  <2>2. Covers(f7, 40130, 40145)
    BY <1>2, FloatsCover
  <2> QED BY <2>1, <2>2
<1>7. Covers(f6, 40122, 40129)
  <2> DEFINE factors == FactorValues(s)
  <2>1. IsList(factors, 4)
    BY <1>2
  <2> HIDE DEF factors
  <2>2. Covers(Floats(40122, 1000, factors), 40122, 40129)
    BY <2>1, FloatsCover
  <2> QED BY <2>2 DEF factors
<1>8. Covers(f8, 40194, 40197)
  <2>1. IsList(<<0, 0, 65535, 0>>, 4)
    BY DEF IsList
  <2> QED BY <2>1, WordsCover
<1> HIDE DEF f0, f1, f2, f3, f4, f5, f6, f7, f8, f9
<1>9. Below(h3, 40097)
  <2>1. Below(f0, 40071)
    BY <1>3 DEF Below, Covers
  <2>2. Below(f0 ++ f1, 40079)
    BY <1>4, <2>1, StackNext
  <2>3. Below(f0 ++ f1 ++ f2, 40095)
    BY <1>4, <2>2, StackNext
  <2> QED BY <1>5, <2>3, StackNext
<1> HIDE DEF h3
<1>10. Below(h4, 40105) /\ Keeps(h4, f4)
  BY <1>5, <1>9, StackNext
<1> HIDE DEF h4
<1>11. Below(h5, 40113) /\ Keeps(h5, f5) /\ Keeps(h5, f4)
  <2>1. Below(h5, 40113) /\ Keeps(h5, f5)
    BY <1>6, <1>10, StackNext
  <2>2. Keeps(h5, f4)
    BY <1>10, StackKeeps
  <2> QED BY <2>1, <2>2
<1> HIDE DEF h5
<1>12. Below(h6, 40129) /\ Keeps(h6, f6) /\ Keeps(h6, f5) /\ Keeps(h6, f4)
  <2>1. Below(h6, 40129) /\ Keeps(h6, f6)
    BY <1>7, <1>11, StackNext
  <2>2. Keeps(h6, f5) /\ Keeps(h6, f4)
    BY <1>11, StackKeeps
  <2> QED BY <2>1, <2>2
<1> HIDE DEF h6
<1>13. Keeps(h7, f7) /\ Keeps(h7, f6) /\ Keeps(h7, f5) /\ Keeps(h7, f4)
  <2>1. Below(h7, 40145) /\ Keeps(h7, f7)
    BY <1>6, <1>12, StackNext
  <2>2. Keeps(h7, f6) /\ Keeps(h7, f5) /\ Keeps(h7, f4)
    BY <1>12, StackKeeps
  <2> QED BY <2>1, <2>2
<1> HIDE DEF h7
<1>14. Keeps(h8, f7) /\ Keeps(h8, f6) /\ Keeps(h8, f5) /\ Keeps(h8, f4)
  BY <1>13, StackKeeps DEF h8
<1> HIDE DEF h8
<1>15. Keeps(h8 ++ f9, f7) /\ Keeps(h8 ++ f9, f6) /\ Keeps(h8 ++ f9, f5) /\ Keeps(h8 ++ f9, f4)
  BY <1>14, StackKeeps
<1> QED BY <1>1, <1>15 DEF f4, f5, f6, f7

\* The accumulators of model 203, two words each, and the points after them,
\* of which the first is the scale factor of the energies.
EnergyWords(s) == [i \in 1..16 |-> Acc32Words(WholeWh(s, (i + 1) \div 2))[2 - (i % 2)]]
ReactiveWords == <<0>> \o [i \in 1..16 |-> 0] \o <<NotAvailable>>

LEMMA Body203Blocks ==
    ASSUME NEW s
    PROVE  /\ Keeps(Body203(s), ScaledGroup(Int16Groups(s)[4]))
           /\ Keeps(Body203(s), ScaledGroup(Int16Groups(s)[5]))
           /\ Keeps(Body203(s), ScaledGroup(Int16Groups(s)[6]))
           /\ Keeps(Body203(s), Words(40108, EnergyWords(s)))
           /\ Keeps(Body203(s), Words(40124, ReactiveWords))
<1> DEFINE zeros(n) == [i \in 1..n |-> 0]
           f0 == Header(203, 105)
           p1 == Int16Groups(s)[1]
           p2 == Int16Groups(s)[2]
           p3 == Int16Groups(s)[3]
           p4 == Int16Groups(s)[4]
           p5 == Int16Groups(s)[5]
           p6 == Int16Groups(s)[6]
           g1 == ScaledGroup(p1)
           g2 == ScaledGroup(p2)
           g3 == ScaledGroup(p3)
           g4 == ScaledGroup(p4)
           g5 == ScaledGroup(p5)
           g6 == ScaledGroup(p6)
           unused == [i \in 1..5 |-> NotAvailable]
           rest == zeros(32) \o <<NotAvailable, 0, 0, 65535, 0>>
           w1 == Words(40098, unused)
           w2 == Words(40108, EnergyWords(s))
           w3 == Words(40124, ReactiveWords)
           w4 == Words(40142, rest)
           h3 == f0 ++ g1 ++ g2 ++ g3
           h4 == h3 ++ g4
           h5 == h4 ++ g5
           h6 == h5 ++ w1
           h7 == h6 ++ g6
           h8 == h7 ++ w2
           h9 == h8 ++ w3
<1>1. Body203(s) = h9 ++ w4
  BY DEF Body203, EnergyWords, ReactiveWords
<1>2. Covers(f0, 40070, 40071)
  BY HeaderAre
<1>3. /\ p1.at = 40072 /\ p1.values = WithPhases(s, "current")
      /\ p2.at = 40077 /\ p2.values = VoltageValues(s)
      /\ p3.at = 40086 /\ p3.values = <<s.frequency>>
      /\ p4.at = 40088 /\ p4.values = FlowValues(s)
      /\ p5.at = 40093 /\ p5.values = WithPhases(s, "apparent")
      /\ p6.at = 40103 /\ p6.values = FactorValues(s)
  BY DEF Int16Groups
<1> HIDE DEF p1, p2, p3, p4, p5, p6
<1>4. /\ IsList(p1.values, 4) /\ IsList(p2.values, 8) /\ IsList(p5.values, 4)
      /\ IsList(p4.values, 4) /\ IsList(p6.values, 4)
  BY <1>3, WithPhasesLen, VoltageValuesLen, OtherLens
<1>5. IsList(p3.values, 1)
  BY <1>3 DEF IsList
<1>6. Covers(g1, 40072, 40076) /\ Covers(g2, 40077, 40085)
  BY <1>3, <1>4, GroupCovers
<1>7. Covers(g3, 40086, 40087)
  BY <1>3, <1>5, GroupCovers
<1>8. Covers(g4, 40088, 40092) /\ Covers(g5, 40093, 40097)
  BY <1>3, <1>4, GroupCovers
<1>9. Covers(g6, 40103, 40107)
  BY <1>3, <1>4, GroupCovers
<1>10. IsList(unused, 5) /\ IsList(EnergyWords(s), 16)
  BY DEF IsList, EnergyWords
<1>11. IsList(ReactiveWords, 18)
  <2>1. IsList(zeros(16), 16)
    BY ZerosLen
  <2> HIDE DEF zeros
  <2>2. IsList(<<0>> \o zeros(16) \o <<NotAvailable>>, 18)
    BY <2>1, ReactiveLen
  <2> QED BY <2>2 DEF ReactiveWords, zeros
<1>12. Covers(w1, 40098, 40102)
  BY <1>10, WordsCover
<1>13. Covers(w2, 40108, 40123) /\ Covers(w3, 40124, 40141)
  <2>1. Covers(w2, 40108, 40123)
    BY <1>10, WordsCover
  <2>2. Covers(w3, 40124, 40141)
    BY <1>11, WordsCover
  <2> QED BY <2>1, <2>2
<1> HIDE DEF f0, g1, g2, g3, g4, g5, g6, w1, w2, w3, w4
<1>14. Below(h3, 40087)
  <2>1. Below(f0, 40071)
    BY <1>2 DEF Below, Covers
  <2>2. Below(f0 ++ g1, 40076)
    BY <1>6, <2>1, StackNext
  <2>3. Below(f0 ++ g1 ++ g2, 40085)
    BY <1>6, <2>2, StackNext
  <2> QED BY <1>7, <2>3, StackNext
<1> HIDE DEF h3
<1>15. Below(h4, 40092) /\ Keeps(h4, g4)
  BY <1>8, <1>14, StackNext
<1> HIDE DEF h4
<1>16. Below(h5, 40097) /\ Keeps(h5, g5) /\ Keeps(h5, g4)
  <2>1. Below(h5, 40097) /\ Keeps(h5, g5)
    BY <1>8, <1>15, StackNext
  <2>2. Keeps(h5, g4)
    BY <1>15, StackKeeps
  <2> QED BY <2>1, <2>2
<1> HIDE DEF h5
<1>17. Below(h6, 40102) /\ Keeps(h6, g5) /\ Keeps(h6, g4)
  <2>1. Below(h6, 40102)
    BY <1>12, <1>16, StackNext
  <2>2. Keeps(h6, g5) /\ Keeps(h6, g4)
    BY <1>16, StackKeeps
  <2> QED BY <2>1, <2>2
<1> HIDE DEF h6
<1>18. Below(h7, 40107) /\ Keeps(h7, g6) /\ Keeps(h7, g5) /\ Keeps(h7, g4)
  <2>1. Below(h7, 40107) /\ Keeps(h7, g6)
    BY <1>9, <1>17, StackNext
  <2>2. Keeps(h7, g5) /\ Keeps(h7, g4)
    BY <1>17, StackKeeps
  <2> QED BY <2>1, <2>2
<1> HIDE DEF h7
<1>19. Below(h8, 40123) /\ Keeps(h8, w2) /\ Keeps(h8, g6) /\ Keeps(h8, g5) /\ Keeps(h8, g4)
  <2>1. Below(h8, 40123) /\ Keeps(h8, w2)
    BY <1>13, <1>18, StackNext
  <2>2. Keeps(h8, g6) /\ Keeps(h8, g5) /\ Keeps(h8, g4)
    BY <1>18, StackKeeps
  <2> QED BY <2>1, <2>2
<1> HIDE DEF h8
<1>20. Keeps(h9, w3) /\ Keeps(h9, w2) /\ Keeps(h9, g6) /\ Keeps(h9, g5) /\ Keeps(h9, g4)
  <2>1. Below(h9, 40141) /\ Keeps(h9, w3)
    BY <1>13, <1>19, StackNext
  <2>2. Keeps(h9, w2) /\ Keeps(h9, g6) /\ Keeps(h9, g5) /\ Keeps(h9, g4)
    BY <1>19, StackKeeps
  <2> QED BY <2>1, <2>2
<1> HIDE DEF h9
<1>21. /\ Keeps(h9 ++ w4, w3) /\ Keeps(h9 ++ w4, w2) /\ Keeps(h9 ++ w4, g6)
       /\ Keeps(h9 ++ w4, g5) /\ Keeps(h9 ++ w4, g4)
  BY <1>20, StackKeeps
<1> QED BY <1>1, <1>21 DEF g4, g5, g6, w2, w3, p4, p5, p6

\* The image has the body of its model.
LEMMA RegistersKeep ==
    ASSUME NEW m \in MeterModels, NEW unit, NEW s
    PROVE  Keeps(Registers(m, unit, s), IF m = 203 THEN Body203(s) ELSE Body213(s))
<1> DEFINE f == Words(40001, <<21365, 28243, 1, 65>>)
           t == [r \in 40005..40068 |-> <<"text", 0>>]
           u == Words(40069, <<unit>>)
           b == IF m = 203 THEN Body203(s) ELSE Body213(s)
           h == f ++ t ++ u
<1>1. Registers(m, unit, s) = h ++ b
  BY DEF Registers
<1>2. Covers(f, 40001, 40004) /\ Covers(t, 40005, 40068) /\ Covers(u, 40069, 40069)
  <2>1. IsList(<<21365, 28243, 1, 65>>, 4) /\ IsList(<<unit>>, 1)
    BY DEF IsList
  <2>2. Covers(f, 40001, 40004)
    BY <2>1, WordsCover
  <2>3. Covers(u, 40069, 40069)
    BY <2>1, WordsCover
  <2>4. Covers(t, 40005, 40068)
    BY DEF Covers
  <2> QED BY <2>2, <2>3, <2>4
<1>3. PICK e \in Int : e >= 40070 /\ Covers(b, 40070, e)
  <2>1. CASE m = 203
    BY <2>1, Body203Is
  <2>2. CASE m = 213
    BY <2>2, Body213Is
  <2> QED BY <2>1, <2>2 DEF MeterModels
<1> HIDE DEF f, t, u, b
<1>4. Below(h, 40069)
  <2>1. Below(f, 40004)
    BY <1>2 DEF Below, Covers
  <2>2. Below(f ++ t, 40068)
    BY <1>2, <2>1, StackNext
  <2> QED BY <1>2, <2>2, StackNext
<1> HIDE DEF h
<1>5. Keeps(h ++ b, b)
  BY <1>3, <1>4, StackNext
<1> QED BY <1>1, <1>5 DEF b
-----------------------------------------------------------------------------
(* Every word of the image has 16 bits *)

Words16(f) == \A r \in DOMAIN f : f[r][1] = "word" => IsWord16(f[r][2])

LEMMA StackWords16 ==
    ASSUME NEW h, NEW g, Words16(h), Words16(g)
    PROVE  Words16(h ++ g)
<1> SUFFICES ASSUME NEW r \in DOMAIN (h ++ g), (h ++ g)[r][1] = "word"
             PROVE  IsWord16((h ++ g)[r][2])
  BY DEF Words16
<1>1. \/ r \in DOMAIN h /\ (h ++ g)[r] = h[r]
      \/ r \in DOMAIN g /\ (h ++ g)[r] = g[r]
  BY DEF ++
<1> QED BY <1>1 DEF Words16

LEMMA FloatsWords16 == ASSUME NEW first, NEW unit, NEW a PROVE Words16(Floats(first, unit, a))
BY DEF Words16, Floats

LEMMA WordsWords16 ==
    ASSUME NEW first \in Int, NEW a, NEW n, IsList(a, n), \A i \in 1..n : IsWord16(a[i])
    PROVE  Words16(Words(first, a))
<1>1. n \in Nat /\ Len(a) = n
  BY ListLen DEF IsList
<1> SUFFICES ASSUME NEW r \in DOMAIN Words(first, a)
             PROVE  IsWord16(Words(first, a)[r][2])
  BY DEF Words16
<1>2. r \in first..(first + n - 1) /\ Words(first, a)[r] = <<"word", a[r - first + 1]>>
  BY <1>1 DEF Words
<1>3. r - first + 1 \in 1..n
  BY <1>1, <1>2
<1> QED BY <1>2, <1>3

LEMMA Int16RangeIs ==
    ASSUME NEW x \in Int16Range PROVE x \in Int /\ -32767 <= x /\ x <= 32767
<1> DEFINE b == 32767
<1>1. x \in -b..b /\ b \in Int
  BY DEF Int16Range
<1> HIDE DEF b
<1>2. x \in Int /\ -b <= x /\ x <= b
  BY <1>1
<1> QED BY <1>2 DEF b

\* The values of a group fit their points (build_registers raises otherwise).
GroupFits(p) ==
    \A i \in DOMAIN p.values :
        p.values[i] # NoValue => RoundDiv(p.values[i], 10^(p.unit + p.sf)) \in Int16Range

LEMMA GroupWords16 ==
    ASSUME NEW p, NEW first \in Int, p.at = first, NEW n, IsList(p.values, n),
           p.sf \in Int, GroupFits(p)
    PROVE  Words16(ScaledGroup(p))
<1> DEFINE a == [i \in DOMAIN p.values |-> ScaledInt16(p, p.values[i])]
           b == <<SignedWord(p.sf)>>
           c == a \o b
<1>1. IsList(a, n) /\ n \in Nat /\ \A i \in 1..n : a[i] = ScaledInt16(p, p.values[i])
  BY ListLen DEF IsList
<1>2. IsList(b, 1) /\ b[1] = SignedWord(p.sf)
  BY Tuples
<1>3. ScaledGroup(p) = Words(first, c)
  BY DEF ScaledGroup
<1>4. ASSUME NEW i \in 1..n PROVE IsWord16(a[i])
  <2>1. i \in DOMAIN p.values
    BY ListLen
  <2>2. CASE p.values[i] = NoValue
    <3>1. a[i] = ScaledInt16(p, NoValue)
      BY <1>1, <2>2
    <3>3. ScaledInt16(p, NoValue) = NotAvailable
      BY Zenon DEF ScaledInt16
    <3>2. IsWord16(NotAvailable)
      BY DEF NotAvailable, IsWord16
    <3> QED BY <3>1, <3>2, <3>3
  <2>3. CASE p.values[i] # NoValue
    <3> DEFINE x == RoundDiv(p.values[i], 10^(p.unit + p.sf))
    <3>1. x \in Int /\ -32767 <= x /\ x <= 32767
      BY <2>1, <2>3, Int16RangeIs DEF GroupFits
    <3>2. a[i] = SignedWord(x)
      BY <1>1, <2>3 DEF ScaledInt16
    <3> HIDE DEF x
    <3> QED BY <3>1, <3>2, SignedWordIs
  <2> QED BY <2>2, <2>3
<1>5. IsWord16(b[1])
  BY <1>2 DEF SignedWord, IsWord16
<1> HIDE DEF a, b
<1>6. IsList(c, n + 1) /\ EndsWith(c, b, n, 1)
  BY <1>1, <1>2, ListConcat, Zenon
<1>7. StartsWith(c, a, n)
  BY <1>1, <1>2, ConcatFirst, Zenon
<1> HIDE DEF c
<1>8. c[n + 1] = b[1]
  <2>1. \A j \in (n + 1)..(n + 1) : c[j] = b[j - n]
    BY <1>6 DEF EndsWith
  <2>2. n + 1 \in (n + 1)..(n + 1) /\ (n + 1) - n = 1
    BY <1>1
  <2> QED BY <2>1, <2>2
<1>9. \A i \in 1..n : IsWord16(c[i])
  BY <1>4, <1>7 DEF StartsWith
<1>10. \A i \in 1..(n + 1) : IsWord16(c[i])
  BY <1>1, <1>5, <1>8, <1>9
<1> QED BY <1>3, <1>6, <1>10, WordsWords16

\* An accumulator that fits has two words that fit.
LEMMA Acc32Words16 ==
    ASSUME NEW wh \in 0..Acc32Max
    PROVE  IsWord16(Acc32Words(wh)[1]) /\ IsWord16(Acc32Words(wh)[2])
<1>1. Acc32Words(wh)[1] = wh \div 65536 /\ Acc32Words(wh)[2] = wh % 65536
  BY DEF Acc32Words
<1>2. Acc32Max \in Nat /\ Acc32Max \div 65536 < 65536 /\ wh \in Nat /\ wh <= Acc32Max
  BY SunSpecAssumption
<1> QED BY <1>1, <1>2 DEF IsWord16

ListWords16(a, n) == \A i \in 1..n : IsWord16(a[i])

LEMMA ConcatWords16 ==
    ASSUME NEW a, NEW b, NEW m, NEW n, IsList(a, m), IsList(b, n),
           ListWords16(a, m), ListWords16(b, n)
    PROVE  IsList(a \o b, m + n) /\ ListWords16(a \o b, m + n)
<1> DEFINE c == a \o b
<1>1. IsList(c, m + n) /\ EndsWith(c, b, m, n) /\ StartsWith(c, a, m) /\ m \in Nat /\ n \in Nat
  BY ListConcat, ConcatFirst, Zenon DEF IsList
<1> HIDE DEF c
<1>2. ASSUME NEW i \in 1..(m + n) PROVE IsWord16(c[i])
  <2>1. CASE i <= m
    BY <1>1, <2>1 DEF StartsWith, ListWords16
  <2>2. CASE i > m
    <3>1. i \in (m + 1)..(m + n) /\ i - m \in 1..n
      BY <1>1, <2>2
    <3>2. c[i] = b[i - m]
      BY <1>1, <3>1 DEF EndsWith
    <3> QED BY <3>1, <3>2 DEF ListWords16
  <2> QED BY <1>1, <2>1, <2>2
<1> QED BY <1>1, <1>2 DEF ListWords16, c

LEMMA Body213Words16 == ASSUME NEW s PROVE Words16(Body213(s))
<1> DEFINE f0 == Header(213, 124)
           f1 == Floats(40072, 1000, WithPhases(s, "current"))
           f2 == Floats(40080, 100, VoltageValues(s))
           f3 == Floats(40096, 1000, <<s.frequency>>)
           f4 == Floats(40098, 100, FlowValues(s))
           f5 == Floats(40106, 100, WithPhases(s, "apparent"))
           f6 == Floats(40122, 1000, FactorValues(s))
           f7 == Floats(40130, 10, EnergyValues(s))
           f8 == Words(40194, <<0, 0, 65535, 0>>)
           f9 == Floats(40072, 1, [i \in 1..61 |-> NoValue])
<1>1. Body213(s) = f0 ++ f1 ++ f2 ++ f3 ++ f4 ++ f5 ++ f6 ++ f7 ++ f8 ++ f9
  BY DEF Body213
<1>2. Words16(f0)
  <2> DEFINE a == <<213, 124>>
  <2>1. IsList(a, 2) /\ \A i \in 1..2 : IsWord16(a[i])
    BY DEF IsList, IsWord16
  <2>2. f0 = Words(40070, a)
    BY DEF Header
  <2> HIDE DEF a
  <2> QED BY <2>1, <2>2, WordsWords16
<1>3. Words16(f8)
  <2> DEFINE a == <<0, 0, 65535, 0>>
  <2>1. IsList(a, 4) /\ \A i \in 1..4 : IsWord16(a[i])
    BY DEF IsList, IsWord16
  <2> HIDE DEF a
  <2>2. Words16(Words(40194, a))
    BY <2>1, WordsWords16
  <2> QED BY <2>2 DEF a
<1>4. /\ Words16(f1) /\ Words16(f2) /\ Words16(f3) /\ Words16(f4) /\ Words16(f5)
      /\ Words16(f6) /\ Words16(f7) /\ Words16(f9)
  <2> DEFINE a2 == VoltageValues(s)
             a3 == <<s.frequency>>
             a4 == FlowValues(s)
             a6 == FactorValues(s)
             a9 == [i \in 1..61 |-> NoValue]
  <2> HIDE DEF a2, a3, a4, a6, a9
  <2>1. /\ Words16(Floats(40080, 100, a2)) /\ Words16(Floats(40096, 1000, a3))
        /\ Words16(Floats(40098, 100, a4))
        /\ Words16(Floats(40122, 1000, a6)) /\ Words16(Floats(40072, 1, a9))
    BY FloatsWords16
  <2>2. Words16(f1) /\ Words16(f5) /\ Words16(f7)
    BY FloatsWords16
  <2> QED BY <2>1, <2>2 DEF a2, a3, a4, a6, a9
<1> HIDE DEF f0, f1, f2, f3, f4, f5, f6, f7, f8, f9
<1>5. Words16(f0 ++ f1 ++ f2 ++ f3)
  BY <1>2, <1>4, StackWords16, Zenon
<1>6. Words16(f0 ++ f1 ++ f2 ++ f3 ++ f4 ++ f5 ++ f6)
  BY <1>4, <1>5, StackWords16, Zenon
<1> QED BY <1>1, <1>3, <1>4, <1>6, StackWords16, Zenon

\* Model 203 shows only what fits, for build_registers raises otherwise.
LEMMA Body203Words16 == ASSUME NEW s, Fits203(s) PROVE Words16(Body203(s))
<1> DEFINE zeros(n) == [i \in 1..n |-> 0]
           f0 == Header(203, 105)
           p(i) == Int16Groups(s)[i]
           unused == [i \in 1..5 |-> NotAvailable]
           tail == <<NotAvailable, 0, 0, 65535, 0>>
           rest == zeros(32) \o tail
           w1 == Words(40098, unused)
           w2 == Words(40108, EnergyWords(s))
           w3 == Words(40124, ReactiveWords)
           w4 == Words(40142, rest)
<1>1. Body203(s) = f0 ++ ScaledGroup(p(1)) ++ ScaledGroup(p(2)) ++ ScaledGroup(p(3))
                      ++ ScaledGroup(p(4)) ++ ScaledGroup(p(5)) ++ w1 ++ ScaledGroup(p(6))
                      ++ w2 ++ w3 ++ w4
  BY DEF Body203, EnergyWords, ReactiveWords
<1>2. Words16(f0)
  <2> DEFINE a == <<203, 105>>
  <2>1. IsList(a, 2) /\ \A i \in 1..2 : IsWord16(a[i])
    BY DEF IsList, IsWord16
  <2>2. f0 = Words(40070, a)
    BY DEF Header
  <2> HIDE DEF a
  <2> QED BY <2>1, <2>2, WordsWords16
<1>3. /\ p(1).at = 40072 /\ p(1).values = WithPhases(s, "current")
      /\ p(2).at = 40077 /\ p(2).values = VoltageValues(s)
      /\ p(3).at = 40086 /\ p(3).values = <<s.frequency>>
      /\ p(4).at = 40088 /\ p(4).values = FlowValues(s)
      /\ p(5).at = 40093 /\ p(5).values = WithPhases(s, "apparent")
      /\ p(6).at = 40103 /\ p(6).values = FactorValues(s)
  BY DEF Int16Groups
<1>4. /\ p(1).sf \in Int /\ p(2).sf \in Int /\ p(3).sf \in Int
      /\ p(4).sf \in Int /\ p(5).sf \in Int /\ p(6).sf \in Int
  BY DEF Int16Groups
<1>5. /\ GroupFits(p(1)) /\ GroupFits(p(2)) /\ GroupFits(p(3))
      /\ GroupFits(p(4)) /\ GroupFits(p(5)) /\ GroupFits(p(6))
  <2>1. \A g \in 1..6 : GroupFits(p(g))
    BY DEF Fits203, GroupFits
  <2> HIDE DEF p
  <2>2. 1 \in 1..6 /\ 2 \in 1..6 /\ 3 \in 1..6 /\ 4 \in 1..6 /\ 5 \in 1..6 /\ 6 \in 1..6
    OBVIOUS
  <2> QED BY <2>1, <2>2, Zenon
<1> HIDE DEF p
<1>6. /\ IsList(p(1).values, 4) /\ IsList(p(2).values, 8) /\ IsList(p(5).values, 4)
      /\ IsList(p(4).values, 4) /\ IsList(p(6).values, 4)
  BY <1>3, WithPhasesLen, VoltageValuesLen, OtherLens
<1>7. IsList(p(3).values, 1)
  BY <1>3 DEF IsList
<1>8. Words16(ScaledGroup(p(1)))
  BY <1>3, <1>4, <1>5, <1>6, GroupWords16
<1>9. Words16(ScaledGroup(p(2)))
  BY <1>3, <1>4, <1>5, <1>6, GroupWords16
<1>10. Words16(ScaledGroup(p(3)))
  BY <1>3, <1>4, <1>5, <1>7, GroupWords16
<1>11. Words16(ScaledGroup(p(4)))
  BY <1>3, <1>4, <1>5, <1>6, GroupWords16
<1>12. Words16(ScaledGroup(p(5)))
  BY <1>3, <1>4, <1>5, <1>6, GroupWords16
<1>13. Words16(ScaledGroup(p(6)))
  BY <1>3, <1>4, <1>5, <1>6, GroupWords16
<1>14. Words16(w1)
  <2>1. IsList(unused, 5) /\ \A i \in 1..5 : IsWord16(unused[i])
    BY DEF IsList, IsWord16, NotAvailable
  <2> HIDE DEF unused
  <2> QED BY <2>1, WordsWords16
<1>15. Words16(w2)
  <2>1. \A i \in 1..8 : WholeWh(s, i) \in 0..Acc32Max
    BY DEF Fits203
  <2>2. ASSUME NEW i \in 1..16 PROVE IsWord16(EnergyWords(s)[i])
    <3> DEFINE wh == WholeWh(s, (i + 1) \div 2)
    <3>1. wh \in 0..Acc32Max
      <4>1. (i + 1) \div 2 \in 1..8
        OBVIOUS
      <4> QED BY <2>1, <4>1
    <3>2. EnergyWords(s)[i] = Acc32Words(wh)[2 - (i % 2)]
      BY DEF EnergyWords
    <3> HIDE DEF wh
    <3>3. IsWord16(Acc32Words(wh)[1]) /\ IsWord16(Acc32Words(wh)[2])
      BY <3>1, Acc32Words16
    <3>4. 2 - (i % 2) \in {1, 2}
      OBVIOUS
    <3> QED BY <3>2, <3>3, <3>4
  <2>3. IsList(EnergyWords(s), 16)
    BY DEF IsList, EnergyWords
  <2> QED BY <2>2, <2>3, WordsWords16
<1>16. Words16(w3)
  <2> DEFINE one == <<0>>
             z == zeros(16)
             x == <<NotAvailable>>
  <2>1. IsList(one, 1) /\ IsList(z, 16) /\ IsList(x, 1)
    BY DEF IsList
  <2>2. ListWords16(one, 1) /\ ListWords16(x, 1) /\ ListWords16(z, 16)
    BY DEF ListWords16, IsWord16, NotAvailable
  <2>3. ReactiveWords = one \o z \o x
    BY DEF ReactiveWords
  <2> HIDE DEF one, z, x
  <2>4. IsList(one \o z, 1 + 16) /\ ListWords16(one \o z, 1 + 16)
    BY <2>1, <2>2, ConcatWords16
  <2>5. IsList(one \o z \o x, (1 + 16) + 1) /\ ListWords16(one \o z \o x, (1 + 16) + 1)
    BY <2>1, <2>2, <2>4, ConcatWords16
  <2> DEFINE c == one \o z \o x
  <2>7. IsList(c, (1 + 16) + 1) /\ ListWords16(c, (1 + 16) + 1) /\ w3 = Words(40124, c)
    BY <2>3, <2>5
  <2> HIDE DEF c, w3
  <2>6. IsList(c, 18) /\ \A i \in 1..18 : IsWord16(c[i])
    BY <2>7 DEF ListWords16
  <2> QED BY <2>6, <2>7, WordsWords16
<1>17. Words16(w4)
  <2> DEFINE z == zeros(32)
  <2>1. IsList(z, 32) /\ ListWords16(z, 32)
    BY DEF IsList, ListWords16, IsWord16
  <2>2. IsList(tail, 5) /\ ListWords16(tail, 5)
    BY DEF IsList, ListWords16, IsWord16, NotAvailable
  <2>3. rest = z \o tail
    OBVIOUS
  <2> HIDE DEF z, tail, rest
  <2>4. IsList(rest, 32 + 5) /\ ListWords16(rest, 32 + 5)
    BY <2>1, <2>2, <2>3, ConcatWords16
  <2> QED BY <2>4, WordsWords16 DEF ListWords16
<1> HIDE DEF f0, w1, w2, w3, w4
<1>18. Words16(f0 ++ ScaledGroup(p(1)) ++ ScaledGroup(p(2)) ++ ScaledGroup(p(3)))
  BY <1>2, <1>8, <1>9, <1>10, StackWords16, Zenon
<1>19. Words16(f0 ++ ScaledGroup(p(1)) ++ ScaledGroup(p(2)) ++ ScaledGroup(p(3))
                  ++ ScaledGroup(p(4)) ++ ScaledGroup(p(5)) ++ w1 ++ ScaledGroup(p(6)))
  BY <1>11, <1>12, <1>13, <1>14, <1>18, StackWords16, Zenon
<1> QED BY <1>1, <1>15, <1>16, <1>17, <1>19, StackWords16, Zenon

\* build_registers makes 16-bit words of whatever it does not refuse, as
\* RegisterBank.replace demands.
THEOREM ImageIsWords ==
    ASSUME NEW m \in MeterModels, NEW unit, IsWord16(unit), NEW s, Buildable(m, s)
    PROVE  Words16(Registers(m, unit, s))
<1> DEFINE f == Words(40001, <<21365, 28243, 1, 65>>)
           t == [r \in 40005..40068 |-> <<"text", 0>>]
           u == Words(40069, <<unit>>)
           b == IF m = 203 THEN Body203(s) ELSE Body213(s)
<1>1. Registers(m, unit, s) = f ++ t ++ u ++ b
  BY DEF Registers
<1>2. Words16(f)
  <2> DEFINE a == <<21365, 28243, 1, 65>>
  <2>1. IsList(a, 4) /\ \A i \in 1..4 : IsWord16(a[i])
    BY DEF IsList, IsWord16
  <2> HIDE DEF a
  <2>2. Words16(Words(40001, a))
    BY <2>1, WordsWords16
  <2> QED BY <2>2 DEF a
<1>3. Words16(t)
  BY DEF Words16
<1>4. Words16(u)
  <2> DEFINE a == <<unit>>
  <2>1. IsList(a, 1) /\ \A i \in 1..1 : IsWord16(a[i])
    BY DEF IsList
  <2> HIDE DEF a
  <2>2. Words16(Words(40069, a))
    BY <2>1, WordsWords16
  <2> QED BY <2>2 DEF a
<1>5. Words16(b)
  BY Body203Words16, Body213Words16 DEF Buildable
<1> HIDE DEF f, t, u, b
<1> QED BY <1>1, <1>2, <1>3, <1>4, <1>5, StackWords16, Zenon
-----------------------------------------------------------------------------
(* The value groups, value by value *)

LEMMA WithPhasesAre ==
    ASSUME NEW s, NEW q
    PROVE  /\ WithPhases(s, q)[1] = TotalOf(s, q)
           /\ \A i \in 1..3 : WithPhases(s, q)[i + 1] = PhaseValues(s, q)[i]
<1> DEFINE a == <<TotalOf(s, q)>>
           b == PhaseValues(s, q)
           c == a \o b
<1>1. IsList(a, 1) /\ IsList(b, 3) /\ a[1] = TotalOf(s, q)
  BY PhaseValuesLen, Tuples
<1>2. WithPhases(s, q) = c
  BY DEF WithPhases
<1> HIDE DEF a, b
<1>3. EndsWith(c, b, 1, 3) /\ StartsWith(c, a, 1)
  BY <1>1, ListConcat, ConcatFirst, Zenon
<1> HIDE DEF c
<1>4. c[1] = a[1]
  BY <1>3 DEF StartsWith
<1>5. ASSUME NEW i \in 1..3 PROVE c[i + 1] = b[i]
  <2>1. i + 1 \in (1 + 1)..(1 + 3) /\ (i + 1) - 1 = i
    OBVIOUS
  <2>2. \A j \in (1 + 1)..(1 + 3) : c[j] = b[j - 1]
    BY <1>3 DEF EndsWith
  <2>3. c[i + 1] = b[(i + 1) - 1]
    BY <2>1, <2>2
  <2> QED BY <2>1, <2>3
<1> QED BY <1>1, <1>2, <1>4, <1>5 DEF b

LEMMA FlowValuesAre ==
    ASSUME NEW s
    PROVE  /\ FlowValues(s)[1] = -TotalOf(s, "power")
           /\ \A i \in 1..3 : FlowValues(s)[i + 1] = -PhaseValues(s, "power")[i]
<1>1. \A j \in 1..4 : FlowValues(s)[j] = -WithPhases(s, "power")[j]
  BY DEF FlowValues
<1>2. FlowValues(s)[1] = -WithPhases(s, "power")[1]
  BY <1>1
<1>3. ASSUME NEW i \in 1..3 PROVE FlowValues(s)[i + 1] = -WithPhases(s, "power")[i + 1]
  BY <1>1
<1> QED BY <1>2, <1>3, WithPhasesAre

LEMMA FactorValueIs ==
    ASSUME NEW s
    PROVE  FactorValues(s)[1] = PowerFactor(TotalOf(s, "power"), TotalOf(s, "apparent"))
<1>1. FactorValues(s)[1] = PowerFactor(WithPhases(s, "power")[1], WithPhases(s, "apparent")[1])
  BY DEF FactorValues
<1> QED BY <1>1, WithPhasesAre

LEMMA EnergyValuesAre ==
    ASSUME NEW s
    PROVE  /\ EnergyValues(s)[1] = TotalOf(s, "exported")
           /\ \A i \in 1..3 : EnergyValues(s)[i + 1] = PhaseValues(s, "exported")[i]
<1> DEFINE a == WithPhases(s, "exported")
           b == <<0, 0, 0, 0>>
           c == a \o b
<1>1. IsList(a, 4) /\ IsList(b, 4)
  BY WithPhasesLen, Tuples
<1>2. EnergyValues(s) = c
  BY DEF EnergyValues
<1> HIDE DEF b
<1>3. StartsWith(c, a, 4)
  BY <1>1, ConcatFirst, Zenon
<1> HIDE DEF c
<1>4. \A j \in 1..4 : c[j] = WithPhases(s, "exported")[j]
  BY <1>3 DEF StartsWith
<1>5. c[1] = WithPhases(s, "exported")[1]
  BY <1>4
<1>6. ASSUME NEW i \in 1..3 PROVE c[i + 1] = WithPhases(s, "exported")[i + 1]
  BY <1>4
<1> QED BY <1>2, <1>5, <1>6, WithPhasesAre

\* There is a power factor exactly when there is apparent power.
LEMMA PowerFactorIs ==
    ASSUME NEW power \in Nat, NEW apparent \in Nat
    PROVE  IF apparent = 0 THEN PowerFactor(power, apparent) = NoValue
           ELSE PowerFactor(power, apparent) \in -1000..1000
<1>1. CASE apparent = 0
  BY <1>1 DEF PowerFactor
<1>2. CASE apparent # 0
  <2>1. (1000 * power) \div apparent \in Int
    BY <1>2
  <2>2. RoundDiv(1000 * power, apparent) \in Int
    <3> DEFINE q == (1000 * power) \div apparent
    <3>1. RoundDiv(1000 * power, apparent) \in {q, q + 1}
      BY Zenon DEF RoundDiv
    <3> HIDE DEF q
    <3> QED BY <2>1, <3>1 DEF q
  <2> QED BY <1>2, <2>2 DEF PowerFactor
<1> QED BY <1>1, <1>2
-----------------------------------------------------------------------------
(* Sums.  SumFunction is a recursion over the subsets of a domain; what is   *)
(* true of every finite set is proved for the smallest set that breaks it.   *)

Pick(s) == CHOOSE x \in s : TRUE

\* The recursion that SumFunction stands for, on the subsets of S.
Partial(g, S) ==
    LET iter[s \in SUBSET S] == IF s = {} THEN 0 ELSE g[Pick(s)] + iter[s \ {Pick(s)}]
    IN  iter

IsPartial(F, g, S) ==
    F = [s \in SUBSET S |-> IF s = {} THEN 0 ELSE g[Pick(s)] + F[s \ {Pick(s)}]]

SumOver(g, s) == Partial(g, s)[s]

LEMMA SumMeans ==
    ASSUME NEW g
    PROVE  SumFunction(g) = SumOver(g, DOMAIN g)
  BY DEF SumFunction, SumFunctionOnSet, FoldFunctionOnSet, MapThenFoldSet, SumOver, Partial, Pick

LEMMA SmallestSet ==
    ASSUME NEW S, IsFiniteSet(S), NEW T \in SUBSET SUBSET S, T # {}
    PROVE  \E t \in T : \A u \in T : ~(u \subseteq t /\ u # t)
<1> DEFINE R == StrictSubsetOrdering(S)
<1>1. IsWellFoundedOn(R, SUBSET S)
  BY FS_FiniteSubsetsOfFinite, FS_StrictSubsetOrderingWellFounded
<1>2. \E x \in T : \A y \in T : ~ (<<y, x>> \in R)
  <2> HIDE DEF R
  <2> QED BY <1>1, WFMin
<1>3. QED BY <1>2 DEF StrictSubsetOrdering

LEMMA PickIn == ASSUME NEW s, s # {} PROVE Pick(s) \in s
  BY DEF Pick

LEMMA PartialsAgree ==
    ASSUME NEW g, NEW S, NEW T, NEW F, NEW H, IsPartial(F, g, S), IsPartial(H, g, T),
           NEW s, s \subseteq S, s \subseteq T, IsFiniteSet(s)
    PROVE  F[s] = H[s]
<1> SUFFICES ASSUME F[s] # H[s] PROVE FALSE
  OBVIOUS
<1> DEFINE D == {t \in SUBSET s : F[t] # H[t]}
<1>1. PICK t \in D : \A u \in D : ~(u \subseteq t /\ u # t)
  <2>1. D \in SUBSET SUBSET s /\ D # {}
    OBVIOUS
  <2> HIDE DEF D
  <2>2. QED BY <2>1, SmallestSet
<1>2. t \in SUBSET S /\ t \in SUBSET T
  OBVIOUS
<1>3. /\ F[t] = IF t = {} THEN 0 ELSE g[Pick(t)] + F[t \ {Pick(t)}]
      /\ H[t] = IF t = {} THEN 0 ELSE g[Pick(t)] + H[t \ {Pick(t)}]
  BY <1>2 DEF IsPartial
<1>4. CASE t = {}
  BY <1>3, <1>4
<1>5. CASE t # {}
  <2>1. Pick(t) \in t
    BY <1>5, PickIn
  <2>2. F[t \ {Pick(t)}] = H[t \ {Pick(t)}]
    BY <1>1, <2>1
  <2>3. QED BY <1>3, <2>2
<1>6. QED BY <1>4, <1>5

LEMMA PartialExists ==
    ASSUME NEW g, NEW S, IsFiniteSet(S)
    PROVE  \E F : IsPartial(F, g, S)
<1> DEFINE Bad == {t \in SUBSET S : ~\E F : IsPartial(F, g, t)}
<1> SUFFICES ASSUME Bad # {} PROVE FALSE
  OBVIOUS
<1>1. PICK t \in Bad : \A u \in Bad : ~(u \subseteq t /\ u # t)
  <2>1. Bad \in SUBSET SUBSET S
    OBVIOUS
  <2> HIDE DEF Bad
  <2>2. QED BY <2>1, SmallestSet
<1> DEFINE B(u) == CHOOSE F : IsPartial(F, g, u)
<1>2. ASSUME NEW u, u \subseteq t, u # t
      PROVE  IsPartial(B(u), g, u)
  <2>1. \E F : IsPartial(F, g, u)
    BY <1>1, <1>2
  <2>2. QED BY <2>1
<1> HIDE DEF B
<1> DEFINE F == [s \in SUBSET t |->
                    IF s = {} THEN 0 ELSE g[Pick(s)] + B(s \ {Pick(s)})[s \ {Pick(s)}]]
<1>3. ASSUME NEW s \in SUBSET t, s # {}
      PROVE  F[s \ {Pick(s)}] = B(s \ {Pick(s)})[s \ {Pick(s)}]
  <2> DEFINE u == s \ {Pick(s)}
             v == u \ {Pick(u)}
  <2>1. u \subseteq t /\ u # t /\ v \subseteq t /\ v # t
    BY <1>3, PickIn
  <2>2. IsPartial(B(u), g, u) /\ IsPartial(B(v), g, v)
    BY <1>2, <2>1
  <2>3. IsFiniteSet(v)
    BY <2>1, FS_Subset
  <2>4. B(u)[u] = IF u = {} THEN 0 ELSE g[Pick(u)] + B(u)[v]
    BY <2>2 DEF IsPartial
  <2>5. F[u] = IF u = {} THEN 0 ELSE g[Pick(u)] + B(v)[v]
    BY <2>1
  <2>6. B(u)[v] = B(v)[v]
    <3> HIDE DEF v, u
    <3>1. v \subseteq u
      BY DEF v
    <3>2. QED BY <2>2, <2>3, <3>1, PartialsAgree
  <2>7. QED BY <2>4, <2>5, <2>6
<1>4. IsPartial(F, g, t)
  <2>1. ASSUME NEW s \in SUBSET t
        PROVE  F[s] = IF s = {} THEN 0 ELSE g[Pick(s)] + F[s \ {Pick(s)}]
    BY <1>3
  <2>2. F = [s \in SUBSET t |-> F[s]]
    OBVIOUS
  <2> HIDE DEF F
  <2>3. QED BY <2>1, <2>2 DEF IsPartial
<1>5. QED BY <1>1, <1>4

LEMMA PartialIs ==
    ASSUME NEW g, NEW S, IsFiniteSet(S)
    PROVE  IsPartial(Partial(g, S), g, S)
<1>1. Partial(g, S) = CHOOSE F : IsPartial(F, g, S)
  BY DEF Partial, IsPartial
<1>2. QED BY <1>1, PartialExists

LEMMA SumUnfolds ==
    ASSUME NEW g, NEW s, IsFiniteSet(s)
    PROVE  /\ s = {} => SumOver(g, s) = 0
           /\ s # {} => SumOver(g, s) = g[Pick(s)] + SumOver(g, s \ {Pick(s)})
<1> DEFINE u == s \ {Pick(s)}
<1>1. IsFiniteSet(u)
  BY FS_Subset
<1>2. IsPartial(Partial(g, s), g, s) /\ IsPartial(Partial(g, u), g, u)
  BY <1>1, PartialIs
<1>3. Partial(g, s)[s] = IF s = {} THEN 0 ELSE g[Pick(s)] + Partial(g, s)[u]
  <2>1. s \in SUBSET s
    OBVIOUS
  <2>2. QED BY <1>2, <2>1 DEF IsPartial
<1>4. Partial(g, s)[u] = Partial(g, u)[u]
  <2>1. u \subseteq s
    OBVIOUS
  <2> HIDE DEF u
  <2>2. QED BY <1>1, <1>2, <2>1, PartialsAgree
<1>5. QED BY <1>3, <1>4 DEF SumOver

\* A sum of integers is an integer, and of naturals a natural.
LEMMA SumTyped ==
    ASSUME NEW s, IsFiniteSet(s), NEW g, \A x \in s : g[x] \in Int
    PROVE  /\ SumOver(g, s) \in Int
           /\ (\A x \in s : g[x] >= 0) => SumOver(g, s) >= 0
<1> DEFINE Fine(t) == SumOver(g, t) \in Int /\ ((\A x \in s : g[x] >= 0) => SumOver(g, t) >= 0)
           Bad == {t \in SUBSET s : ~Fine(t)}
<1> SUFFICES ASSUME Bad # {} PROVE FALSE
  OBVIOUS
<1>1. PICK t \in Bad : \A u \in Bad : ~(u \subseteq t /\ u # t)
  <2>1. Bad \in SUBSET SUBSET s
    OBVIOUS
  <2> HIDE DEF Bad
  <2>2. QED BY <2>1, SmallestSet
<1>2. IsFiniteSet(t)
  BY FS_Subset
<1>3. CASE t = {}
  <2>1. SumOver(g, t) = 0
    BY <1>2, <1>3, SumUnfolds
  <2>2. QED BY <2>1
<1>4. CASE t # {}
  <2>1. Pick(t) \in t /\ Pick(t) \in s
    BY <1>4, PickIn
  <2>2. Fine(t \ {Pick(t)})
    BY <1>1, <2>1
  <2>3. SumOver(g, t) = g[Pick(t)] + SumOver(g, t \ {Pick(t)})
    BY <1>2, <1>4, SumUnfolds
  <2>4. QED BY <1>1, <2>1, <2>2, <2>3
<1>5. QED BY <1>3, <1>4

\* Any element can be taken out of a sum.
LEMMA SumRemoves ==
    ASSUME NEW s, IsFiniteSet(s), NEW g, \A x \in s : g[x] \in Int, NEW y \in s
    PROVE  SumOver(g, s) = g[y] + SumOver(g, s \ {y})
<1> DEFINE Bad == {t \in SUBSET s : \E x \in t : SumOver(g, t) # g[x] + SumOver(g, t \ {x})}
<1> SUFFICES ASSUME Bad # {} PROVE FALSE
  OBVIOUS
<1>1. PICK t \in Bad : \A u \in Bad : ~(u \subseteq t /\ u # t)
  <2>1. Bad \in SUBSET SUBSET s
    OBVIOUS
  <2> HIDE DEF Bad
  <2>2. QED BY <2>1, SmallestSet
<1>2. PICK x \in t : SumOver(g, t) # g[x] + SumOver(g, t \ {x})
  OBVIOUS
<1> DEFINE c == Pick(t)
           rest == (t \ {x}) \ {c}
<1>3. c \in t /\ t \subseteq s /\ rest = (t \ {c}) \ {x}
  BY PickIn
<1> HIDE DEF c
<1>4. /\ IsFiniteSet(t) /\ IsFiniteSet(t \ {x}) /\ IsFiniteSet(t \ {c}) /\ IsFiniteSet(rest)
      /\ g[x] \in Int /\ g[c] \in Int /\ SumOver(g, rest) \in Int
  <2>1. IsFiniteSet(t)
    BY <1>3, FS_Subset
  <2>2. IsFiniteSet(t \ {x}) /\ IsFiniteSet(t \ {c}) /\ IsFiniteSet(rest)
    BY <2>1, FS_Subset
  <2>3. QED BY <1>3, <2>1, <2>2, SumTyped
<1>5. SumOver(g, t) = g[c] + SumOver(g, t \ {c})
  BY <1>3, <1>4, SumUnfolds DEF c
<1>6. x # c
  BY <1>2, <1>5
<1>7. SumOver(g, t \ {c}) = g[x] + SumOver(g, rest)
  <2>1. t \ {c} \notin Bad /\ x \in t \ {c}
    BY <1>1, <1>3, <1>6
  <2>2. t \ {c} \in SUBSET s
    BY <1>3
  <2>3. QED BY <1>3, <2>1, <2>2
<1>8. SumOver(g, t \ {x}) = g[c] + SumOver(g, rest)
  <2>1. t \ {x} \notin Bad /\ c \in t \ {x}
    BY <1>1, <1>3, <1>6
  <2>2. t \ {x} \in SUBSET s
    BY <1>3
  <2>3. QED BY <2>1, <2>2
<1> HIDE DEF rest
<1>9. QED BY <1>2, <1>4, <1>5, <1>7, <1>8

\* Sums of smaller terms are smaller, and of the same terms the same.
LEMMA SumGrows ==
    ASSUME NEW s, IsFiniteSet(s), NEW f, NEW g,
           \A x \in s : f[x] \in Int /\ g[x] \in Int /\ f[x] <= g[x]
    PROVE  SumOver(f, s) <= SumOver(g, s)
<1> DEFINE Bad == {t \in SUBSET s : ~(SumOver(f, t) <= SumOver(g, t))}
<1> SUFFICES ASSUME Bad # {} PROVE FALSE
  BY s \in SUBSET s
<1>1. PICK t \in Bad : \A u \in Bad : ~(u \subseteq t /\ u # t)
  <2>1. Bad \in SUBSET SUBSET s
    OBVIOUS
  <2> HIDE DEF Bad
  <2>2. QED BY <2>1, SmallestSet
<1>2. IsFiniteSet(t)
  BY FS_Subset
<1>3. CASE t = {}
  <2>1. SumOver(f, t) = 0 /\ SumOver(g, t) = 0
    BY <1>2, <1>3, SumUnfolds
  <2>2. QED BY <2>1
<1>4. CASE t # {}
  <2> DEFINE u == t \ {Pick(t)}
  <2>1. Pick(t) \in t /\ Pick(t) \in s /\ u \subseteq s
    BY <1>4, PickIn
  <2>2. SumOver(f, u) <= SumOver(g, u)
    BY <1>1, <2>1
  <2>3. SumOver(f, t) = f[Pick(t)] + SumOver(f, u) /\ SumOver(g, t) = g[Pick(t)] + SumOver(g, u)
    BY <1>2, <1>4, SumUnfolds
  <2>4. SumOver(f, u) \in Int /\ SumOver(g, u) \in Int
    BY <1>2, <2>1, FS_Subset, SumTyped
  <2> HIDE DEF u
  <2>5. QED BY <1>1, <2>1, <2>2, <2>3, <2>4
<1>5. QED BY <1>3, <1>4

LEMMA SumSame ==
    ASSUME NEW s, IsFiniteSet(s), NEW f, NEW g,
           \A x \in s : f[x] \in Int /\ f[x] = g[x]
    PROVE  SumOver(f, s) = SumOver(g, s)
<1>1. SumOver(f, s) <= SumOver(g, s) /\ SumOver(g, s) <= SumOver(f, s)
  BY SumGrows
<1>2. SumOver(f, s) \in Int /\ SumOver(g, s) \in Int
  BY SumTyped
<1>3. QED BY <1>1, <1>2

\* A sum over two disjoint sets is the sum of the sums.
LEMMA SumSplits ==
    ASSUME NEW A, NEW B, IsFiniteSet(A), IsFiniteSet(B), A \cap B = {}, NEW g,
           \A x \in A \cup B : g[x] \in Int
    PROVE  SumOver(g, A \cup B) = SumOver(g, A) + SumOver(g, B)
<1> DEFINE Bad == {t \in SUBSET A : SumOver(g, t \cup B) # SumOver(g, t) + SumOver(g, B)}
<1> SUFFICES ASSUME Bad # {} PROVE FALSE
  BY A \in SUBSET A
<1>1. PICK t \in Bad : \A u \in Bad : ~(u \subseteq t /\ u # t)
  <2>1. Bad \in SUBSET SUBSET A
    OBVIOUS
  <2> HIDE DEF Bad
  <2>2. QED BY <2>1, SmallestSet
<1>2. /\ IsFiniteSet(t) /\ IsFiniteSet(t \cup B)
      /\ t \subseteq A /\ SumOver(g, t \cup B) # SumOver(g, t) + SumOver(g, B)
  BY FS_Subset, FS_Union
<1>3. SumOver(g, B) \in Int
  BY SumTyped
<1>4. CASE t = {}
  <2>1. SumOver(g, t) = 0
    BY <1>2, <1>4, SumUnfolds
  <2>2. t \cup B = B
    BY <1>4
  <2>3. SumOver(g, t \cup B) = SumOver(g, B)
    BY <2>2
  <2> HIDE DEF Bad
  <2>4. QED BY <1>2, <1>3, <2>1, <2>3
<1>5. CASE t # {}
  <2>1. PICK x \in t : TRUE
    BY <1>5
  <2> DEFINE u == t \ {x}
  <2>2. u \subseteq A /\ IsFiniteSet(u) /\ (t \cup B) \ {x} = u \cup B /\ x \in A /\ x \in t \cup B
    BY <1>2, <2>1, FS_Subset
  <2>3. SumOver(g, u \cup B) = SumOver(g, u) + SumOver(g, B)
    BY <1>1, <2>1, <2>2
  <2>4. SumOver(g, t) = g[x] + SumOver(g, u)
    BY <1>2, <2>1, SumRemoves
  <2>5. SumOver(g, t \cup B) = g[x] + SumOver(g, u \cup B)
    <3>1. \A y \in t \cup B : g[y] \in Int
      BY <1>2
    <3>2. SumOver(g, t \cup B) = g[x] + SumOver(g, (t \cup B) \ {x})
      BY <1>2, <2>2, <3>1, SumRemoves
    <3>3. QED BY <2>2, <3>2
  <2>6. SumOver(g, u) \in Int /\ g[x] \in Int
    BY <1>2, <2>2, SumTyped
  <2> HIDE DEF u
  <2>7. QED BY <1>2, <1>3, <2>3, <2>4, <2>5, <2>6
<1>6. QED BY <1>4, <1>5

\* A part of a sum of naturals is no more than the sum.
LEMMA SumPart ==
    ASSUME NEW A, NEW B, IsFiniteSet(B), A \subseteq B, NEW g, \A x \in B : g[x] \in Nat
    PROVE  SumOver(g, A) <= SumOver(g, B)
<1>1. IsFiniteSet(A) /\ IsFiniteSet(B \ A) /\ A \cap (B \ A) = {} /\ A \cup (B \ A) = B
  BY FS_Subset
<1>2. SumOver(g, B) = SumOver(g, A) + SumOver(g, B \ A)
  BY <1>1, SumSplits
<1>3. SumOver(g, A) \in Int /\ SumOver(g, B \ A) \in Int /\ SumOver(g, B \ A) >= 0
  BY <1>1, SumTyped
<1>4. QED BY <1>2, <1>3
-----------------------------------------------------------------------------
(* The energy of a document                                                  *)

AllEnergy(counted) == SumOver(counted, DOMAIN counted)

\* Energies of sources, as a document may hold them
Countable(counted) ==
    IsFiniteSet(DOMAIN counted) /\ \A n \in DOMAIN counted : counted[n] \in Nat

Named(counted, placed, p) == {n \in DOMAIN counted \cap DOMAIN placed : placed[n] = p}

LEMMA PhaseEnergyIs ==
    ASSUME NEW counted, NEW placed, NEW p, Countable(counted)
    PROVE  /\ PhaseEnergy(counted, placed, p) = SumOver(counted, Named(counted, placed, p))
           /\ IsFiniteSet(Named(counted, placed, p))
<1> DEFINE names == Named(counted, placed, p)
           g == [n \in names |-> counted[n]]
<1>1. names \subseteq DOMAIN counted
  BY DEF Named
<1>2. IsFiniteSet(names)
  BY <1>1, FS_Subset DEF Countable
<1>3. PhaseEnergy(counted, placed, p) = SumFunction(g)
  BY DEF PhaseEnergy, Named
<1>4. SumFunction(g) = SumOver(g, names)
  BY SumMeans
<1>5. \A n \in names : g[n] \in Int /\ g[n] = counted[n]
  BY <1>1 DEF Countable
<1> HIDE DEF names, g
<1>6. SumOver(g, names) = SumOver(counted, names)
  BY <1>2, <1>5, SumSame
<1>7. QED BY <1>2, <1>3, <1>4, <1>6 DEF names

LEMMA ThreePhases == Phases = {"L1", "L2", "L3"}
<1>1. 1..3 = {1, 2, 3}
  OBVIOUS
<1>2. QED BY <1>1 DEF Phases, PhaseOrder

\* What is counted is on the three phases, when every source has one.
LEMMA PhasesAdd ==
    ASSUME NEW counted, NEW placed, Countable(counted), DOMAIN counted \subseteq DOMAIN placed,
           \A n \in DOMAIN counted : placed[n] \in Phases
    PROVE  PhaseEnergy(counted, placed, "L1") + PhaseEnergy(counted, placed, "L2")
               + PhaseEnergy(counted, placed, "L3") = AllEnergy(counted)
<1> DEFINE A == Named(counted, placed, "L1")
           B == Named(counted, placed, "L2")
           C == Named(counted, placed, "L3")
<1>1. /\ IsFiniteSet(A) /\ IsFiniteSet(B) /\ IsFiniteSet(C) /\ IsFiniteSet(A \cup B)
      /\ PhaseEnergy(counted, placed, "L1") = SumOver(counted, A)
      /\ PhaseEnergy(counted, placed, "L2") = SumOver(counted, B)
      /\ PhaseEnergy(counted, placed, "L3") = SumOver(counted, C)
  BY PhaseEnergyIs, FS_Union
<1>2. /\ A \cap B = {} /\ (A \cup B) \cap C = {} /\ (A \cup B) \cup C = DOMAIN counted
  BY ThreePhases DEF Named
<1>3. \A n \in DOMAIN counted : counted[n] \in Int
  BY DEF Countable
<1> HIDE DEF A, B, C
<1>4. SumOver(counted, A \cup B) = SumOver(counted, A) + SumOver(counted, B)
  BY <1>1, <1>2, <1>3, SumSplits
<1>5. SumOver(counted, DOMAIN counted) = SumOver(counted, A \cup B) + SumOver(counted, C)
  BY <1>1, <1>2, <1>3, SumSplits
<1>6. QED BY <1>1, <1>4, <1>5 DEF AllEnergy

\* A document with the same sources, on the same phases, and with no less energy
\* has no less energy on any phase.
LEMMA CoveredPhases ==
    ASSUME NEW counted, NEW placed, NEW more, NEW saved, Countable(counted), Countable(more),
           \A n \in DOMAIN counted :
               /\ n \in DOMAIN more /\ more[n] >= counted[n]
               /\ n \in DOMAIN saved /\ saved[n] = placed[n],
           NEW p
    PROVE  PhaseEnergy(more, saved, p) >= PhaseEnergy(counted, placed, p)
<1> DEFINE A == Named(counted, placed, p)
           B == Named(more, saved, p)
<1>1. /\ IsFiniteSet(A) /\ IsFiniteSet(B)
      /\ PhaseEnergy(counted, placed, p) = SumOver(counted, A)
      /\ PhaseEnergy(more, saved, p) = SumOver(more, B)
  BY PhaseEnergyIs
<1>2. A \subseteq B /\ A \subseteq DOMAIN counted /\ B \subseteq DOMAIN more
  BY DEF Named
<1>3. \A n \in A : counted[n] \in Int /\ more[n] \in Int /\ counted[n] <= more[n]
  BY <1>2 DEF Countable
<1>4. \A n \in B : more[n] \in Nat
  BY <1>2 DEF Countable
<1> HIDE DEF A, B
<1>5. SumOver(counted, A) <= SumOver(more, A)
  BY <1>1, <1>3, SumGrows
<1>6. SumOver(more, A) <= SumOver(more, B)
  BY <1>1, <1>2, <1>4, SumPart
<1>7. SumOver(counted, A) \in Int /\ SumOver(more, A) \in Int /\ SumOver(more, B) \in Int
  BY <1>1, <1>3, <1>4, SumTyped
<1>8. QED BY <1>1, <1>5, <1>6, <1>7

LEMMA CoveredEnergy ==
    ASSUME NEW counted, NEW more, Countable(counted), Countable(more),
           \A n \in DOMAIN counted : n \in DOMAIN more /\ more[n] >= counted[n]
    PROVE  AllEnergy(more) >= AllEnergy(counted) /\ AllEnergy(counted) \in Nat
<1> DEFINE A == DOMAIN counted
           B == DOMAIN more
<1>1. IsFiniteSet(A) /\ IsFiniteSet(B) /\ A \subseteq B
  BY DEF Countable
<1>2. \A n \in A : counted[n] \in Nat /\ more[n] \in Nat /\ counted[n] <= more[n]
  BY DEF Countable
<1>3. \A n \in B : more[n] \in Nat
  BY DEF Countable
<1> HIDE DEF A, B
<1>5. SumOver(counted, A) <= SumOver(more, A)
  BY <1>1, <1>2, SumGrows
<1>6. SumOver(more, A) <= SumOver(more, B)
  BY <1>1, <1>3, SumPart
<1>7. /\ SumOver(counted, A) \in Int /\ SumOver(more, A) \in Int /\ SumOver(more, B) \in Int
      /\ SumOver(counted, A) >= 0
  BY <1>1, <1>2, <1>3, SumTyped
<1>8. QED BY <1>5, <1>6, <1>7 DEF AllEnergy, A, B

LEMMA PhaseEnergyTyped ==
    ASSUME NEW counted, NEW placed, NEW p, Countable(counted)
    PROVE  PhaseEnergy(counted, placed, p) \in Nat
<1> DEFINE A == Named(counted, placed, p)
<1>1. IsFiniteSet(A) /\ PhaseEnergy(counted, placed, p) = SumOver(counted, A)
  BY PhaseEnergyIs
<1>2. \A n \in A : counted[n] \in Int /\ counted[n] >= 0
  BY DEF Countable, Named
<1> HIDE DEF A
<1>3. SumOver(counted, A) \in Int /\ SumOver(counted, A) >= 0
  BY <1>1, <1>2, SumTyped
<1> QED BY <1>1, <1>3

\* The readings of the sources, like their energies, add up over the phases.
LEMMA ReadingsAdd ==
    ASSUME NEW readings, NEW placed, NEW q, IsFiniteSet(DOMAIN readings),
           DOMAIN readings \subseteq DOMAIN placed,
           \A n \in DOMAIN readings : /\ readings[n][q] \in Nat
                                      /\ readings[n].phase = placed[n] /\ placed[n] \in Phases
    PROVE  /\ \A p : SumOf(readings, OnPhase(readings, p), q) \in Nat
           /\ SumOf(readings, OnPhase(readings, "L1"), q)
                  + SumOf(readings, OnPhase(readings, "L2"), q)
                  + SumOf(readings, OnPhase(readings, "L3"), q)
                  = SumOf(readings, DOMAIN readings, q)
<1> DEFINE counted == [n \in DOMAIN readings |-> readings[n][q]]
<1>1. Countable(counted) /\ DOMAIN counted = DOMAIN readings
  BY DEF Countable
<1>2. ASSUME NEW p
      PROVE  SumOf(readings, OnPhase(readings, p), q) = PhaseEnergy(counted, placed, p)
  <2>1. Named(counted, placed, p) = OnPhase(readings, p)
    BY DEF Named, OnPhase
  <2>2. OnPhase(readings, p) \subseteq DOMAIN readings
    BY DEF OnPhase
  <2>3. [n \in OnPhase(readings, p) |-> readings[n][q]]
        = [n \in Named(counted, placed, p) |-> counted[n]]
    BY <2>1, <2>2
  <2>4. PhaseEnergy(counted, placed, p) = SumFunction([n \in Named(counted, placed, p) |-> counted[n]])
    BY DEF PhaseEnergy, Named
  <2> QED BY <2>3, <2>4 DEF SumOf
<1>3. SumOf(readings, DOMAIN readings, q) = AllEnergy(counted)
  <2>1. SumOf(readings, DOMAIN readings, q) = SumFunction(counted)
    BY DEF SumOf
  <2> HIDE DEF counted
  <2> QED BY <2>1, SumMeans DEF AllEnergy
<1>4. /\ DOMAIN counted \subseteq DOMAIN placed /\ \A n \in DOMAIN counted : placed[n] \in Phases
  BY <1>1
<1> HIDE DEF counted
<1>5. PhaseEnergy(counted, placed, "L1") + PhaseEnergy(counted, placed, "L2")
          + PhaseEnergy(counted, placed, "L3") = AllEnergy(counted)
  BY <1>1, <1>4, PhasesAdd
<1>6. \A p : SumOf(readings, OnPhase(readings, p), q) \in Nat
  BY <1>1, <1>2, PhaseEnergyTyped
<1>7. SumOf(readings, OnPhase(readings, "L1"), q) + SumOf(readings, OnPhase(readings, "L2"), q)
          + SumOf(readings, OnPhase(readings, "L3"), q) = SumOf(readings, DOMAIN readings, q)
  BY <1>2, <1>3, <1>5
<1> QED BY <1>6, <1>7
-----------------------------------------------------------------------------
(* Float32s: how far they are from their numbers, and their order *)

\* Rounding is off by half a divisor at most.
LEMMA RoundClose ==
    ASSUME NEW n \in Int, NEW d \in Nat \ {0}
    PROVE  /\ RoundDiv(n, d) \in Int
           /\ -d <= 2 * (d * RoundDiv(n, d) - n) /\ 2 * (d * RoundDiv(n, d) - n) <= d
<1> DEFINE q == n \div d
           r == n % d
<1>1. q \in Int /\ r \in Int /\ 0 <= r /\ r < d /\ n = d * q + r
  OBVIOUS
<1>2. RoundDiv(n, d) = IF 2 * r > d \/ (2 * r = d /\ q % 2 = 1) THEN q + 1 ELSE q
  BY DEF RoundDiv
<1> HIDE DEF q, r
<1>3. d * (q + 1) = d * q + d /\ d * q \in Int
  BY <1>1
<1>4. CASE RoundDiv(n, d) = q + 1 /\ 2 * r >= d
  BY <1>1, <1>3, <1>4
<1>5. CASE RoundDiv(n, d) = q /\ 2 * r <= d
  BY <1>1, <1>5
<1>6. (RoundDiv(n, d) = q + 1 /\ 2 * r >= d) \/ (RoundDiv(n, d) = q /\ 2 * r <= d)
  BY <1>1, <1>2
<1> QED BY <1>4, <1>5, <1>6

LEMMA RoundGrows ==
    ASSUME NEW m \in Int, NEW n \in Int, m <= n, NEW d \in Nat \ {0}
    PROVE  RoundDiv(m, d) <= RoundDiv(n, d)
<1> DEFINE q == m \div d
           r == m % d
           t == n \div d
           u == n % d
<1>1. /\ q \in Int /\ r \in Int /\ 0 <= r /\ r < d /\ m = d * q + r
      /\ t \in Int /\ u \in Int /\ 0 <= u /\ u < d /\ n = d * t + u
  OBVIOUS
<1>2. /\ RoundDiv(m, d) = IF 2 * r > d \/ (2 * r = d /\ q % 2 = 1) THEN q + 1 ELSE q
      /\ RoundDiv(n, d) = IF 2 * u > d \/ (2 * u = d /\ t % 2 = 1) THEN t + 1 ELSE t
  BY DEF RoundDiv
<1> HIDE DEF q, r, t, u
<1>3. q <= t
  <2>1. SUFFICES ASSUME t + 1 <= q PROVE FALSE
    BY <1>1
  <2>2. d * (t + 1) <= d * q /\ d * (t + 1) = d * t + d /\ d * t \in Int /\ d * q \in Int
    BY <1>1, <2>1
  <2> QED BY <1>1, <2>2
<1>4. CASE q = t
  <2>1. r <= u
    BY <1>1, <1>4
  <2> QED BY <1>1, <1>2, <1>4, <2>1
<1>5. CASE q < t
  BY <1>1, <1>2, <1>5
<1> QED BY <1>1, <1>3, <1>4, <1>5

LEMMA SmallestNat ==
    ASSUME NEW S, S \subseteq Nat, S # {}
    PROVE  \E s \in S : \A t \in S : s <= t
<1>1. PICK k \in S : k \in Nat
  OBVIOUS
<1> DEFINE T == {1..t : t \in {u \in S : u <= k}}
<1>2. T \subseteq SUBSET (1..k) /\ T # {} /\ IsFiniteSet(1..k)
  <2>1. ASSUME NEW u \in S, u <= k PROVE 1..u \subseteq 1..k
    BY <1>1, <2>1
  <2>2. 1..k \in T
    BY <1>1
  <2>3. T \subseteq SUBSET (1..k)
    BY <2>1
  <2>4. IsFiniteSet(1..k)
    BY <1>1, FS_Interval
  <2> HIDE DEF T
  <2> QED BY <2>2, <2>3, <2>4
<1>3. PICK a \in T : \A b \in T : ~(b \subseteq a /\ b # a)
  <2> HIDE DEF T
  <2>1. T \in SUBSET SUBSET (1..k)
    BY <1>2
  <2> DEFINE I == 1..k
  <2>2. T \in SUBSET SUBSET I /\ IsFiniteSet(I) /\ T # {}
    BY <1>2, <2>1
  <2> HIDE DEF I
  <2> QED BY <2>2, SmallestSet
<1>4. PICK s \in S : a = 1..s /\ s <= k
  BY <1>3
<1>5. ASSUME NEW t \in S, t < s PROVE FALSE
  <2>1. t \in Nat /\ s \in Nat /\ t <= k
    BY <1>1, <1>4, <1>5
  <2>2. 1..t \subseteq 1..s /\ s \in 1..s /\ s \notin 1..t
    BY <1>5, <2>1
  <2>3. 1..t \in T /\ 1..t # 1..s
    BY <2>1, <2>2
  <2> QED BY <1>3, <1>4, <2>2, <2>3
<1> QED BY <1>5

LEMMA StepExists ==
    ASSUME NEW x \in Int
    PROVE  8388608 <= x /\ x <= Float32Max =>
               \E s \in FloatSteps : 8388608 * s <= x /\ x < 16777216 * s
<1>1. ASSUME 8388608 <= x, x <= Float32Max
      PROVE  \E s \in FloatSteps : 8388608 * s <= x /\ x < 16777216 * s
  <2> DEFINE S == {s \in FloatSteps : x < 16777216 * s}
  <2>1. S \subseteq Nat /\ S # {}
    <3>1. PICK t \in FloatSteps : Float32Max < 16777216 * t
      BY Float32Assumption, SMT
    <3>2. FloatSteps \subseteq Nat /\ Float32Max \in Nat
      BY Float32Assumption, SMT
    <3>3. t \in S
      BY <1>1, <3>1, <3>2, SMT
    <3>4. \A s \in S : s \in Nat
      BY <3>2, SMT
    <3> HIDE DEF S
    <3> QED BY <3>3, <3>4, Zenon
  <2>2. PICK s \in S : \A t \in S : s <= t
    <3> HIDE DEF S
    <3> QED BY <2>1, SmallestNat, Zenon
  <2>3. s \in FloatSteps /\ x < 16777216 * s /\ s \in Nat
    BY <2>1, SMT
  <2>4. CASE s = 1
    BY <1>1, <2>3, <2>4, SMT
  <2>5. ASSUME NEW t \in FloatSteps, s = 2 * t
        PROVE  8388608 * s <= x /\ x < 16777216 * s
    <3>1. t \in Nat /\ t < s
      BY <2>3, <2>5, Float32Assumption, SMT
    <3>2. t \notin S
      BY <2>2, <2>3, <3>1, SMT
    <3>3. ~(x < 16777216 * t)
      BY <3>2, SMT
    <3> QED BY <2>3, <2>5, <3>1, <3>3, SMT
  <2>6. s = 1 \/ \E t \in FloatSteps : s = 2 * t
    BY <2>3, Float32Assumption, SMT
  <2> QED BY <2>3, <2>4, <2>5, <2>6, SMT
<1> QED BY <1>1, SMT

\* Where a number is among the float32s: f of them from one whole to the next,
\* or one for every s wholes.
FloatPartsAre(w, f) ==
    f \in {2, 4, 8, 16, 32, 64, 128, 256, 512} /\ 8388608 <= f * w /\ f * w < 16777216
FloatStepIs(w, s) == s \in FloatSteps /\ 8388608 * s <= w /\ w < 16777216 * s
IsSmall(w) == w < 16384
IsFloat(w) == w <= Float32Max

InParts(n, unit, f) == RoundDiv(unit * RoundDiv(f * n, unit), f)
InSteps(n, unit, s) == unit * s * RoundDiv(n, unit * s)

LEMMA PartsExist ==
    ASSUME NEW w \in Nat
    PROVE  16384 <= w /\ w < 8388608 =>
               \E f \in {2, 4, 8, 16, 32, 64, 128, 256, 512} :
                   8388608 <= f * w /\ f * w < 16777216
<1> DEFINE Q(f) == 8388608 <= f * w /\ f * w < 16777216
<1>1. 16384 <= w /\ w < 8388608 =>
          Q(2) \/ Q(4) \/ Q(8) \/ Q(16) \/ Q(32) \/ Q(64) \/ Q(128) \/ Q(256) \/ Q(512)
  BY SMT
<1> QED BY <1>1, SMT

LEMMA PartsAre ==
    ASSUME NEW w \in Nat
    PROVE  16384 <= w /\ w < 8388608 => FloatPartsAre(w, FloatParts(w))
<1> DEFINE S == {2, 4, 8, 16, 32, 64, 128, 256, 512}
           Q(f) == 8388608 <= f * w /\ f * w < 16777216
<1>1. FloatParts(w) = CHOOSE f \in S : Q(f)
  BY SMT DEF FloatParts
<1>2. \A f \in S : Q(f) => FloatPartsAre(w, f)
  BY SMT DEF FloatPartsAre
<1>3. 16384 <= w /\ w < 8388608 => \E f \in S : Q(f)
  BY PartsExist, SMT
<1> HIDE DEF S, Q
<1>4. (\E f \in S : Q(f)) => FloatPartsAre(w, FloatParts(w))
  BY <1>1, <1>2, Zenon
<1> QED BY <1>3, <1>4, SMT

LEMMA StepsAreNat == ASSUME NEW s \in FloatSteps PROVE s \in Nat /\ s >= 1
  BY Float32Assumption, SMT

LEMMA StepIs ==
    ASSUME NEW w \in Nat
    PROVE  8388608 <= w /\ w <= Float32Max => FloatStepIs(w, FloatStep(w))
<1> DEFINE Q(s) == 8388608 * s <= w /\ w < 16777216 * s
<1>1. FloatStep(w) = CHOOSE s \in FloatSteps : Q(s)
  BY SMT DEF FloatStep
<1>2. \A s \in FloatSteps : Q(s) => FloatStepIs(w, s)
  <2>1. \A s \in FloatSteps : s \in Nat
    BY StepsAreNat, SMT
  <2> QED BY <2>1, SMT DEF FloatStepIs
<1>3. 8388608 <= w /\ w <= Float32Max => \E s \in FloatSteps : Q(s)
  BY StepExists, SMT
<1> HIDE DEF Q
<1>4. (\E s \in FloatSteps : Q(s)) => FloatStepIs(w, FloatStep(w))
  BY <1>1, <1>2, Zenon
<1> QED BY <1>3, <1>4, SMT

LEMMA WholeIs ==
    ASSUME NEW n \in Int, NEW unit \in Nat \ {0}
    PROVE  /\ Magnitude(n) \in Nat /\ Magnitude(n) \div unit \in Nat
           /\ unit * (Magnitude(n) \div unit) \in Nat
           /\ unit * (Magnitude(n) \div unit) <= Magnitude(n)
           /\ Magnitude(n) < unit * (Magnitude(n) \div unit) + unit
<1>1. Magnitude(n) \in Nat
  BY DEF Magnitude
<1> DEFINE m == Magnitude(n)
           q == m \div unit
           r == m % unit
<1>2. m \in Nat
  BY <1>1
<1> HIDE DEF m
<1>3. /\ m = unit * q + r /\ 0 <= r /\ r < unit
      /\ q \in Int /\ r \in Int /\ q >= 0
  BY <1>2, SMT
<1> HIDE DEF q, r
<1>4. unit * q \in Int /\ unit * q >= 0
  BY <1>3, SMT
<1> QED BY <1>1, <1>3, <1>4, SMT DEF m, q

\* What a float32 shows of a number.
LEMMA Float32Is ==
    ASSUME NEW n \in Int, NEW unit \in Nat \ {0}, NEW w, w = Magnitude(n) \div unit
    PROVE  /\ w \in Nat
           /\ IsSmall(w) => Float32(n, unit) = n
           /\ IsFloat(w) =>
                \/ IsSmall(w)
                \/ FloatPartsAre(w, FloatParts(w)) /\ Float32(n, unit) = InParts(n, unit, FloatParts(w))
                \/ FloatStepIs(w, FloatStep(w)) /\ Float32(n, unit) = InSteps(n, unit, FloatStep(w))
<1>1. w \in Nat
  BY WholeIs
<1>2. n # NoValue
  BY SunSpecAssumption
<1> DEFINE parts == InParts(n, unit, FloatParts(w))
           steps == InSteps(n, unit, FloatStep(w))
<1>3. Float32(n, unit) = CASE n = NoValue -> NoValue
          [] n # NoValue /\ w < 16384 -> n
          [] n # NoValue /\ 16384 <= w /\ w < 8388608 -> parts
          [] OTHER -> steps
  BY SMT DEF Float32, InParts, InSteps
<1> HIDE DEF parts, steps
<1>4. ASSUME w < 16384 PROVE Float32(n, unit) = n
  BY <1>1, <1>2, <1>3, <1>4, SMT
<1>5. ASSUME 16384 <= w /\ w < 8388608 PROVE Float32(n, unit) = parts
  BY <1>1, <1>2, <1>3, <1>5, SMT
<1>6. ASSUME 8388608 <= w PROVE Float32(n, unit) = steps
  BY <1>1, <1>2, <1>3, <1>6, SMT
<1> QED BY <1>1, <1>4, <1>5, <1>6, PartsAre, StepIs, SMT DEF IsSmall, IsFloat, parts, steps

\* Off by one part in 2^24, and half a unit.
IsClose(x, n) ==
    /\ x \in Int
    /\ 16777216 * (x - n) <= Magnitude(n) + 8388608
    /\ 16777216 * (n - x) <= Magnitude(n) + 8388608

LEMMA PartsClose ==
    ASSUME NEW n \in Int, NEW unit \in Nat \ {0}, NEW w \in Nat, NEW f,
           unit * w <= Magnitude(n), FloatPartsAre(w, f)
    PROVE  IsClose(InParts(n, unit, f), n)
<1>1. f \in Nat \ {0} /\ Magnitude(n) \in Nat
  BY SMT DEF FloatPartsAre, Magnitude
<1> DEFINE x == RoundDiv(f * n, unit)
           y == InParts(n, unit, f)
           p == unit * x
<1>2. f * n \in Int
  BY <1>1, SMT
<1>3. x \in Int /\ -unit <= 2 * (p - f * n) /\ 2 * (p - f * n) <= unit
  BY <1>2, RoundClose
<1>4. p \in Int
  BY <1>3, SMT
<1> HIDE DEF x
<1>5. y \in Int /\ -f <= 2 * (f * y - p) /\ 2 * (f * y - p) <= f
  <2> HIDE DEF p
  <2>1. RoundDiv(p, f) \in Int /\ -f <= 2 * (f * RoundDiv(p, f) - p) /\ 2 * (f * RoundDiv(p, f) - p) <= f
    BY <1>1, <1>4, RoundClose
  <2>2. y = RoundDiv(p, f)
    BY DEF InParts, p, x
  <2> QED BY <2>1, <2>2
<1> HIDE DEF p, y
\* 2 f |y - n| <= f + unit
<1>6. /\ 2 * (f * (y - n)) <= f + unit /\ 2 * (f * (n - y)) <= f + unit
  <2>1. f * (y - n) = f * y - f * n /\ f * (n - y) = f * n - f * y /\ f * y \in Int /\ f * n \in Int
    BY <1>1, <1>5, SMT
  <2> QED BY <1>1, <1>3, <1>4, <1>5, <2>1, SMT
\* 8388608 unit <= f Magnitude(n)
<1>7. 8388608 * unit <= f * Magnitude(n)
  <2>1. f * (unit * w) <= f * Magnitude(n)
    BY <1>1, SMT
  <2>2. f * (unit * w) = unit * (f * w) /\ f * w \in Nat
    BY <1>1, SMT
  <2>3. unit * 8388608 <= unit * (f * w)
    BY <1>1, <2>2, SMT DEF FloatPartsAre
  <2>4. f * (unit * w) \in Int /\ f * Magnitude(n) \in Int /\ unit * (f * w) \in Int
    BY <1>1, SMT
  <2> QED BY <2>1, <2>2, <2>3, <2>4, SMT
<1>8. f * (16777216 * (y - n)) <= f * (Magnitude(n) + 8388608)
  BY <1>1, <1>5, <1>6, <1>7, SMT
<1>9. f * (16777216 * (n - y)) <= f * (Magnitude(n) + 8388608)
  BY <1>1, <1>5, <1>6, <1>7, SMT
<1> QED BY <1>1, <1>5, <1>8, <1>9, SMT DEF IsClose, y

LEMMA StepsClose ==
    ASSUME NEW n \in Int, NEW unit \in Nat \ {0}, NEW w \in Nat, NEW s,
           unit * w <= Magnitude(n), FloatStepIs(w, s)
    PROVE  IsClose(InSteps(n, unit, s), n)
<1>1. s \in Nat \ {0} /\ Magnitude(n) \in Nat
  BY StepsAreNat, SMT DEF FloatStepIs, Magnitude
<1> DEFINE d == unit * s
           y == InSteps(n, unit, s)
<1>2. d \in Nat \ {0}
  BY <1>1, SMT
<1>3. y = d * RoundDiv(n, d)
  BY DEF InSteps
<1> HIDE DEF d
<1>4. RoundDiv(n, d) \in Int /\ -d <= 2 * (d * RoundDiv(n, d) - n) /\ 2 * (d * RoundDiv(n, d) - n) <= d
  BY <1>2, RoundClose
<1>5. y \in Int /\ -d <= 2 * (y - n) /\ 2 * (y - n) <= d
  BY <1>2, <1>3, <1>4, SMT
<1>6. 8388608 * d <= Magnitude(n)
  <2>1. unit * (8388608 * s) <= unit * w
    BY <1>1, SMT DEF FloatStepIs
  <2> QED BY <1>1, <2>1, SMT DEF d
<1> HIDE DEF y
<1> QED BY <1>1, <1>2, <1>5, <1>6, SMT DEF IsClose, y

\* A float32 that fits is close to its number.
LEMMA Float32Close ==
    ASSUME NEW n \in Int, NEW unit \in Nat \ {0}, IsFloat(Magnitude(n) \div unit)
    PROVE  IsClose(Float32(n, unit), n)
<1> DEFINE w == Magnitude(n) \div unit
<1>1. w \in Nat /\ unit * w <= Magnitude(n)
  BY WholeIs
<1>2. \/ IsSmall(w) /\ Float32(n, unit) = n
      \/ FloatPartsAre(w, FloatParts(w)) /\ Float32(n, unit) = InParts(n, unit, FloatParts(w))
      \/ FloatStepIs(w, FloatStep(w)) /\ Float32(n, unit) = InSteps(n, unit, FloatStep(w))
  BY Float32Is
<1> HIDE DEF w
<1>3. IsClose(n, n)
  BY SMT DEF IsClose, Magnitude
<1> QED BY <1>1, <1>2, <1>3, PartsClose, StepsClose

\* A multiple of the divisor is a bound of the quotient.
LEMMA RoundStays ==
    ASSUME NEW n \in Int, NEW d \in Nat \ {0}, NEW b \in Int
    PROVE  /\ d * b <= n => b <= RoundDiv(n, d)
           /\ n <= d * b => RoundDiv(n, d) <= b
<1> DEFINE a == RoundDiv(n, d)
<1>1. a \in Int /\ -d <= 2 * (d * a - n) /\ 2 * (d * a - n) <= d
  BY RoundClose
<1> HIDE DEF a
<1>2. d * a \in Int /\ d * b \in Int
  BY <1>1
<1>3. ASSUME a + 1 <= b PROVE d * a + d <= d * b
  <2>1. d * (a + 1) <= d * b /\ d * (a + 1) = d * a + d
    BY <1>1, <1>3
  <2> QED BY <2>1
<1>4. ASSUME b + 1 <= a PROVE d * b + d <= d * a
  <2>1. d * (b + 1) <= d * a /\ d * (b + 1) = d * b + d
    BY <1>1, <1>4
  <2> QED BY <2>1
<1>5. ASSUME d * b <= n PROVE b <= a
  BY <1>1, <1>2, <1>3, <1>5
<1>6. ASSUME n <= d * b PROVE a <= b
  BY <1>1, <1>2, <1>4, <1>6
<1> QED BY <1>5, <1>6 DEF a

\* An energy, and its whole Wh.
IsTenth(n, w) == n \in Nat /\ w \in Nat /\ 10 * w <= n /\ n < 10 * w + 10

\* Where the float32 of an energy is: between two powers of two, in Wh.
Between(x, base) == x \in Int /\ 10 * base <= x /\ x <= 20 * base

LEMMA PartsBetween ==
    ASSUME NEW n, NEW w, IsTenth(n, w), NEW f, FloatPartsAre(w, f),
           NEW base \in Nat, f * base = 8388608
    PROVE  Between(InParts(n, 10, f), base)
<1>1. f \in Nat \ {0} /\ n \in Nat /\ w \in Nat /\ 10 * w <= n /\ n < 10 * w + 10
  BY SMT DEF FloatPartsAre, IsTenth
<1>2. 10 * 8388608 <= f * n /\ f * n <= 10 * 16777216
  <2>1. 8388608 <= f * w /\ f * w < 16777216 /\ f * w \in Int /\ f * n \in Int
    BY <1>1, SMT DEF FloatPartsAre
  <2>2. f * (10 * w) <= f * n /\ f * (10 * w) = 10 * (f * w)
    BY <1>1, SMT
  <2>3. w < 2 * base
    <3>1. SUFFICES ASSUME 2 * base <= w PROVE FALSE
      BY <1>1, SMT
    <3>2. f * (2 * base) <= f * w /\ f * (2 * base) = 2 * (f * base)
      BY <1>1, <3>1, SMT
    <3> QED BY <2>1, <3>2, SMT
  <2>4. n <= 20 * base
    BY <1>1, <2>3, SMT
  <2>5. f * n <= f * (20 * base) /\ f * (20 * base) = 20 * (f * base)
    BY <1>1, <2>4, SMT
  <2> QED BY <2>1, <2>2, <2>5, SMT
<1> DEFINE x == RoundDiv(f * n, 10)
           y == RoundDiv(10 * x, f)
<1>3. x \in Int /\ 8388608 <= x /\ x <= 16777216
  <2>1. f * n \in Int
    BY <1>1, SMT
  <2>2. x \in Int
    BY <2>1, RoundClose, SMT
  <2> QED BY <1>2, <2>1, <2>2, RoundStays, SMT
<1> HIDE DEF x
<1>4. f * (10 * base) = 10 * 8388608 /\ f * (20 * base) = 10 * 16777216
  BY <1>1, SMT
<1>5. f * (10 * base) <= 10 * x /\ 10 * x <= f * (20 * base) /\ 10 * x \in Int
  BY <1>3, <1>4, SMT
<1>6. y \in Int
  BY <1>1, <1>5, RoundClose, SMT
<1>7. 10 * base <= y /\ y <= 20 * base
  BY <1>1, <1>5, RoundStays, SMT
<1> QED BY <1>6, <1>7, SMT DEF Between, InParts, x

LEMMA StepsBetween ==
    ASSUME NEW n, NEW w, IsTenth(n, w), NEW s, FloatStepIs(w, s)
    PROVE  Between(InSteps(n, 10, s), 8388608 * s)
<1>1. s \in Nat /\ s >= 1
  BY StepsAreNat, SMT DEF FloatStepIs
<1>2. n \in Nat /\ (10 * s) * 8388608 <= n /\ n <= (10 * s) * 16777216
  BY <1>1, SMT DEF IsTenth, FloatStepIs
<1> DEFINE d == 10 * s
           q == RoundDiv(n, d)
<1>3. d \in Nat \ {0}
  BY <1>1, SMT
<1>4. q \in Int /\ 8388608 <= q /\ q <= 16777216
  <2> HIDE DEF d
  <2>1. q \in Int
    BY <1>2, <1>3, RoundClose, SMT
  <2>2. d * 8388608 <= n /\ n <= d * 16777216
    BY <1>2, SMT DEF d
  <2> QED BY <1>2, <1>3, <2>1, <2>2, RoundStays, SMT
<1> HIDE DEF q
<1>5. d * q \in Int /\ d * 8388608 <= d * q /\ d * q <= d * 16777216
  <2> HIDE DEF d
  <2> QED BY <1>3, <1>4, SMT
<1>6. InSteps(n, 10, s) = d * q
  BY SMT DEF InSteps, q
<1> QED BY <1>1, <1>5, <1>6, SMT DEF Between

\* Equal distances to the neighbours: the larger number has the larger float32.
LEMMA PartsGrow ==
    ASSUME NEW m \in Nat, NEW n \in Nat, m <= n, NEW f \in Nat \ {0}
    PROVE  InParts(m, 10, f) <= InParts(n, 10, f)
<1>1. f * m \in Int /\ f * n \in Int /\ f * m <= f * n
  BY SMT
<1> PICK a \in Int, b \in Int : a = f * m /\ b = f * n /\ a <= b
  BY <1>1
<1> DEFINE x == RoundDiv(a, 10)
           y == RoundDiv(b, 10)
<1>2. x \in Int /\ y \in Int /\ x <= y
  <2>1. 10 \in Nat \ {0} /\ a <= b
    OBVIOUS
  <2>2. x \in Int /\ y \in Int
    BY <2>1, RoundClose
  <2> QED BY <2>1, <2>2, RoundGrows
<1> HIDE DEF x, y
<1>3. 10 * x \in Int /\ 10 * y \in Int /\ 10 * x <= 10 * y
  BY <1>2
<1>4. RoundDiv(10 * x, f) <= RoundDiv(10 * y, f)
  BY <1>3, RoundGrows
<1> QED BY <1>4 DEF InParts, x, y

LEMMA StepsGrow ==
    ASSUME NEW m \in Nat, NEW n \in Nat, m <= n, NEW s \in Nat \ {0}
    PROVE  InSteps(m, 10, s) <= InSteps(n, 10, s)
<1> DEFINE d == 10 * s
<1>1. d \in Nat \ {0}
  BY SMT
<1> HIDE DEF d
<1>2. RoundDiv(m, d) \in Int /\ RoundDiv(n, d) \in Int /\ RoundDiv(m, d) <= RoundDiv(n, d)
  BY <1>1, RoundClose, RoundGrows
<1>3. d * RoundDiv(m, d) <= d * RoundDiv(n, d)
  BY <1>1, <1>2, SMT
<1> QED BY <1>3 DEF InSteps, d

LEMMA TenthIs ==
    ASSUME NEW n \in Nat
    PROVE  IsTenth(n, Magnitude(n) \div 10)
<1>1. Magnitude(n) = n
  BY DEF Magnitude
<1>2. 10 * (n \div 10) <= n /\ n < 10 * (n \div 10) + 10 /\ n \div 10 \in Nat
  OBVIOUS
<1> QED BY <1>1, <1>2 DEF IsTenth

\* The base of the float32s around so many whole Wh.
IsBase(w, base) == base \in Nat /\ base <= w /\ w < 2 * base /\ base >= 16384

LEMMA PartsBase ==
    ASSUME NEW w \in Nat, NEW f, FloatPartsAre(w, f)
    PROVE  \E base \in Nat : f * base = 8388608 /\ IsBase(w, base) /\ base <= 4194304
<1>1. f \in {2, 4, 8, 16, 32, 64, 128, 256, 512} /\ 8388608 <= f * w /\ f * w < 16777216
  BY SMT DEF FloatPartsAre
<1>2. \E base \in Nat : f * base = 8388608 /\ 16384 <= base /\ base <= 4194304
  <2>1. /\ 2 * 4194304 = 8388608 /\ 4 * 2097152 = 8388608 /\ 8 * 1048576 = 8388608
        /\ 16 * 524288 = 8388608 /\ 32 * 262144 = 8388608 /\ 64 * 131072 = 8388608
        /\ 128 * 65536 = 8388608 /\ 256 * 32768 = 8388608 /\ 512 * 16384 = 8388608
    BY SMT
  <2> QED BY <1>1, <2>1, SMT
<1>3. PICK base \in Nat : f * base = 8388608 /\ 16384 <= base /\ base <= 4194304
  BY <1>2, SMT
<1>4. base <= w
  <2>1. SUFFICES ASSUME w + 1 <= base PROVE FALSE
    BY SMT
  <2>2. f * (w + 1) <= f * base /\ f * (w + 1) = f * w + f /\ f * w \in Int /\ f \in Nat /\ f > 0
    BY <1>1, <2>1, SMT
  <2> QED BY <1>1, <1>3, <2>2, SMT
<1>5. w < 2 * base
  <2>1. SUFFICES ASSUME 2 * base <= w PROVE FALSE
    BY SMT
  <2>2. f * (2 * base) <= f * w /\ f * (2 * base) = 2 * (f * base) /\ f * w \in Int
    BY <1>1, <2>1, SMT
  <2> QED BY <1>1, <1>3, <2>2, SMT
<1> QED BY <1>3, <1>4, <1>5, SMT DEF IsBase

\* Two numbers in one such range, or the range of one below the other's.
LEMMA PartsApart ==
    ASSUME NEW f, NEW g, NEW v \in Nat, NEW w \in Nat, v <= w,
           FloatPartsAre(v, f), FloatPartsAre(w, g),
           NEW a \in Nat, f * a = 8388608, IsBase(v, a), NEW b \in Nat, g * b = 8388608, IsBase(w, b)
    PROVE  f = g \/ 2 * a <= b
<1>1. /\ f \in {2, 4, 8, 16, 32, 64, 128, 256, 512} /\ g \in {2, 4, 8, 16, 32, 64, 128, 256, 512}
      /\ a < 2 * b
  BY SMT DEF FloatPartsAre, IsBase
<1>2. /\ f \in Nat \ {0} /\ g \in Nat \ {0}
      /\ f = g \/ 2 * f <= g \/ 2 * g <= f
  BY <1>1, SMT
<1>3. CASE 2 * f <= g
  <2>1. (2 * f) * b <= g * b /\ (2 * f) * b = 2 * (f * b) /\ f * b \in Int
    BY <1>2, <1>3, SMT
  <2>2. f * (a + 1) <= f * (2 * b) /\ f * (a + 1) = f * a + f /\ f * (2 * b) = 2 * (f * b)
    BY <1>1, <1>2, SMT
  <2> QED BY <1>2, <2>1, <2>2, SMT
<1>4. CASE 2 * g <= f
  <2>1. (2 * g) * a <= f * a /\ (2 * g) * a = g * (2 * a) /\ g * (2 * a) \in Int
    BY <1>2, <1>4, SMT
  <2>2. g * (2 * a) <= g * b
    BY <2>1, SMT
  <2>3. SUFFICES ASSUME b + 1 <= 2 * a PROVE FALSE
    BY SMT
  <2>4. g * (b + 1) <= g * (2 * a) /\ g * (b + 1) = g * b + g
    BY <1>2, <2>3, SMT
  <2> QED BY <1>2, <2>1, <2>2, <2>4, SMT
<1> QED BY <1>2, <1>3, <1>4, SMT

LEMMA StepsApart ==
    ASSUME NEW s, NEW t, NEW v \in Nat, NEW w \in Nat, v <= w,
           FloatStepIs(v, s), FloatStepIs(w, t)
    PROVE  s = t \/ 2 * (8388608 * s) <= 8388608 * t
<1>1. s \in FloatSteps /\ t \in FloatSteps /\ 8388608 * s <= v /\ w < 16777216 * t
  BY SMT DEF FloatStepIs
<1>2. s \in Nat /\ t \in Nat
  BY <1>1, StepsAreNat, SMT
<1>3. s < t => 2 * s <= t
  BY <1>1, Float32Assumption, SMT
<1>4. t < s => 2 * t <= s
  BY <1>1, Float32Assumption, SMT
<1> QED BY <1>1, <1>2, <1>3, <1>4, SMT

\* The float32s of energies are in the order of the energies.
LEMMA Float32Grows ==
    ASSUME NEW m \in Nat, NEW n \in Nat, m <= n,
           IsFloat(Magnitude(m) \div 10), IsFloat(Magnitude(n) \div 10)
    PROVE  Float32(m, 10) <= Float32(n, 10)
<1> DEFINE v == Magnitude(m) \div 10
           w == Magnitude(n) \div 10
           f == FloatParts(v)
           g == FloatParts(w)
           s == FloatStep(v)
           t == FloatStep(w)
<1>1. IsTenth(m, v) /\ IsTenth(n, w)
  BY TenthIs
<1>2. /\ \/ IsSmall(v) /\ Float32(m, 10) = m
         \/ FloatPartsAre(v, f) /\ Float32(m, 10) = InParts(m, 10, f)
         \/ FloatStepIs(v, s) /\ Float32(m, 10) = InSteps(m, 10, s)
      /\ \/ IsSmall(w) /\ Float32(n, 10) = n
         \/ FloatPartsAre(w, g) /\ Float32(n, 10) = InParts(n, 10, g)
         \/ FloatStepIs(w, t) /\ Float32(n, 10) = InSteps(n, 10, t)
  BY Float32Is, m \in Int, n \in Int, 10 \in Nat \ {0}
<1> HIDE DEF v, w, f, g, s, t
<1>3. v \in Nat /\ w \in Nat /\ v <= w /\ (IsSmall(v) => m < 163840)
  BY <1>1, SMT DEF IsTenth, IsSmall
<1>4. /\ FloatPartsAre(v, f) => v >= 16384 /\ v < 8388608
      /\ FloatStepIs(v, s) => v >= 8388608
      /\ FloatPartsAre(w, g) => w >= 16384 /\ w < 8388608
      /\ FloatStepIs(w, t) => w >= 8388608
  <2>1. ASSUME NEW u \in Nat, NEW p, FloatPartsAre(u, p) PROVE u >= 16384 /\ u < 8388608
    BY <2>1, SMT DEF FloatPartsAre
  <2>2. ASSUME NEW u \in Nat, NEW p, FloatStepIs(u, p) PROVE u >= 8388608
    BY <2>2, StepsAreNat, SMT DEF FloatStepIs
  <2> QED BY <1>3, <2>1, <2>2, SMT
<1>5. CASE FloatPartsAre(v, f) /\ Float32(m, 10) = InParts(m, 10, f)
  <2>1. PICK a \in Nat : f * a = 8388608 /\ IsBase(v, a) /\ a <= 4194304
    BY <1>3, <1>5, PartsBase, SMT
  <2>2. Between(InParts(m, 10, f), a)
    BY <1>1, <1>5, <2>1, PartsBetween, SMT
  <2>3. CASE FloatPartsAre(w, g) /\ Float32(n, 10) = InParts(n, 10, g)
    <3>1. PICK b \in Nat : g * b = 8388608 /\ IsBase(w, b) /\ b <= 4194304
      BY <1>3, <2>3, PartsBase, SMT
    <3>2. Between(InParts(n, 10, g), b)
      BY <1>1, <2>3, <3>1, PartsBetween, SMT
    <3>3. f = g \/ 2 * a <= b
      BY <1>3, <1>5, <2>1, <2>3, <3>1, PartsApart, SMT
    <3>4. ASSUME f = g PROVE InParts(m, 10, f) <= InParts(n, 10, g)
      <4>1. f \in Nat \ {0}
        BY <1>5, SMT DEF FloatPartsAre
      <4> QED BY <3>4, <4>1, PartsGrow
    <3>5. ASSUME 2 * a <= b PROVE InParts(m, 10, f) <= InParts(n, 10, g)
      BY <2>2, <3>2, <3>5, SMT DEF Between
    <3> QED BY <1>5, <2>3, <3>3, <3>4, <3>5, SMT
  <2>4. CASE FloatStepIs(w, t) /\ Float32(n, 10) = InSteps(n, 10, t)
    <3>1. Between(InSteps(n, 10, t), 8388608 * t) /\ t \in Nat /\ t >= 1
      BY <1>1, <2>4, StepsBetween, StepsAreNat, SMT DEF FloatStepIs
    <3> QED BY <1>5, <2>1, <2>2, <2>4, <3>1, SMT DEF Between
  <2>5. ~IsSmall(w)
    BY <1>3, <1>4, <1>5, SMT DEF IsSmall
  <2> QED BY <1>2, <2>3, <2>4, <2>5, SMT
<1>6. CASE FloatStepIs(v, s) /\ Float32(m, 10) = InSteps(m, 10, s)
  <2>1. Between(InSteps(m, 10, s), 8388608 * s)
    BY <1>1, <1>6, StepsBetween, SMT
  <2>2. FloatStepIs(w, t) /\ Float32(n, 10) = InSteps(n, 10, t)
    BY <1>2, <1>3, <1>4, <1>6, SMT DEF IsSmall
  <2>3. Between(InSteps(n, 10, t), 8388608 * t)
    BY <1>1, <2>2, StepsBetween, SMT
  <2>4. s = t \/ 2 * (8388608 * s) <= 8388608 * t
    BY <1>3, <1>6, <2>2, StepsApart, SMT
  <2>5. s \in Nat \ {0} /\ t \in Nat \ {0}
    BY <1>6, <2>2, StepsAreNat, SMT DEF FloatStepIs
  <2>6. ASSUME s = t PROVE InSteps(m, 10, s) <= InSteps(n, 10, t)
    BY <2>5, <2>6, StepsGrow
  <2>7. ASSUME 2 * (8388608 * s) <= 8388608 * t PROVE InSteps(m, 10, s) <= InSteps(n, 10, t)
    BY <2>1, <2>3, <2>5, <2>7, SMT DEF Between
  <2> QED BY <1>6, <2>2, <2>4, <2>6, <2>7, SMT
<1>7. CASE IsSmall(v) /\ Float32(m, 10) = m
  <2>1. CASE IsSmall(w) /\ Float32(n, 10) = n
    BY <1>7, <2>1, SMT
  <2>2. CASE FloatPartsAre(w, g) /\ Float32(n, 10) = InParts(n, 10, g)
    <3>1. PICK b \in Nat : g * b = 8388608 /\ IsBase(w, b) /\ b <= 4194304
      BY <1>3, <2>2, PartsBase, SMT
    <3>2. Between(InParts(n, 10, g), b)
      BY <1>1, <2>2, <3>1, PartsBetween, SMT
    <3> QED BY <1>3, <1>7, <2>2, <3>1, <3>2, SMT DEF Between, IsBase
  <2>3. CASE FloatStepIs(w, t) /\ Float32(n, 10) = InSteps(n, 10, t)
    <3>1. Between(InSteps(n, 10, t), 8388608 * t) /\ t \in Nat /\ t >= 1
      BY <1>1, <2>3, StepsBetween, StepsAreNat, SMT DEF FloatStepIs
    <3> QED BY <1>3, <1>7, <2>3, <3>1, SMT DEF Between
  <2> QED BY <1>2, <2>1, <2>2, <2>3, SMT
<1> QED BY <1>2, <1>5, <1>6, <1>7, SMT

\* What is not a number, and a power factor, are read as they are.
LEMMA Float32Keeps ==
    /\ \A unit : Float32(NoValue, unit) = NoValue
    /\ \A n \in -1000..1000 : Float32(n, 1000) = n
<1>1. ASSUME NEW unit PROVE Float32(NoValue, unit) = NoValue
  BY SMT DEF Float32
<1>2. ASSUME NEW n \in Int, -1000 <= n, n <= 1000 PROVE Float32(n, 1000) = n
  <2>1. Magnitude(n) \div 1000 < 16384
    <3>1. Magnitude(n) \in Nat /\ Magnitude(n) <= 1000
      BY <1>2, SMT DEF Magnitude
    <3> QED BY <3>1, SMT
  <2> QED BY <2>1, Float32Is, 1000 \in Nat \ {0}, SMT DEF IsSmall
<1> QED BY <1>1, <1>2, SMT

\* The values that build_registers lets through are float32s.
LEMMA FitsIsFloat ==
    ASSUME NEW n \in Int, NEW unit \in Nat \ {0},
           (Magnitude(n) + unit - 1) \div unit <= Float32Max
    PROVE  IsFloat(Magnitude(n) \div unit)
<1>1. Magnitude(n) \in Nat /\ Float32Max \in Nat
  BY Float32Assumption, SMT DEF Magnitude
<1> PICK m \in Nat : m = Magnitude(n)
  BY <1>1
<1> DEFINE p == m \div unit
           q == (m + unit - 1) \div unit
<1>2. /\ m = unit * p + (m % unit) /\ 0 <= m % unit /\ p \in Int /\ m % unit \in Int
      /\ m + unit - 1 = unit * q + ((m + unit - 1) % unit) /\ q \in Int
      /\ (m + unit - 1) % unit \in Int /\ (m + unit - 1) % unit < unit
  BY SMT
<1>3. q <= Float32Max
  OBVIOUS
<1> HIDE DEF p, q
<1>4. unit * p \in Int /\ unit * q \in Int /\ unit * p <= unit * q
  BY <1>2, SMT
<1>5. p <= q
  <2>1. SUFFICES ASSUME q + 1 <= p PROVE FALSE
    BY <1>2, SMT
  <2>2. unit * (q + 1) <= unit * p /\ unit * (q + 1) = unit * q + unit
    BY <1>2, <2>1, SMT
  <2> QED BY <1>4, <2>2, SMT
<1> QED BY <1>1, <1>2, <1>3, <1>5, SMT DEF IsFloat, p
=============================================================================
