------------------------ MODULE MeterRuntime_proofs ------------------------
(***************************************************************************)
(* For one or two sources, any readings, limits and faults: the types, the *)
(* ownership of the writer thread, and how memory, disk and bank agree:    *)
(* the energy shown never falls and is durable, no save takes energy back, *)
(* a clean exit keeps everything, the bank follows what expires, and       *)
(* expiry never meets an image that cannot be built.                       *)
(***************************************************************************)
EXTENDS MeterRuntime, SequenceTheorems, FiniteSetTheorems, TLAPS

(* update() for all tolerances, ranges and readings *)

\* An allowed update yields a counter within the ranges load() accepts.
LEMMA UpdateTyped ==
    ASSUME NEW c \in Counter \cup {NoCounter}, NEW raw, NEW f,
           UpdateAllowed(c, raw, f)
    PROVE  /\ UpdateCounter(c, raw, f) \in Counter
           /\ UpdateCounter(c, raw, f) # NoCounter
<1> USE CounterAssumption DEF Counter
<1> DEFINE u == UpdateCounter(c, raw, f)
<1>1. raw \in 0..FloatMax /\ f \in Fields /\ u.value <= FloatMax
  BY DEF UpdateAllowed
<1>2. CASE c = NoCounter
  BY <1>1, <1>2 DEF UpdateCounter, FirstReading
<1>3. CASE c # NoCounter /\ f # c.field
  BY <1>1, <1>3 DEF UpdateCounter, Rebaselined
<1>4. CASE c # NoCounter /\ f = c.field /\ IsReset(c, raw)
  BY <1>1, <1>4 DEF UpdateCounter, Restarted
<1>5. CASE c # NoCounter /\ f = c.field /\ ~IsReset(c, raw)
  BY <1>1, <1>5 DEF UpdateCounter, Advanced
<1>6. QED BY <1>2, <1>3, <1>4, <1>5

\* No update lowers the energy of a source, whatever the plug reports: a
\* reset, a changed field and a small step back included.
THEOREM UpdateNeverLowers ==
    ASSUME NEW c \in Counter \cup {NoCounter}, NEW raw, NEW f,
           UpdateAllowed(c, raw, f)
    PROVE  Energy(c) <= Energy(UpdateCounter(c, raw, f))
<1> USE CounterAssumption DEF Counter, Energy
<1>1. raw \in 0..FloatMax /\ f \in Fields
  BY DEF UpdateAllowed
<1>2. UpdateCounter(c, raw, f) # NoCounter
  BY UpdateTyped
<1>3. CASE c = NoCounter
  BY <1>1, <1>2, <1>3 DEF UpdateCounter, FirstReading
<1>4. CASE c # NoCounter /\ f # c.field
  BY <1>1, <1>2, <1>4 DEF UpdateCounter, Rebaselined
<1>5. CASE c # NoCounter /\ f = c.field /\ IsReset(c, raw)
  BY <1>1, <1>2, <1>5 DEF UpdateCounter, Restarted
<1>6. CASE c # NoCounter /\ f = c.field /\ ~IsReset(c, raw)
  BY <1>1, <1>2, <1>6 DEF UpdateCounter, Advanced
<1>7. QED BY <1>3, <1>4, <1>5, <1>6
-----------------------------------------------------------------------------
(* The invariant of the control *)

\* A task in the queue waits there once, and a source with its reading.
QueueInv ==
    /\ \A i \in 1..Len(waiters) : pc[waiters[i]] = "queued"
    /\ \A i, j \in 1..Len(waiters) : waiters[i] = waiters[j] => i = j
    /\ \A s \in Sources : pc[s] = "queued" => reading[s] \in Reading

\* The tasks in persist() are those that hold the lock: one at most.
LockInv ==
    /\ \A t \in Tasks : pc[t] \in {"persist", "join"} <=> lock = t
    /\ writer # "idle" => proc = "final" \/ lock # NoTask

\* Once the main task has cancelled the others, none of them starts anything.
MainInv ==
    /\ proc # "serving" =>
           /\ waiters = <<>>
           /\ \A t \in Tasks : pc[t] \in {"join", "ended", "failed"}
    /\ proc \in {"final", "down"} => \A t \in Tasks : pc[t] \in {"ended", "failed"}

ControlInv == TypeOK /\ QueueInv /\ LockInv /\ MainInv
-----------------------------------------------------------------------------
(* The register image and the candidate *)

LEMMA EnergyTyped == \A c \in Counter \cup {NoCounter} : Energy(c) \in Nat
  BY CounterAssumption DEF Energy, Counter

LEMMA ImageTyped ==
    ASSUME NEW l \in [Sources -> Latest], NEW c \in Documents
    PROVE  /\ Image(l, c) \in Bank
           /\ Image(l, c).wh = Energies(c)
<1>1. Energies(c) \in [Sources -> Nat]
  BY EnergyTyped DEF Energies, Documents
<1>2. ASSUME NEW s \in Fresh(l)
      PROVE  Shown(l[s]) \in Measurement
  BY <1>2, RuntimeAssumption DEF Fresh, Shown, Latest
<1>3. [s \in Sources |-> IF s \in Fresh(l) THEN Shown(l[s]) ELSE NoReading]
          \in [Sources -> Measurement \cup {NoReading}]
  BY <1>2
<1>4. QED BY <1>1, <1>3 DEF Image, Bank

\* A candidate that update() allows is a document, with no energy lost.
LEMMA CandidateGrows ==
    ASSUME counters \in Documents, NEW s \in Sources, NEW r,
           UpdateAllowed(counters[s], r.raw, r.field)
    PROVE  /\ Candidate(s, r) \in Documents
           /\ \A x \in Sources : Energy(counters[x]) <= Energy(Candidate(s, r)[x])
<1>1. counters[s] \in Counter \cup {NoCounter}
  BY DEF Documents
<1>2. UpdateCounter(counters[s], r.raw, r.field) \in Counter
  BY <1>1, UpdateTyped
<1>3. Energy(counters[s]) <= Energy(UpdateCounter(counters[s], r.raw, r.field))
  BY <1>1, UpdateNeverLowers
<1>4. Candidate(s, r) \in Documents
  BY <1>2 DEF Candidate, Documents
<1>5. ASSUME NEW x \in Sources
      PROVE  Energy(counters[x]) <= Energy(Candidate(s, r)[x])
  <2>1. CASE x = s
    BY <1>3, <2>1 DEF Candidate, Documents
  <2>2. CASE x # s
    <3>1. Energy(counters[x]) \in Nat
      BY EnergyTyped DEF Documents
    <3>2. Candidate(s, r)[x] = counters[x]
      BY <2>2 DEF Candidate, Documents
    <3>3. QED BY <3>1, <3>2
  <2>3. QED BY <2>1, <2>2
<1>6. QED BY <1>4, <1>5
-----------------------------------------------------------------------------
(* What accept() does, whichever way it ends *)

\* The lock is released and nothing is saved, or the candidate is.
AcceptEnds(s) ==
    \/ /\ BackToPoll(s)
       /\ Energies(counters') = Energies(counters)
    \/ /\ writer = "idle" /\ writer' = "writing"
       /\ doc' \in Documents
       /\ \A x \in Sources : Energy(counters[x]) <= Energy(doc'[x])
       /\ UNCHANGED <<visible, outcomes, counters>>
       /\ pc' = [pc EXCEPT ![s] = "persist"]
       /\ lock' = s

LEMMA AcceptEffect ==
    ASSUME StateTypeOK, MeterTypeOK, NEW s \in Sources, NEW r \in Reading, Accept(s, r)
    PROVE  /\ AcceptEnds(s)
           /\ StateTypeOK' /\ MeterTypeOK'
           /\ bank'.wh \in {bank.wh, Energies(counters)}
<1> USE DEF StateTypeOK, MeterTypeOK
<1>1. CASE RejectReading(s, r)
  BY <1>1 DEF RejectReading, AcceptEnds, stateVars, meterVars
<1>2. ASSUME Acceptable(s, r)
      PROVE  /\ Candidate(s, r) \in Documents
             /\ \A x \in Sources : Energy(counters[x]) <= Energy(Candidate(s, r)[x])
  BY <1>2, CandidateGrows DEF Acceptable
<1>3. LatestWith(s, r) \in [Sources -> Latest]
  BY DEF LatestWith, Latest, Reading
<1>4. CASE SaveReading(s, r)
  <2>1. Image(LatestWith(s, r), counters) \in Bank
        /\ Image(LatestWith(s, r), counters).wh = Energies(counters)
    BY <1>3, ImageTyped
  <2>2. bank' \in Bank /\ bank'.wh = Energies(counters)
    BY <1>4, <2>1 DEF SaveReading, Publish
  <2>3. AcceptEnds(s)
    BY <1>2, <1>4 DEF SaveReading, StartPersist, Store!BeginSave, AcceptEnds, stateVars
  <2>4. QED BY <1>3, <1>4, <2>2, <2>3 DEF SaveReading, stateVars
<1>5. CASE AdoptReading(s, r)
  <2>1. counters' \in Documents /\ Energies(counters') = Energies(counters)
    BY <1>2, <1>5 DEF AdoptReading, MustSave
  <2>2. Image(LatestWith(s, r), counters') \in Bank
        /\ Image(LatestWith(s, r), counters').wh = Energies(counters)
    BY <1>3, <2>1, ImageTyped
  <2>3. bank' \in Bank /\ bank'.wh = Energies(counters)
    BY <1>5, <2>2 DEF AdoptReading, Publish
  <2>4. AcceptEnds(s)
    BY <1>5, <2>1 DEF AdoptReading, AcceptEnds
  <2>5. QED BY <1>3, <1>5, <2>1, <2>3, <2>4 DEF AdoptReading
<1>6. QED BY <1>1, <1>4, <1>5 DEF Accept
-----------------------------------------------------------------------------
(* The types *)

LEMMA TypeInit == Init => TypeOK
<1> SUFFICES ASSUME Init PROVE TypeOK
  OBVIOUS
<1>1. EmptyDocument \in Documents
  BY DEF EmptyDocument, Documents
<1>2. NobodyFresh \in [Sources -> Latest]
  BY DEF NobodyFresh, Latest
<1>3. StoreTypeOK
  BY <1>1 DEF Init, Store!StoreInit, StoreTypeOK
<1>4. MainTypeOK
  BY DEF Init, MainTypeOK
<1>5. TaskTypeOK
  BY EmptySeq DEF Init, TaskTypeOK, NobodyFresh
<1>6. StateTypeOK
  BY <1>1 DEF Init, StateTypeOK
<1>7. bank \in Bank
  BY <1>1, <1>2, ImageTyped DEF Init
<1>8. MeterTypeOK
  BY <1>2, <1>7 DEF Init, MeterTypeOK
<1>9. QED BY <1>3, <1>4, <1>5, <1>6, <1>8 DEF TypeOK

LEMMA TypeUnchanged ==
    ASSUME TypeOK
    PROVE  /\ UNCHANGED storeVars => StoreTypeOK'
           /\ UNCHANGED mainVars => MainTypeOK'
           /\ UNCHANGED taskVars => TaskTypeOK'
           /\ UNCHANGED stateVars => StateTypeOK'
           /\ UNCHANGED meterVars => MeterTypeOK'
<1> USE DEF TypeOK
<1>1. UNCHANGED storeVars => StoreTypeOK'
  BY DEF storeVars, StoreTypeOK
<1>2. UNCHANGED mainVars => MainTypeOK'
  BY DEF mainVars, MainTypeOK
<1>3. UNCHANGED taskVars => TaskTypeOK'
  BY DEF taskVars, TaskTypeOK
<1>4. UNCHANGED stateVars => StateTypeOK'
  BY DEF stateVars, StateTypeOK
<1>5. UNCHANGED meterVars => MeterTypeOK'
  BY DEF meterVars, MeterTypeOK
<1>6. QED BY <1>1, <1>2, <1>3, <1>4, <1>5

\* The end of an accept() leaves well-typed store and task variables.
LEMMA AcceptEndsTyped ==
    ASSUME TypeOK, NEW s \in Sources, AcceptEnds(s)
    PROVE  /\ StoreTypeOK'
           /\ pc' \in [Tasks -> {"poll", "queued", "persist", "join", "ended", "failed"}]
           /\ lock' \in Tasks \cup {NoTask}
<1>1. CASE BackToPoll(s)
  BY <1>1 DEF BackToPoll, TypeOK, StoreTypeOK, TaskTypeOK, storeVars
<1>2. CASE ~BackToPoll(s)
  BY <1>2 DEF AcceptEnds, TypeOK, StoreTypeOK, TaskTypeOK, Tasks
<1>3. QED BY <1>1, <1>2

LEMMA SampleTyped ==
    ASSUME NEW x \in Samples
    PROVE  [raw |-> x.raw, field |-> x.field, measured |-> x.measured, age |-> 0] \in Reading
<1>1. x \in Sample /\ Stale \in Nat
  BY RuntimeAssumption
<1>2. QED BY <1>1 DEF Sample, Reading

LEMMA ReplyTyped ==
    ASSUME TypeOK, NEW s \in Sources, NEW x \in Samples, Reply(s, x)
    PROVE  TypeOK'
<1> DEFINE r == [raw |-> x.raw, field |-> x.field, measured |-> x.measured, age |-> 0]
<1>1. r \in Reading
  BY SampleTyped
<1>2. MainTypeOK'
  BY TypeUnchanged DEF Reply
<1>3. CASE LockFree /\ Accept(s, r) /\ UNCHANGED <<reading, waiters>>
  <2>1. AcceptEnds(s) /\ StateTypeOK' /\ MeterTypeOK'
    BY <1>1, <1>3, AcceptEffect DEF TypeOK
  <2>2. StoreTypeOK' /\ TaskTypeOK'
    BY <1>3, <2>1, AcceptEndsTyped DEF TypeOK, TaskTypeOK
  <2>3. QED BY <1>2, <2>1, <2>2 DEF TypeOK
<1>4. CASE /\ Enqueue(s)
           /\ reading' = [reading EXCEPT ![s] = r]
           /\ UNCHANGED <<storeVars, stateVars, meterVars>>
  <2>1. waiters' \in Seq(Tasks)
    BY <1>4 DEF Enqueue, TypeOK, TaskTypeOK, Tasks
  <2>2. TaskTypeOK'
    BY <1>1, <1>4, <2>1 DEF Enqueue, TypeOK, TaskTypeOK
  <2>3. QED BY <1>2, <1>4, <2>2, TypeUnchanged DEF TypeOK
<1>5. QED BY <1>3, <1>4 DEF Reply

LEMMA AcceptQueuedTyped ==
    ASSUME TypeOK, NEW s \in Sources, reading[s] \in Reading, AcceptQueued(s)
    PROVE  TypeOK'
<1>1. AcceptEnds(s) /\ StateTypeOK' /\ MeterTypeOK'
  BY AcceptEffect DEF AcceptQueued, TypeOK
<1>2. StoreTypeOK'
  BY <1>1, AcceptEndsTyped
<1>3. reading' \in [Sources -> Reading \cup {NoReading}]
  BY DEF AcceptQueued, TypeOK, TaskTypeOK
<1>4. waiters' \in Seq(Tasks)
  BY DEF AcceptQueued, TypeOK, TaskTypeOK
<1>5. TaskTypeOK'
  BY <1>1, <1>3, <1>4, AcceptEndsTyped DEF TaskTypeOK
<1>6. MainTypeOK'
  BY TypeUnchanged DEF AcceptQueued
<1>7. QED BY <1>1, <1>2, <1>5, <1>6 DEF TypeOK

LEMMA FlushTyped ==
    ASSUME TypeOK, FlushDue \/ FlushQueued
    PROVE  TypeOK'
<1>1. MainTypeOK' /\ StateTypeOK' /\ MeterTypeOK'
  BY TypeUnchanged DEF FlushDue, FlushQueued
<1>2. ASSUME Flush PROVE StoreTypeOK'
  <2>1. CASE StartPersist(Flusher, counters)
    BY <2>1 DEF StartPersist, Store!BeginSave, TypeOK, StoreTypeOK, StateTypeOK
  <2>2. CASE BackToPoll(Flusher)
    BY <2>2, TypeUnchanged DEF BackToPoll
  <2>3. QED BY <1>2, <2>1, <2>2 DEF Flush
<1>3. StoreTypeOK'
  BY <1>2, TypeUnchanged DEF FlushDue, FlushQueued
<1>4. /\ pc' \in [Tasks -> {"poll", "queued", "persist", "join", "ended", "failed"}]
      /\ lock' \in Tasks \cup {NoTask}
  BY DEF FlushDue, FlushQueued, Flush, StartPersist, BackToPoll, Enqueue, TypeOK,
         TaskTypeOK, Tasks
<1>5. waiters' \in Seq(Tasks)
  <2>1. CASE FlushDue
    <3>1. Flusher \in Tasks
      BY DEF Tasks
    <3>2. QED BY <2>1, <3>1 DEF FlushDue, Enqueue, TypeOK, TaskTypeOK
  <2>2. CASE FlushQueued
    BY <2>2 DEF FlushQueued, TypeOK, TaskTypeOK
  <2>3. QED BY <2>1, <2>2
<1>6. reading' \in [Sources -> Reading \cup {NoReading}]
  BY DEF FlushDue, FlushQueued, TypeOK, TaskTypeOK
<1>7. TaskTypeOK'
  BY <1>4, <1>5, <1>6 DEF TaskTypeOK
<1>8. QED BY <1>1, <1>3, <1>7 DEF TypeOK

LEMMA JoinedTyped ==
    ASSUME TypeOK, NEW result, Store!Joined(result)
    PROVE  StoreTypeOK'
<1>1. EmptyDocument \in Documents
  BY DEF EmptyDocument, Documents
<1>2. QED BY <1>1 DEF Store!Joined, Store!NoWriter, TypeOK, StoreTypeOK

LEMMA PersistTyped ==
    ASSUME TypeOK, NEW t \in Tasks,
           PersistDone(t) \/ PersistFails(t) \/ JoinDone(t) \/ JoinFails(t)
    PROVE  TypeOK'
<1>1. StoreTypeOK'
  BY JoinedTyped DEF PersistDone, PersistFails, JoinDone, JoinFails
<1>2. MainTypeOK'
  BY TypeUnchanged DEF PersistDone, PersistFails, JoinDone, JoinFails
<1>3. TaskTypeOK'
  BY DEF PersistDone, PersistFails, JoinDone, JoinFails, TypeOK, TaskTypeOK
<1>4. StateTypeOK'
  BY DEF PersistDone, PersistFails, JoinDone, JoinFails, AdoptSaved, stateVars,
         TypeOK, StoreTypeOK, StateTypeOK
<1>5. ASSUME PersistDone(t) PROVE MeterTypeOK'
  <2>1. Image(latest, counters') \in Bank
    BY <1>4, ImageTyped DEF TypeOK, MeterTypeOK, StateTypeOK
  <2>2. bank' \in Bank
    BY <1>5, <2>1 DEF PersistDone, Publish, TypeOK, MeterTypeOK
  <2>3. QED BY <1>5, <2>2 DEF PersistDone, TypeOK, MeterTypeOK
<1>6. MeterTypeOK'
  BY <1>5, TypeUnchanged DEF PersistFails, JoinDone, JoinFails
<1>7. QED BY <1>1, <1>2, <1>3, <1>4, <1>6 DEF TypeOK

LEMMA WriterTyped ==
    ASSUME TypeOK, WriterStep
    PROVE  TypeOK'
<1>1. StoreTypeOK'
  BY DEF WriterStep, Store!SaveStep, Store!Rename, Store!SyncDirectory, Store!SaveFails,
         TypeOK, StoreTypeOK
<1>2. QED BY <1>1, TypeUnchanged DEF WriterStep, TypeOK

LEMMA ExpireTyped ==
    ASSUME TypeOK, Expire
    PROVE  TypeOK'
<1>1. Image(latest, counters) \in Bank
  BY ImageTyped DEF TypeOK, MeterTypeOK, StateTypeOK
<1>2. Remaining(latest) \subseteq 0..Stale
  BY RuntimeAssumption DEF Remaining, Fresh, Latest, TypeOK, MeterTypeOK
<1>3. MeterTypeOK'
  BY <1>1, <1>2 DEF Expire, Publish, SetTimer, TypeOK, MeterTypeOK
<1>4. QED BY <1>3, TypeUnchanged DEF Expire, TypeOK

LEMMA TickTyped ==
    ASSUME TypeOK, Tick
    PROVE  TypeOK'
<1> USE RuntimeAssumption
<1>1. latest' \in [Sources -> Latest]
  <2>1. \A l \in Latest : Older(l) \in Latest
    BY DEF Older, Latest
  <2>2. QED BY <2>1 DEF Tick, TypeOK, MeterTypeOK
<1>2. reading' \in [Sources -> Reading \cup {NoReading}]
  <2>1. \A r \in Reading \cup {NoReading} : Older(r) \in Reading \cup {NoReading}
    BY DEF Older, Reading
  <2>2. QED BY <2>1 DEF Tick, TypeOK, TaskTypeOK
<1>3. timer' \in (0..Stale) \cup {Never}
  BY DEF Tick, TypeOK, MeterTypeOK
<1>4. MeterTypeOK'
  BY <1>1, <1>3 DEF Tick, TypeOK, MeterTypeOK
<1>5. TaskTypeOK'
  BY <1>2 DEF Tick, TypeOK, TaskTypeOK
<1>6. QED BY <1>4, <1>5, TypeUnchanged DEF Tick, TypeOK

LEMMA MainTyped ==
    ASSUME TypeOK, Stop \/ MainStep
    PROVE  TypeOK'
<1> USE DEF MainStep
<1>1. MainTypeOK'
  BY DEF Stop, MainWakes, MainGathers, FinalSaved, FinalFails, TypeOK, MainTypeOK
<1>2. StoreTypeOK'
  <2>1. CASE MainGathers
    BY <2>1 DEF MainGathers, Store!BeginSave, storeVars, TypeOK, StoreTypeOK, StateTypeOK
  <2>2. CASE Stop \/ MainWakes
    BY <2>2, TypeUnchanged DEF Stop, MainWakes
  <2>3. CASE FinalSaved \/ FinalFails
    BY <2>3, JoinedTyped DEF FinalSaved, FinalFails
  <2>4. QED BY <2>1, <2>2, <2>3
<1>3. TaskTypeOK'
  <2>1. CASE MainWakes
    BY <2>1, EmptySeq DEF MainWakes, Cancelled, TypeOK, TaskTypeOK
  <2>2. CASE ~MainWakes
    BY <2>2, TypeUnchanged DEF Stop, MainGathers, FinalSaved, FinalFails
  <2>3. QED BY <2>1, <2>2
<1>4. StateTypeOK'
  BY DEF Stop, MainWakes, MainGathers, FinalSaved, FinalFails, AdoptSaved, stateVars,
         TypeOK, StoreTypeOK, StateTypeOK
<1>5. MeterTypeOK'
  BY TypeUnchanged DEF Stop, MainWakes, MainGathers, FinalSaved, FinalFails
<1>6. QED BY <1>1, <1>2, <1>3, <1>4, <1>5 DEF TypeOK

LEMMA DeathTyped ==
    ASSUME TypeOK, Killed \/ PowerLoss \/ Restart
    PROVE  TypeOK'
<1>1. EmptyDocument \in Documents
  BY DEF EmptyDocument, Documents
<1>2. NobodyFresh \in [Sources -> Latest]
      /\ NobodyFresh \in [Sources -> Reading \cup {NoReading}]
  BY DEF NobodyFresh, Latest
<1>3. Image(NobodyFresh, visible) \in Bank
  BY <1>2, ImageTyped DEF TypeOK, StoreTypeOK
<1>4. StoreTypeOK'
  BY <1>1, TypeUnchanged DEF Killed, PowerLoss, Restart, Store!StoreKilled, Store!StorePowerLoss,
     Store!NoWriter, TypeOK, StoreTypeOK
<1>5. MainTypeOK'
  BY DEF Killed, PowerLoss, Restart, Dies, MainTypeOK
<1>6. TaskTypeOK'
  BY <1>2, EmptySeq DEF Killed, PowerLoss, Restart, Dies, TaskTypeOK
<1>7. StateTypeOK'
  BY <1>1 DEF Killed, PowerLoss, Restart, Dies, TypeOK, StoreTypeOK, StateTypeOK
<1>8. MeterTypeOK'
  BY <1>2, <1>3 DEF Killed, PowerLoss, Restart, Dies, TypeOK, MeterTypeOK
<1>9. QED BY <1>4, <1>5, <1>6, <1>7, <1>8 DEF TypeOK

LEMMA TypeStep ==
    ASSUME TypeOK, QueueInv, [Next]_vars
    PROVE  TypeOK'
<1>1. CASE UNCHANGED vars
  BY <1>1, TypeUnchanged DEF vars, TypeOK
<1>2. ASSUME NEW s \in Sources, AcceptQueued(s)
      PROVE  TypeOK'
  <2>1. 1 \in 1..Len(waiters) /\ waiters[1] = s
    BY <1>2 DEF AcceptQueued, TypeOK, TaskTypeOK
  <2>2. reading[s] \in Reading
    BY <2>1 DEF QueueInv
  <2>3. QED BY <1>2, <2>2, AcceptQueuedTyped
<1>3. CASE TaskStep
  BY <1>2, <1>3, FlushTyped, PersistTyped DEF TaskStep
<1>4. QED BY <1>1, <1>3, ReplyTyped, FlushTyped, WriterTyped, ExpireTyped, TickTyped,
             MainTyped, DeathTyped DEF Next
-----------------------------------------------------------------------------
(* The queue, the lock and the main task *)

LEMMA ControlInit == Init => ControlInv
<1> SUFFICES ASSUME Init PROVE ControlInv
  OBVIOUS
<1>1. TypeOK
  BY TypeInit
<1>2. QueueInv
  <2>1. Len(waiters) = 0 /\ \A s \in Sources : pc[s] = "poll"
    BY EmptySeq DEF Init, Tasks
  <2>2. QED BY <2>1 DEF QueueInv
<1>3. LockInv
  BY RuntimeAssumption DEF Init, Store!StoreInit, LockInv
<1>4. MainInv
  BY DEF Init, MainInv
<1>5. QED BY <1>1, <1>2, <1>3, <1>4 DEF ControlInv

\* A task that takes the lock leaves the head of the queue, or there is none.
LEMMA DequeueFacts ==
    ASSUME TypeOK, QueueInv, NEW t \in Tasks,
           waiters # <<>>, Head(waiters) = t, waiters' = Tail(waiters)
    PROVE  /\ pc[t] = "queued"
           /\ Len(waiters') = Len(waiters) - 1 /\ Len(waiters) \in Nat
           /\ \A i \in 1..Len(waiters') :
                  /\ waiters'[i] = waiters[i + 1] /\ waiters[i + 1] # t
                  /\ pc[waiters[i + 1]] = "queued" /\ waiters[i + 1] \in Tasks
<1>1. /\ Len(waiters) \in Nat \ {0} /\ waiters[1] = t
      /\ Len(Tail(waiters)) = Len(waiters) - 1
      /\ \A i \in 1..Len(Tail(waiters)) : Tail(waiters)[i] = waiters[i + 1]
  BY DEF TypeOK, TaskTypeOK
<1>2. pc[t] = "queued"
  BY <1>1 DEF QueueInv
<1>3. ASSUME NEW i \in 1..Len(waiters')
      PROVE  /\ waiters'[i] = waiters[i + 1] /\ waiters[i + 1] # t
             /\ pc[waiters[i + 1]] = "queued" /\ waiters[i + 1] \in Tasks
  <2>1. i + 1 \in 1..Len(waiters) /\ i + 1 # 1 /\ 1 \in 1..Len(waiters)
    BY <1>1
  <2>2. waiters[i + 1] # waiters[1]
    BY <2>1 DEF QueueInv
  <2>3. waiters[i + 1] \in Tasks
    BY <2>1, ElementOfSeq DEF TypeOK, TaskTypeOK
  <2>4. QED BY <1>1, <2>1, <2>2, <2>3 DEF QueueInv
<1>4. QED BY <1>1, <1>2, <1>3

\* The queue and who is in it do not change.
LEMMA QueueKept ==
    ASSUME TypeOK, QueueInv, waiters' = waiters,
           \A t \in Tasks : pc[t] = "queued" <=> pc'[t] = "queued",
           \A s \in Sources : reading[s] \in Reading => reading'[s] \in Reading
    PROVE  QueueInv'
<1>1. \A i \in 1..Len(waiters) : waiters[i] \in Tasks
  BY ElementOfSeq DEF TypeOK, TaskTypeOK
<1>2. QED BY <1>1 DEF QueueInv, Tasks

LEMMA QueueEmptied ==
    ASSUME waiters' = <<>>, \A t \in Tasks : pc'[t] # "queued"
    PROVE  QueueInv'
<1>1. Len(waiters') = 0
  BY EmptySeq
<1>2. QED BY <1>1 DEF QueueInv, Tasks

LEMMA QueueExtended ==
    ASSUME TypeOK, QueueInv, NEW t \in Tasks, pc[t] = "poll", Enqueue(t),
           \A s \in Sources : reading'[s] \in Reading \/ (s # t /\ reading' [s] = reading[s])
    PROVE  QueueInv'
<1>1. /\ Len(waiters) \in Nat
      /\ Len(waiters') = Len(waiters) + 1
      /\ waiters'[Len(waiters) + 1] = t
      /\ \A i \in 1..Len(waiters) : waiters'[i] = waiters[i]
  BY DEF Enqueue, TypeOK, TaskTypeOK
<1>2. \A i \in 1..Len(waiters) : waiters[i] \in Tasks /\ waiters[i] # t
  BY ElementOfSeq DEF TypeOK, TaskTypeOK, QueueInv
<1>3. \A x \in Tasks : pc'[x] = IF x = t THEN "queued" ELSE pc[x]
  BY DEF Enqueue, TypeOK, TaskTypeOK
<1>4. \A i \in 1..Len(waiters') : i \in 1..Len(waiters) \/ i = Len(waiters) + 1
  BY <1>1
<1>5. \A i \in 1..Len(waiters') : pc'[waiters'[i]] = "queued"
  BY <1>1, <1>2, <1>3, <1>4 DEF QueueInv
<1>6. \A i, j \in 1..Len(waiters') : waiters'[i] = waiters'[j] => i = j
  BY <1>1, <1>2, <1>4 DEF QueueInv
<1>7. \A s \in Sources : pc'[s] = "queued" => reading'[s] \in Reading
  BY <1>3 DEF QueueInv, Tasks
<1>8. QED BY <1>5, <1>6, <1>7 DEF QueueInv

LEMMA QueueShortened ==
    ASSUME TypeOK, QueueInv, NEW t \in Tasks,
           waiters # <<>>, Head(waiters) = t, waiters' = Tail(waiters),
           NEW state, state # "queued", pc' = [pc EXCEPT ![t] = state],
           \A s \in Sources \ {t} : reading'[s] = reading[s]
    PROVE  QueueInv'
<1>1. /\ Len(waiters') = Len(waiters) - 1 /\ Len(waiters) \in Nat
      /\ \A i \in 1..Len(waiters') :
             /\ waiters'[i] = waiters[i + 1] /\ waiters[i + 1] # t
             /\ pc[waiters[i + 1]] = "queued" /\ waiters[i + 1] \in Tasks
  BY DequeueFacts
<1>2. \A x \in Tasks : pc'[x] = IF x = t THEN state ELSE pc[x]
  BY DEF TypeOK, TaskTypeOK
<1>3. \A i \in 1..Len(waiters') : pc'[waiters'[i]] = "queued"
  BY <1>1, <1>2
<1>4. ASSUME NEW i \in 1..Len(waiters'), NEW j \in 1..Len(waiters'), waiters'[i] = waiters'[j]
      PROVE  i = j
  <2>1. i + 1 \in 1..Len(waiters) /\ j + 1 \in 1..Len(waiters)
    BY <1>1
  <2>2. i + 1 = j + 1
    BY <1>1, <1>4, <2>1 DEF QueueInv
  <2>3. QED BY <2>2
<1>5. \A s \in Sources : pc'[s] = "queued" => reading'[s] \in Reading
  BY <1>2 DEF QueueInv, Tasks
<1>6. QED BY <1>3, <1>4, <1>5 DEF QueueInv

LEMMA QueueStep ==
    ASSUME ControlInv, [Next]_vars
    PROVE  QueueInv'
<1> USE DEF ControlInv
<1>1. ASSUME NEW s \in Sources, NEW x \in Samples, Reply(s, x)
      PROVE  QueueInv'
  <2> DEFINE r == [raw |-> x.raw, field |-> x.field, measured |-> x.measured, age |-> 0]
  <2>1. r \in Reading /\ s \in Tasks
    BY SampleTyped DEF Tasks
  <2>2. CASE Accept(s, r) /\ UNCHANGED <<reading, waiters>>
    <3>1. AcceptEnds(s)
      BY <2>1, <2>2, AcceptEffect DEF TypeOK
    <3>2. \A t \in Tasks : pc[t] = "queued" <=> pc'[t] = "queued"
      BY <1>1, <2>1, <3>1 DEF Reply, AcceptEnds, BackToPoll, TypeOK, TaskTypeOK
    <3>3. QED BY <2>2, <3>2, QueueKept
  <2>3. CASE Enqueue(s) /\ reading' = [reading EXCEPT ![s] = r]
    <3>1. \A y \in Sources : reading'[y] \in Reading \/ (y # s /\ reading'[y] = reading[y])
      BY <2>1, <2>3 DEF TypeOK, TaskTypeOK
    <3>2. QED BY <1>1, <2>1, <2>3, <3>1, QueueExtended DEF Reply
  <2>4. QED BY <1>1, <2>2, <2>3 DEF Reply
<1>2. ASSUME NEW s \in Sources, AcceptQueued(s)
      PROVE  QueueInv'
  <2>1. s \in Tasks
    BY DEF Tasks
  <2>2. reading[s] \in Reading
    BY <1>2, <2>1, DequeueFacts DEF AcceptQueued, QueueInv
  <2>3. AcceptEnds(s)
    BY <1>2, <2>2, AcceptEffect DEF AcceptQueued, TypeOK
  <2>4. \A y \in Sources \ {s} : reading'[y] = reading[y]
    BY <1>2 DEF AcceptQueued, TypeOK, TaskTypeOK
  <2>5. pc' = [pc EXCEPT ![s] = "poll"] \/ pc' = [pc EXCEPT ![s] = "persist"]
    BY <2>3 DEF AcceptEnds, BackToPoll
  <2>6. QED BY <1>2, <2>1, <2>4, <2>5, QueueShortened DEF AcceptQueued
<1>3. Flusher \in Tasks
  BY DEF Tasks
<1>4. CASE FlushDue
  <2>1. CASE Flush /\ UNCHANGED waiters
    <3>1. \A t \in Tasks : pc[t] = "queued" <=> pc'[t] = "queued"
      BY <1>3, <1>4, <2>1 DEF FlushDue, Flush, StartPersist, BackToPoll, TypeOK, TaskTypeOK
    <3>2. QED BY <1>4, <2>1, <3>1, QueueKept DEF FlushDue
  <2>2. CASE Enqueue(Flusher)
    <3>1. \A s \in Sources : s # Flusher /\ reading'[s] = reading[s]
      BY <1>4, RuntimeAssumption DEF FlushDue
    <3>2. QED BY <1>3, <1>4, <2>2, <3>1, QueueExtended DEF FlushDue
  <2>3. QED BY <1>4, <2>1, <2>2 DEF FlushDue
<1>5. CASE FlushQueued
  <2>1. pc' = [pc EXCEPT ![Flusher] = "poll"] \/ pc' = [pc EXCEPT ![Flusher] = "persist"]
    BY <1>5 DEF FlushQueued, Flush, StartPersist, BackToPoll
  <2>2. QED BY <1>3, <1>5, <2>1, QueueShortened DEF FlushQueued
<1>6. ASSUME NEW t \in Tasks,
             PersistDone(t) \/ PersistFails(t) \/ JoinDone(t) \/ JoinFails(t)
      PROVE  QueueInv'
  <2>1. \A x \in Tasks : pc[x] = "queued" <=> pc'[x] = "queued"
    BY <1>6 DEF PersistDone, PersistFails, JoinDone, JoinFails, TypeOK, TaskTypeOK
  <2>2. waiters' = waiters /\ reading' = reading
    BY <1>6 DEF PersistDone, PersistFails, JoinDone, JoinFails
  <2>3. QED BY <2>1, <2>2, QueueKept
<1>7. CASE Tick
  <2>1. \A r \in Reading : Older(r) \in Reading
    BY RuntimeAssumption DEF Older, Reading
  <2>2. \A s \in Sources : reading[s] \in Reading => reading'[s] \in Reading
    BY <1>7, <2>1 DEF Tick
  <2>3. QED BY <1>7, <2>2, QueueKept DEF Tick
<1>8. CASE \/ UNCHANGED vars \/ WriterStep \/ Expire \/ Stop
           \/ MainGathers \/ FinalSaved \/ FinalFails
  <2>1. UNCHANGED taskVars
    BY <1>8 DEF vars, WriterStep, Expire, Stop, MainGathers, FinalSaved, FinalFails
  <2>2. QED BY <2>1, QueueKept DEF taskVars
<1>9. CASE MainWakes
  <2>1. \A t \in Tasks : pc'[t] # "queued"
    BY <1>9 DEF MainWakes, Cancelled, TypeOK, TaskTypeOK
  <2>2. QED BY <1>9, <2>1, QueueEmptied DEF MainWakes
<1>10. CASE Killed \/ PowerLoss \/ Restart
  BY <1>10, QueueEmptied DEF Killed, PowerLoss, Restart, Dies
<1>11. QED
  BY <1>1, <1>2, <1>4, <1>5, <1>6, <1>7, <1>8, <1>9, <1>10 DEF Next, TaskStep, MainStep

LEMMA LockStep ==
    ASSUME ControlInv, [Next]_vars
    PROVE  LockInv'
<1> USE DEF ControlInv
<1>0. Flusher \in Tasks /\ Sources \subseteq Tasks /\ NoTask \notin Tasks
  BY RuntimeAssumption DEF Tasks
<1>1. ASSUME NEW t \in Tasks, pc[t] \in {"poll", "queued"}, lock = NoTask,
             \/ pc' = [pc EXCEPT ![t] = "poll"] /\ lock' = NoTask /\ writer' = writer
             \/ pc' = [pc EXCEPT ![t] = "persist"] /\ lock' = t,
             proc' = proc
      PROVE  LockInv'
  BY <1>0, <1>1 DEF LockInv, TypeOK, TaskTypeOK
<1>2. ASSUME NEW s \in Sources, AcceptEnds(s)
      PROVE  \/ pc' = [pc EXCEPT ![s] = "poll"] /\ lock' = NoTask /\ writer' = writer
             \/ pc' = [pc EXCEPT ![s] = "persist"] /\ lock' = s
  BY <1>2 DEF AcceptEnds, BackToPoll, storeVars
<1>3. ASSUME NEW t \in Tasks, Enqueue(t), pc[t] = "poll", UNCHANGED <<proc, writer>>
      PROVE  LockInv'
  BY <1>0, <1>3 DEF Enqueue, LockInv, TypeOK, TaskTypeOK
<1>4. ASSUME NEW s \in Sources, NEW x \in Samples, Reply(s, x)
      PROVE  LockInv'
  <2> DEFINE r == [raw |-> x.raw, field |-> x.field, measured |-> x.measured, age |-> 0]
  <2>1. CASE LockFree /\ Accept(s, r)
    <3>1. AcceptEnds(s)
      BY <2>1, SampleTyped, AcceptEffect DEF TypeOK
    <3>2. QED BY <1>0, <1>1, <1>2, <1>4, <2>1, <3>1 DEF Reply, LockFree, mainVars
  <2>2. CASE Enqueue(s) /\ UNCHANGED storeVars
    BY <1>0, <1>3, <1>4, <2>2 DEF Reply, mainVars, storeVars
  <2>3. QED BY <1>4, <2>1, <2>2 DEF Reply
<1>5. ASSUME NEW s \in Sources, AcceptQueued(s)
      PROVE  LockInv'
  <2>1. pc[s] = "queued" /\ reading[s] \in Reading
    BY <1>0, <1>5, DequeueFacts DEF AcceptQueued, QueueInv
  <2>2. AcceptEnds(s)
    BY <1>5, <2>1, AcceptEffect DEF AcceptQueued, TypeOK
  <2>3. QED BY <1>0, <1>1, <1>2, <1>5, <2>1, <2>2 DEF AcceptQueued, mainVars
<1>6. ASSUME Flush
      PROVE  \/ pc' = [pc EXCEPT ![Flusher] = "poll"] /\ lock' = NoTask /\ writer' = writer
             \/ pc' = [pc EXCEPT ![Flusher] = "persist"] /\ lock' = Flusher
  BY <1>6 DEF Flush, StartPersist, BackToPoll, storeVars
<1>7. CASE FlushDue
  BY <1>0, <1>1, <1>3, <1>6, <1>7 DEF FlushDue, LockFree, mainVars, storeVars
<1>8. CASE FlushQueued
  <2>1. pc[Flusher] = "queued"
    BY <1>0, <1>8, DequeueFacts DEF FlushQueued
  <2>2. QED BY <1>0, <1>1, <1>6, <1>8, <2>1 DEF FlushQueued, mainVars
<1>9. ASSUME NEW t \in Tasks,
             PersistDone(t) \/ PersistFails(t) \/ JoinDone(t) \/ JoinFails(t)
      PROVE  LockInv'
  <2>1. writer' = "idle" /\ lock' = NoTask /\ lock = t
    BY <1>9 DEF PersistDone, PersistFails, JoinDone, JoinFails, Store!Joined, Store!NoWriter, LockInv
  <2>2. pc' \in {[pc EXCEPT ![t] = "poll"], [pc EXCEPT ![t] = "failed"], [pc EXCEPT ![t] = "ended"]}
    BY <1>9 DEF PersistDone, PersistFails, JoinDone, JoinFails
  <2>3. QED BY <1>0, <2>1, <2>2 DEF LockInv, TypeOK, TaskTypeOK
<1>10. CASE \/ UNCHANGED vars \/ Expire \/ Tick \/ Stop
  BY <1>10 DEF vars, Expire, Tick, Stop, LockInv, storeVars, mainVars, taskVars
<1>11. CASE WriterStep
  <2>1. writer # "idle"
    BY <1>11 DEF WriterStep, Store!SaveStep, Store!Rename, Store!SyncDirectory, Store!SaveFails
  <2>2. QED BY <1>11, <2>1 DEF WriterStep, LockInv, mainVars, taskVars
<1>12. CASE MainWakes
  BY <1>12 DEF MainWakes, Cancelled, LockInv, TypeOK, TaskTypeOK, storeVars
<1>13. CASE MainGathers
  BY <1>13 DEF MainGathers, LockInv, taskVars, storeVars
<1>14. CASE FinalSaved \/ FinalFails
  BY <1>14 DEF FinalSaved, FinalFails, LockInv, taskVars, Store!Joined, Store!NoWriter
<1>15. CASE Killed \/ PowerLoss
  BY <1>0, <1>15 DEF Killed, PowerLoss, Dies, LockInv, Store!StoreKilled,
                     Store!StorePowerLoss, Store!NoWriter
<1>16. CASE Restart
  <2>1. writer = "idle"
    BY <1>16, RuntimeAssumption DEF Restart, LockInv, MainInv, TypeOK, TaskTypeOK
  <2>2. QED BY <1>0, <1>16, <2>1 DEF Restart, LockInv, storeVars
<1>17. QED
  BY <1>4, <1>5, <1>7, <1>8, <1>9, <1>10, <1>11, <1>12, <1>13, <1>14, <1>15, <1>16
     DEF Next, TaskStep, MainStep

LEMMA MainInvStep ==
    ASSUME ControlInv, [Next]_vars
    PROVE  MainInv'
<1> USE DEF ControlInv
<1>0. Flusher \in Tasks /\ Sources \subseteq Tasks
  BY DEF Tasks
<1>1. ASSUME NEW t \in Tasks, pc[t] \in {"poll", "queued", "persist"}, proc' = proc
      PROVE  MainInv'
  BY <1>1 DEF MainInv
<1>2. ASSUME NEW s \in Sources, NEW x \in Samples, Reply(s, x)
      PROVE  MainInv'
  BY <1>0, <1>1, <1>2 DEF Reply, mainVars
<1>3. CASE \E s \in Sources : AcceptQueued(s)
  BY <1>0, <1>1, <1>3, DequeueFacts DEF AcceptQueued, mainVars
<1>4. CASE FlushDue
  BY <1>0, <1>1, <1>4 DEF FlushDue, mainVars
<1>5. CASE FlushQueued
  BY <1>0, <1>1, <1>5, DequeueFacts DEF FlushQueued, mainVars
<1>6. ASSUME NEW t \in Tasks, PersistDone(t) \/ PersistFails(t)
      PROVE  MainInv'
  BY <1>1, <1>6 DEF PersistDone, PersistFails, mainVars
<1>7. ASSUME NEW t \in Tasks, JoinDone(t) \/ JoinFails(t)
      PROVE  MainInv'
  BY <1>7 DEF JoinDone, JoinFails, mainVars, MainInv, TypeOK, TaskTypeOK
<1>8. CASE UNCHANGED vars \/ WriterStep \/ Expire \/ Tick \/ Stop
  BY <1>8 DEF vars, WriterStep, Expire, Tick, Stop, mainVars, taskVars, MainInv
<1>9. CASE MainWakes
  BY <1>9 DEF MainWakes, Cancelled, MainInv, TypeOK, TaskTypeOK
<1>10. CASE MainGathers \/ FinalSaved \/ FinalFails
  BY <1>10 DEF MainGathers, FinalSaved, FinalFails, MainInv, taskVars
<1>11. CASE Killed \/ PowerLoss \/ Restart
  BY <1>11 DEF Killed, PowerLoss, Restart, Dies, MainInv
<1>12. QED
  BY <1>2, <1>3, <1>4, <1>5, <1>6, <1>7, <1>8, <1>9, <1>10, <1>11
     DEF Next, TaskStep, MainStep

LEMMA ControlStep == ControlInv /\ [Next]_vars => ControlInv'
  BY TypeStep, QueueStep, LockStep, MainInvStep DEF ControlInv

LEMMA Control == Spec => []ControlInv
  BY ControlInit, ControlStep, PTL DEF Spec

\* The variables have their types, whatever readings, faults and stop
\* requests come.
THEOREM TypeCorrect == Spec => []TypeOK
<1>1. ControlInv => TypeOK
  BY DEF ControlInv
<1>2. QED BY Control, <1>1, PTL

LEMMA OwnerFollows == ControlInv => WriterHasOwner
<1> SUFFICES ASSUME ControlInv, writer # "idle"
             PROVE  \/ proc = "final" /\ lock = NoTask
                    \/ /\ proc \in {"serving", "cancelling"}
                       /\ lock \in Tasks /\ pc[lock] \in {"persist", "join"}
                       /\ \A t \in Tasks \ {lock} : pc[t] \notin {"persist", "join"}
  BY DEF WriterHasOwner
<1> USE DEF ControlInv, LockInv, MainInv, TypeOK, TaskTypeOK, MainTypeOK
<1>1. CASE lock = NoTask
  BY <1>1
<1>2. CASE lock \in Tasks
  <2>1. pc[lock] \in {"persist", "join"}
    BY <1>2
  <2>2. proc \notin {"final", "down"}
    BY <1>2, <2>1
  <2>3. QED BY <1>2, <2>1, <2>2
<1>3. QED BY <1>1, <1>2

\* The writer thread has one owner, which waits for it even when cancelled: no
\* second save starts beside it.
THEOREM WriterIsOwned == Spec => []WriterHasOwner
  BY Control, OwnerFollows, PTL
-----------------------------------------------------------------------------
(* Energy.  The bank shows no more than the process knows, the process knows *)
(* no more than every surviving document holds, and a document being written *)
(* holds at least what the process knows.                                    *)

EnergyInv ==
    /\ writer # "renamed" => Survivors = {visible}
    /\ writer \in {"renamed", "saved"} => visible = doc
    /\ \A s \in Sources, d \in Survivors : bank.wh[s] <= Energy(d[s])
    /\ proc # "down" =>
           \A s \in Sources :
               /\ bank.wh[s] <= Energy(counters[s])
               /\ \A d \in Survivors : Energy(counters[s]) <= Energy(d[s])
               /\ writer # "idle" => Energy(counters[s]) <= Energy(doc[s])

LEMMA EnergyInit == Init => EnergyInv
<1> SUFFICES ASSUME Init PROVE EnergyInv
  OBVIOUS
<1>1. Survivors = {EmptyDocument} /\ visible = EmptyDocument
  BY DEF Init, Store!StoreInit, Survivors
<1>2. /\ bank.wh = Energies(EmptyDocument) /\ counters = EmptyDocument
      /\ writer = "idle"
  BY DEF Init, Store!StoreInit, Image
<1>3. \A s \in Sources : Energy(EmptyDocument[s]) = 0 /\ bank.wh[s] = 0
  BY <1>2 DEF EmptyDocument, Energy, Energies
<1>4. QED BY <1>1, <1>2, <1>3 DEF EnergyInv

LEMMA EnergiesAreNat ==
    ASSUME TypeOK
    PROVE  \A s \in Sources :
               /\ bank.wh[s] \in Nat /\ Energy(counters[s]) \in Nat
               /\ Energy(visible[s]) \in Nat /\ Energy(doc[s]) \in Nat
               /\ \A d \in Survivors : Energy(d[s]) \in Nat
<1>1. \A d \in Survivors : d \in Documents
  BY DEF Survivors, TypeOK, StoreTypeOK
<1>2. \A d \in Documents, s \in Sources : Energy(d[s]) \in Nat
  BY EnergyTyped DEF Documents
<1>3. \A s \in Sources : bank.wh[s] \in Nat
  BY DEF TypeOK, MeterTypeOK, Bank
<1>4. QED BY <1>1, <1>2, <1>3 DEF TypeOK, StoreTypeOK, StateTypeOK

\* An accept(), or any step that shows no more than the process knows and
\* leaves the documents alone.
LEMMA EnergyShown ==
    ASSUME TypeOK, EnergyInv, UNCHANGED <<visible, outcomes, proc>>, proc # "down",
           \A s \in Sources : Energy(counters'[s]) = Energy(counters[s]),
           \A s \in Sources : bank'.wh[s] \in {bank.wh[s], Energy(counters[s])},
           \/ UNCHANGED <<writer, doc>>
           \/ /\ writer = "idle" /\ writer' = "writing"
              /\ \A s \in Sources : Energy(counters[s]) <= Energy(doc'[s])
    PROVE  EnergyInv'
<1>1. Survivors' = Survivors
  BY DEF Survivors
<1>2. QED BY <1>1, EnergiesAreNat DEF EnergyInv

\* A step that changes neither the documents nor what is known and shown.
LEMMA EnergyKept ==
    ASSUME TypeOK, EnergyInv, UNCHANGED storeVars, UNCHANGED counters, bank'.wh = bank.wh,
           proc' # "down" => proc # "down"
    PROVE  EnergyInv'
<1>1. Survivors' = Survivors
  BY DEF Survivors, storeVars
<1>2. QED BY <1>1 DEF EnergyInv, storeVars

\* The event loop has learnt that a save succeeded: the document is what
\* every restart finds, and it is adopted.
LEMMA EnergySaved ==
    ASSUME TypeOK, EnergyInv, Store!Joined("saved"), AdoptSaved, proc # "down",
           \A s \in Sources : bank'.wh[s] \in {bank.wh[s], Energy(counters'[s])}
    PROVE  EnergyInv'
<1>1. Survivors = {visible} /\ visible = doc
  BY DEF EnergyInv, Store!Joined
<1>2. Survivors' = {visible} /\ visible' = visible /\ counters' = visible /\ writer' = "idle"
  BY <1>1 DEF Survivors, Store!Joined, Store!NoWriter, AdoptSaved
<1>3. \A s \in Sources : bank.wh[s] <= Energy(visible[s])
  BY <1>1 DEF EnergyInv
<1>4. \A s \in Sources : bank'.wh[s] <= Energy(visible[s])
  BY <1>2, <1>3, EnergiesAreNat
<1>5. QED BY <1>2, <1>4, EnergiesAreNat DEF EnergyInv

LEMMA EnergyFailed ==
    ASSUME TypeOK, EnergyInv, Store!Joined("failed"), UNCHANGED counters,
           bank'.wh = bank.wh, proc' # "down" => proc # "down"
    PROVE  EnergyInv'
<1>1. Survivors' = Survivors /\ visible' = visible /\ writer' = "idle" /\ writer = "failed"
  BY DEF Survivors, Store!Joined, Store!NoWriter
<1>2. QED BY <1>1 DEF EnergyInv

LEMMA EnergyWriter ==
    ASSUME NoTornRename, ControlInv, EnergyInv, WriterStep
    PROVE  EnergyInv'
<1> USE DEF ControlInv, WriterStep, stateVars, meterVars, mainVars
<1>1. CASE Store!Rename
  <2>1. writer = "writing" /\ writer' = "renamed" /\ visible' = doc /\ doc' = doc
    BY <1>1 DEF Store!Rename
  <2>2. Survivors' \subseteq {visible, doc}
    BY <1>1 DEF Store!Rename, Survivors, EnergyInv
  <2>3. proc # "down"
    BY <2>1, OwnerFollows DEF WriterHasOwner
  <2>4. \A s \in Sources : bank.wh[s] <= Energy(doc[s])
    BY <2>1, <2>3, EnergiesAreNat DEF EnergyInv
  <2>5. visible \in Survivors
    BY DEF Survivors, TypeOK, StoreTypeOK
  <2>6. QED BY <2>1, <2>2, <2>3, <2>4, <2>5 DEF EnergyInv
<1>2. CASE Store!SyncDirectory
  <2>1. Survivors' = {visible} /\ visible' = visible
    BY <1>2 DEF Store!SyncDirectory, Survivors
  <2>2. visible \in Survivors
    BY DEF Survivors, TypeOK, StoreTypeOK
  <2>3. QED BY <1>2, <2>1, <2>2 DEF Store!SyncDirectory, EnergyInv
<1>3. CASE Store!SaveFails
  <2>1. Survivors' = Survivors /\ visible' = visible
    BY <1>3 DEF Store!SaveFails, Survivors
  <2>2. Survivors = {visible}
    BY <1>3 DEF Store!SaveFails, Survivors, EnergyInv, NoTornRename
  <2>3. QED BY <1>3, <2>1, <2>2 DEF Store!SaveFails, EnergyInv
<1>4. QED BY <1>1, <1>2, <1>3 DEF Store!SaveStep

LEMMA EnergyStep ==
    ASSUME NoTornRename, ControlInv, EnergyInv, [Next]_vars
    PROVE  EnergyInv'
<1> USE DEF ControlInv
<1>1. ASSUME NEW s \in Sources, NEW r \in Reading, Accept(s, r), UNCHANGED mainVars,
             pc[s] \in {"poll", "queued"}
      PROVE  EnergyInv'
  <2>1. AcceptEnds(s) /\ bank'.wh \in {bank.wh, Energies(counters)}
    BY <1>1, AcceptEffect DEF TypeOK
  <2>2. proc # "down"
    BY <1>1 DEF MainInv, Tasks
  <2>3. \A x \in Sources : Energy(counters'[x]) = Energy(counters[x])
    BY <2>1 DEF AcceptEnds, Energies
  <2>4. \A x \in Sources : bank'.wh[x] \in {bank.wh[x], Energy(counters[x])}
    BY <2>1 DEF Energies
  <2>5. QED BY <1>1, <2>1, <2>2, <2>3, <2>4, EnergyShown
            DEF AcceptEnds, BackToPoll, storeVars, mainVars
<1>2. ASSUME NEW s \in Sources, NEW x \in Samples, Reply(s, x)
      PROVE  EnergyInv'
  <2> DEFINE r == [raw |-> x.raw, field |-> x.field, measured |-> x.measured, age |-> 0]
  <2>1. CASE Accept(s, r)
    BY <1>1, <1>2, <2>1, SampleTyped DEF Reply
  <2>2. CASE UNCHANGED <<storeVars, stateVars, meterVars>>
    BY <1>2, <2>2, EnergyKept DEF Reply, mainVars, stateVars, meterVars
  <2>3. QED BY <1>2, <2>1, <2>2 DEF Reply
<1>3. ASSUME NEW s \in Sources, AcceptQueued(s)
      PROVE  EnergyInv'
  <2>1. pc[s] = "queued" /\ reading[s] \in Reading
    BY <1>3, DequeueFacts DEF AcceptQueued, QueueInv, Tasks
  <2>2. QED BY <1>1, <1>3, <2>1 DEF AcceptQueued
<1>4. ASSUME FlushDue \/ FlushQueued
      PROVE  EnergyInv'
  <2>1. UNCHANGED <<mainVars, stateVars, meterVars>>
    BY <1>4 DEF FlushDue, FlushQueued
  <2>2. CASE UNCHANGED storeVars
    BY <2>1, <2>2, EnergyKept DEF mainVars, stateVars, meterVars
  <2>3. CASE Store!BeginSave(counters)
    <3>1. proc # "down"
      <4>1. pc[Flusher] \in {"poll", "queued"} /\ Flusher \in Tasks
        BY <1>4, DequeueFacts DEF FlushDue, FlushQueued, Tasks
      <4>2. QED BY <4>1 DEF MainInv
    <3>2. \A s \in Sources : Energy(counters[s]) <= Energy(doc'[s])
      BY <2>3, EnergiesAreNat DEF Store!BeginSave
    <3>3. QED BY <2>1, <2>3, <3>1, <3>2, EnergyShown
              DEF Store!BeginSave, mainVars, stateVars, meterVars
  <2>4. QED BY <1>4, <2>2, <2>3
            DEF FlushDue, FlushQueued, Flush, StartPersist, BackToPoll
<1>5. ASSUME NEW t \in Tasks, PersistDone(t)
      PROVE  EnergyInv'
  <2>1. proc # "down"
    BY <1>5 DEF PersistDone, MainInv
  <2>2. \A s \in Sources : bank'.wh[s] \in {bank.wh[s], Energy(counters'[s])}
    BY <1>5 DEF PersistDone, Publish, Image, Energies
  <2>3. QED BY <1>5, <2>1, <2>2, EnergySaved DEF PersistDone
<1>6. ASSUME NEW t \in Tasks, JoinDone(t)
      PROVE  EnergyInv'
  <2>1. proc # "down"
    BY <1>6 DEF JoinDone, MainInv
  <2>2. QED BY <1>6, <2>1, EnergySaved DEF JoinDone, meterVars
<1>7. ASSUME NEW t \in Tasks, PersistFails(t) \/ JoinFails(t)
      PROVE  EnergyInv'
  BY <1>7, EnergyFailed DEF PersistFails, JoinFails, mainVars, stateVars, meterVars
<1>8. CASE WriterStep
  BY <1>8, EnergyWriter
<1>9. CASE Expire
  <2>1. \A s \in Sources : bank'.wh[s] = Energy(counters[s])
    BY <1>9 DEF Expire, Publish, Image, Energies
  <2>2. QED BY <1>9, <2>1, EnergyShown DEF Expire, ExpiryDue, storeVars, mainVars, stateVars
<1>10. CASE UNCHANGED vars \/ Tick \/ Stop \/ MainWakes
  BY <1>10, EnergyKept DEF vars, Tick, Stop, MainWakes, mainVars, stateVars, meterVars
<1>11. CASE MainGathers
  <2>1. CASE UNCHANGED storeVars
    BY <1>11, <2>1, EnergyKept DEF MainGathers, stateVars, meterVars
  <2>2. CASE Store!BeginSave(counters) /\ proc' = "final"
    <3>1. Survivors' = Survivors
      BY <2>2 DEF Store!BeginSave, Survivors
    <3>2. QED BY <1>11, <2>2, <3>1, EnergiesAreNat
              DEF MainGathers, FinalSaveDue, Store!BeginSave, EnergyInv, stateVars, meterVars
  <2>3. QED BY <1>11, <2>1, <2>2 DEF MainGathers
<1>12. CASE FinalSaved
  BY <1>12, EnergySaved DEF FinalSaved, meterVars
<1>13. CASE FinalFails
  BY <1>13, EnergyFailed DEF FinalFails, stateVars, meterVars
<1>14. CASE Killed
  <2>1. proc' = "down" /\ bank' = bank /\ writer' = "idle" /\ visible' = visible
        /\ outcomes' = outcomes
    BY <1>14 DEF Killed, Dies, Store!StoreKilled, Store!NoWriter
  <2>2. Survivors' = Survivors
    BY <2>1 DEF Survivors
  <2>3. Survivors = {visible}
    BY <1>14 DEF Killed, NoTornRename, Survivors, EnergyInv
  <2>4. QED BY <2>1, <2>2, <2>3 DEF EnergyInv
<1>15. CASE PowerLoss
  <2>1. proc' = "down" /\ bank' = bank /\ writer' = "idle"
        /\ visible' \in Survivors /\ Survivors' = {visible'}
    BY <1>15 DEF PowerLoss, Dies, Store!StorePowerLoss, Store!NoWriter, Survivors
  <2>2. QED BY <2>1 DEF EnergyInv
<1>16. CASE Restart
  <2>1. UNCHANGED storeVars /\ proc = "down" /\ counters' = visible
        /\ \A s \in Sources : bank'.wh[s] = Energy(visible[s])
    BY <1>16 DEF Restart, Image, Energies
  <2>2. writer = "idle"
    BY <2>1, OwnerFollows DEF WriterHasOwner
  <2>3. Survivors = {visible} /\ Survivors' = {visible}
    BY <2>1, <2>2 DEF EnergyInv, Survivors, storeVars
  <2>4. QED BY <2>1, <2>2, <2>3, EnergiesAreNat DEF EnergyInv, storeVars
<1>17. QED
  BY <1>2, <1>3, <1>4, <1>5, <1>6, <1>7, <1>8, <1>9, <1>10, <1>11, <1>12, <1>13, <1>14,
     <1>15, <1>16 DEF Next, TaskStep, MainStep
-----------------------------------------------------------------------------
(* The theorems about energy *)

\* A step shows at least what was shown, and then leaves the documents alone.
LEMMA ShowsMore ==
    ASSUME NoTornRename, ControlInv, EnergyInv, [Next]_vars
    PROVE  \/ bank'.wh = bank.wh
           \/ /\ UNCHANGED <<visible, outcomes>>
              /\ \A s \in Sources : bank.wh[s] <= bank'.wh[s]
<1> DEFINE Goal == \/ bank'.wh = bank.wh
                   \/ /\ UNCHANGED <<visible, outcomes>>
                      /\ \A s \in Sources : bank.wh[s] <= bank'.wh[s]
<1> USE DEF ControlInv
<1>1. ASSUME NEW s \in Sources, NEW r \in Reading, Accept(s, r),
             pc[s] \in {"poll", "queued"}
      PROVE  Goal
  <2>1. AcceptEnds(s) /\ bank'.wh \in {bank.wh, Energies(counters)}
    BY <1>1, AcceptEffect DEF TypeOK
  <2>2. UNCHANGED <<visible, outcomes>>
    BY <2>1 DEF AcceptEnds, BackToPoll, storeVars
  <2>3. proc # "down"
    BY <1>1 DEF MainInv, Tasks
  <2>4. \A x \in Sources : bank.wh[x] <= Energies(counters)[x]
    BY <2>3 DEF EnergyInv, Energies
  <2>5. QED BY <2>1, <2>2, <2>4
<1>2. ASSUME NEW s \in Sources, NEW x \in Samples, Reply(s, x)
      PROVE  Goal
  BY <1>1, <1>2, SampleTyped DEF Reply, meterVars
<1>3. ASSUME NEW s \in Sources, AcceptQueued(s)
      PROVE  Goal
  <2>1. pc[s] = "queued" /\ reading[s] \in Reading
    BY <1>3, DequeueFacts DEF AcceptQueued, QueueInv, Tasks
  <2>2. QED BY <1>1, <1>3, <2>1 DEF AcceptQueued
<1>4. ASSUME NEW t \in Tasks, PersistDone(t)
      PROVE  Goal
  <2>1. proc # "down" /\ writer = "saved" /\ counters' = doc
        /\ UNCHANGED <<visible, outcomes>>
    BY <1>4 DEF PersistDone, MainInv, Store!Joined, AdoptSaved
  <2>2. \A s \in Sources : bank.wh[s] <= Energy(doc[s])
    BY <2>1, EnergiesAreNat DEF EnergyInv
  <2>3. bank' = bank \/ bank'.wh = Energies(doc)
    BY <1>4, <2>1 DEF PersistDone, Publish, Image
  <2>4. QED BY <2>1, <2>2, <2>3 DEF Energies
<1>5. CASE Expire
  <2>1. bank'.wh = Energies(counters) /\ UNCHANGED <<visible, outcomes>> /\ proc # "down"
    BY <1>5 DEF Expire, ExpiryDue, Publish, Image, storeVars
  <2>2. QED BY <2>1 DEF EnergyInv, Energies
<1>6. CASE Restart
  <2>1. bank'.wh = Energies(visible) /\ UNCHANGED <<visible, outcomes>>
    BY <1>6 DEF Restart, Image, storeVars
  <2>2. visible \in Survivors
    BY DEF Survivors, TypeOK, StoreTypeOK
  <2>3. QED BY <2>1, <2>2 DEF EnergyInv, Energies
<1>7. ASSUME \/ UNCHANGED vars \/ FlushDue \/ FlushQueued \/ WriterStep \/ Tick \/ Stop
             \/ MainStep \/ Killed \/ PowerLoss
             \/ \E t \in Tasks : PersistFails(t) \/ JoinDone(t) \/ JoinFails(t)
      PROVE  bank' = bank
  BY <1>7 DEF vars, FlushDue, FlushQueued, WriterStep, Tick, Stop, MainStep, MainWakes,
     MainGathers, FinalSaved, FinalFails, Killed, PowerLoss, Dies, PersistFails, JoinDone,
     JoinFails, meterVars
<1>8. QED BY <1>2, <1>3, <1>4, <1>5, <1>6, <1>7 DEF Next, TaskStep

LEMMA EnergyAlways ==
    ASSUME NoTornRename
    PROVE  Spec => [](ControlInv /\ EnergyInv)
<1>1. Init => ControlInv /\ EnergyInv
  BY ControlInit, EnergyInit
<1>2. ControlInv /\ EnergyInv /\ [Next]_vars => (ControlInv /\ EnergyInv)'
  BY ControlStep, EnergyStep
<1>3. QED BY <1>1, <1>2, PTL DEF Spec

\* The energy shown never falls: over resets, failed or cancelled saves,
\* kills and restarts, and over power losses when nothing else can separate a
\* rename from the fsync of its directory.
THEOREM EnergyNeverFalls ==
    ASSUME NoTornRename
    PROVE  Spec => PublishedNeverFalls
<1>1. ControlInv /\ EnergyInv /\ [Next]_vars
          => [\A s \in Sources : bank.wh[s] <= bank'.wh[s]]_vars
  <2> SUFFICES ASSUME ControlInv, EnergyInv, Next
               PROVE  \A s \in Sources : bank.wh[s] <= bank'.wh[s]
    BY DEF vars
  <2>1. QED BY ShowsMore, EnergiesAreNat DEF ControlInv
<1>2. QED BY <1>1, EnergyAlways, PTL DEF Spec, PublishedNeverFalls

\* What Modbus shows is on the disk, whatever a power loss takes back.
THEOREM EnergyIsDurable ==
    ASSUME "power" \in Faults, Faults \cap {"kill", "late"} = {}
    PROVE  Spec => []PublishedIsDurable
<1>1. NoTornRename
  BY DEF NoTornRename
<1>2. ControlInv /\ EnergyInv => PublishedIsDurable
  BY DEF EnergyInv, Survivors, PublishedIsDurable
<1>3. QED BY <1>1, <1>2, EnergyAlways, PTL

\* The runtime implements the abstract promise to the reader of the meter.
THEOREM PromiseKept ==
    ASSUME NoTornRename
    PROVE  Spec => ImplementsPromise
<1>1. Init => Promise!PromiseInit
  <2> SUFFICES ASSUME Init PROVE Promise!PromiseInit
    OBVIOUS
  <2>1. Survivors = {EmptyDocument}
    BY DEF Init, Store!StoreInit, Survivors
  <2>2. bank.wh = Energies(EmptyDocument)
    BY DEF Init, Image
  <2>3. Energies(EmptyDocument) = [s \in Sources |-> 0]
    BY DEF EmptyDocument, Energy, Energies
  <2>4. QED BY <2>1, <2>2, <2>3 DEF Promise!PromiseInit
<1>2. ASSUME ControlInv, EnergyInv, ControlInv', EnergyInv', [Next]_vars
      PROVE  [Promise!PromiseNext]_Promise!promiseVars
  <2> DEFINE E == {Energies(d) : d \in Survivors}
  <2>1. visible \in Survivors /\ (visible \in Survivors)'
    BY <1>2 DEF ControlInv, TypeOK, StoreTypeOK, Survivors
  <2>2. \A e \in E' : \A s \in Sources : bank'.wh[s] <= e[s]
    BY <1>2 DEF EnergyInv, Energies
  <2>3. CASE bank'.wh = bank.wh
    <3>1. Promise!Store
      BY <2>1, <2>2, <2>3 DEF Promise!Store, Promise!Below
    <3>2. QED BY <3>1 DEF Promise!PromiseNext
  <2>4. CASE /\ UNCHANGED <<visible, outcomes>>
             /\ \A s \in Sources : bank.wh[s] <= bank'.wh[s]
    <3>1. E' = E
      BY <2>4 DEF Survivors
    <3>2. bank'.wh \in [Sources -> Nat]
      BY <1>2 DEF ControlInv, TypeOK, MeterTypeOK, Bank
    <3>3. Promise!Show
      BY <2>2, <2>4, <3>1, <3>2 DEF Promise!Show, Promise!Below
    <3>4. QED BY <3>3 DEF Promise!PromiseNext
  <2>5. QED BY <1>2, <2>3, <2>4, ShowsMore
<1>3. QED
  BY <1>1, <1>2, EnergyAlways, PTL DEF Spec, ImplementsPromise, Promise!PromiseSpec
-----------------------------------------------------------------------------
(* Memory and disk.  Unless a write has failed late, what the process knows   *)
(* is what is on disk, but for dirty metadata, until a rename puts the         *)
(* document of the writer in its place.                                        *)

MemoryInv ==
    /\ writer \in {"renamed", "saved"} => visible = doc
    /\ (/\ proc # "down"
        /\ writer \notin {"renamed", "saved"}
        /\ "late" \in Faults => Failed = {} /\ writer # "failed") =>
           /\ Energies(counters) = Energies(visible)
           /\ ~dirty => counters = visible

\* A task that has not failed, wherever it goes, hides no failure.
LEMMA FailureStays ==
    ASSUME TypeOK, NEW t \in Tasks, NEW state,
           pc' = [pc EXCEPT ![t] = state], pc[t] # "failed"
    PROVE  Failed' = {} => Failed = {}
<1>1. \A x \in Tasks : pc[x] = "failed" => pc'[x] = "failed"
  BY DEF TypeOK, TaskTypeOK
<1>2. QED BY <1>1 DEF Failed

\* What accept() does to the memory and to the writer thread.
LEMMA AcceptRemembers ==
    ASSUME TypeOK, NEW s \in Sources, NEW r, Accept(s, r), pc[s] # "failed"
    PROVE  /\ UNCHANGED visible
           /\ Failed' = {} => Failed = {}
           /\ Energies(counters') = Energies(counters)
           /\ ~dirty' => ~dirty /\ counters' = counters
           /\ UNCHANGED <<writer, doc>> \/ (writer = "idle" /\ writer' = "writing")
<1>1. pc' = [pc EXCEPT ![s] = "poll"] \/ pc' = [pc EXCEPT ![s] = "persist"]
  BY DEF Accept, RejectReading, SaveReading, AdoptReading, BackToPoll, StartPersist
<1>2. Failed' = {} => Failed = {}
  BY <1>1, FailureStays DEF Tasks
<1>3. CASE RejectReading(s, r)
  BY <1>2, <1>3 DEF RejectReading, BackToPoll, stateVars, storeVars
<1>4. CASE SaveReading(s, r)
  BY <1>2, <1>4 DEF SaveReading, StartPersist, Store!BeginSave, stateVars
<1>5. CASE AdoptReading(s, r)
  <2>1. Energies(counters') = Energies(counters) /\ UNCHANGED <<visible, writer, doc>>
    BY <1>5 DEF AdoptReading, MustSave, BackToPoll, storeVars
  <2>2. ~dirty' => ~dirty /\ counters' = counters
    BY <1>5 DEF AdoptReading
  <2>3. QED BY <1>2, <2>1, <2>2
<1>6. QED BY <1>3, <1>4, <1>5 DEF Accept

\* A step that changes neither the disk nor the energies known.
LEMMA MemoryKept ==
    ASSUME MemoryInv, UNCHANGED visible, Failed' = {} => Failed = {},
           Energies(counters') = Energies(counters),
           ~dirty' => ~dirty /\ counters' = counters,
           proc' # "down" => proc # "down",
           UNCHANGED <<writer, doc>> \/ (writer = "idle" /\ writer' = "writing")
    PROVE  MemoryInv'
<1>1. writer' \in {"renamed", "saved"} => visible' = doc'
  BY DEF MemoryInv
<1>2. ASSUME proc' # "down", writer' \notin {"renamed", "saved"},
             "late" \in Faults => Failed' = {} /\ writer' # "failed"
      PROVE  /\ Energies(counters') = Energies(visible')
             /\ ~dirty' => counters' = visible'
  <2>1. /\ proc # "down" /\ writer \notin {"renamed", "saved"}
        /\ "late" \in Faults => Failed = {} /\ writer # "failed"
    BY <1>2
  <2>2. QED BY <2>1 DEF MemoryInv
<1>3. QED BY <1>1, <1>2 DEF MemoryInv

\* The memory after a save is the document saved.
LEMMA MemorySaved ==
    ASSUME MemoryInv, Store!Joined("saved"), AdoptSaved
    PROVE  MemoryInv'
<1>1. writer' = "idle" /\ visible' = doc /\ counters' = doc
  BY DEF MemoryInv, Store!Joined, Store!NoWriter, AdoptSaved
<1>2. QED BY <1>1 DEF MemoryInv

LEMMA MemoryInit == Init => MemoryInv
<1> SUFFICES ASSUME Init PROVE MemoryInv
  OBVIOUS
<1>1. counters = visible /\ writer = "idle"
  BY DEF Init, Store!StoreInit
<1>2. QED BY <1>1 DEF MemoryInv

LEMMA MemoryStep ==
    ASSUME ControlInv, MemoryInv, [Next]_vars
    PROVE  MemoryInv'
<1> USE DEF ControlInv
<1>1. ASSUME NEW s \in Sources, NEW x \in Samples, Reply(s, x)
      PROVE  MemoryInv'
  <2> DEFINE r == [raw |-> x.raw, field |-> x.field, measured |-> x.measured, age |-> 0]
  <2>1. CASE Accept(s, r)
    BY <1>1, <2>1, AcceptRemembers, MemoryKept DEF Reply, mainVars
  <2>2. CASE Enqueue(s) /\ UNCHANGED <<storeVars, stateVars>>
    <3>1. Failed' = {} => Failed = {}
      BY <1>1, <2>2, FailureStays DEF Reply, Enqueue, Tasks
    <3>2. QED BY <1>1, <2>2, <3>1, MemoryKept DEF Reply, mainVars, storeVars, stateVars
  <2>3. QED BY <1>1, <2>1, <2>2 DEF Reply
<1>2. ASSUME NEW s \in Sources, AcceptQueued(s)
      PROVE  MemoryInv'
  <2>1. pc[s] = "queued"
    BY <1>2, DequeueFacts DEF AcceptQueued, Tasks
  <2>2. QED BY <1>2, <2>1, AcceptRemembers, MemoryKept DEF AcceptQueued, mainVars
<1>3. ASSUME FlushDue \/ FlushQueued
      PROVE  MemoryInv'
  <2>1. pc[Flusher] \in {"poll", "queued"} /\ Flusher \in Tasks
    BY <1>3, DequeueFacts DEF FlushDue, FlushQueued, Tasks
  <2>2. UNCHANGED <<visible, counters, dirty, proc>>
    BY <1>3 DEF FlushDue, FlushQueued, Flush, StartPersist, BackToPoll, Store!BeginSave,
                storeVars, stateVars, mainVars
  <2>3. UNCHANGED <<writer, doc>> \/ (writer = "idle" /\ writer' = "writing")
    BY <1>3 DEF FlushDue, FlushQueued, Flush, StartPersist, BackToPoll, Store!BeginSave,
                storeVars
  <2>4. Failed' = {} => Failed = {}
    BY <1>3, <2>1, FailureStays
       DEF FlushDue, FlushQueued, Flush, StartPersist, BackToPoll, Enqueue
  <2>5. QED BY <2>2, <2>3, <2>4, MemoryKept
<1>4. CASE \E t \in Tasks : PersistDone(t) \/ JoinDone(t)
  BY <1>4, MemorySaved DEF PersistDone, JoinDone
<1>5. ASSUME NEW t \in Tasks, PersistFails(t) \/ JoinFails(t)
      PROVE  MemoryInv'
  <2>1. t \in Failed'
    BY <1>5 DEF PersistFails, JoinFails, Failed, TypeOK, TaskTypeOK
  <2>2. UNCHANGED <<visible, counters, dirty, proc>> /\ writer = "failed" /\ writer' = "idle"
    BY <1>5 DEF PersistFails, JoinFails, Store!Joined, Store!NoWriter, stateVars, mainVars
  <2>3. QED BY <2>1, <2>2 DEF MemoryInv
<1>6. CASE WriterStep
  <2>1. UNCHANGED <<counters, dirty, proc, pc>>
    BY <1>6 DEF WriterStep, mainVars, taskVars, stateVars
  <2>2. Failed' = Failed
    BY <2>1 DEF Failed
  <2>3. CASE Store!Rename \/ Store!SyncDirectory
    BY <2>3 DEF Store!Rename, Store!SyncDirectory, MemoryInv
  <2>4. CASE Store!SaveFails
    BY <2>1, <2>2, <2>4 DEF Store!SaveFails, MemoryInv
  <2>5. QED BY <1>6, <2>3, <2>4 DEF WriterStep, Store!SaveStep
<1>7. CASE \/ UNCHANGED vars \/ Expire \/ Tick \/ Stop
  <2>1. UNCHANGED <<visible, writer, doc, counters, dirty, proc, pc>>
    BY <1>7 DEF vars, Expire, Tick, Stop, storeVars, mainVars, taskVars, stateVars
  <2>2. Failed' = Failed
    BY <2>1 DEF Failed
  <2>3. QED BY <2>1, <2>2, MemoryKept
<1>8. CASE MainWakes
  <2>1. \A t \in Tasks : pc[t] = "failed" => pc'[t] = "failed"
    BY <1>8 DEF MainWakes, Cancelled
  <2>2. Failed' = {} => Failed = {}
    BY <2>1 DEF Failed
  <2>3. QED BY <1>8, <2>2, MemoryKept DEF MainWakes, storeVars, stateVars
<1>9. CASE MainGathers
  <2>1. UNCHANGED <<visible, counters, dirty, pc>> /\ proc # "down"
    BY <1>9 DEF MainGathers, Store!BeginSave, storeVars, taskVars, stateVars
  <2>2. Failed' = Failed
    BY <2>1 DEF Failed
  <2>3. UNCHANGED <<writer, doc>> \/ (writer = "idle" /\ writer' = "writing")
    BY <1>9 DEF MainGathers, Store!BeginSave, storeVars
  <2>4. QED BY <2>1, <2>2, <2>3, MemoryKept
<1>10. CASE FinalSaved
  BY <1>10, MemorySaved DEF FinalSaved
<1>11. CASE FinalFails \/ Killed \/ PowerLoss
  <2>1. proc' = "down" /\ writer' = "idle"
    BY <1>11 DEF FinalFails, Killed, PowerLoss, Dies, Store!Joined, Store!StoreKilled,
                 Store!StorePowerLoss, Store!NoWriter
  <2>2. QED BY <2>1 DEF MemoryInv
<1>12. CASE Restart
  <2>1. counters' = visible' /\ UNCHANGED <<writer, doc, visible>>
    BY <1>12 DEF Restart, storeVars
  <2>2. QED BY <2>1 DEF MemoryInv
<1>13. QED
  BY <1>1, <1>2, <1>3, <1>4, <1>5, <1>6, <1>7, <1>8, <1>9, <1>10, <1>11, <1>12
     DEF Next, TaskStep, MainStep

LEMMA MemoryAlways == Spec => [](ControlInv /\ MemoryInv)
<1>1. Init => ControlInv /\ MemoryInv
  BY ControlInit, MemoryInit
<1>2. ControlInv /\ MemoryInv /\ [Next]_vars => (ControlInv /\ MemoryInv)'
  BY ControlStep, MemoryStep
<1>3. QED BY <1>1, <1>2, PTL DEF Spec

\* With no write under way and none failed, what the process knows is on disk,
\* but for the metadata marked dirty, whatever faults came before.
THEOREM MemoryMatchesDisk == Spec => []MemoryIsStored
<1>1. MemoryInv => MemoryIsStored
  BY DEF MemoryInv, MemoryIsStored
<1>2. QED BY <1>1, MemoryAlways, PTL
-----------------------------------------------------------------------------
(* Shutdown.  A cancellation that no failure explains was asked for, and a    *)
(* process that ended cleanly had saved what it knew.                         *)

ExitInv ==
    /\ exit = "clean" => proc = "down" /\ counters = visible
    /\ proc = "cancelling" /\ Failed = {} => graceful

LEMMA ExitInit == Init => ExitInv
  BY DEF Init, ExitInv

LEMMA ExitKept ==
    ASSUME ExitInv, UNCHANGED <<exit, proc, graceful>>, proc # "down",
           Failed' = {} => Failed = {}
    PROVE  ExitInv'
  BY DEF ExitInv

LEMMA ExitStep ==
    ASSUME ControlInv, MemoryInv, ExitInv, [Next]_vars
    PROVE  ExitInv'
<1> USE DEF ControlInv
<1>1. ASSUME NEW s \in Sources, NEW x \in Samples, Reply(s, x)
      PROVE  ExitInv'
  <2> DEFINE r == [raw |-> x.raw, field |-> x.field, measured |-> x.measured, age |-> 0]
  <2>1. proc # "down" /\ pc[s] = "poll" /\ UNCHANGED <<exit, proc, graceful>>
    BY <1>1 DEF Reply, MainInv, Tasks, mainVars
  <2>2. CASE Accept(s, r)
    BY <2>1, <2>2, AcceptRemembers, ExitKept
  <2>3. CASE Enqueue(s)
    BY <2>1, <2>3, FailureStays, ExitKept DEF Enqueue, Tasks
  <2>4. QED BY <1>1, <2>2, <2>3 DEF Reply
<1>2. ASSUME NEW s \in Sources, AcceptQueued(s)
      PROVE  ExitInv'
  <2>1. pc[s] = "queued" /\ UNCHANGED <<exit, proc, graceful>>
    BY <1>2, DequeueFacts DEF AcceptQueued, Tasks, mainVars
  <2>2. proc # "down"
    BY <2>1 DEF MainInv, Tasks
  <2>3. QED BY <1>2, <2>1, <2>2, AcceptRemembers, ExitKept DEF AcceptQueued
<1>3. ASSUME FlushDue \/ FlushQueued
      PROVE  ExitInv'
  <2>1. pc[Flusher] \in {"poll", "queued"} /\ Flusher \in Tasks
    BY <1>3, DequeueFacts DEF FlushDue, FlushQueued, Tasks
  <2>2. proc # "down" /\ UNCHANGED <<exit, proc, graceful>>
    BY <1>3, <2>1 DEF MainInv, FlushDue, FlushQueued, mainVars
  <2>3. Failed' = {} => Failed = {}
    BY <1>3, <2>1, FailureStays
       DEF FlushDue, FlushQueued, Flush, StartPersist, BackToPoll, Enqueue
  <2>4. QED BY <2>2, <2>3, ExitKept
<1>4. ASSUME NEW t \in Tasks,
             PersistDone(t) \/ PersistFails(t) \/ JoinDone(t) \/ JoinFails(t)
      PROVE  ExitInv'
  <2>1. proc # "down" /\ pc[t] # "failed" /\ UNCHANGED <<exit, proc, graceful>>
    BY <1>4 DEF PersistDone, PersistFails, JoinDone, JoinFails, MainInv, mainVars
  <2>2. Failed' = {} => Failed = {}
    BY <1>4, <2>1, FailureStays DEF PersistDone, PersistFails, JoinDone, JoinFails
  <2>3. QED BY <2>1, <2>2, ExitKept
<1>5. CASE WriterStep
  <2>1. proc # "down"
    BY <1>5, OwnerFollows DEF WriterHasOwner, WriterStep, Store!SaveStep, Store!Rename,
                              Store!SyncDirectory, Store!SaveFails
  <2>2. UNCHANGED <<exit, proc, graceful, pc>>
    BY <1>5 DEF WriterStep, mainVars, taskVars
  <2>3. QED BY <2>1, <2>2, ExitKept DEF Failed
<1>6. CASE UNCHANGED vars
  <2>1. UNCHANGED <<exit, proc, graceful, pc, counters, visible>>
    BY <1>6 DEF vars, storeVars, mainVars, taskVars, stateVars
  <2>2. QED BY <2>1 DEF ExitInv, Failed
<1>7. CASE Expire \/ Tick \/ Stop
  <2>1. UNCHANGED <<exit, proc, graceful, pc>> /\ proc # "down"
    BY <1>7 DEF Expire, ExpiryDue, Tick, Stop, mainVars, taskVars
  <2>2. QED BY <2>1, ExitKept DEF Failed
<1>8. CASE MainWakes
  <2>1. \A t \in Tasks : pc[t] = "failed" => pc'[t] = "failed"
    BY <1>8 DEF MainWakes, Cancelled
  <2>2. Failed' = {} => Failed = {}
    BY <2>1 DEF Failed
  <2>3. proc = "serving" /\ proc' = "cancelling" /\ exit' = exit
        /\ (Failed = {} => graceful')
    BY <1>8 DEF MainWakes, WakeDue
  <2>4. QED BY <2>2, <2>3 DEF ExitInv
<1>9. CASE MainGathers
  <2>1. writer = "idle"
    BY <1>9, OwnerFollows DEF MainGathers, WriterHasOwner
  <2>2. exit # "clean"
    BY <1>9 DEF MainGathers, ExitInv
  <2>3. CASE Failed = {} /\ ~FinalSaveDue /\ proc' = "down" /\ UNCHANGED storeVars
    <3>1. ~dirty
      BY <1>9, <2>3 DEF MainGathers, FinalSaveDue, ExitInv
    <3>2. counters = visible
      BY <1>9, <2>1, <2>3, <3>1 DEF MainGathers, MemoryInv
    <3>3. QED BY <1>9, <2>3, <3>2 DEF MainGathers, ExitInv, stateVars, storeVars
  <2>4. CASE proc' \in {"down", "final"} /\ exit' # "clean"
    BY <2>4 DEF ExitInv
  <2>5. QED BY <1>9, <2>2, <2>3, <2>4 DEF MainGathers
<1>10. CASE FinalSaved
  <2>1. proc' = "down" /\ counters' = doc /\ visible' = doc
    BY <1>10 DEF FinalSaved, AdoptSaved, Store!Joined, MemoryInv
  <2>2. QED BY <2>1 DEF ExitInv
<1>11. CASE FinalFails \/ Killed \/ PowerLoss \/ Restart
  <2>1. exit' # "clean" /\ proc' \in {"down", "serving"}
    BY <1>11 DEF FinalFails, Killed, PowerLoss, Dies, Restart
  <2>2. QED BY <2>1 DEF ExitInv
<1>12. QED
  BY <1>1, <1>2, <1>3, <1>4, <1>5, <1>6, <1>7, <1>8, <1>9, <1>10, <1>11
     DEF Next, TaskStep, MainStep

LEMMA ExitAlways == Spec => [](ControlInv /\ MemoryInv /\ ExitInv)
<1>1. Init => ControlInv /\ MemoryInv /\ ExitInv
  BY ControlInit, MemoryInit, ExitInit
<1>2. ControlInv /\ MemoryInv /\ ExitInv /\ [Next]_vars
          => (ControlInv /\ MemoryInv /\ ExitInv)'
  BY ControlStep, MemoryStep, ExitStep
<1>3. QED BY <1>1, <1>2, PTL DEF Spec

\* The directory is synced whenever no rename is under way.
SyncInv == writer # "renamed" => outcomes = {visible}

LEMMA SyncStep ==
    ASSUME Faults \cap {"kill", "late"} = {}, ControlInv, SyncInv, [Next]_vars
    PROVE  SyncInv'
<1> USE DEF ControlInv
<1>1. CASE UNCHANGED <<visible, outcomes>> /\ (writer' # "renamed" => writer # "renamed")
  BY <1>1 DEF SyncInv
<1>2. CASE WriterStep
  BY <1>2 DEF WriterStep, Store!SaveStep, Store!Rename, Store!SyncDirectory,
              Store!SaveFails, SyncInv
<1>3. CASE PowerLoss
  BY <1>3 DEF PowerLoss, Store!StorePowerLoss, SyncInv
<1>4. CASE \/ UNCHANGED vars \/ Expire \/ Tick \/ Stop \/ MainWakes \/ Restart
  BY <1>1, <1>4 DEF vars, Expire, Tick, Stop, MainWakes, Restart, storeVars
<1>5. ASSUME NEW s \in Sources, NEW r, Accept(s, r)
      PROVE  UNCHANGED <<visible, outcomes>> /\ (writer' # "renamed" => writer # "renamed")
  BY <1>5 DEF Accept, RejectReading, SaveReading, AdoptReading, BackToPoll, StartPersist,
              Store!BeginSave, storeVars
<1>6. CASE (\E s \in Sources, x \in Samples : Reply(s, x)) \/ \E s \in Sources : AcceptQueued(s)
  BY <1>1, <1>5, <1>6 DEF Reply, AcceptQueued, storeVars
<1>7. CASE FlushDue \/ FlushQueued \/ MainGathers
  BY <1>1, <1>7 DEF FlushDue, FlushQueued, MainGathers, Flush, BackToPoll, StartPersist,
                    Store!BeginSave, storeVars
<1>8. CASE \/ \E t \in Tasks : PersistDone(t) \/ PersistFails(t) \/ JoinDone(t) \/ JoinFails(t)
           \/ FinalSaved \/ FinalFails
  BY <1>1, <1>8 DEF PersistDone, PersistFails, JoinDone, JoinFails, FinalSaved, FinalFails,
                    Store!Joined
<1>9. CASE Killed
  BY <1>9 DEF Killed
<1>10. QED
  BY <1>2, <1>3, <1>4, <1>6, <1>7, <1>8, <1>9 DEF Next, TaskStep, MainStep

\* A stop loses nothing, the deferred metadata included, when neither a kill
\* nor a late failure can leave a rename unsynced behind.
THEOREM CleanExitIsSaved ==
    ASSUME Faults \cap {"kill", "late"} = {}
    PROVE  Spec => []CleanExitKeepsAll
<1>1. Init => SyncInv
  BY DEF Init, Store!StoreInit, SyncInv
<1>2. ControlInv /\ SyncInv /\ [Next]_vars => SyncInv'
  BY SyncStep
<1>3. ControlInv /\ ExitInv /\ SyncInv => CleanExitKeepsAll
  <2> SUFFICES ASSUME ControlInv, ExitInv, SyncInv, exit = "clean"
               PROVE  visible = counters /\ outcomes = {visible}
    BY DEF CleanExitKeepsAll
  <2>1. proc = "down" /\ counters = visible
    BY DEF ExitInv
  <2>2. writer = "idle"
    BY <2>1, OwnerFollows DEF WriterHasOwner
  <2>3. QED BY <2>1, <2>2 DEF SyncInv
<1>4. Spec => []SyncInv
  BY <1>1, <1>2, ExitAlways, PTL DEF Spec
<1>5. QED BY <1>3, <1>4, ExitAlways, PTL
-----------------------------------------------------------------------------
(* The register image.  While the expiry task sleeps, the bank shows what it  *)
(* should, and its timer ends no later than the first reading that is shown.  *)

TimerCovers ==
    \A s \in Fresh(latest) : timer # Never /\ timer <= Stale - latest[s].age

\* No task has ended while the process serves; what flush_metadata() writes is
\* what the process knows, so its save changes nothing that is shown.
ServingInv ==
    proc = "serving" =>
        /\ \A t \in Tasks : pc[t] \notin {"join", "ended"}
        /\ lock = Flusher /\ writer # "idle" => doc = counters

BankInv ==
    proc = "serving" =>
        /\ bank.wh = Energies(counters)
        /\ \/ changed \/ timer = 0
           \/ bank = Image(latest, counters) /\ TimerCovers

LEMMA ImageEnergies == \A l, c : Image(l, c).wh = Energies(c)
  BY DEF Image

LEMMA ServingInit == Init => ServingInv
  BY DEF Init, Store!StoreInit, ServingInv

\* A task goes to poll, queued, persist or failed, and the flusher does not
\* begin a save.
LEMMA ServingMoved ==
    ASSUME TypeOK, ServingInv, NEW t \in Tasks,
           NEW state \in {"poll", "queued", "persist", "failed"},
           pc' = [pc EXCEPT ![t] = state], proc' = "serving" => proc = "serving",
           lock' = Flusher /\ writer' # "idle" =>
               lock = Flusher /\ writer # "idle" /\ UNCHANGED <<doc, counters>>
    PROVE  ServingInv'
<1>1. \A x \in Tasks : pc'[x] \in {pc[x], state}
  BY DEF TypeOK, TaskTypeOK
<1>2. QED BY <1>1 DEF ServingInv

LEMMA ServingStep ==
    ASSUME ControlInv, ServingInv, [Next]_vars
    PROVE  ServingInv'
<1> USE DEF ControlInv
<1>0. Flusher \in Tasks /\ Sources \subseteq Tasks /\ Flusher \notin Sources
      /\ NoTask # Flusher
  BY RuntimeAssumption DEF Tasks
<1>1. ASSUME NEW s \in Sources, NEW r, Accept(s, r), proc' = proc
      PROVE  ServingInv'
  <2>1. /\ lock' # Flusher
        /\ pc' = [pc EXCEPT ![s] = "poll"] \/ pc' = [pc EXCEPT ![s] = "persist"]
    BY <1>0, <1>1 DEF Accept, RejectReading, SaveReading, AdoptReading, BackToPoll, StartPersist
  <2>2. QED BY <1>0, <1>1, <2>1, ServingMoved
<1>2. ASSUME NEW s \in Sources, NEW x \in Samples, Reply(s, x)
      PROVE  ServingInv'
  <2>1. CASE Enqueue(s) /\ UNCHANGED <<storeVars, stateVars>>
    BY <1>0, <1>2, <2>1, ServingMoved DEF Reply, Enqueue, mainVars, storeVars, stateVars
  <2>2. QED BY <1>1, <1>2, <2>1 DEF Reply, mainVars
<1>3. ASSUME NEW s \in Sources, AcceptQueued(s)
      PROVE  ServingInv'
  BY <1>1, <1>3 DEF AcceptQueued, mainVars
<1>4. CASE FlushDue \/ FlushQueued
  <2>1. UNCHANGED <<proc, counters>>
    BY <1>4 DEF FlushDue, FlushQueued, mainVars, stateVars
  <2>2. CASE StartPersist(Flusher, counters)
    <3>1. \A x \in Tasks : pc'[x] \in {pc[x], "persist"}
      BY <2>2 DEF StartPersist, TypeOK, TaskTypeOK
    <3>2. doc' = counters'
      BY <2>1, <2>2 DEF StartPersist, Store!BeginSave
    <3>3. QED BY <2>1, <3>1, <3>2 DEF ServingInv
  <2>3. CASE BackToPoll(Flusher)
    BY <1>0, <2>1, <2>3, ServingMoved DEF BackToPoll
  <2>4. CASE Enqueue(Flusher) /\ UNCHANGED storeVars
    BY <1>0, <2>1, <2>4, ServingMoved DEF Enqueue, storeVars
  <2>5. QED BY <1>4, <2>2, <2>3, <2>4 DEF FlushDue, FlushQueued, Flush
<1>5. ASSUME NEW t \in Tasks, PersistDone(t) \/ PersistFails(t)
      PROVE  ServingInv'
  <2>1. lock' # Flusher /\ proc' = proc
    BY <1>0, <1>5 DEF PersistDone, PersistFails, mainVars
  <2>2. pc' = [pc EXCEPT ![t] = "poll"] \/ pc' = [pc EXCEPT ![t] = "failed"]
    BY <1>5 DEF PersistDone, PersistFails
  <2>3. QED BY <2>1, <2>2, ServingMoved
<1>6. ASSUME NEW t \in Tasks, JoinDone(t) \/ JoinFails(t)
      PROVE  ServingInv'
  BY <1>6 DEF JoinDone, JoinFails, mainVars, ServingInv
<1>7. CASE WriterStep
  <2>1. UNCHANGED <<proc, pc, lock, counters, doc>> /\ writer # "idle"
    BY <1>7 DEF WriterStep, Store!SaveStep, Store!Rename, Store!SyncDirectory,
                Store!SaveFails, mainVars, taskVars, stateVars
  <2>2. QED BY <2>1 DEF ServingInv
<1>8. CASE \/ UNCHANGED vars \/ Expire \/ Tick \/ Stop
  <2>1. UNCHANGED <<proc, pc, lock, counters, doc, writer>>
    BY <1>8 DEF vars, Expire, Tick, Stop, storeVars, mainVars, taskVars, stateVars
  <2>2. QED BY <2>1 DEF ServingInv
<1>9. CASE MainStep \/ Killed \/ PowerLoss
  <2>1. proc' # "serving"
    BY <1>9 DEF MainStep, MainWakes, MainGathers, FinalSaved, FinalFails, Killed, PowerLoss, Dies
  <2>2. QED BY <2>1 DEF ServingInv
<1>10. CASE Restart
  BY <1>0, <1>10 DEF Restart, ServingInv
<1>11. QED
  BY <1>2, <1>3, <1>4, <1>5, <1>6, <1>7, <1>8, <1>9, <1>10 DEF Next, TaskStep

LEMMA BankInit == Init => BankInv
  BY ImageEnergies DEF Init, BankInv

\* Nothing that is shown, known or timed has changed.
LEMMA BankKept ==
    ASSUME BankInv, proc' = "serving" => proc = "serving", UNCHANGED <<counters, meterVars>>
    PROVE  BankInv'
<1>1. UNCHANGED <<counters, latest, changed, timer, bank>>
  BY DEF meterVars
<1>2. Fresh(latest') = Fresh(latest) /\ Image(latest', counters') = Image(latest, counters)
  BY <1>1
<1>3. TimerCovers' = TimerCovers
  BY <1>1, <1>2 DEF TimerCovers
<1>4. QED BY <1>1, <1>2, <1>3 DEF BankInv

\* A tick ages a fresh reading and leaves what is shown of it.
LEMMA OlderFresh ==
    ASSUME NEW r \in [measured : Measurement, age : 0..Stale], r.age < Stale
    PROVE  /\ Older(r) # NoReading /\ Older(r).age = r.age + 1
           /\ Shown(Older(r)) = Shown(r)
<1>1. r # NoReading /\ r.age \in Nat /\ Stale \in Nat
  BY RuntimeAssumption
<1>2. Older(r) = [r EXCEPT !.age = r.age + 1]
  BY <1>1 DEF Older
<1>3. Older(r) = [measured |-> r.measured, age |-> r.age + 1]
  BY <1>2
<1>4. r.age + 1 \in 0..Stale
  BY <1>1
<1>5. Older(r) \in [measured : Measurement, age : 0..Stale]
  BY <1>3, <1>4
<1>6. QED BY <1>3, <1>5, RuntimeAssumption DEF Shown

LEMMA TickKeepsFresh ==
    ASSUME TypeOK, Tick, BankInv, proc = "serving", timer # 0, ~changed
    PROVE  /\ timer' = 0 \/ (TimerCovers' /\ bank' = Image(latest', counters'))
<1> USE RuntimeAssumption
<1>1. UNCHANGED <<counters, bank>> /\ latest' = [s \in Sources |-> Older(latest[s])]
      /\ timer' = IF timer \in {0, Never} THEN timer ELSE timer - 1
  BY DEF Tick, stateVars
<1>2. TimerCovers /\ bank = Image(latest, counters)
  BY DEF BankInv
<1>3. \A s \in Sources : latest[s] = NoReading \/ latest[s] \in [measured : Measurement, age : 0..Stale]
  BY DEF TypeOK, MeterTypeOK, Latest
<1>4. \A s \in Fresh(latest) :
          /\ latest[s] \in [measured : Measurement, age : 0..Stale]
          /\ latest[s].age < Stale /\ latest[s].age \in Nat
  BY <1>3 DEF Fresh
<1>5. \A s \in Fresh(latest) :
          /\ latest'[s] # NoReading /\ latest'[s].age = latest[s].age + 1
          /\ Shown(latest'[s]) = Shown(latest[s])
  <2> TAKE s \in Fresh(latest)
  <2>1. latest'[s] = Older(latest[s])
    BY <1>1 DEF Fresh
  <2>2. QED BY <1>4, <2>1, OlderFresh
<1>6. \A s \in Sources \ Fresh(latest) : latest'[s] = latest[s]
  BY <1>1, <1>3 DEF Fresh, Older
<1>7. \A s \in Sources \ Fresh(latest) : s \notin Fresh(latest')
  BY <1>6 DEF Fresh
<1>8. CASE timer = Never
  <2>1. Fresh(latest) = {}
    BY <1>2, <1>8 DEF TimerCovers
  <2>2. latest' = latest
    BY <1>1, <1>6, <2>1 DEF TypeOK, MeterTypeOK
  <2>3. Fresh(latest') = {} /\ Image(latest', counters') = Image(latest, counters)
    BY <1>1, <2>1, <2>2
  <2>4. QED BY <1>1, <1>2, <2>3 DEF TimerCovers
<1>9. CASE timer # Never /\ timer' # 0
  <2>1. timer \in 1..Stale /\ timer' = timer - 1 /\ timer' \in 1..Stale
    BY <1>1, <1>9 DEF TypeOK, MeterTypeOK
  <2>2. \A s \in Fresh(latest) : timer <= Stale - latest[s].age
    BY <1>2 DEF TimerCovers
  <2>3. \A s \in Fresh(latest) : latest'[s].age < Stale /\ timer' <= Stale - latest'[s].age
    <3> TAKE s \in Fresh(latest)
    <3>1. latest'[s].age = latest[s].age + 1 /\ latest[s].age \in Nat
      BY <1>4, <1>5
    <3>2. timer <= Stale - latest[s].age
      BY <2>2
    <3>3. QED BY <2>1, <3>1, <3>2
  <2>5. Fresh(latest') = Fresh(latest)
    BY <1>5, <1>7, <2>3 DEF Fresh
  <2>7. Image(latest', counters') = Image(latest, counters)
    BY <1>1, <1>5, <2>5 DEF Image
  <2>8. TimerCovers'
    BY <1>9, <2>3, <2>5, <1>1, <2>1 DEF TimerCovers
  <2>9. QED BY <1>1, <1>2, <2>7, <2>8
<1>10. QED BY <1>8, <1>9

LEMMA BankStep ==
    ASSUME ControlInv, ServingInv, BankInv, [Next]_vars
    PROVE  BankInv'
<1> USE DEF ControlInv
<1>1. ASSUME NEW s \in Sources, NEW r, Accept(s, r), proc' = proc
      PROVE  BankInv'
  <2>1. CASE RejectReading(s, r)
    BY <1>1, <2>1, BankKept DEF RejectReading, stateVars
  <2>2. CASE SaveReading(s, r) \/ AdoptReading(s, r)
    <3>1. changed' /\ bank'.wh = Energies(counters')
      BY <2>2, ImageEnergies DEF SaveReading, AdoptReading, Publish, stateVars
    <3>2. QED BY <3>1 DEF BankInv
  <2>3. QED BY <1>1, <2>1, <2>2 DEF Accept
<1>2. ASSUME NEW s \in Sources, NEW x \in Samples, Reply(s, x)
      PROVE  BankInv'
  BY <1>1, <1>2, BankKept DEF Reply, mainVars, stateVars
<1>3. ASSUME NEW s \in Sources, AcceptQueued(s)
      PROVE  BankInv'
  BY <1>1, <1>3 DEF AcceptQueued, mainVars
<1>4. ASSUME NEW t \in Tasks, PersistDone(t)
      PROVE  BankInv'
  <2>1. /\ lock = t /\ writer = "saved" /\ counters' = doc
        /\ UNCHANGED <<proc, latest, changed, timer>>
    BY <1>4 DEF PersistDone, LockInv, Store!Joined, AdoptSaved, mainVars
  <2>2. CASE t \in Sources /\ Publish(latest, counters')
    <3>1. bank' = Image(latest', counters') /\ bank'.wh = Energies(counters')
      BY <2>1, <2>2, ImageEnergies DEF Publish
    <3>2. TimerCovers' = TimerCovers
      BY <2>1 DEF TimerCovers, Fresh
    <3>3. QED BY <2>1, <3>1, <3>2 DEF BankInv
  <2>3. CASE t = Flusher /\ UNCHANGED bank /\ proc = "serving"
    <3>1. counters' = counters
      BY <2>1, <2>3 DEF ServingInv
    <3>2. QED BY <2>1, <2>3, <3>1, BankKept DEF meterVars
  <2>4. CASE proc # "serving"
    BY <2>1, <2>4 DEF BankInv
  <2>5. QED BY <1>4, <2>2, <2>3, <2>4 DEF PersistDone
<1>5. ASSUME NEW t \in Tasks, JoinDone(t)
      PROVE  BankInv'
  BY <1>5 DEF JoinDone, ServingInv, BankInv, mainVars
<1>6. CASE Expire
  <2>1. /\ bank' = Image(latest', counters') /\ bank'.wh = Energies(counters')
        /\ latest' = latest
    BY <1>6, ImageEnergies DEF Expire, Publish, stateVars
  <2>2. TimerCovers'
    <3>1. CASE Fresh(latest) = {}
      BY <2>1, <3>1 DEF TimerCovers
    <3>2. CASE timer' \in Remaining(latest) /\ \A d \in Remaining(latest) : timer' <= d
      <4>1. timer' # Never
        <5>1. Remaining(latest) \subseteq 0..Stale
          BY RuntimeAssumption DEF Remaining, Fresh, Latest, TypeOK, MeterTypeOK
        <5>2. QED BY <3>2, <5>1, RuntimeAssumption
      <4>2. QED BY <2>1, <3>2, <4>1 DEF Remaining, TimerCovers
    <3>3. QED BY <1>6, <3>1, <3>2 DEF Expire, SetTimer
  <2>3. QED BY <2>1, <2>2 DEF BankInv
<1>7. CASE Tick
  <2>1. UNCHANGED <<proc, counters, changed, bank>>
    BY <1>7 DEF Tick, mainVars, stateVars
  <2>2. CASE proc # "serving" \/ changed
    BY <2>1, <2>2 DEF BankInv
  <2>3. CASE timer = 0
    BY <1>7, <2>1, <2>3 DEF Tick, BankInv
  <2>4. CASE proc = "serving" /\ timer # 0 /\ ~changed
    <3>1. bank'.wh = Energies(counters')
      BY <2>1, <2>4 DEF BankInv
    <3>2. QED BY <1>7, <2>4, <3>1, TickKeepsFresh DEF BankInv
  <2>5. QED BY <2>2, <2>3, <2>4
<1>8. CASE Restart
  BY <1>8, ImageEnergies DEF Restart, BankInv
<1>9. CASE \/ UNCHANGED vars \/ FlushDue \/ FlushQueued \/ WriterStep \/ Stop
           \/ \E t \in Tasks : PersistFails(t) \/ JoinFails(t)
  <2>1. UNCHANGED <<proc, counters, meterVars>>
    BY <1>9 DEF vars, FlushDue, FlushQueued, WriterStep, Stop, PersistFails, JoinFails,
                mainVars, stateVars
  <2>2. QED BY <2>1, BankKept
<1>10. CASE MainStep \/ Killed \/ PowerLoss
  <2>1. proc' # "serving"
    BY <1>10 DEF MainStep, MainWakes, MainGathers, FinalSaved, FinalFails, Killed, PowerLoss, Dies
  <2>2. QED BY <2>1 DEF BankInv
<1>11. QED
  BY <1>2, <1>3, <1>4, <1>5, <1>6, <1>7, <1>8, <1>9, <1>10 DEF Next, TaskStep

\* While the process serves, clients see the adopted energies and exactly the
\* fresh readings, or the expiry task is about to run.
THEOREM ShownIsCurrent == Spec => []BankIsCurrent
<1>1. Init => ControlInv /\ ServingInv /\ BankInv
  BY ControlInit, ServingInit, BankInit
<1>2. ControlInv /\ ServingInv /\ BankInv /\ [Next]_vars
          => (ControlInv /\ ServingInv /\ BankInv)'
  BY ControlStep, ServingStep, BankStep
<1>3. BankInv => BankIsCurrent
  BY DEF BankInv, BankIsCurrent
<1>4. QED BY <1>1, <1>2, <1>3, PTL DEF Spec
-----------------------------------------------------------------------------
(* The state file                                                             *)

\* Only a rename and a power loss change what the next load() returns.
LEMMA VisibleChanges ==
    ASSUME [Next]_vars, ~PowerLoss, visible' # visible
    PROVE  WriterStep /\ writer = "writing" /\ visible' = doc
<1>1. ASSUME NEW s \in Sources, NEW r, Accept(s, r)
      PROVE  visible' = visible
  BY <1>1 DEF Accept, RejectReading, SaveReading, AdoptReading, BackToPoll, StartPersist,
              Store!BeginSave, storeVars
<1>2. ASSUME \/ \E s \in Sources, x \in Samples : Reply(s, x)
             \/ \E s \in Sources : AcceptQueued(s)
      PROVE  visible' = visible
  BY <1>1, <1>2 DEF Reply, AcceptQueued, storeVars
<1>3. ASSUME FlushDue \/ FlushQueued \/ MainGathers
      PROVE  visible' = visible
  BY <1>3 DEF FlushDue, FlushQueued, MainGathers, Flush, BackToPoll, StartPersist,
              Store!BeginSave, storeVars
<1>4. ASSUME \/ \E t \in Tasks : PersistDone(t) \/ PersistFails(t) \/ JoinDone(t) \/ JoinFails(t)
             \/ FinalSaved \/ FinalFails \/ Killed
      PROVE  visible' = visible
  BY <1>4 DEF PersistDone, PersistFails, JoinDone, JoinFails, FinalSaved, FinalFails,
              Killed, Store!Joined, Store!StoreKilled
<1>5. ASSUME UNCHANGED vars \/ Expire \/ Tick \/ Stop \/ MainWakes \/ Restart
      PROVE  visible' = visible
  BY <1>5 DEF vars, Expire, Tick, Stop, MainWakes, Restart, storeVars
<1>6. WriterStep
  BY <1>2, <1>3, <1>4, <1>5 DEF Next, TaskStep, MainStep
<1>7. QED
  BY <1>6 DEF WriterStep, Store!SaveStep, Store!Rename, Store!SyncDirectory, Store!SaveFails

\* Without power losses and late failures no save takes energy off the disk:
\* every candidate starts from what the saves before it left there.
THEOREM StoredEnergyNeverFalls ==
    ASSUME Faults \cap {"power", "late"} = {}
    PROVE  Spec => StoredNeverFalls
<1>1. NoTornRename
  BY DEF NoTornRename
<1>2. ControlInv /\ MemoryInv /\ EnergyInv /\ [Next]_vars
          => [\A s \in Sources : Energy(visible[s]) <= Energy(visible'[s])]_vars
  <2> SUFFICES ASSUME ControlInv, MemoryInv, EnergyInv, Next, NEW s \in Sources
               PROVE  Energy(visible[s]) <= Energy(visible'[s])
    BY DEF vars
  <2> USE DEF ControlInv
  <2>1. Energy(visible[s]) \in Nat
    BY EnergiesAreNat
  <2>2. CASE visible' = visible
    BY <2>1, <2>2
  <2>3. CASE visible' # visible
    <3>1. writer = "writing" /\ visible' = doc
      BY <2>3, VisibleChanges DEF PowerLoss
    <3>2. proc # "down"
      BY <3>1, OwnerFollows DEF WriterHasOwner
    <3>3. Energy(counters[s]) <= Energy(doc[s])
      BY <3>1, <3>2 DEF EnergyInv
    <3>4. Energies(counters) = Energies(visible)
      BY <3>1, <3>2 DEF MemoryInv
    <3>5. Energy(counters[s]) = Energy(visible[s])
      BY <3>4 DEF Energies
    <3>6. QED BY <3>1, <3>3, <3>5
  <2>4. QED BY <2>2, <2>3
<1>3. QED BY <1>1, <1>2, EnergyAlways, MemoryAlways, PTL DEF Spec, StoredNeverFalls
-----------------------------------------------------------------------------
(* The registers can be built from every image that expiry may leave.  The    *)
(* checks of accept() cover them because there are no more than two sources.  *)

PublishInv ==
    /\ AlwaysPublishable
    /\ proc # "down" /\ writer # "idle" => EnergyFits(doc)

LEMMA NoThirdSource ==
    ASSUME NEW s \in Sources, NEW x \in Sources, NEW y \in Sources, x # s, y # s
    PROVE  x = y
<1> SUFFICES ASSUME x # y PROVE FALSE
  OBVIOUS
<1>1. IsFiniteSet({}) /\ Cardinality({}) = 0
  BY FS_EmptySet
<1>2. IsFiniteSet({s}) /\ Cardinality({s}) = 1
  BY FS_Singleton
<1>3. IsFiniteSet({s} \cup {x}) /\ Cardinality({s} \cup {x}) = 2
  BY <1>2, FS_AddElement
<1>4. Cardinality(({s} \cup {x}) \cup {y}) = 3
  BY <1>3, FS_AddElement
<1>5. Cardinality(({s} \cup {x}) \cup {y}) <= Cardinality(Sources)
  BY FS_Subset, RuntimeAssumption
<1>6. Cardinality(Sources) \in 1..2
  BY RuntimeAssumption, Zenon
<1>7. QED BY <1>4, <1>5, <1>6

\* A subset of two sources that holds s is {s}, or {s} and the other.
LEMMA PairSubsets ==
    ASSUME NEW s \in Sources, NEW F \in SUBSET Sources, NEW T \in SUBSET (F \cup {s}), s \in T
    PROVE  T = {s} \/ T = (F \ {s}) \cup {s}
  BY NoThirdSource

\* Whether readings fit depends on the energies and on these readings alone.
LEMMA FitsDepends ==
    ASSUME NEW T, NEW m, NEW n, NEW c, NEW d,
           \A s \in T : m[s].measured = n[s].measured,
           Fits(T, m, c), EnergyFits(d)
    PROVE  Fits(T, n, d)
<1>1. FlowsFit(T, n)
  <2>1. ASSUME NEW q
        PROVE  [s \in T |-> m[s].measured.flow[q]] = [s \in T |-> n[s].measured.flow[q]]
    OBVIOUS
  <2>2. QED BY <2>1 DEF Fits, FlowsFit
<1>2. ASSUME NEW q PROVE Having(T, m, q) = Having(T, n, q)
  BY DEF Having
<1>3. ASSUME NEW q, NEW S \in SUBSET T PROVE MeanTwice(S, m, q) = MeanTwice(S, n, q)
  <2>1. [s \in S |-> m[s].measured[q]] = [s \in S |-> n[s].measured[q]]
    OBVIOUS
  <2>2. QED BY <2>1 DEF MeanTwice
<1>4. \A p : PhaseVolt(T, m, p) = PhaseVolt(T, n, p)
  <2> TAKE p
  <2> DEFINE seen == Having(T, m, "volt")
             here == {s \in seen : Phase[s] = p}
  <2>1. seen = Having(T, n, "volt") /\ seen \in SUBSET T /\ here \in SUBSET T
    BY <1>2 DEF Having
  <2>2. /\ MeanTwice(seen, m, "volt") = MeanTwice(seen, n, "volt")
        /\ MeanTwice(here, m, "volt") = MeanTwice(here, n, "volt")
    BY <1>3, <2>1
  <2>3. QED BY <2>1, <2>2 DEF PhaseVolt
<1>5. VoltageFits(T, n)
  BY <1>4 DEF Fits, VoltageFits
<1>6. FrequencyFits(T, n)
  <2>1. Having(T, m, "freq") \in SUBSET T
    BY DEF Having
  <2>2. QED BY <1>2, <1>3, <2>1 DEF Fits, FrequencyFits
<1>7. QED BY <1>1, <1>5, <1>6 DEF Fits

\* An accepted reading leaves no image behind that does not fit, whichever of
\* the readings expire, and saves energies that fit.
LEMMA AcceptFits ==
    ASSUME TypeOK, \A T \in SUBSET Fresh(latest) : Fits(T, latest, counters),
           NEW s \in Sources, NEW r, Accept(s, r)
    PROVE  /\ \A T \in SUBSET Fresh(latest') : Fits(T, latest', counters')
           /\ UNCHANGED <<writer, doc>> \/ EnergyFits(doc')
<1>1. CASE RejectReading(s, r)
  <2>1. UNCHANGED <<latest, counters, writer, doc>>
    BY <1>1 DEF RejectReading, BackToPoll, storeVars, stateVars, meterVars
  <2>2. Fresh(latest') = Fresh(latest)
    BY <2>1
  <2>3. QED BY <2>1, <2>2
<1>2. CASE SaveReading(s, r) \/ AdoptReading(s, r)
  <2> DEFINE m == LatestWith(s, r)
             c == Candidate(s, r)
  <2>1. latest' = m /\ Fits({s}, m, c) /\ Fits((Fresh(latest) \ {s}) \cup {s}, m, c)
    BY <1>2 DEF SaveReading, AdoptReading, Acceptable
  <2>2. EnergyFits(counters) /\ EnergyFits(c)
    BY <2>1 DEF Fits
  <2>3. counters' \in {counters, c}
    BY <1>2 DEF SaveReading, AdoptReading, stateVars
  <2>4. EnergyFits(counters')
    BY <2>2, <2>3
  <2>5. UNCHANGED <<writer, doc>> \/ EnergyFits(doc')
    BY <1>2, <2>2 DEF SaveReading, AdoptReading, StartPersist, BackToPoll, Store!BeginSave,
                      storeVars
  <2>6. \A x \in Sources \ {s} : m[x] = latest[x]
    BY DEF LatestWith, TypeOK, MeterTypeOK
  <2>7. Fresh(m) \subseteq Fresh(latest) \cup {s}
    BY <2>6 DEF Fresh
  <2>8. ASSUME NEW T \in SUBSET Fresh(m)
        PROVE  Fits(T, m, counters')
    <3>1. CASE s \in T
      <4>1. T = {s} \/ T = (Fresh(latest) \ {s}) \cup {s}
        <5>1. Fresh(latest) \in SUBSET Sources /\ T \in SUBSET (Fresh(latest) \cup {s})
          BY <2>7 DEF Fresh
        <5>2. QED BY <3>1, <5>1, PairSubsets
      <4>2. Fits(T, m, c)
        BY <2>1, <4>1
      <4>3. QED BY <2>4, <4>2, FitsDepends
    <3>2. CASE s \notin T
      <4>1. T \in SUBSET Fresh(latest) /\ \A x \in T : m[x] = latest[x]
        BY <2>6, <2>7, <3>2 DEF Fresh
      <4>2. Fits(T, latest, counters)
        BY <4>1
      <4>3. \A x \in T : latest[x].measured = m[x].measured
        BY <4>1
      <4>4. QED BY <2>4, <4>2, <4>3, FitsDepends
    <3>3. QED BY <3>1, <3>2
  <2>9. QED BY <2>1, <2>5, <2>8
<1>3. QED BY <1>1, <1>2 DEF Accept

LEMMA PublishKept ==
    ASSUME PublishInv, UNCHANGED <<latest, counters>>, proc' # "down" => proc # "down",
           \/ UNCHANGED doc /\ (writer' # "idle" => writer # "idle")
           \/ doc' = counters
           \/ writer' = "idle"
    PROVE  PublishInv'
<1>1. Fresh(latest') = Fresh(latest)
  OBVIOUS
<1>2. proc # "down" => EnergyFits(counters)
  BY DEF PublishInv, AlwaysPublishable, Fits
<1>3. AlwaysPublishable'
  BY <1>1 DEF PublishInv, AlwaysPublishable
<1>4. proc' # "down" /\ writer' # "idle" => EnergyFits(doc')
  BY <1>2 DEF PublishInv
<1>5. QED BY <1>3, <1>4 DEF PublishInv

\* What the writer saved fits when it is adopted.
LEMMA PublishSaved ==
    ASSUME PublishInv, proc # "down", writer = "saved", writer' = "idle",
           counters' = doc, UNCHANGED latest
    PROVE  PublishInv'
<1>1. EnergyFits(counters')
  BY DEF PublishInv
<1>2. ASSUME NEW T \in SUBSET Fresh(latest)
      PROVE  Fits(T, latest, counters')
  <2>1. Fits(T, latest, counters)
    BY DEF PublishInv, AlwaysPublishable
  <2>2. QED BY <1>1, <2>1, FitsDepends
<1>3. Fresh(latest') = Fresh(latest)
  OBVIOUS
<1>4. AlwaysPublishable'
  BY <1>2, <1>3 DEF AlwaysPublishable
<1>5. QED BY <1>4 DEF PublishInv

LEMMA PublishAccepted ==
    ASSUME TypeOK, PublishInv, proc # "down", NEW s \in Sources, NEW r, Accept(s, r)
    PROVE  PublishInv'
<1>1. /\ \A T \in SUBSET Fresh(latest') : Fits(T, latest', counters')
      /\ UNCHANGED <<writer, doc>> \/ EnergyFits(doc')
  BY AcceptFits DEF PublishInv, AlwaysPublishable
<1>2. QED BY <1>1 DEF PublishInv, AlwaysPublishable

LEMMA PublishTick ==
    ASSUME TypeOK, PublishInv, Tick
    PROVE  PublishInv'
<1>1. UNCHANGED <<proc, counters, writer, doc>> /\ proc # "down"
  BY DEF Tick, storeVars, mainVars, stateVars
<1>2. ASSUME NEW s \in Sources, s \in Fresh(latest')
      PROVE  /\ s \in Fresh(latest)
             /\ latest[s].measured = latest'[s].measured
  <2>1. latest'[s] = Older(latest[s]) /\ latest'[s] # NoReading /\ latest'[s].age < Stale
    BY <1>2 DEF Tick, Fresh
  <2>2. latest[s] # NoReading /\ latest[s].age # Stale
    BY <2>1, RuntimeAssumption DEF Older
  <2>3. latest[s] \in [measured : Measurement, age : 0..Stale]
    BY <2>2 DEF TypeOK, MeterTypeOK, Latest
  <2>4. latest[s].age < Stale
    BY <2>2, <2>3, RuntimeAssumption
  <2>5. latest'[s] = [latest[s] EXCEPT !.age = @ + 1]
    BY <2>1, <2>2 DEF Older
  <2>6. QED BY <2>2, <2>3, <2>4, <2>5 DEF Fresh
<1>3. ASSUME NEW T \in SUBSET Fresh(latest')
      PROVE  Fits(T, latest', counters)
  <2>1. Fresh(latest') \subseteq Sources
    BY DEF Fresh
  <2>2. \A s \in T : /\ s \in Fresh(latest)
                     /\ latest[s].measured = latest'[s].measured
    BY <1>2, <2>1
  <2>3. Fits(T, latest, counters) /\ EnergyFits(counters)
    BY <1>1, <2>2 DEF PublishInv, AlwaysPublishable, Fits
  <2>4. QED BY <2>2, <2>3, FitsDepends
<1>4. AlwaysPublishable'
  BY <1>1, <1>3 DEF AlwaysPublishable
<1>5. QED BY <1>1, <1>4 DEF PublishInv

LEMMA NobodyIsFresh == Fresh(NobodyFresh) = {}
  BY DEF Fresh, NobodyFresh

LEMMA PublishStep ==
    ASSUME ControlInv, PublishInv, [Next]_vars
    PROVE  PublishInv'
<1> USE DEF ControlInv
<1>1. ASSUME NEW s \in Sources, NEW x \in Samples, Reply(s, x)
      PROVE  PublishInv'
  <2>1. proc # "down"
    BY <1>1 DEF Reply, MainInv, Tasks
  <2>2. CASE UNCHANGED <<storeVars, stateVars, meterVars>>
    BY <2>1, <2>2, PublishKept DEF storeVars, stateVars, meterVars
  <2>3. QED BY <1>1, <2>1, <2>2, PublishAccepted DEF Reply
<1>2. ASSUME NEW s \in Sources, AcceptQueued(s)
      PROVE  PublishInv'
  <2>1. pc[s] = "queued"
    BY <1>2, DequeueFacts DEF AcceptQueued, Tasks
  <2>2. proc # "down"
    BY <2>1 DEF MainInv, Tasks
  <2>3. QED BY <1>2, <2>2, PublishAccepted DEF AcceptQueued
<1>3. CASE FlushDue \/ FlushQueued
  <2>1. UNCHANGED <<proc, latest, counters>>
    BY <1>3 DEF FlushDue, FlushQueued, mainVars, stateVars, meterVars
  <2>2. UNCHANGED <<writer, doc>> \/ doc' = counters
    BY <1>3 DEF FlushDue, FlushQueued, Flush, StartPersist, BackToPoll, Store!BeginSave,
                storeVars
  <2>3. QED BY <2>1, <2>2, PublishKept
<1>4. ASSUME NEW t \in Tasks, PersistDone(t) \/ JoinDone(t)
      PROVE  PublishInv'
  <2>1. proc # "down"
    BY <1>4 DEF PersistDone, JoinDone, MainInv
  <2>2. QED BY <1>4, <2>1, PublishSaved
            DEF PersistDone, JoinDone, Store!Joined, Store!NoWriter, AdoptSaved, meterVars
<1>5. CASE FinalSaved
  BY <1>5, PublishSaved DEF FinalSaved, Store!Joined, Store!NoWriter, AdoptSaved, meterVars
<1>6. CASE \/ \E t \in Tasks : PersistFails(t) \/ JoinFails(t)
           \/ FinalFails
  <2>1. UNCHANGED <<latest, counters>> /\ writer' = "idle"
        /\ (proc' # "down" => proc # "down")
    BY <1>6 DEF PersistFails, JoinFails, FinalFails, Store!Joined, Store!NoWriter, mainVars,
                stateVars, meterVars
  <2>2. QED BY <2>1, PublishKept
<1>7. CASE UNCHANGED vars \/ WriterStep \/ Expire \/ Stop \/ MainWakes
  <2>1. UNCHANGED <<latest, counters, doc>> /\ (proc' # "down" => proc # "down")
    BY <1>7 DEF vars, WriterStep, Store!SaveStep, Store!Rename, Store!SyncDirectory,
                Store!SaveFails, Expire, Stop, MainWakes, storeVars, mainVars, stateVars, meterVars
  <2>2. writer' # "idle" => writer # "idle"
    BY <1>7 DEF vars, WriterStep, Store!SaveStep, Store!Rename, Store!SyncDirectory,
                Store!SaveFails, Expire, Stop, MainWakes, storeVars
  <2>3. QED BY <2>1, <2>2, PublishKept
<1>8. CASE Tick
  BY <1>8, PublishTick
<1>9. CASE MainGathers
  <2>1. UNCHANGED <<latest, counters>> /\ proc # "down"
    BY <1>9 DEF MainGathers, stateVars, meterVars
  <2>2. UNCHANGED <<writer, doc>> \/ doc' = counters
    BY <1>9 DEF MainGathers, Store!BeginSave, storeVars
  <2>3. QED BY <2>1, <2>2, PublishKept
<1>10. CASE Killed \/ PowerLoss
  BY <1>10 DEF Killed, PowerLoss, Dies, PublishInv, AlwaysPublishable
<1>11. CASE Restart
  <2>1. /\ latest' = NobodyFresh /\ counters' = visible /\ UNCHANGED <<writer, doc>>
        /\ Fits({}, NobodyFresh, visible)
    BY <1>11 DEF Restart, storeVars
  <2>2. writer = "idle"
    BY <1>11, OwnerFollows DEF Restart, WriterHasOwner
  <2>3. AlwaysPublishable'
    BY <2>1, NobodyIsFresh DEF AlwaysPublishable
  <2>4. QED BY <2>1, <2>2, <2>3 DEF PublishInv
<1>12. QED
  BY <1>1, <1>2, <1>3, <1>4, <1>5, <1>6, <1>7, <1>8, <1>9, <1>10, <1>11
     DEF Next, TaskStep, MainStep

\* Expiry never uncovers an image that the registers cannot hold: whichever of
\* the fresh readings are left, publish() does not raise.
THEOREM ExpiryNeverFails == Spec => []AlwaysPublishable
<1>1. Init => ControlInv /\ PublishInv
  <2>1. Init => PublishInv
    BY NobodyIsFresh DEF Init, Store!StoreInit, PublishInv, AlwaysPublishable
  <2>2. QED BY <2>1, ControlInit
<1>2. ControlInv /\ PublishInv /\ [Next]_vars => (ControlInv /\ PublishInv)'
  BY ControlStep, PublishStep
<1>3. PublishInv => AlwaysPublishable
  BY DEF PublishInv, AlwaysPublishable
<1>4. QED BY <1>1, <1>2, <1>3, PTL DEF Spec
=============================================================================
