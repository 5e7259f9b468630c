---------------------------- MODULE MeterRuntime ----------------------------
(***************************************************************************)
(* The poller process (app.py: _MeterRuntime, _poll_sources and the start  *)
(* of run): one polling task per Shelly, the expiry task, the metadata     *)
(* task and the main task on one event loop, a writer thread that saves    *)
(* the energy state, and the register bank that Modbus clients read.       *)
(*                                                                         *)
(* An action is what a task does between two awaits.  Time is relative: a  *)
(* reading has an age, capped at Stale, and the expiry task a timer.       *)
(* Sleeping and waiting for the HTTP answer change no shared state: both   *)
(* are pc "poll".  The bank holds what _registers is a function of, the    *)
(* energies and the fresh readings, for each source: a client sees sums of *)
(* them per phase.                                                         *)
(***************************************************************************)
EXTENDS EnergyCounter, FiniteSets, Functions, Sequences

CONSTANTS
    Sources,     \* the configured plugs: load_config allows two at most
    Flusher,     \* the task of flush_metadata
    NoTask,      \* nobody holds the lock
    NoReading,   \* a source that has nothing to show
    Samples,     \* what a plug may answer: raw energy, its field, what it measures
    Phase,       \* the phase each source is wired to
    Phases,
    Fallback,    \* fallback_voltage_v, for a phase nobody measures
    Stale,       \* stale_after_seconds, in ticks
    Never,       \* wait_for(..., timeout=None)
    EnergyMax,   \* largest total energy the registers can hold
    FlowMax,     \* largest total of each quantity that is summed: current, power,
                 \* apparent power
    VoltMax,     \* largest phase or line voltage
    FrequencyMax, GridFrequency,  \* largest frequency, and that of nobody's reading
    Faults       \* the faults that may happen, see DurableStore

Tasks == Sources \cup {Flusher}

Documents == [Sources -> Counter \cup {NoCounter}]
EmptyDocument == [s \in Sources |-> NoCounter]

\* A voltage or a frequency of 0 is none.
Measurement == [flow : [DOMAIN FlowMax -> Nat], volt : Nat, freq : Nat]
Sample == [raw : Nat, field : Fields, measured : Measurement]
Reading == [raw : Nat, field : Fields, measured : Measurement, age : 0..Stale]

ASSUME RuntimeAssumption ==
    /\ IsFiniteSet(Sources) /\ Cardinality(Sources) \in 1..2
    /\ Flusher \notin Sources
    /\ NoTask \notin Tasks
    /\ Samples \subseteq Sample
    /\ NoReading \notin [measured : Measurement, age : 0..Stale]
    /\ NoReading \notin Measurement
    /\ NoReading \notin Reading
    /\ Phase \in [Sources -> Phases]
    /\ Fallback \in 1..VoltMax /\ GridFrequency \in 1..FrequencyMax
    /\ Stale \in Nat \ {0}
    /\ Never \notin 0..Stale
    /\ EnergyMax \in Nat /\ FlowMax \in [DOMAIN FlowMax -> Nat]
    /\ VoltMax \in Nat /\ FrequencyMax \in Nat
    /\ Faults \subseteq {"kill", "power", "early", "late"}

VARIABLES
    visible, outcomes, writer, doc,   \* the state file, see DurableStore
    proc,       \* the main task: "serving", "cancelling", "final" or "down"
    stop,       \* stop_event
    graceful,   \* the local of _poll_sources
    exit,       \* how the last run ended, "" while it runs
    pc,         \* where each task is, in Tasks
    reading,    \* the reading a polling task waits for the lock with
    lock,       \* the task that holds the lock
    waiters,    \* the tasks that wait for it, first come first served
    counters,   \* state._sources
    dirty,      \* state._dirty
    latest,     \* the last accepted reading of each source, with its age
    changed,    \* the event that wakes the expiry task
    timer,      \* ticks until its wait_for times out
    bank        \* the register image

Store == INSTANCE DurableStore WITH InitDocument <- EmptyDocument

storeVars == <<visible, outcomes, writer, doc>>
mainVars == <<proc, stop, graceful, exit>>
taskVars == <<pc, reading, lock, waiters>>
stateVars == <<counters, dirty>>
meterVars == <<latest, changed, timer, bank>>
vars == <<storeVars, mainVars, taskVars, stateVars, meterVars>>
-----------------------------------------------------------------------------
(* The register image *)

Energies(c) == [s \in Sources |-> Energy(c[s])]

\* Twice the mean of a quantity over S.  Twice the mean of two integers is an
\* integer; there are no more than two sources.
MeanTwice(S, m, q) ==
    (2 * SumFunction([s \in S |-> m[s].measured[q]])) \div Cardinality(S)

\* The sources of T whose readings m have a value of quantity q.
Having(T, m, q) == {s \in T : m[s].measured[q] > 0}

\* Twice the voltage the readings m of sources T give phase p: the mean of the
\* phase, else of all phases, else the configured voltage.
PhaseVolt(T, m, p) ==
    LET seen == Having(T, m, "volt")
        here == {s \in seen : Phase[s] = p}
    IN  IF here # {} THEN MeanTwice(here, m, "volt")
        ELSE IF seen # {} THEN MeanTwice(seen, m, "volt")
        ELSE 2 * Fallback

\* A line voltage is sqrt(a^2 + b^2 + ab) of two phase voltages.
VoltageFits(T, m) ==
    \A p, q \in Phases :
        LET a == PhaseVolt(T, m, p)
            b == PhaseVolt(T, m, q)
        IN  /\ a <= 2 * VoltMax
            /\ p # q => a * a + b * b + a * b <= 4 * VoltMax * VoltMax

FrequencyFits(T, m) ==
    LET seen == Having(T, m, "freq")
    IN  (IF seen # {} THEN MeanTwice(seen, m, "freq") ELSE 2 * GridFrequency) <= 2 * FrequencyMax

\* What is summed has its largest value in the total of the phases.
FlowsFit(T, m) ==
    \A q \in DOMAIN FlowMax :
        SumFunction([s \in T |-> m[s].measured.flow[q]]) <= FlowMax[q]

EnergyFits(c) == SumFunction(Energies(c)) <= EnergyMax

\* _registers(config, readings, state) does not raise.
Fits(T, m, c) ==
    EnergyFits(c) /\ FlowsFit(T, m) /\ VoltageFits(T, m) /\ FrequencyFits(T, m)

\* fresh(): now < received + stale_after_seconds
Fresh(l) == {s \in Sources : l[s] # NoReading /\ l[s].age < Stale}

Shown(r) == r.measured

\* The image publish() puts in the bank, for readings l and counters c.
Image(l, c) ==
    [wh |-> Energies(c),
     live |-> [s \in Sources |-> IF s \in Fresh(l) THEN Shown(l[s]) ELSE NoReading]]

Publish(l, c) == bank' = Image(l, c)
-----------------------------------------------------------------------------
(* The lock: asyncio.Lock hands itself to its waiters in their order, and a *)
(* task that comes while anybody waits queues up even when it is free.      *)

LockFree == lock = NoTask /\ waiters = <<>>

Enqueue(t) ==
    /\ pc' = [pc EXCEPT ![t] = "queued"]
    /\ waiters' = Append(waiters, t)
    /\ UNCHANGED lock

\* persist(candidate): the writer thread starts, the task keeps the lock.
StartPersist(t, c) ==
    /\ Store!BeginSave(c)
    /\ pc' = [pc EXCEPT ![t] = "persist"]
    /\ lock' = t

\* Mutant of BackToPoll: leaving the critical section keeps the lock.
BackToPollLocked(t) ==
    /\ pc' = [pc EXCEPT ![t] = "poll"]
    /\ lock' = t
    /\ UNCHANGED storeVars

BackToPoll(t) ==
    /\ pc' = [pc EXCEPT ![t] = "poll"]
    /\ lock' = NoTask
    /\ UNCHANGED storeVars
-----------------------------------------------------------------------------
(* accept() *)

\* Mutant of Candidate: the copy does not hold the other sources.
CandidateAlone(s, r) ==
    [EmptyDocument EXCEPT ![s] = UpdateCounter(counters[s], r.raw, r.field)]

Candidate(s, r) == [counters EXCEPT ![s] = UpdateCounter(counters[s], r.raw, r.field)]

LatestWith(s, r) ==
    [latest EXCEPT ![s] = [measured |-> r.measured, age |-> r.age]]

\* Mutant of Acceptable: only the fresh readings together must fit.
AcceptableTogether(s, r) ==
    LET m == LatestWith(s, r)
    IN  /\ UpdateAllowed(counters[s], r.raw, r.field)
        /\ Fits((Fresh(latest) \ {s}) \cup {s}, m, Candidate(s, r))

\* The reading fits the registers alone, and with the other fresh reading:
\* expiry may later uncover what averaging hides now.
Acceptable(s, r) ==
    LET m == LatestWith(s, r)
        c == Candidate(s, r)
    IN  /\ UpdateAllowed(counters[s], r.raw, r.field)
        /\ Fits({s}, m, c)
        /\ Fits((Fresh(latest) \ {s}) \cup {s}, m, c)

\* ValueError: the lock is released and nothing else has changed.
RejectReading(s, r) ==
    /\ ~Acceptable(s, r)
    /\ BackToPoll(s)
    /\ UNCHANGED <<stateVars, meterVars>>

\* Mutant of MustSave: only what is urgent is saved before it is shown.
MustSaveUrgent(s, r) == UrgentUpdate(counters[s], r.raw, r.field)

MustSave(s, r) ==
    \/ UrgentUpdate(counters[s], r.raw, r.field)
    \/ Energies(Candidate(s, r)) # Energies(counters)

\* Mutant of SaveReading: the new energy is shown while it is being saved.
SaveReadingEagerly(s, r) ==
    /\ Acceptable(s, r)
    /\ MustSave(s, r)
    /\ latest' = LatestWith(s, r)
    /\ changed' = TRUE
    /\ Publish(latest', Candidate(s, r))
    /\ StartPersist(s, Candidate(s, r))
    /\ UNCHANGED <<stateVars, timer>>

\* The new power is shown with the energy already saved, then the candidate
\* goes to the writer thread.
SaveReading(s, r) ==
    /\ Acceptable(s, r)
    /\ MustSave(s, r)
    /\ latest' = LatestWith(s, r)
    /\ changed' = TRUE
    /\ Publish(latest', counters)
    /\ StartPersist(s, Candidate(s, r))
    /\ UNCHANGED <<stateVars, timer>>

\* Only the raw counter moved: adopted now, saved by flush_metadata.
AdoptReading(s, r) ==
    /\ Acceptable(s, r)
    /\ ~MustSave(s, r)
    /\ latest' = LatestWith(s, r)
    /\ changed' = TRUE
    /\ counters' = Candidate(s, r)
    /\ dirty' = (dirty \/ counters' # counters)
    /\ Publish(latest', counters')
    /\ BackToPoll(s)
    /\ UNCHANGED timer

Accept(s, r) == RejectReading(s, r) \/ SaveReading(s, r) \/ AdoptReading(s, r)

\* A plug answers, and its reading is accepted at once or waits for the lock.
Reply(s, x) ==
    LET r == [raw |-> x.raw, field |-> x.field, measured |-> x.measured, age |-> 0]
    IN  /\ pc[s] = "poll"
        /\ \/ /\ LockFree
              /\ Accept(s, r)
              /\ UNCHANGED <<reading, waiters>>
           \/ /\ ~LockFree
              /\ Enqueue(s)
              /\ reading' = [reading EXCEPT ![s] = r]
              /\ UNCHANGED <<storeVars, stateVars, meterVars>>
        /\ UNCHANGED mainVars

\* The lock comes to a polling task, with a reading that has aged meanwhile.
AcceptQueued(s) ==
    /\ lock = NoTask /\ waiters # <<>> /\ Head(waiters) = s
    /\ waiters' = Tail(waiters)
    /\ Accept(s, reading[s])
    /\ reading' = [reading EXCEPT ![s] = NoReading]
    /\ UNCHANGED mainVars
-----------------------------------------------------------------------------
(* flush_metadata() *)

Flush ==
    \/ /\ dirty
       /\ StartPersist(Flusher, counters)
    \/ /\ ~dirty
       /\ BackToPoll(Flusher)

FlushDue ==
    /\ pc[Flusher] = "poll"
    /\ \/ /\ LockFree
          /\ Flush
          /\ UNCHANGED waiters
       \/ /\ ~LockFree
          /\ Enqueue(Flusher)
          /\ UNCHANGED storeVars
    /\ UNCHANGED <<mainVars, reading, stateVars, meterVars>>

FlushQueued ==
    /\ lock = NoTask /\ waiters # <<>> /\ Head(waiters) = Flusher
    /\ waiters' = Tail(waiters)
    /\ Flush
    /\ UNCHANGED <<mainVars, reading, stateVars, meterVars>>
-----------------------------------------------------------------------------
(* persist(), after the writer thread has ended *)

\* Mutant of AdoptSaved: the saved counters are not taken over.
AdoptFlags == UNCHANGED counters /\ dirty' = FALSE

\* self.state.adopt(candidate), after a save that cleared its flags
AdoptSaved == counters' = doc /\ dirty' = FALSE

\* accept() publishes again: a slow fsync may have outlived a reading.
PersistDone(t) ==
    /\ pc[t] = "persist"
    /\ Store!Joined("saved")
    /\ AdoptSaved
    /\ pc' = [pc EXCEPT ![t] = "poll"]
    /\ lock' = NoTask
    /\ \/ t \in Sources /\ Publish(latest, counters')
       \/ t = Flusher /\ UNCHANGED bank
    /\ UNCHANGED <<mainVars, reading, waiters, latest, changed, timer>>

\* StateError: nothing in poll() or flush_metadata() catches it.
PersistFails(t) ==
    /\ pc[t] = "persist"
    /\ Store!Joined("failed")
    /\ pc' = [pc EXCEPT ![t] = "failed"]
    /\ lock' = NoTask
    /\ UNCHANGED <<mainVars, reading, waiters, stateVars, meterVars>>

\* A cancelled persist() waits for the thread, adopts and publishes nothing.
JoinDone(t) ==
    /\ pc[t] = "join"
    /\ Store!Joined("saved")
    /\ AdoptSaved
    /\ pc' = [pc EXCEPT ![t] = "ended"]
    /\ lock' = NoTask
    /\ UNCHANGED <<mainVars, reading, waiters, meterVars>>

JoinFails(t) ==
    /\ pc[t] = "join"
    /\ Store!Joined("failed")
    /\ pc' = [pc EXCEPT ![t] = "failed"]
    /\ lock' = NoTask
    /\ UNCHANGED <<mainVars, reading, waiters, stateVars, meterVars>>

\* The writer thread.
WriterStep ==
    /\ Store!SaveStep
    /\ UNCHANGED <<mainVars, taskVars, stateVars, meterVars>>
-----------------------------------------------------------------------------
(* expire(), and time *)

Remaining(l) == {Stale - l[s].age : s \in Fresh(l)}

\* Mutant of SetTimer: the task waits for new readings only.
SetTimerNever(l) == timer' = Never

\* timeout = min(deadlines) - now, or None when no reading is fresh
SetTimer(l) ==
    \/ Fresh(l) = {} /\ timer' = Never
    \/ timer' \in Remaining(l) /\ \A d \in Remaining(l) : timer' <= d

\* Mutant of ExpiryDue: expire() takes the lock that persist() holds.
ExpiryDueUnlocked == proc = "serving" /\ (changed \/ timer = 0) /\ lock = NoTask

\* expire() runs at once when it starts (changed is TRUE then), after every
\* accepted reading, and when its wait_for times out.
ExpiryDue == proc = "serving" /\ (changed \/ timer = 0)

Expire ==
    /\ ExpiryDue
    /\ changed' = FALSE
    /\ Publish(latest, counters)
    /\ SetTimer(latest)
    /\ UNCHANGED <<storeVars, mainVars, taskVars, stateVars, latest>>

Older(r) ==
    IF r = NoReading \/ r.age = Stale THEN r ELSE [r EXCEPT !.age = @ + 1]

\* One tick of the monotonic clock; the event loop may be late for a timer.
Tick ==
    /\ proc # "down"
    /\ latest' = [s \in Sources |-> Older(latest[s])]
    /\ reading' = [s \in Sources |-> Older(reading[s])]
    /\ timer' = IF timer \in {0, Never} THEN timer ELSE timer - 1
    /\ UNCHANGED <<storeVars, mainVars, pc, lock, waiters, stateVars, changed, bank>>
-----------------------------------------------------------------------------
(* The main task of _poll_sources *)

Failed == {t \in Tasks : pc[t] = "failed"}

\* SIGTERM or SIGINT, or run() sets the event because the server ended.
Stop ==
    /\ proc # "down" /\ ~stop
    /\ stop' = TRUE
    /\ UNCHANGED <<storeVars, proc, graceful, exit, taskVars, stateVars, meterVars>>

\* Mutant of Cancelled: a task in persist() does not join the writer thread.
CancelledAtOnce(state) ==
    IF state \in {"poll", "queued", "persist"} THEN "ended" ELSE state

\* A task in persist() goes on waiting for the writer thread; the others end.
Cancelled(state) ==
    CASE state \in {"poll", "queued"} -> "ended"
      [] state = "persist" -> "join"
      [] OTHER -> state

\* Mutant of WakeDue: a failed task is noticed only at shutdown.
WakeOnStop == stop

\* asyncio.wait returns: stop_event is set, or a task has raised.
WakeDue == stop \/ Failed # {}

MainWakes ==
    /\ proc = "serving"
    /\ WakeDue
    /\ proc' = "cancelling"
    /\ graceful' = (stop /\ Failed = {})
    /\ pc' = [t \in Tasks |-> Cancelled(pc[t])]
    /\ waiters' = <<>>
    /\ reading' = [s \in Sources |-> NoReading]
    /\ UNCHANGED <<storeVars, stop, exit, lock, stateVars, meterVars>>

\* Mutant of FinalSaveDue: the deferred metadata is dropped.
FinalSaveNever == FALSE

\* graceful and state.needs_save
FinalSaveDue == graceful /\ dirty

\* gather() returns: a failure is raised; otherwise what flush_metadata had
\* deferred is saved before the process ends.
MainGathers ==
    /\ proc = "cancelling"
    /\ \A t \in Tasks : pc[t] \in {"ended", "failed"}
    /\ \/ /\ Failed # {}
          /\ proc' = "down" /\ exit' = "error"
          /\ UNCHANGED storeVars
       \/ /\ Failed = {} /\ FinalSaveDue
          /\ proc' = "final"
          /\ Store!BeginSave(counters)
          /\ UNCHANGED exit
       \/ /\ Failed = {} /\ ~FinalSaveDue
          /\ proc' = "down" /\ exit' = "clean"
          /\ UNCHANGED storeVars
    /\ UNCHANGED <<stop, graceful, taskVars, stateVars, meterVars>>

FinalSaved ==
    /\ proc = "final"
    /\ Store!Joined("saved")
    /\ AdoptSaved
    /\ proc' = "down" /\ exit' = "clean"
    /\ UNCHANGED <<stop, graceful, taskVars, meterVars>>

FinalFails ==
    /\ proc = "final"
    /\ Store!Joined("failed")
    /\ proc' = "down" /\ exit' = "error"
    /\ UNCHANGED <<stop, graceful, taskVars, stateVars, meterVars>>
-----------------------------------------------------------------------------
(* Death and restart.  The memory is lost; the bank keeps the last image *)
(* that clients saw.                                                      *)

NobodyFresh == [s \in Sources |-> NoReading]

Dies ==
    /\ proc' = "down" /\ exit' = "killed"
    /\ stop' = FALSE /\ graceful' = FALSE
    /\ pc' = [t \in Tasks |-> "ended"]
    /\ reading' = NobodyFresh
    /\ lock' = NoTask /\ waiters' = <<>>
    /\ counters' = EmptyDocument /\ dirty' = FALSE
    /\ latest' = NobodyFresh
    /\ changed' = FALSE /\ timer' = Never
    /\ UNCHANGED bank

Killed ==
    /\ "kill" \in Faults
    /\ proc # "down"
    /\ Store!StoreKilled
    /\ Dies

PowerLoss ==
    /\ "power" \in Faults
    /\ Store!StorePowerLoss
    /\ Dies

\* run(): the state is loaded and the registers are built from it alone, or
\* the process ends before it shows anything.
Restart ==
    /\ proc = "down"
    /\ Fits({}, NobodyFresh, visible)
    /\ proc' = "serving" /\ exit' = ""
    /\ stop' = FALSE /\ graceful' = FALSE
    /\ counters' = visible /\ dirty' = FALSE
    /\ pc' = [t \in Tasks |-> "poll"]
    /\ reading' = NobodyFresh
    /\ lock' = NoTask /\ waiters' = <<>>
    /\ latest' = NobodyFresh
    /\ changed' = TRUE /\ timer' = Never
    /\ bank' = Image(NobodyFresh, visible)
    /\ UNCHANGED storeVars

\* A first start: the registers were built from the empty state, and the
\* startup save of the source phases has been made.
Init ==
    /\ Fits({}, NobodyFresh, EmptyDocument)
    /\ Store!StoreInit
    /\ proc = "serving" /\ exit = "" /\ stop = FALSE /\ graceful = FALSE
    /\ pc = [t \in Tasks |-> "poll"]
    /\ reading = NobodyFresh
    /\ lock = NoTask /\ waiters = <<>>
    /\ counters = EmptyDocument /\ dirty = FALSE
    /\ latest = NobodyFresh
    /\ changed = TRUE /\ timer = Never
    /\ bank = Image(NobodyFresh, EmptyDocument)

TaskStep ==
    \/ \E s \in Sources : AcceptQueued(s)
    \/ FlushQueued
    \/ \E t \in Tasks : PersistDone(t) \/ PersistFails(t) \/ JoinDone(t) \/ JoinFails(t)

MainStep == MainWakes \/ MainGathers \/ FinalSaved \/ FinalFails

Next ==
    \/ \E s \in Sources, x \in Samples : Reply(s, x)
    \/ FlushDue
    \/ TaskStep
    \/ WriterStep
    \/ Expire
    \/ Tick
    \/ Stop
    \/ MainStep
    \/ Killed
    \/ PowerLoss
    \/ Restart

Spec == Init /\ [][Next]_vars
-----------------------------------------------------------------------------
(* Properties *)

Latest == [measured : Measurement, age : 0..Stale] \cup {NoReading}
Bank == [wh : [Sources -> Nat], live : [Sources -> Measurement \cup {NoReading}]]

StoreTypeOK ==
    /\ visible \in Documents /\ doc \in Documents
    /\ outcomes \subseteq Documents /\ visible \in outcomes
    /\ writer \in {"idle", "writing", "renamed", "saved", "failed"}

MainTypeOK ==
    /\ proc \in {"serving", "cancelling", "final", "down"}
    /\ stop \in BOOLEAN /\ graceful \in BOOLEAN
    /\ exit \in {"", "clean", "error", "killed"}

TaskTypeOK ==
    /\ pc \in [Tasks -> {"poll", "queued", "persist", "join", "ended", "failed"}]
    /\ reading \in [Sources -> Reading \cup {NoReading}]
    /\ lock \in Tasks \cup {NoTask}
    /\ waiters \in Seq(Tasks)

StateTypeOK == counters \in Documents /\ dirty \in BOOLEAN

MeterTypeOK ==
    /\ latest \in [Sources -> Latest]
    /\ changed \in BOOLEAN
    /\ timer \in (0..Stale) \cup {Never}
    /\ bank \in Bank

\* The variables have their types.
TypeOK == StoreTypeOK /\ MainTypeOK /\ TaskTypeOK /\ StateTypeOK /\ MeterTypeOK

\* The energies a meter reader may see after the next restart, whichever of
\* the possible faults causes it.
Survivors == IF "power" \in Faults THEN outcomes ELSE {visible}

\* The code keeps its promise when no restart can load a renamed file that a
\* later power loss takes back: see RuntimeKillPower for the case it excludes.
NoTornRename == "power" \notin Faults \/ Faults \cap {"kill", "late"} = {}

\* Energy is durable before Modbus shows it: whatever a power loss may leave
\* on disk holds at least the energy shown (persist before publish, accept).
PublishedIsDurable ==
    \A d \in outcomes, s \in Sources : bank.wh[s] <= Energy(d[s])

\* The energy shown for a source never falls: not by a counter reset, a
\* failed or cancelled save, a crash or a restart.
PublishedNeverFalls == [][\A s \in Sources : bank.wh[s] <= bank'.wh[s]]_vars

\* No save replaces the state file by one with less energy of any source: a
\* candidate never misses what another task saved before it (the lock).
StoredNeverFalls ==
    [][\A s \in Sources : Energy(visible[s]) <= Energy(visible'[s])]_vars

\* The writer thread always works for one task: the holder of the lock, that
\* waits for it even when cancelled, or the main task after all others ended.
WriterHasOwner ==
    writer # "idle" =>
        \/ proc = "final" /\ lock = NoTask
        \/ /\ proc \in {"serving", "cancelling"}
           /\ lock \in Tasks /\ pc[lock] \in {"persist", "join"}
           /\ \A t \in Tasks \ {lock} : pc[t] \notin {"persist", "join"}

\* With no write under way and none failed, what the process knows is what is
\* on disk, but for metadata marked dirty.
MemoryIsStored ==
    (proc \in {"serving", "cancelling"} /\ writer = "idle" /\ Failed = {}) =>
        /\ Energies(counters) = Energies(visible)
        /\ ~dirty => counters = visible

\* A graceful stop loses nothing, the deferred metadata included.
CleanExitKeepsAll ==
    exit = "clean" => visible = counters /\ outcomes = {visible}

\* While the process serves, the bank shows the adopted energies and exactly
\* the fresh readings, unless the expiry task is about to run: no wake-up is
\* lost, and a slow fsync brings no expired power back.
BankIsCurrent ==
    proc = "serving" =>
        /\ bank.wh = Energies(counters)
        /\ changed \/ timer = 0 \/ bank = Image(latest, counters)

\* Every image that expiry may have to publish later fits the registers, so
\* publish() never raises in the expiry task, whose failure ends the service.
AlwaysPublishable ==
    proc # "down" => \A T \in SUBSET Fresh(latest) : Fits(T, latest, counters)

\* The runtime keeps the promise of EnergyPromise: what it shows is the bank's
\* energies, what a restart may find are those of the surviving documents.
Promise == INSTANCE EnergyPromise
    WITH shown <- bank.wh, survivors <- {Energies(d) : d \in Survivors}

ImplementsPromise == Promise!PromiseSpec
-----------------------------------------------------------------------------
(* Liveness *)

\* The event loop runs every task that can run.  The writer thread may hang, a
\* plug may never answer, and nobody need ask for a stop.
FairSpec ==
    /\ Spec
    /\ WF_vars(Expire) /\ WF_vars(TaskStep) /\ WF_vars(MainStep)

StaleShown(s) ==
    proc = "serving" /\ bank.live[s] # NoReading /\ s \notin Fresh(latest)

\* A power that has expired leaves the bank, or the process stops serving:
\* expiry waits neither for HTTP nor for a disk that hangs (the promise of the
\* class).
StaleIsCleared == \A s \in Sources : StaleShown(s) ~> ~StaleShown(s)

WritesEnd == []<>(writer \notin {"writing", "renamed"})

\* A stop request, or a write that failed, ends the process, unless a write
\* hangs for ever: persist() joins it without a timeout.
ShutdownCompletes == WritesEnd => ((stop \/ Failed # {}) ~> proc = "down")

\* A task that waits for the lock gets it, or is cancelled, unless a write hangs
\* for ever.
WaiterServed == WritesEnd => \A t \in Tasks : pc[t] = "queued" ~> pc[t] # "queued"
=============================================================================
