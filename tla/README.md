# Fronius Smart Meter emulator: formal model

This directory holds TLA+ models of the emulator in `src/src/fronius_emulator`
(paths below are relative to that package), the TLC configurations that check
them, and theorems about them that TLAPS proves.

The emulator polls one or two Shelly plugs over HTTP, derives from each raw
energy counter a lifetime counter that never falls, keeps it in a state file,
and shows power and energy to Modbus TCP clients as a SunSpec meter. The
difficult promise is the one about energy: what a client has seen once must
never become less, whatever the plug's counter does, whichever write fails and
whenever the process or the machine dies, while the meter must go on showing
(and expiring) power although the disk is slow.

## 1. Inventory

| Part | Source | State | Operations | Hard behaviour |
|---|---|---|---|---|
| Energy counter | `state.py` `EnergyCounter`, `update` | last raw value, reset offset, virtual value, field | first reading, advance, reset, change of field, rejection | tolerance of the reset detection, range limits, crashes that take metadata back |
| State file | `state.py` `load`, `save` | file, backup, two temporary files, `recovered_from_backup` | save, load, recovery | a fault between any two system calls, damage, failing reads |
| Meter runtime | `app.py` `_MeterRuntime`, `_poll_sources` | lock, writer thread, adopted counters, dirty flag, latest readings, register bank | `accept`, `persist`, `publish`, `expire`, `flush_metadata`, stop, cancellation, final save | four tasks and a thread; shielded joins; failure during shutdown; expiry during a slow fsync |
| Shelly client: payload | `shelly.py` `_parse_payload` | latch of the automatic direction | read a payload, accept | a counter that is missing from some payloads; restarts with other settings |
| Shelly client: HTTP | `shelly.py` `fetch_async` | one HTTP client | connect, read, redirects and digest rounds, time out | four timeouts of which one bounds the poll; readings that age |
| Aggregation | `aggregate.py` | none | sums per phase, mean voltages, energies of all sources | a mean that hides what expiry uncovers; a source without a phase is dropped |
| SunSpec image | `sunspec.py` | register bank | build, encode, look up | ranges at which building fails; sentinels; layout of two models |
| Modbus server | `modbus.py` | connections, `_closing`, interval log | accept, answer, close | a connection that arrives while `close()` runs; slow peers; a bounded log |
| Start and stop | `app.py` `run`, `state.py` `set_phases` | phases of the sources, stop event, poller task | load, migrate phases, startup save, close, join | a crash inside the migration; a start that must be refused; order of shutdown; a failed poller |
| Configuration | `config.py` | none | parse the environment | settings that change between runs over one state file |
| Health check, probe | `healthcheck.py`, `probe.py` | registers read so far | discover the model, read it, check the chain | several requests, with publishes and restarts between them |

How they interact: a polling task per plug reads the plug (`ShellyClient.read`),
takes the lock and calls `accept`, which updates a **copy** of the energy state,
shows the new power with the old energy, saves the copy in a thread
(`asyncio.to_thread`), adopts it, and shows the new energy. The metadata task saves
what no reading made urgent, under the same lock. The expiry task takes no lock:
it rebuilds the image whenever a reading is accepted or becomes stale. The Modbus
server reads the bank only. The main task waits for a stop request or for the
failure of any task, cancels the rest, joins the writer, makes a final save after
a graceful stop and ends; `run` closes the server and then joins the poller.

What makes each part correct, in a sentence:

- *counter*: no energy is lost and none counted twice, over resets, jitter,
  changes of field and restarts from older metadata;
- *state file*: once a save has returned, the next start loads that generation or
  a later one, and a damaged file costs one generation at most;
- *runtime*: energy is durable before it is shown; the bank, the memory and the
  disk agree; no wake-up is lost; shutdown ends and loses nothing;
- *client*: the counter chosen automatically stays chosen, and power is shown for
  the direction of that counter; whatever a plug sends, its poll ends in time and
  no power is shown that is older than the timeout and the expiry together;
- *image*: it can be walked by lengths alone, and decoding it gives what was measured;
- *start*: every source with energy has a phase and keeps it, nothing is served that
  is not saved, and settings that have served can serve again after any crash;
- *probe*: what it returns was true at one moment, and it fails for a reason only;
- *server*: no connection is forgotten at shutdown, and the service ends.

`PROJECT.json` lists the hazards behind these sentences, each at its line, with
the properties that cover it.

## 2. Modules

| Module | Models | State ↔ code |
|---|---|---|
| `EnergyCounter` | `EnergyStateStore.update`, pure | a record for `EnergyCounter`; `UpdateCounter` is the stored result, `UpdateAllowed` the absence of `ValueError`, `UrgentUpdate` the `urgent` flag |
| `DurableStore` | what `save`/`load` promise (abstract) | `visible`: the next `load()`; `outcomes`: what a power loss may leave; `writer`: progress of the thread |
| `StateFile` | `save`/`load`, system call by system call | `file`/`disk`: visible and possible durable content of both names; `save`: the next call |
| `MeterRuntime` | `_MeterRuntime`, `_poll_sources`, start of `run` | `pc`, `lock`, `waiters` for the tasks and `asyncio.Lock`; `counters`/`dirty` for the store; `latest`, `changed`, `timer`, `bank` for the meter; `proc`, `stop`, `graceful` for the main task |
| `EnergyPromise` | what a reader of the meter is promised (abstract) | `shown`, and what restarts may find |
| `ShellyClient` | `_parse_payload`, `_select_energy`, `_normalise_power`, `accept`, pure | the latch is `_auto_uses_negative` |
| `MeteredSource` | one plug with client, counter, disk and restarts | composes `ShellyClient` and `EnergyCounter`; the plug is external |
| `ModbusServer` | `ModbusTcpServer` and the end of `run` | `clients`, `closing`, `handler` (where `_handle_client` is), `transport`; `recent` for `_last_request_at` |
| `SunSpec` | `build_registers` with both models, pure | a function from register numbers (PDU address + 1) to words; `Buildable` is the absence of `ValueError` |
| `Aggregation` | `aggregate_readings`, pure | |
| `MeterReader` | the meter as its clients see it: `_handle_pdu`, `RegisterBank.read`, `probe`, `check` | `model`, `up`, `fresh`, `energy`, `image` for the emulator; `step`, `ask`, `seen` for the variables of `probe()` |
| `Startup` | `load_config`, `set_phases` and `run` up to the poller, over many runs | `env` for the environment; `energy`, `phases` for the store; `run` where `run()` is; `bank` the energies clients can read |
| `PlugPoll` | `fetch_async`, the wait in `accept`, the pause, in time | `stage` and `timer` for the task and the timeout it is under, `budget` for `asyncio.timeout`, `queue` for the lock, `latest` and `shown` for the meter |
| `MC*` | sample sets and symmetry for TLC | |
| `*_proofs` | theorems (section 4); `Aggregation_proofs` has those about images and sums | |

Composition: `MeterRuntime` extends `EnergyCounter` and instantiates `DurableStore`
for its writer; `StateFile` implements `DurableStore` (`ImplementsStore`), and
`MeterRuntime` implements `EnergyPromise` (`ImplementsPromise`). `ModbusServer`
takes from the poller only that it ends or fails, which is `ShutdownCompletes` of
`MeterRuntime`. `MeterReader` and `Startup` extend `Aggregation`, which extends
`SunSpec`; `Startup` instantiates `DurableStore` for its saves, as `MeterRuntime` does.
`MeterReader` publishes without saying when, `PlugPoll` accepts readings without
saying what they do to the energy: both are views of the steps of `MeterRuntime`, one for
what an image contains and one for the time that passes.

Some decisions that are not visible in a definition:

- An action of `MeterRuntime` is what a task does between two awaits. `Reply` and
  `AcceptQueued` are the two ways into `accept`: a free `asyncio.Lock` is taken
  without suspending, otherwise the task queues, and its reading ages meanwhile.
- Waiting for HTTP, sleeping and a failing poll change nothing shared: all are
  `pc = "poll"` in `MeterRuntime`; `PlugPoll` tells them apart.
- `expire()` publishes once as soon as it starts; `Init` and `Restart` therefore
  set `changed`.
- A cancelled `persist` keeps the lock and waits for the thread
  (`Cancelled`: `persist` becomes `join`), as `asyncio.shield` and the second
  `await` in the code do.
- A failed save releases the lock before the main task runs. The next waiter may
  start another save in between; the model allows it.
- The bank holds the energies and the fresh readings for each source. The
  registers are a function of these; `Fits` says when building them raises: by the
  energy, by a sum (current, power, apparent power), by a phase or line voltage or by the
  frequency. With at most two sources twice a mean is an integer.
- Energies are integers and `WattHour` of them are one watt hour. Rounding of
  float64 arithmetic is not modelled.
- Inside `MeterRuntime` a start is one step after the startup save. `StateFile`
  and `Startup` contain that save. `Start` of `Startup` may save even if the phases
  have not changed, as after a recovery from the backup.
- A register of `SunSpec` is a pair of a kind and a value: a word, a half of a float, or
  a word of a text. Both halves of a float carry the number it stands for; halves of two
  numbers are garbled, which is what a torn read would give. Its 32 bits are not modelled,
  but its precision is: `Float32` rounds to 24 binary digits, ties to even, as
  `struct.pack(">f")` does, and then to the unit a client reads it in. Below 2^14 that gives the
  number itself; from there to 2^23 `FloatParts` says into how many parts a unit is divided,
  and from 2^23 on `FloatStep` how far apart float32s are: 2 Wh from 2^24 Wh on. A scale
  factor is applied by its exponent.
- Numbers are integers in the finest unit the meter shows (`SunSpec` names the units).
  `round()` is modelled with its ties to even; a mean is a quotient, and line voltages
  are taken to a tenth of a volt.
- In `MeterReader` each request of the probe is one step: the bank is replaced as a whole,
  and `_handle_pdu` does not await. `excuse` remembers whether the probe has a reason to
  fail: another unit or model was asked for, the connection broke, or the emulator was stopped
  or started meanwhile.
- An action of `PlugPoll` that is enabled by a timer comes before the next `Tick`: the event
  loop is prompt. How long a save takes is open, so a reading may wait for any time.
- `++` in `SunSpec` is TLC's `@@`, written in a form that the prover can expand. Sums over
  sources are `SumFunction` of the community modules; the order of Python's `sum` is not
  modelled, since sums of integers do not depend on it.
- `Init` of `MeterRuntime` demands that an image without readings and energy fits the
  registers: `run` builds it before it serves, and all values are 0 or absent then.
- `SourcePhase` and `Names` are finite sets, as the sources of a configuration and of a
  state file are; readings and energies of a source are natural numbers.
- `UpdateAllowed`'s bounds stand for the float32 checks; `FloatMax`, `EnergyMax`,
  `FlowMax`, `VoltMax` and `FrequencyMax` are small so that TLC reaches them.
- A handler of `ModbusServer` that ends may leave its writer in `_clients`: an `OSError` other
  than a `ConnectionError` from `wait_closed()` skips the `discard`.

Definitions introduced by "Mutant of X" are plausible faults of the definition
they name. Nothing uses them: substituted for X, each makes the property that
`PROJECT.json` lists fail, which shows that the property depends on X.

## 3. Runs

`tlc -config <cfg> <module>`; all bounds are in the `.cfg` files.

| Run | cfg | Question |
|---|---|---|
| `runtime_one` | RuntimeOne | With power losses and failing writes, does one plug's energy stay durable before it is shown, and do bank, memory and disk agree? |
| `runtime_two` | RuntimeTwo | Can one plug's save take back what the other saved, or expiry uncover an image that does not fit? |
| `runtime_live` | RuntimeLive | With writes that fail before or after the rename or hang: does expired power leave the bank, does every stop and every failed write end the poller, does every waiter get the lock or is cancelled, and is the runtime an `EnergyPromise`? |
| `state_crash` | StateFileCrash | Does `load` always find the confirmed generation, and do the files implement `DurableStore`? |
| `state_damage` | StateFileDamage | What does one damaged file cost? |
| `source` | MeteredSource | Over resets, jitter, missing counters, restarts and changed settings, is energy lost or counted twice, and does the chosen counter stay? |
| `server` | ModbusServer | Does shutdown end with connections in every state, and is the interval log the bounded memory it should be? |
| `reader` | Reader | Is every image, of both models and up to the limits of the registers, a walkable chain that decodes to what was measured? Can a probe of several requests mix two images, fail without a reason, or see energy fall? |
| `startup` | Startup | From a file without phases, over all settings of two plugs, failing saves, power losses or kills: is all energy shown, saved before it is served, accepted again, and does a disabled plug keep its phase? |
| `plug_poll` | PlugPoll | However plugs answer and whatever the disk does, is shown power recent, does a steady plug stay shown, do polls go on? |
| `kill_then_power` | RuntimeKillPower | (finding 1) |
| `read_error` | StateFileReadError | (finding 2) |

Why the bounds suffice:

- *One or two plugs*: the configuration allows no more. One plug with seven
  samples reaches every branch of `update` (first, advance, step back within the
  tolerance, reset, change of field, raw value or total out of range); two plugs
  contend for the lock and have voltages and frequencies whose mean fits though one alone
  does not, and powers and currents that fit alone only.
- *Stale*: one tick is enough for a reading to be fresh and to expire, also while it waits
  for the lock or is being saved.
- *FloatMax and the raw values*: they are bounds of the state space, and the real
  range checks at the same time; a reading beyond them is rejected as in the code.
- *MaxGen = 3*: three generations tell "the confirmed one", "the one before" and
  "the one being written" apart, and a process that died can save more.
- *Jitter 1, MaxCount 5*: a counter can lack as much as the tolerance covers, be
  reset, and overtake the value it had before. *MaxCount* bounds `Count` only.
- *Two connections, three keys, Limit 2*: one connection is closed while another
  arrives, and a key is evicted, renewed and forgotten.
- *Reader*: two plugs on two phases and a removed one; readings at the limits of power and
  current, below the resolution, without voltage or frequency; energies of up to 134217720.6 Wh in all, which float32s
  round to a quarter of a Wh, 1, 2, 4 and 8 Wh. The limits are `Acc32Max` = 67108863 and
  `Float32Max` = 134217720, the largest float32 below 2^27, because TLC has 32-bit integers; the total
  reaches the one, passes it, and passes the other. `Acc32Fits` proves the real bound of 203, and the theorems hold for every limit and
  every set of steps that `Float32Assumption` allows. Before the first probe every
  combination of these is published; from then on the bound `MCProbesOfFew` leaves one reading
  (shown or not) and two energies, with which publishes, expiries, stops and starts as
  another model interleave freely with the requests. More readings would add images but
  no order of events.
- *Startup*: every pair of six settings per plug (two phases, off with and without a valid
  phase, misconfigured) with both models, and two settings that are refused at once; three
  energies with `Acc32Max = 3` (and no more than one binade of float32s, all far away) make a total that model 213 shows and model 203 refuses. A history
  meets power losses and writes that fail before the rename, or kills and all failing writes
  (`FaultSets`). `MCOneUnsynced` allows one renamed but unsynced document at a time.
- *PlugPoll*: `Total = 3` lets an answer trickle or take a second round
  (`Rounds = 1` for the 30 redirects of the code) and still be complete; `Stale = 3` with
  `Interval = 1` and `Quick = 1` is the smallest expiry that a steady plug survives.

No history of `Startup` combines kills with power losses: finding 1
below would break `ServedIsSaved`. `EnergySeenNeverFalls` allows nothing while the meter model stays.
When it has become another one it allows half a watt hour, since model 203 rounds to whole Wh,
and the error of a float32, since model 213 rounds to 24 binary digits: in the run
19791872.9 Wh are seen as 19791873 Wh of model 203 and, after a restart, as 19791872 Wh of
model 213. With half a watt hour alone the run finds the property violated. `SteadyIsShown` speaks of configurations with `Quick + Interval < Stale`;
`load_config` demands only `STALE_AFTER_SECONDS >= POLL_INTERVAL_SECONDS`, with which a
plug that answers may still vanish between two polls.

`RuntimeTwo` excludes the fault "late" (an `OSError` after the rename): there a
save that failed has changed the file, a task that waits for the lock saves, from
memory, a document without that update, and the file's energy falls from a value
that nobody was shown. `RuntimeLive` includes the fault: the promise to the
reader holds nevertheless. It leaves process deaths out to keep the behaviour graph
small; `PromiseKept` proves the refinement with them.

Deadlock is checked everywhere but in `ModbusServer`, whose process ends.

### Fairness

- `FairSpec` of `MeterRuntime`: the event loop runs the expiry task, the other ready
  tasks and the main task. The writer thread is not fair, and plugs, metadata, stop
  requests and restarts are not either. `StaleIsCleared` holds under this alone: the
  docstring of `_MeterRuntime` promises expiry independent of HTTP and fsync.
  `ShutdownCompletes` and `WaiterServed` also assume `WritesEnd`: `persist` joins the
  thread without a timeout, so a write that hangs for ever holds up the lock and the stop.
- `FairSpec` of `ModbusServer`: ready handlers and the main task run, the poller
  ends after a stop, and a peer reads what was sent to it (or its connection
  breaks): `close()` has no timeout of its own, so a peer that does neither would hold
  it up; the model states this as an assumption. That a client sends anything, or
  closes, is not assumed.
- `Fairness` of `PlugPoll`: time passes, the event loop runs what is ready (polls that are
  due, timeouts, the expiry, the holder of the lock), and every write ends. That a
  plug answers, connects or trickles is not assumed: `PollsGoOn` rests on the timeouts.

### Findings

1. `kill_then_power`: `save()` renames the new document before it syncs the
   directory. A process killed in between leaves a document that the next start
   loads and shows without any fsync; a power loss can then take it back. The
   repository's README says that new energy is secured with `fsync` before it appears in Modbus.
   Two faults in a row are needed; the theorems below assume `NoTornRename` for this reason.
2. `read_error`: `load()` treats an `OSError` on reading like damage, falls back to
   the backup, one generation older, and the startup save replaces the intact file with it.
   The README promises that with an intact state no lower energy is shown.

## 4. Proofs

`tlapm` proves, for every value of the constants, every safety property that a passing run
checks, the two refinements included:

| Module | Theorem | Statement |
|---|---|---|
| `MeterRuntime_proofs` | `UpdateNeverLowers` | no update lowers the virtual value |
| | `TypeCorrect`, `WriterIsOwned` | `Spec => []TypeOK`, `Spec => []WriterHasOwner` |
| | `MemoryMatchesDisk`, `ShownIsCurrent`, `ExpiryNeverFails` | `Spec => []MemoryIsStored`, `[]BankIsCurrent`, `[]AlwaysPublishable` |
| | `EnergyNeverFalls`, `PromiseKept` | `NoTornRename`: `Spec => PublishedNeverFalls`, `Spec => Promise!PromiseSpec` |
| | `EnergyIsDurable` | power may be lost, no kill, no late failure: `Spec => []PublishedIsDurable` |
| | `CleanExitIsSaved` | no kill, no late failure: `Spec => []CleanExitKeepsAll` |
| | `StoredEnergyNeverFalls` | no power loss, no late failure: `Spec => StoredNeverFalls` |
| `StateFile_proofs` | `TypeCorrect` | `Spec => []TypeOK` |
| | `StateStaysLoadable`, `DamageCostsOne` | reading does not fail: `Spec => []AlwaysLoadable`, `[]LosesAtMostOne` |
| | `ConfirmedIsLoaded`, `StoreImplemented` | `Sound`: `Spec => []LoadsConfirmed`, `Spec => ImplementsStore` |
| `MeteredSource_proofs` | `AdvanceNeverOvercounts` | a counter that goes on adds at most what it has advanced |
| | `NothingCountedTwice`, `EnergyCatchesUp` | `Spec => []NoOverCount`, `Spec => []NothingLost` |
| | `ChoiceIsPinned`, `DirectionsMatch` | `Spec => FieldIsPinned`, `Spec => []PowerMatchesEnergy` |
| `PlugPoll_proofs` | `PollTypes`, `ShownStaysRecent`, `SteadyStaysShown` | `Spec => []TypeOK`, `[]ShownIsRecent`, `Spec => SteadyIsShown` |
| `ModbusServer_proofs` | `ServerTypes`, `CloseForgetsNone`, `LogKeepsLatest` | `Spec => []TypeOK`, `[]NoneForgotten`, `[]RecentIsLatest` |
| `Startup_proofs` | `StartupTypes`, `EverySourceHasPhase` | `Spec => []TypeOK`; a running service has a phase for every source with energy |
| | `DisabledPhaseStays`, `NothingLeftOut` | `Spec => DisabledKeepsPhase`, `Spec => []ShownIsEverything` |
| | `ServedStaysSaved`, `RestartsWithSameConfig`, `TotalStaysUp` | `PowerAlone`: `Spec => []ServedIsSaved`, `[]SameConfigStarts`, `Spec => TotalNeverFalls` |
| `Aggregation_proofs` | `ImageIsChain` | every image, whatever the snapshot, is a chain without a hole |
| | `ImageIsWords` | every register of an image that can be built is a 16-bit word |
| | `Acc32ReadsBack`, `Acc32Fits` | an accumulator is the number its words spell, up to the real limit of 32 bits |
| `MeterReader_proofs` | `Int16ReadsBack` | an int16 reads back and never as the sentinel |
| | `MeterTypes`, `ImagesAreWalkable`, `MeterAlwaysReadsBack` | `Spec => []TypeOK`, `[]ChainIsWalkable`, `[]MeterReadsBack` |
| | `ProbesAreCoherent`, `ClientsAlwaysSucceed` | `Spec => []ProbeIsCoherent`, `[]ClientsSucceed` |
| | `SeenEnergyStaysUp` | `Spec => EnergySeenNeverFalls` |

### Assumptions

Each module's assumption on its constants is evaluated by TLC on the instances above:
`CounterAssumption`, `RuntimeAssumption` and `SourceAssumption` (one or two sources,
distinct sentinels, a jitter no larger than a watt hour), `SunSpecAssumption` (the largest
energy has a high word of 16 bits), `Float32Assumption` (the distances of float32s are powers of
two up to the one that `Float32Max` needs, and an accumulator holds less than a float),
`AggregationAssumption`, `ReaderAssumption` (finitely many
sources with phases that exist, readings and energies in the natural numbers as
`_normalise_power` and `update` deliver them, unit ids in range), `StartupAssumption` (a
finite state file with valid phases, as `_load_file` guarantees), `ServerAssumption` and
`PollAssumption` (positive timeouts, as `load_config` guarantees).

Some theorems restrict the faults, because without the restriction they are false:

- `NoTornRename` (with power losses no kill and no late failure) and `PowerAlone` (the same of each
  set of faults that `Startup` allows): finding 1. A rename that a restart has seen must not be
  taken back by a power loss.
- Kills are excluded from `CleanExitIsSaved` for the same reason: after a kill between rename
  and fsync, a process that starts, finds nothing to save and ends has not synced the
  directory.
- `StoredEnergyNeverFalls` excludes power losses, which take back what was not yet confirmed,
  and late failures (see `RuntimeTwo` above). `EnergyNeverFalls` is the statement about what
  was shown, and needs neither restriction alone.
- `Sound` (no damaged file, no failing read) and the exclusion of failing reads: finding 2, and
  damage costs the generation that `DamageCostsOne` bounds.

### Arguments

*Runtime: control.* `WriterHasOwner` is not inductive: it says nothing of
a task that holds the lock and is not in `persist`, or of one that sits in the queue
twice. `ControlInv` does: a task is in `persist` or `join` exactly when it holds the
lock (`LockInv`); the writer is busy only while a task is, or during the final
save; a queued task waits once and has its reading (`QueueInv`); and after the main
task has cancelled the others none of them starts anything (`MainInv`).

*Runtime: energy.* On it rests `EnergyInv`: every document that a restart may find has at
least the energy in memory, the document being written has at least that too, and the bank
never shows more than memory. Each part is needed: without the second, `Rename` could lower
what survives; without the third, `Publish` could raise what is shown above it. A
write that fails late leaves a document that memory lacks, so the invariant says
"at least" and not "equal". `EnergyIsDurable` is the same invariant read where
power losses are possible. The refinement of `EnergyPromise` follows step by step:
an action of the runtime changes what is shown or what survives, never both.

*Runtime: memory, disk and exit.* `MemoryInv` is `MemoryIsStored` extended to the save itself:
until the rename the file is what memory was, after it the document of the writer, which the
owner then adopts. `ExitInv` remembers that a cancellation without a failure was graceful, so
the final save has run, and `SyncInv` that only a rename under way leaves the directory unsynced.

*Runtime: bank.* `BankInv` adds to `BankIsCurrent` that the timer of the expiry task ends no
later than the first shown reading becomes stale (`TimerCovers`), and `ServingInv` that a
metadata save writes what memory has, so that adopting it changes nothing that is shown.
For `AlwaysPublishable`, `accept` checks the image with the new reading and the image of it alone.
That these cover every subset that expiry may leave is true for two sources and would
be false for three (a mean voltage can fit although what remains does not);
`NoThirdSource` is where the proof uses it.

*State file.* `TempInv` and `MemInv` say how far a save has come: the temporary file has the new
document and is synced before its rename, the backup is written only from a
state file that was loaded, and memory is what was loaded until the rename. `DiskInv` then
bounds what any crash can leave: every readable content is at most one generation behind
the confirmed one, and one of the two names is readable whatever happens to the other. `StoreInv`
sharpens this without damage: the state file itself never goes back. The refinement maps
`visible` to what `load` would find now, and `outcomes` to what it would find after any of
the disk's possible contents.

*Source.* `Credited` bounds the counter in memory and the one on
disk alike: its value, its offset plus what the plug reads now, and, when the plug
reads less than before, its value plus what the plug reads (the case of a reset
that has not been met yet) are at most `credit`. So a later reading, a reset within
or beyond the tolerance and a restart from disk stay below it. `Covered` is the
converse while the plug is not reset: offset plus the plug's reading covers all that
is owed. Both copies always have the same field, because a change of field is
urgent and saved at once; the mutant `UrgentReset` takes that away and breaks
`NothingLost`. `PinInv` says that once the latch is set the counter is of its field.

*Polls.* At any moment the age of a pending reading is at most what
the budget has spent (`TotalTimeout - budget`); when the answer is complete, `left` is
`Stale`, and age plus `left` stays below `TotalTimeout + Stale` wherever the reading waits.
A reading that is shown is either fresh or about to be expired before the next tick.
`SteadyInv` is the budget of a plug without an excuse: what is left of its last reading is at least
`Stale` less the part of the pause that has passed, and less the pause and the time
its poll has taken while it fetches. Both together stay below `Stale`, so nothing that
is published is without it; a reading that did wait for the lock is an excuse already.

*Server.* `ServerInv` adds to `NoneForgotten` that a connection is open with a running
handler only if it is among `clients`, which `close()` closes, and that nothing
is accepted once `closing` is set. `LogInv` says that the log is the end of the list of all
signatures ever answered, each once and in the order of its last request: renewing an
entry moves it in both lists, and evicting the first entry of the log makes it the end again.

*Start.* `Assignable` is the guard of `set_phases`; after it every
source that is in the document or active has a phase (`AllPlaced`), no later step
removes one, and only an active plug's phase can change. Documents are written from
memory only, so what a crash may leave has the phase of before or the one in memory,
which for a disabled plug are the same. For the energies, `SavedInv` follows every document that a
restart may find: it is accepted with the present settings (`Startable`), has for each source at
least the energy and exactly the phase of the run (`Known`), and its total is not
below any that was ever shown (`Remembered`). `CoveredPhases` and `CoveredEnergy` turn "for
each source" into "on each phase" and "in total".

*Sums.* `SumFunction` is a recursion over the subsets of a set. What holds of every finite set is
proved for a smallest subset that breaks it (`SmallestSet`, from the theorem that a set of finite
sets has a minimal one), which needs no induction over an operator: that a sum is well defined
(`PartialExists`, `PartialsAgree`), that any term may be taken out first (`SumRemoves`), that it
grows with its terms (`SumGrows`) and with its set (`SumPart`), and splits over disjoint sets
(`SumSplits`), hence over the phases (`PhasesAdd`, `ReadingsAdd`).

*Images.* `ImageIsChain` holds for any values of a snapshot: the proof looks at each block of the layout
and needs nothing of what was measured. `Body203Blocks` and `Body213Blocks` say which block ends up at
which register, and `ImageIsWords` follows from the range checks that `Buildable` stands for.

*Reading back.* `MInv` adds to the invariant of the probe that the image of a running emulator is
the one of its readings and energies, and could be built. From there each
value is followed through the layout: to its block, to its word, through its scale factor
to a number (`TenthReads`, `Acc32Reads`, `FloatReads`), which is the nearest multiple of
ten (`Tens`) or the float32 of the value, and, by the sums, to the sources of its phase. For each of the
three parts of `Float32` (the number itself, parts of a unit, steps of several units)
`Float32Close` bounds the error by one part in 2^24: half a step of a number that is at least
2^23 steps large. `FloatError` is that bound, rounded to the unit (`FloatNear`).

*Probe.* `ProbeIsCoherent` says nothing of a probe that is not
finished. `BodyInv` does: at the beginning of the body the probe has read the header of
some model, and after the first of two requests it has all of model 213 but the last
register from a single image. Model 203 needs one request, so its values are of one
image at once. The second request of model 213 adds registers 40197 only, which
holds no value: the values are those of the image that answered the first request,
and `ChainMatches` rejects the rest, an image that has become model 203. `AskBody`
cannot complete in another way, because the first answer contains registers that exist
in the image of its own model only. For `ClientsSucceed`, `ReadyInv` says that an
undisturbed probe reads the model that is running, and `ImageIsChain` that every request
it makes is inside the image.

*Energy seen.* What was returned last is at most what an image of that model would show now (`LastInv`),
and a value of model 213 that a probe has in hand between its two requests lies between
the two, but for what the two models round by (`SeenInv`). The total grows in every step
(`TotalGrows`) and fits the float32s while the emulator runs (`RunningFits`). Both roundings keep
the order: `TensGrow`, and `Float32Grows`, which has to compare across binades, where the
step doubles. `ShownBelow` adds up what a change of the model may cost, and `Progress` says where the
value of a probe that returns comes from.

The inductive invariants were checked by TLC on the instances of section 3 before they were proved.
Model 213 does not give the energy exactly from some MWh on, and from 2^24 Wh on it is coarser than
model 203: `MeterReadsBack` and `EnergySeenNeverFalls` therefore have `FloatError` in them, and no limit
on the energy. Stating `MeterReadsBack` for the proof showed that an earlier form of it was too weak: it tied
the absence of the power factor to the register of the apparent power, which model 203 rounds to
0 when there is a little; the property, and the samples of the run, now speak of the exact sum.

### Model-checked only

Liveness (`StaleIsCleared`, `ShutdownCompletes`, `WaiterServed`, `ServiceEnds`, `PollsGoOn`), which
the prover does not handle, and the two findings, which are counterexamples. The fairness
conditions of `Spec` in `PlugPoll` are not used by its theorems.

## 5. Plan

Done, in this order: counter, abstract store, runtime, its abstract promise,
state file, plug and client, server; image, aggregation and reader, start and phases,
polls in time; the theorems above, which now cover every safety property of the runs.

Next modules: the tests' synchronous `fetch()`; `Fits` of `MeterRuntime`, which has all limits
of the registers but in abstract units, replaced by `Buildable` of `SunSpec`.

Next theorems: that `Start` and the saves of `Startup` are what `MeterRuntime` assumes in one
step at a restart; that `Fits` is implied by `Buildable` for the values a
plug can deliver; current, voltage and frequency in `MeterReadsBack`.

Not modelled: TLS, certificates and credentials of the Shelly client (they decide
whether a request is answered, which is open in `PlugPoll` anyway), the JSON format (a
document is a value, a damaged one is unreadable), validation of numbers in payloads
and settings (a reading or a setting is legal or it is not), the characters of texts,
the bits of floats (their rounding is modelled), logging, the framing of Modbus messages, and the entry points
`__init__.py` and `__main__.py`, which have no logic.
