# A TLA+ model of energymon

energymon is a C interface to energy monitors (`inc/energymon.h`): a struct of
function pointers `finit`, `fread`, `ffinish`, `finterval`, `fprecision`, ...
with some twenty implementations behind it, a few command-line utilities on top
of it, and a shared-memory pair that carries readings between processes. This
directory holds specifications of the parts in which order, failure and
concurrency matter, the TLC configurations that check them, and proofs for
TLAPS.

## 1. The system

| part | state | operations | what is hard |
|---|---|---|---|
| interface (`inc/`, `common/energymon-get.c.in`) | the struct; `em->state` | `finit`, `fread`, `ffinish`, getters | the life cycle, repeated and failing |
| `odroid` | sensor descriptors, `total_uj`, `poll_sensors`, a thread | init, poll, read, finish | thread against finish; failures half-way; partial readings |
| `odroid-ioctl`, `zcu102`, `ibmpowernv`, `jetson` | as `odroid` | as `odroid` | the same; `jetson` also searches two drivers for its rails |
| `wattsup` and its drivers (`dev`, `libftdi`, `libusb`) | a connection, `deciwatts`, `last_us`, `exec_us`, `total_uj`, a spin lock, a thread | init with a flush of old packets, poll, read with or without estimates, finish | two threads that add to one total; cancellation during I/O |
| `osp` | an HID handle, `wh_surplus` | status, on/off, start/stop and data requests; forced overflow | answers late or lost; a toggle as start and stop |
| `osp-polling`, `osp3` | as `osp`, with a thread | poll, read, finish | cancellation; timestamps of the device |
| `shmem` provider and client | a System V segment, the handler's flag | create, attach, fill, destroy; attach, read, detach | several processes, kills, SIGINT |
| `rapl`, `msr`, `raplcap-msr`, `ipg` | last value and overflows per counter | read and correct | counters that wrap between two calls, calls that fail half-way |
| `cray-pm` | files, a freshness counter | read until consistent | files updated while they are read |
| utilities (`power-poller`, `file-provider`, `cmd-profile`, `idle-power`, `overhead`, `info`) | a flag, an output | loop until interrupted, or once | a decremented flag that a handler clears; an exit at every call that fails |
| `dummy`, `common/ptime`, tests | - | - | - |

How the parts interact: a utility, the provider or an application calls one
implementation through the struct, from one thread. Polling implementations
start one thread in `finit` and join it in `ffinish`; the two share the
implementation's state struct, without locks except in `wattsup` with estimates.
Provider and client share only the segment and its key. The counter
implementations have no thread: all they know of the time between two calls is
the value they kept.

What makes each part correct:

* polling implementations: the thread never touches freed memory or a closed
  descriptor; `finit` undoes what it did when it fails; the total is the energy
  of exactly the intervals that were read; `ffinish` returns.
* `wattsup`: besides, no interval is used by both threads, and a cancelled
  thread holds neither the lock nor a transfer.
* `osp`: energy is not lost or doubled when the counter restarts; the device is
  recording while a session is open; calls return whatever the device does.
* `shmem`: one writer per segment; a segment is gone when its provider is; what
  a client reads grows.
* counters: overflows are counted exactly; a failing call spoils nothing and
  leaks no sample; what is accepted of several files belongs together.
* utilities: what was initialised is finished, once, on every way out.

`PROJECT.json` lists every component with what is done about it, and every
hazard at the line where it bites.

## 2. Modules

| module | models | composes |
|---|---|---|
| `EnergyMonitor` | what `inc/energymon.h` promises: the abstract specification | |
| `OdroidMonitor` | `odroid/energymon-odroid.c` | implements `EnergyMonitor` |
| `WattsUpDrivers` | connect and clean-up of the three `wattsup` drivers | |
| `WattsUpMonitor` | `wattsup/energymon-wattsup.c` | extends `WattsUpDrivers`, implements `EnergyMonitor` |
| `OdroidSmartPower` | `osp/energymon-osp.c`, without polling, and the device as the code sees it | |
| `SharedMemory` | `shmem/energymon-shmem-provider.c` and `energymon-shmem.c`, any number of each | |
| `PollingSession` | the loop and the finish that the polling implementations share, after `zcu102` | |
| `Zcu102Monitor`, `OdroidIoctlMonitor`, `IbmPowerNvMonitor`, `OspPollingMonitor`, `JetsonMonitor`, `Osp3Monitor` | the implementation each is named for: its own init, clean-up and loop | extend `PollingSession` |
| `PollingMonitors` | one energymon of any of the six (seven: `ibmpowernv` is built in two ways) | extends the six |
| `WrappingCounter` | the hardware counters (outside the repository) | |
| `RaplMonitor` | `rapl/energymon-rapl.c` | extends `WrappingCounter` |
| `CounterSession` | what the other counter implementations share | extends `WrappingCounter` |
| `MsrMonitor`, `RaplcapMsrMonitor`, `IpgMonitor`, `CrayPmMonitor` | the implementation each is named for | extend `CounterSession` |
| `CounterMonitors` | one energymon of any of the four | extends the four |
| `Utilities` | the six programs of `utils/` and the energymon they use | |
| `OdroidMonitorProofs`, `WattsUpMonitorProofs`, `OdroidSmartPowerProofs`, `SharedMemoryProofs`, `RaplMonitorProofs`, `PollingMonitorsProofs`, `CounterMonitorsProofs`, `UtilitiesProofs` | theorems | extend the module each is named for |

Variables have the names of the C fields and locals where there is one
(`fds`, `poll_sensors`, `total_uj`, `exec_us`, `last_us`, `wh_surplus`,
`n_overflow`, `ms_last`, `j_sum`, `shm_id`, ...). `pc` is where the application's
call is, `tpc` where the polling thread is. Variables commented as *history* are
not in the program: they record what happened, so that properties can speak of
it, and no action's guard depends on them except for the bounds named below. Each
module has the same layout: constants and assumptions, variables, `Init`, one
action per atomic step of each function in the order of the source, `Next`,
fairness, properties. Definitions commented "A version that ..." or "A finish
that forgets ..." are mistakes one could make in the definition below them; they
are used by no specification, only to confirm that a property would notice.

Some correspondences worth knowing:

* **`OdroidMonitor`.** `FindSensors` is everything in init up to the loop of
  opens; a failure before it changes nothing and is no step. A failed open goes
  through the same actions as finish, as the code calls
  `energymon_finish_odroid`. `Account` is one step: the application can only see
  `total_uj` of it. Cancellation is deferred: `CancelThread` asks and
  `ActOnCancel` takes effect in the sleep or in `pread`. The constant-time
  detail of the readings (`strtod`, units) is dropped: a reading is `Lo..Hi`,
  empty, or an error. Cancelling or joining a thread never made is undefined
  behaviour: the model has both outcomes of common C libraries, a crash and an
  ignored error. `hasCancel` is the `__ANDROID__` switch.
* **`PollingSession` and its extensions.** An implementation differs from the
  others in when it sets `em->state` (`published`), in what it undoes when an
  open or `pthread_create` fails (its own clean-up, or finish with `poll_sensors`
  set or clear), in what it closes, in whether the loop sleeps first, in whether
  a reading can be empty, and in where a request to cancel can act; those are the
  parameters of the shared actions. `osp-polling` disables cancellation from the
  top of its loop to the sleep; a request acted on during a transfer would leave
  the device unable to close (`abandoned`), which `Release` waits for. In
  `JetsonMonitor` the walk over the directories of both drivers is one step, by
  which of the names it is given are on the board; the search over the families
  of default names is computed as the code's loops do, misplaced `break`
  included (`RailsKept`). `Osp3Monitor` has the timestamps of the lines, which
  may go back when the device restarts: then the unsigned product wraps
  (`EntryTotal`, with `Word` for 2^64). Its finish leaves `em->state` pointing at
  freed memory (`published` stays), so a later init is refused
  (`Osp3InitRefused`).
* **`WattsUpMonitor`.** The two statements in the critical section are steps of
  their own (`ReadElapsed`/`ReadAdd`, `ThreadElapsed`/`ThreadAdd`), so the lock
  does the work it does in the code, and so are the unlocked writes of
  `deciwatts` and of the first `last_us`. `ioBusy` stands for a transfer left
  half-way in a driver, which blocks `Disconnect`: the comment at
  `wattsup/energymon-wattsup.c:87` is why the code disables cancellation.
* **`WattsUpDrivers`.** `held` is what connect has got so far; `kernel` says
  whether the kernel's own driver for the serial chip is bound. A failed connect
  and a disconnect both end in `Destroy`. For `libusb` the order matters: the
  interface is released before the kernel's driver is attached again, which is
  refused as long as it is claimed (`HeldAtReattach`).
* **`OdroidSmartPower`.** `request` is the report the device has not handled,
  `replies` the input reports hidapi queues. One write, one wait of 10 us and
  one non-blocking read is a request; whether the answer is there is up to
  `HandleRequest`. STARTSTOP and ONOFF toggle. Restarting the counter is two
  steps, of which either may fail.
* **`SharedMemory`.** `key` is the segment the key names; IPC_RMID frees it,
  memory stays until the last detach (`Exists`). `Kill` is any signal other than
  SIGINT that ends a provider: only SIGINT has a handler.
* **`RaplMonitor`.** Energies are kept per zone so that a property can say which
  zone went wrong. `unreliable` marks zones that were read too late (a whole
  round of the counter since the last read) or whose file came back empty, as
  those cannot be accounted for by any program; every property about energy is
  stated of the other zones whose maximum is known.
* **`CounterSession` and its extensions.** `last` and `n_overflow` are arrays
  of entries. `msr` has one per register and adds `UINT32_MAX` for an overflow
  (`MsrOverflow` is `Range - 1`); `raplcap-msr` computes the index of an entry
  from package and die (`Entry`), and several counters can share one. `ipg` keeps
  samples that the library hands out and that must be released (`samples` counts
  those outstanding): the new sample of a package replaces the old one, and after
  an error the old one is kept. In `cray-pm` all the files change at once
  (`Scan`) and are read one by one; a call starts over if the freshness has
  changed meanwhile. The files' joules are converted to microjoules where a file
  is read (`cray-pm/energymon-cray-pm-common.c:48`) and the sum once more
  (`cray-pm/energymon-cray-pm.c:177`): `CrayReadFile` and `CrayReturn` both
  multiply by `Mega`, as the code does, so that what is returned is a million times
  the microjoules that `inc/energymon.h:53` promises.
* **`Utilities`.** `em` is what has become of the energymon, and calling it out
  of turn makes it `misused`. `running--` is two steps (`LoadRunning`,
  `StoreRunning`), between which the handler may run. `NoFile` is the exit of
  `file-provider` when its output cannot be opened
  (`utils/energymon-file-provider.c:159`), which does not finish the energymon;
  `LifeCycle` names it as the one exception.

### Abstract specification

`EnergyMonitor` has a phase (closed, busy, open, dead), an energy that only
grows from init to finish, and the last reading. `OdroidMonitor` and
`WattsUpMonitor` instantiate it with `energy <- total_uj` and a `Phase` derived
from `pc` and `allocated`; `IsEnergyMonitor` is the refinement, checked by TLC
and proved for both. `PollingMonitorsProofs` proves the same of the six other
implementations that sum up energy in a thread, `CounterMonitorsProofs` of `msr`,
`raplcap-msr` and `ipg`, where `energy` is the sum of what has been read of the
counters, and `RaplMonitorProofs` of each zone of `rapl`. `ffinish` of the latter
waits for nobody and is the step `Close`.

## 3. Runs

| run | bounds | states | shows |
|---|---|---|---|
| `odroid` | 2 sensors, readings 1..3, intervals 1..2, 3 passes a session | 376,446 | `ThreadConfined`, `AllOrNothing`, `EnergyEnvelope`, `FinishReturns`, `IsEnergyMonitor` |
| `wattsup` | power 1..2, 1 retry of a flush and 2 reads of a packet, clock to 3, 3 drivers | 1,050,028 | `NothingAbandoned`, `TimeUsedOnce`, `MeterReleased`, `FinishReturns`, `IsEnergyMonitor` |
| `osp` | maximum 2, 1 data retry, 2 status reads, queue of 2, 4 units of energy | 140,813 | `NoOverCount`, `Recording`, `ReadingNeverDecreases`, `CallsReturn` |
| `shmem` | 2 providers, 1 client, 2 segments, energy to 2 | 43,949 | `SingleWriter`, `NothingLeaked`, `SessionMonotone`, `InterruptEnds` |
| `rapl` | 2 zones, counters of 2 values, 2 units between readings, 2 overflows | 581,536 | `AllOrNothing`, `NothingLost`, `NeverAhead`, `ReadingNeverDecreases` |
| `counters` | 2 counters of 2 values, 2 units between readings, 2 overflows, 3 units a package, 3 updates of the files | 208,112 | `NothingLeaked`, `Accounted`, `TotalKeepsUp`, `ReadsOneScan` |
| `polling` | at most 2 sensors, power 1..2, intervals 1..2, 2 passes a session, 3 boards, 4 timestamps | 77,491 | `ThreadConfined`, `AllOrNothing`, `EnergyEnvelope`, `FinishReturns` |
| `utilities` | counts to 2, 4 readings, a counter of 8 values | 2,369 | `LifeCycle`, `InterruptEnds` |

Each also checks its type invariant. Run one with, for example,
`tlc -config OdroidMonitor.cfg OdroidMonitor`.

Why the bounds are enough to meet the cases: two sensors, zones or counters give
"one fails after another succeeded", off-by-ones of the loops and, for
`raplcap-msr`, both two packages of one die (which share an entry) and one
package of two. Three passes (two are enough for a lost or repeated interval)
allow a good, an empty and a failed pass in one session; sessions are not
bounded, so state left over from an earlier session is seen. In `wattsup` a clock
to 3 gives the thread a start and each thread an interval of its own or a share
of one, and of two retries of a packet the first may complete it and the second is
the last one; the clock is not longer because the
four configurations of the drivers multiply the states. In `osp` a maximum of 2
with 4 units reaches two restarts, a queue of 2 both lateness and a dropped
answer. In `shmem` two segments give one destroyed or abandoned with its
successor. Counters of two values wrap at every other unit, and two units between
readings is one round too late. Three updates of Cray's files let one come
between two files, and another in the next try. In `polling` the boards are one
whose rails are all found, one of which the default rails are not (the search
stops too early) and one with a single rail of its own; the timestamps have a
first line, short and long steps and, in any order, steps back. In `utilities`
eight values leave the counter room to wrap and no count to reach the wrap by
counting alone.

Bounded by guards: `passes < MaxPasses` (`StartPass`), `now < MaxTime` (`Tick`),
`measured < MaxEnergy` (`Measure`) and `wh_surplus <= MaxSurplus` (`ReadCall`),
`made < MaxSegments` (`Create`), `gap < MaxGap` (`Count`), the overflows of a
zone (`Record`) or of an entry (`ReadWrapping`), `measured < MaxSum` for `ipg`
(`Consume`) and `freshness < MaxScans` (`Scan`). `Capped` keeps the histories of
`Utilities` at `MaxReads`. `CHECK_DEADLOCK FALSE` is set for `shmem` alone: every
process may have ended and no segment be left to create. `OdroidMonitor` and
`PollingMonitors` have an explicit step for a crashed process and `Utilities` one
for a tool that has ended, so that only real deadlocks are reported.

### Where the program does not do what the repository says

Four runs show it; `PROJECT.json` quotes each text:

| run | property | what happens |
|---|---|---|
| `jetson_default_rails` | `RailsOpen` | the `break` at `jetson/energymon-jetson.c:122`, meant to try the next family of default rails, leaves the inner loop only: on a board with `VDD_IN` alone init succeeds with no rail open |
| `raplcap_shared_entry` | `NeverAhead` | the entry of a package and die is `pkg * die + die`, so that die 0 of every package shares one: the smaller value of one package is taken for an overflow of another |
| `osp_finish_stops` | `FinishStopsDevice` | an init that fails before it started the device "stops" it, which starts it |
| `wattsup_early_read` | `ReadingWithinSession` | a read with estimates before the thread set `last_us` adds power over the whole uptime (clock to 4) |

Others can be seen in the same way with the configurations kept for them:

| configuration | property | what happens |
|---|---|---|
| `OdroidCreateFailure.cfg` of `OdroidMonitor` | `CancelOnlyCreatedThread` | `poll_sensors` is set before `pthread_create`; when that fails, init's clean-up cancels and joins a thread that was never made |
| `OspMonotone.cfg` of `OdroidSmartPower` | `ReadingIsMonotone` | an answer still queued when the counter is restarted is counted on top of the surplus it is already part of; the next reading is lower |
| `ShmemInterval.cfg` of `SharedMemory` | `IntervalIsSet` | a client that attaches before the provider stored its interval gets 0 |
| `ProviderOutput.cfg` of `Utilities` | `OutputKept` | `-n` is said to be implied for standard output (`utils/energymon-file-provider.c:54-55`), but the output is reopened for every sample unless `-n` is given |
| `PollerCount.cfg` of `Utilities` | `StopsAfterCount` | SIGINT between the two halves of `running--` is overwritten, and one between the loop's check and `running--` makes it wrap (`utils/energymon-power-poller.c:186-187`): `-c N` then reads on past N |

The passing runs state the complementary facts: `NoOverCount` and
`ReadingNeverDecreases` hold in `osp` as long as no restart met an answer under
way (`undisturbed`); `TimeUsedOnce` holds in `wattsup` once `last_us` is set and
was not used before (`early`); `TotalKeepsUp` and `Accounted` hold of the
counters that have an entry of their own (`Reliable`), and the first allows for
the unit that `msr` drops at each overflow; `ThreadConfined` and `AllOrNothing`
of `polling` hold but for the Jetson boards above (`RailsLost`), and its
`EnergyEnvelope` until the device of `osp3` restarts (`rolled`) and as long as its
energy fits the word of the total (`EnergyFits`; the proof needs this, as the total
wraps by the code's unsigned arithmetic; no run comes near it); `InterruptEnds` of
`utilities` holds of every SIGINT that `running--` does not overwrite (`raced`),
with a count or without. Section 4 lists theorems that name
the only causes of most of these disagreements.

### Fairness

* `OdroidMonitor`, `WattsUpMonitor`, `PollingMonitors`: weak fairness of the
  polling thread and of the rest of a finish that was called: the kernel runs
  both threads and no step of either waits for anything but the other (a join, a
  lock, a clock). There is no fairness on calls of the application, on the clock
  `Tick`, or on a choice within a step, so a thread that always fails to read
  still ends. In `WattsUpMonitor` each transfer ends: drivers use a timeout
  (`ENERGYMON_WATTSUP_TIMEOUT_MS`); a request of `osp-polling` and a line of
  `osp3` have timeouts too.
* `OdroidSmartPower`: weak fairness of the call in progress and of the device
  handling a request it was given; writes may still fail and answers be lost.
* `SharedMemory`: weak fairness of each provider's own steps; signals, kills and
  clients have none. `nanosleep` is a step that ends.
* `Utilities`: weak fairness of the tool, whose calls return; none of signals.
* `RaplMonitor` and `CounterMonitors` have no liveness: their calls are loops over
  the counters, but for `cray-pm`, whose loop could go on for ever only if the
  files changed during every try.

## 4. Proofs

`tlapm` checks the eight proof modules from nothing. They hold for every value of
the constants that the named assumptions of the modules allow: at least one
sensor or counter, counters of at least two values, `Lo <= Hi`, bounds and maxima
that are naturals; the sets of providers, clients, boards and timestamps are
arbitrary. Each module proves that an `IInv` is inductive (`Invariance`), from
which its other theorems follow; each `IInv` was also checked with TLC on the
bounds above.

* **`OdroidMonitorProofs`.** `ThreadConfined` and `AllOrNothing` are not
  inductive: that no descriptor is closed while the thread lives follows from
  *where finish is*. `LifeCycle` says, for each value of `pc`, what is allocated,
  which descriptors are open, whether a thread exists and whether polling is on;
  `PassSum` bounds the sum of a pass by the sensors read so far, which makes
  `EnergyEnvelope` inductive. The products of two variables are beyond the
  SMT solver, so `MulMonotone`, `OneMoreReading` and their like state the facts
  about multiplication once. `OdroidImplementsEnergyMonitor` maps every step to a
  step of `EnergyMonitor` or a stutter; the invariant is needed because a finish
  may only release what is busy, and because a total only grows if `IntervalEnergy`
  is a natural.
* **`PollingMonitorsProofs`.** The same properties for seven implementations
  at once. `CallShape` and `ThreadShape` are about the shared actions and are
  proved once, `HeldShape` is one conjunct per implementation (what it can hold at
  all, so that its clean-up gives all of it back), `OpenShape` says that all is
  open from the moment the thread is to be made. Each implementation's own actions
  are then shown to be instances of the shared ones (`NextIsShared`). For the energy,
  `EnergyInv` adds to the envelope the sum of the pass in progress (`PassSum`) and
  where its time is booked (`Accounting`); a step is then one of four kinds
  (`EnergySteps`) of which each keeps it. A line of `osp3` needs in addition that the
  sum fits the word, else the total wraps. `PollingImplementsEnergyMonitor` holds
  of behaviours in which every session `Accumulates`: the energy sensor of
  `ibmpowernv` is read and not summed, and a restarted `osp3` wraps.
  `RailsAreOpenOnOtherBoards` proves `RailsOpen` of every board but those that
  `jetson_default_rails` shows it fails on.
* **`WattsUpMonitorProofs`.** `LockShape` (who is in its critical section has the
  lock) makes the two additions exclude each other, so that at most one interval
  is taken and not yet added: `Pending`. `Accounts` bounds the total *and* the
  pending interval by the time since the start, from both sides; neither half is
  inductive without `Pending`. `CancelShape` says in which steps cancellation is
  disabled, which is why an ended thread has neither lock nor transfer.
  `DriverShape` lists the combinations of resources each driver goes through.
  `WattsUpImplementsEnergyMonitor` needs only that an addition is a natural.
* **`OdroidSmartPowerProofs`.** What has been read, what is queued, what the
  device shows and what it measured are in this order as long as the session is
  undisturbed (`Records`: `DataBetween`, `DataInOrder`); a restart passes through
  `Restarts` to `WillRecord`, where the device is stopped, its start is under way
  and no old answer is left. `InitShape` is why init's toggles do the right thing:
  the status it acts on is the present one, although answers to an earlier
  session's requests may still come before it.
* **`SharedMemoryProofs`.** `SingleWriter` needs to know that a running provider
  owns the segment the key names, so that a second one cannot have created one
  (`Owners`, `OneRuns`); `SessionMonotone` needs what a segment contains
  (`Contents`: the writer's total, or a failure recorded in `failed`) and what a
  client has seen of it (`ClientViews`). `TheEndFreesTheKey`: a provider that ends
  leaves no key behind that the next one or a client could take for a live
  segment, unless it was killed.
* **`RaplMonitorProofs`.** `ZoneInv` ties a zone's last value, its overflows, what
  was used since and what its counter shows; with it, a value smaller than the
  last one means exactly one overflow if less than a round was used.
  `NothingLost` is one of its conjuncts, `NeverAhead` and `ReadingNeverDecreases`
  follow from what `val` and `reading` can be during a call.
  `ZonesImplementEnergyMonitor` maps each zone's last value and overflows (`Account`)
  to the energy of an `EnergyMonitor`: a step of `fread` accumulates, its return is
  an `FRead`. It holds of behaviours in which the zone stays `Sound`: read once per
  round, with a known maximum and no empty read.
* **`CounterMonitorsProofs`.** `CounterInv` does the same for the entries of `msr`
  and `raplcap-msr`, of counters that use their entry alone, and says what a call
  in progress and the last one made of them (`Told`, with a unit less per overflow
  for `msr`). `PackageInv` ties the sums of `ipg` to the sample that is kept: each
  sum ends where the kept sample was taken. `Shape` says for each implementation
  what it holds at each point, samples included, from which `NothingLeaked`
  follows. `Total` adds up over the counters as the loops of the code do; it is a
  recursive function, and that the function exists (`SumToEquation`) and grows
  with its argument (`TotalIsMonotone`) is proved by induction over *sets* of
  naturals, from the library's well-founded order, as the theorems that take an
  operator are out of reach. `SumOfTheCountersGrows` and `ReadsAreOfOneScan` rest
  on it: `ScanInv` says that the files read so far are of the update the call
  began with as long as the freshness has not changed. `EntriesOfOnePackage` and
  `EntriesOfMorePackages` compute the index as `raplcap-msr` does: on machines with
  one package, and on no others, each counter has an entry of its own
  (`EntriesAreOwnOnOnePackage`), and so there it is never ahead
  (`OnePackageIsNeverAhead`). `CountersImplementEnergyMonitor` is the refinement of
  `EnergyMonitor` by the three that keep a total (`msr`, `raplcap-msr`, `ipg`), as
  long as each counter that has been read stays `Reliable` (`Dependable`): reading
  one counter adds to `Energy`, the sum of what is kept of each, and a good call
  returns that sum; a call that fails half-way keeps what it has read. `cray-pm`
  keeps no total between calls, and its files do not start at zero with a session.
* **`UtilitiesProofs`.** `Held`: where main is tells what has become of the
  energymon. `Countdown` ties `running` to the lines already written, so that
  `-c N` is exact without a signal, and `SignalShape` says what a SIGINT leaves to be
  written: the race that `PollerCount.cfg` shows is the only way to more than N
  lines (`OnlyARaceExceedsTheCount`) and the only way for a SIGINT to be missed
  (`InterruptIsShort`). `OutputIsByTheOptions` says what
  the code does in place of what its help text says.

**How long a call can take.** The liveness of the runs needs fairness, which the
prover cannot use, but the argument under it does not: `FinishIsShort` (of the
polling modules, of `odroid` and of `wattsup`), `CallsAreShort` of `osp`,
`InterruptIsShort` of the tools and `InterruptIsNotLost` of the provider define
a rank in the naturals, bounded by a number in the constants, and prove that every
step of the program (of the clock or the device where the rank says so, excepted)
lowers it while the call is in progress. What is left to fairness is only that
these steps are taken. On the bounds
of the runs TLC reaches the bounds of `FinishIsShort` and `CallsAreShort`, so they
are the least ones.

**What each disagreement comes from.** Theorems with a further hypothesis,
about the steps or the state, show that the causes in section 3 are the only ones:
`OnlyFailedCreationCrashes` (polling and `odroid`): nothing crashes unless a
`pthread_create` failed, or in `odroid` the list of sensors found no memory;
`OnlyAnEarlyReadExceedsTheSession` (`wattsup`): no reading is more than the session
can have used unless `last_us` was used before it was set;
`OnlyARaceExceedsTheCount` (tools): `-c N` writes at most N lines unless a SIGINT
came between the loop's test of `running` and the write of `running--`;
`FinishStopsWhatRecords` (`osp`): the finish of an open, undisturbed session with no
start or stop under way stops the device; `IntervalComesBeforeEnergy` (`shmem`): a
client that has read energy finds an interval. A hypothesis `[][A]_vars` there
is met by every behaviour without the failure it names.

Only model-checked: the liveness itself (`FinishReturns`, `CallsReturn`,
`InterruptEnds`), as fairness and ENABLED are beyond the prover. Every other
property of the passing runs is a theorem.

## 5. Not modelled

* Reading 64-bit totals in halves on 32-bit machines, and other reorderings by
  hardware: variables are read and written in one step.
* `finterval`, `fprecision`, `fexclusive`, `fsource`: constants or stored values
  (the interval of `shmem` excepted); hence the interface is only `partly`
  modelled.
* Calls with a NULL or uninitialised energymon, which return EINVAL at once, and
  two threads of an application using one energymon, which the interface does not
  provide for. (`osp3` after its finish is in the model up to the init that it
  refuses; a read or second finish of it uses freed memory and is not.)
* The content of messages and lines, names of files, units (`cray-pm` excepted),
  floating point, what the utilities print.
* `jetson`: the walk through the directories of sysfs and the parsing of the
  user's list; hence `partly`.
* `wattsup`: platforms without a monotonic clock (there every addition is 0);
  libftdi before 1.5, which cannot be told to reattach the kernel's driver. A
  failed read or write of the `libusb` driver returns how much was transferred
  (`wattsup/libusb/wattsup-driver-libusb.c:208`), where
  `wattsup/wattsup-driver.h:91` wants a negative value: `InitWrites` stands for
  writes that succeed and for failures that go unnoticed, and a read of nothing
  is one of the cases of `EndTransfer`.
* `dummy` returns 0; `common/energymon-time-util.c`, `common/energymon-util.c`
  and `common/ptime` wrap the clock, `nanosleep` and string functions: the models
  keep what their callers rely on, that elapsed time is never negative and that a
  sleep ends early only when polling is off.
* Descriptor 0: the implementations close descriptors above 0 only
  (`odroid/energymon-odroid.c:129`), so one opened as 0, by a process that has closed
  its standard input, would stay open. The models do not tell it apart.
* Failures of the clean-up itself: a `close`, a `shmdt` or `shmctl` of the provider
  (after a good attachment), or a `wattsup_disconnect`, whose drivers go on to free
  the rest and report the error in the return value of finish.
* `msr`: a `pread` that returns fewer than 8 bytes without an error is skipped in the
  sum (`msr/energymon-msr.c:173`); the kernel's driver returns 8 bytes or an error.
* A cancellation acted on inside `sensors_get_value` (`ibmpowernv` with a power
  sensor) may leak what libsensors has open at that point.
* The tests call each function once; they were read for what they expect.

## 6. What is left

* The sum over the zones of `rapl` as one `EnergyMonitor`, as
  `CountersImplementEnergyMonitor` is for the others; the same from the first reading
  on for `cray-pm`, whose files do not start at zero.
* `EnergyMonitor` for `ibmpowernv`'s energy sensor, without the case of a sensor
  that rolls over.
* The build of `wattsup` on libftdi before 1.5.
