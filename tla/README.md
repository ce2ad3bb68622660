# Formal models of sdbus-cpp-examples

TLA+ models of the programs under `src/src`, TLC configurations that check them
on small instances, and proofs checked by TLAPS for instances of any size.
Paths below are relative to the directory that holds `src/` and `tla/`.

    cd tla
    tlc -workers 2 -config EventLoop_safety.cfg MCEventLoop   # a TLC run
    tlapm EventLoopProofs.tla                                 # the proofs

`PROJECT.json` lists components, runs, findings, hazards and theorems, and maps
every definition to the lines of code it stands for.

## 1. Inventory

The repository is a set of D-Bus clients written with sdbus-c++, most of them
one program per system service, and a small library they share
(`src/src/utils`). The generated proxies (`src/src/proxy`) only marshal.

| Component | State | Operations | What is hard |
|---|---|---|---|
| Event loop (`utils/event_loop.*`) | `sources_`, `to_add_`, `to_remove_`, `to_retire_`, `running_`, `exit_code_`, an eventfd | `add`, `remove`, `retire`, `stop`, `run` | `stop()` from other threads and signal handlers; callbacks that retire sources the running pass still refers to; addresses reused; messages inside sd-bus that `poll()` cannot see |
| Event sources (`event_loop.h`, `signal_source.h`) | an fd each | `fd`, `dispatch` | hang-ups are level-triggered |
| Game controller clients (`bluez/ps5_dual_sense`, `xbox_controller`, `horipad_steam`) | `devices_`, `upower_clients_`, `hidraw_devices_`, `input_reader_` | constructor, `onInterfacesAdded`, `onInterfacesRemoved`, udev callback | two services announced independently; kernel names are reused; a cache of the udev database |
| hidraw map, udev monitor (`bluez/hidraw.hpp`, `udev_monitor.hpp`) | a netlink socket | scan, `dispatch` | events queued while the constructor runs |
| Input readers (`*/input_reader.cc`) | an fd, calibration data | `open_and_init`, `dispatch` | open by a stale name; hang-up; division and overflow in calibration arithmetic; layouts of reports |
| BlueZ client (`bluez/bluez_client.*`) | nine maps of proxies and three single managers | added, removed | keep-first, replace and single policies; limits; a constructor that throws |
| UDisks2 client (`udisks2/udisks2_manager.*`) | one map per interface | added, removed | snapshot against queued signals |
| Removable device monitor (`udisks2/udisks2_monitor_daemon.cc`) | `watchers_`, `reported_` of each | added, removed, properties changed | readiness is a conjunction of conditions that change at different times |
| ConnMan client (`connman/*`) | technologies, services, a mutex | added, removed, changed | a mutex held across calls; two threads; reconnection with back-off |
| Signal handler (`utils/signal_handler.h`) | `g_running`, a monitor thread | handler, `monitorLoop` | signals at any moment |
| UPower, login1, systemd1 clients | maps of proxies | added, removed, asynchronous enumeration | signals that arrive before the enumeration's reply |
| One-shot clients (hostname1, locale1, timedate1, fwupd, packagekit, flatpak, avahi) | cached properties, promises | ask, wait, print, end | the event thread of sdbus-c++ beside main; which object dies first; where an exception is caught |
| Resource limits (`utils/resource_limits.h`) | - | `IsAtCapacity` | boundary |
| Printing clients (network1, geoclue2, resolve1, ...), logging, `UniqueFd`, proxies | none that a later step depends on | - | - |

How they interact. A program creates a D-Bus connection, its client (which
registers signal handlers, asks the service for its objects and handles the
reply), and an `EventLoop`; `run()` then drives the connection and the sources
on one thread. Signal handlers and `dispatch()` callbacks are called by the
loop and call back into it. Older clients (ConnMan and the one-shot programs)
let sdbus-c++ run its own thread instead and share state with it.

What makes each part correct:

- **Event loop**: nothing destroyed is touched; a retired source is destroyed
  in the end; a removed or hung-up source is not polled again; a stop is not
  slept through; the exit code is one given, or that of an error; messages and
  ready sources are served.
- **Controller clients**: the reader reads the controller it was made for or is
  about to be dropped; devices and UPower clients are those BlueZ has; limits
  hold.
- **Object mirrors** (BlueZ, UDisks2, UPower, login1, systemd1): once
  everything is handled the maps are what the service has, up to the limits and
  the objects skipped on purpose, and properties are current.
- **Removable monitor**: a device is reported when it becomes ready, and no
  watcher outlives its device.
- **Two-threaded programs**: a handler does not outlive its client, a reply
  finds its promise, the threads do not wait for each other, the program ends.
- **Input readers**: what is printed is what the controller sent; the
  calibration arithmetic neither divides by zero nor loses the result.

## 2. Modules

| Module | What it is |
|---|---|
| `EventLoop` | the event loop, its contract with programs, its environment |
| `DeferredReclamation` | what `retire()` promises, without the loop; proved memory safe |
| `MCEventLoop` | symmetry for TLC |
| `EventLoopProofs` | proofs about `EventLoop`, including that it implements `DeferredReclamation` |
| `GameController` | the controller clients with hidraw map, udev monitor and readers, composed with BlueZ and the kernel |
| `MCGameController` | symmetry for TLC |
| `GameControllerProofs` | proofs about `GameController` |
| `RemovableMonitor` | the UDisks2 monitor daemon, its watchers and its calls, composed with UDisks2 |
| `MCRemovableMonitor` | the module its run names |
| `RemovableMonitorProofs` | proofs about `RemovableMonitor` |
| `ObjectMirror` | the five clients that mirror a service's objects, composed with the service |
| `MCObjectMirror` | the module its run names |
| `ObjectMirrorProofs` | proofs about `ObjectMirror`: types, ghosts, limits |
| `ObjectMirrorContentProofs` | proofs about `ObjectMirror`: completeness and the versions of properties |
| `AsyncClient` | the eight programs with an event thread of sdbus-c++, composed with their services and the bus |
| `MCAsyncClient` | the module its runs name |
| `AsyncClientProofs` | proofs about `AsyncClient` |
| `InputReader` | opening, calibration and decoding in the three input readers |
| `MCInputReader` | negative samples for TLC |
| `InputReaderProofs` | proofs about `InputReader` |

### EventLoop

Variables carry the names of the members (without the trailing underscore);
`pc` is the place in `run()`, `pfds`, `dbus_ready`, `todo` and `cur` its locals.
One action is one access to state that another thread shares (`running_`,
`exit_code_`, the eventfd), with the thread-local work around it:

- `stop()` is `StopExitCode`, `StopRunning`, `StopWake`, in that order, by any
  of `Stoppers` at any time and by the loop's own callbacks.
- `run()` is `RunStart`, then per pass `TestRunning`, `apply_pending`,
  `RecheckRunning`, `PollReturns` (or `PollInterrupted`, `PollFails`),
  `DrainWake`, `ProcessPendingEvent`/`HandlerReturns` until `BusIdle` (or
  `BusFails`), `Dispatch`/`DispatchReturns` per ready source, `PassDone`.
- `add`, `remove`, `retire`, `Create`, `Destroy` and `SyncCall` are what a
  program may do before `run()` and inside callbacks.

A source is an address: a destroyed one may be created again, so stale pointers
in `to_remove_` meet new objects. The vectors are sets and the order of
dispatch inside a pass is left open; both only add behaviours. The eventfd is
"zero or not"; creating it may fail (`WakeOutcomes`). `sock` and `rqueue` split
the bus messages into those `poll()` sees and those a synchronous call has made
sd-bus read already; in the second case sd-bus asks for a zero timeout, and the
loop must drive the bus on `n == 0`. sdbus-c++'s own eventFd
(`event_loop.cc:119-123`, `155`), by which another thread announces a message it
has queued to send, is left out: it could only make the loop look at the bus more
often, and no property counts on it. `wanted`, `asked`, `failed` are history
variables of properties.

### GameController

`ps5_dual_sense/dual_sense.cc` is the reference; `xbox_controller.cc` and
`horipad_steam.cc` have the same handlers (the Horipad client has no UPower
clients, `MaxUPower = 0`). The constructor is a chain of actions, because BlueZ and
the kernel go on while it runs: `MonitorEnabled`, `FirstScan`, `RegisterProxy`,
`GetManagedObjects`, `SnapshotAdded` per object, `LoopRuns`. Afterwards
`HandleSignal` (`onInterfacesAdded`, `onInterfacesRemoved`) and `UdevCallback`
drain the two queues in any order. A controller has an address; the kernel
gives its hidraw node any free name. `reader` records for which controller the
reader was made and which one it really reads. `bz` abstracts the Device1
properties to what the handler tells apart: no Modalias, known, or connected and
paired and trusted. `MonitorEnabled` always succeeds. In the code the
constructor of `UdevMonitor` may fail (`udev_monitor.hpp:59-68`); the client then
goes on with a monitor whose fd is -1 and never hears of a removal. `ReaderInv`,
`NoStaleReader` and `StaleReaderDropped` are about clients whose monitor exists:
without it a stale reader stays, since nothing else drops one.

### RemovableMonitor

`udisks2_monitor_daemon.cc`. The daemon is single-threaded, but its handlers
make synchronous calls, and UDisks2 goes on between a call's reply and the next
call. So a handler is a `job` with one step per call: `QueryDrive`,
`RegisterWatcher`, `ReadBlock`, `ReadFilesystem`; no other handler runs before
the job ends. `HandleSignal` and `SnapshotAdded` start one. `watchers[p]` is the
entry of `watchers_` with `drive_path_` and `reported_`. With `flaky` any call
may fail although its object exists. UDisks2 is assumed to export a block with
its `Drive` property set and to keep the drive as long as the block; a path is
used again by other devices. What the callback prints is left out.

### ObjectMirror

`BluezClient`, `UDisks2Manager`, `Login1ManagerClient`, `UPowerClient` and
`Systemd1ManagerClient` have one design and differ in its details; the variable
`client` says which of them a behaviour is about. What differs is in operators
of their own: `BluezAdds`, `UDisks2Adds`, `Login1Adds`, `UPowerAdds`,
`Systemd1Adds` (keep the proxy object there is, skip, make one, make one that
waits for `GetAll()`, throw) and the five `...Erases`; the constructors are
actions of their own. `registerProxy()`, the enumeration and each object and
interface of it are separate steps (`Registers`, `GetManagedObjects`,
`NextObject`, then `PassesOver`, `Makes`, `StartsFetch`/`EndsFetch` or `Throws`
per interface), because the service goes on between them. A synchronous reply
overtakes queued signals, the reply to an asynchronous call does not: `list` and
`reply` messages go through `queue`. Destroying a proxy object cancels its call
(`Cancelled`). Every call may fail although its object exists: the list, the
`GetAll()` of a constructor, the `GetAllAsync()` of a UPower or login1 proxy
object (`AnswersGetAll`; its error branch logs and keeps nothing, so the object
has no properties, or only those that change later) and the `GetAll()` with
which a login1 session prints what a change left behind (`Applied`; nothing is
printed then). Properties are a version number; `cache` is the version a proxy
object holds or last printed. `unheard`, `lost`, `old`, `listFailed` record why
an object may be missing or stale and are read by properties only. News
pass a proxy object by (`unheard`) in four ways: a change comes between the
announcement and the object made from it; its handler throws; a `GetAllAsync()`
fails, until a later one succeeds; or, for a UDisks2 object, the synchronous
`GetAll()` of the constructor overtakes changes queued for an earlier object at
the same path, which then arrive after the newer reply (`Overtakes`). The last
needs four events of the service, one more than the
run has, and was found by the proof of `MirrorFresh`; the theorem covers it.

### AsyncClient

Programs that call `enterEventLoopAsync()`. Main is a script per program
(`hostname1`, `locale1`, ..., `connman`): a function from each kind of statement
to the next one, in the order of the program's own `main()` and destructors;
`Handled` says where an exception of a statement is caught. The event thread
takes a message (`Takes`), in ConnMan locks `maps_mutex_` (`HandlerLocks`), and
returns (`HandlerReturns`). It holds the connection's mutex meanwhile, and main
needs that mutex for each synchronous call and registration (`BusFree`). ConnMan adds the
reconnection loop with its delay, the signal handler and `monitorLoop()`. The
bus may be lost at any moment. Time is left out: a sleep ends, a call is
answered or fails.

### InputReader

`open_and_init()` call by call, any of which may fail; the three feature
reports; the calibration of one gyroscope and one accelerometer axis from
unsigned fields; `mult_frac()` with C++ division and wrapping 32-bit arithmetic;
`dispatch()` for every report the headers list. A report is a sequence of
fields, and `Copied` is the `memcpy` into a struct, at the offset the code uses.
Integers are `Int16Max` wide instead of 16 and 32 bits. Signed overflow is
undefined in C++; the model wraps around, which is what the build's instructions
do.

## 3. Runs

| Run | Module, cfg | Result | Shows |
|---|---|---|---|
| `loop_safety` | `MCEventLoop`, `EventLoop_safety` | passes | `NoUseAfterFree`, `MemoryInv`, `PolledAreWanted`, `NoLostWakeup`, `ReturnsStopCode`, `ImplementsReclamation` |
| `loop_liveness` | `MCEventLoop`, `EventLoop_liveness` | passes | `StopReturns`, `RetiredReclaimed`, `ReadyDispatched`, `MessagesProcessed` |
| `loop_stop_early` | `MCEventLoop`, `EventLoop_stop_early` | violated | a `stop()` before `run()` sets `running_` is forgotten |
| `controller` | `MCGameController`, `GameController` | passes | `ReaderInv`, `NoStaleReader`, `MirrorDrained`, `WithinLimits`, `StaleReaderDropped` |
| `controller_wrong_reader` | `MCGameController`, `GameController_wrong_reader` | violated | the removal of any hidraw node retires the reader |
| `controller_arrival` | `MCGameController`, `GameController_arrival` | violated | a controller BlueZ already knew and that connects later is not read |
| `removable` | `MCRemovableMonitor`, `RemovableMonitor` | passes | `NoGhostWatcher`, `WatcherInv`, `NoneMissed`, `ReadyReported`, `ReportedInTheEnd` |
| `mirror` | `MCObjectMirror`, `ObjectMirror` | passes | `NoGhost`, `Complete`, `WithinLimit`, `Fresh`, `NeverOlder`, `Settles` |
| `async` | `MCAsyncClient`, `AsyncClient` | passes | `ThreadsApart`, `PromiseAlive`, `MirrorComplete`, `Retries`, `Ends`, `LossNoticed` |
| `async_shutdown` | `MCAsyncClient`, `AsyncClient_shutdown` | violated | the ConnMan constructor and a handler lock each other out, and a signal no longer ends the program |
| `reader` | `MCInputReader`, `InputReader` | passes | `DividesOnceCalibrated`, `PrintsState` |
| `reader_best_effort` | `MCInputReader`, `InputReader_best_effort` | violated | a DualSense without calibration divides by zero at its first report |

The violated properties state what comments of the code say; `PROJECT.json`
quotes them under `findings`.

**Bounds.** `loop_safety` has two addresses (one source whose callback retires
or re-creates another), one foreign thread besides the loop's own calls of
`stop()`, and two external events, so that both sources are ready in one pass or
a message and a source are. It has about 440,000 states. Nothing in the loop
compares more than two sources or two callers, and the proofs cover any number.
`loop_liveness` uses one address: its four properties are about one source, and
symmetry would not be sound for them. `controller` has two controllers and two
names, the least for which a name can be reused by another controller, a limit
of one UPower client below two devices, and two events from the kernel or BlueZ on
top of any initial state of both (1,008 of them): remove and add of a node, or
a node and a Device1 object. It has about 480,000 states. `removable` has one
path, a removable and a fixed drive, any initial state and five events: enough
to remove and replace a device twice and to change what it holds in between.
Jobs on another path would only delay those of this one, which the
interleaving with UDisks2 already covers. It has about 135,000 states.
`mirror` runs all five clients with two paths, a limit of one (so that the
limit is met, and left again by a removal) and three events of the service on
top of any initial state: remove, re-export and change of one object, or events
on two. Paths take different shapes, so both maps of one object and a single
manager owned by two objects occur. It has about 810,000 states. `async` runs
all eight programs with one technology, two services (one handler creates two
clients, of which the second may fail), two outside events (two signals, or one
and the loss of the bus) and delays 1, 2, 3 (doubling, and the maximum where
doubling would pass it). It has about 144,000 states; `late` and `failures` stay
bounded by themselves. `reader` has 4-bit instead of 16-bit fields: zero, one,
the sign bit and the maximum as calibration values, five raw values with both
extremes; it has about 157,000 states. In `reader` the products reach past the
8-bit results, so wrapping really happens, of results and of the product inside
`mult_frac()` with a result that fits.

Deadlock is not checked: a loop that returned, a program that waits in `poll()`
with nothing to come, and a client with drained queues really stop.

**Fairness.** `EventLoop!Fairness`: the loop's thread runs, so each of its steps
is taken when it stays enabled; `poll()` returns when an fd is ready or sd-bus
asked for a zero timeout, and never has to otherwise (no timer, no signal is
assumed); callbacks return (`event_loop.h` demands that `dispatch()` must not
block), strongly fair because a callback may call `stop()` again and again
before it returns; a thread inside `stop()`, which has no loop and no lock,
finishes it. Nobody is assumed to call `stop()`, and no error is assumed to
happen. `GameController!FairSpec`: the constructor goes on and the loop serves
both queues (shown for the loop by `ReadyDispatched` and `MessagesProcessed`).
`RemovableMonitor!FairSpec`: likewise, and each call returns with a reply or an
error (sd-bus gives a call a timeout).
`ObjectMirror!FairSpec`: the loop's thread runs, and asynchronous calls are
answered or fail for the same reason. `AsyncClient!FairSpec`: both threads are
scheduled (weak fairness of each, so a thread that waits for a mutex for ever is
not excused) and calls are answered. Nobody has to send a signal, the bus need
not fail, and `isConnectionAlive` need not give a false alarm.

## 4. Proofs

Assumptions: `LoopAssumption` (the loop thread is not a foreign caller, the bus
is not a source, codes are naturals), `ControllerAssumption` and
`MonitorAssumption` (`None` is no device, name, reader, block or watcher; limits
are naturals; removable drives are drives), `MirrorAssumption` (there is a path,
`AnyDevice` is none; limits are naturals), `AsyncAssumption` (technologies are
no services; the initial delay is positive and not above the maximum) and
`ReaderAssumption` (fields fit their width). Everything else is arbitrary: the
number of sources, threads, controllers, names, paths, events.

- `TypeCorrect`, `ControllerTypeCorrect`, `MonitorTypeCorrect`,
  `MirrorTypeCorrect`, `AsyncTypeCorrect`, `ReaderTypeCorrect`: one step per
  action.
- `MemorySafe` (`NoUseAfterFree`). Not inductive: that registered sources exist
  depends on what `apply_pending()` will do with pending requests. `MemoryInv`
  adds: what the loop owns for destruction is also pending removal; what is
  registered or about to be is alive; a pass refers only to registered sources;
  nothing is pending between `apply_pending()` and the first callback.
- `ReclamationRefined`: with `sources` as the pinned set during a pass,
  every step of the loop is a step of `DeferredReclamation` or changes nothing
  there. `ReclamationSafe` proves that abstract specification memory safe.
- `RemovedIsNotPolled` (`PolledAreWanted`) from `WantedInv`: whatever would be
  registered after the pending removals was last asked for by `add()`.
- `StopCodeReturned`, `StopWakesPoll` from `StopInv`: the code kept is one that
  was asked for or the 1 of an error that happened, as soon as either did; `running_` is false before
  `poll()` only after some caller stored its code, and that caller has written
  the eventfd or still will; the loop drains it only after `poll()` and then
  tests `running_` again.
- `ReaderInvariant`, `StaleReaderHasRemoval`: node names are distinct at any
  moment, so a cached name that differs from the controller's current one, or a
  reader opened by such a name, needs a node to have vanished since the last
  scan; its remove event is then still in the queue. Handling any event scans
  again, and handling a remove event drops the reader.
- `DrainedMirrorIsTrue` (`MirrorDrained`) from `MirrorInv`: a device or a
  snapshot entry is one BlueZ has or has its removal queued, an announcement is
  true unless a removal is queued behind it, nothing is received before the proxy
  is registered, and every UPower client has its device.
- `LimitsHold` (`WithinLimits`) from `LimitInv`, which adds finiteness.
- `WatcherInvariant`, `NoGhosts`. What stands for a block (a watcher, a snapshot
  entry, a handler at work) may be out of date, but then a removal of that path
  is queued: a block that vanishes queues one, and a block that appears was
  absent before, so nothing stood for it. An announcement with no removal
  behind it is true for the same reason, so the handler that takes it up acts
  on the truth. Handling a removal leaves nothing standing for the path. Failing
  calls only end handlers early, so no assumption about them is needed.
- `NothingMissed` (`NoneMissed`) and `ReadyIsReported` (`ReadyReported`) from
  `NothingOverlooked`, the converse. Both speak of drained states; the invariant
  says where a block is meanwhile. `Covered`: a block of a removable drive is
  announced with no removal behind it, or no removal is queued and the daemon has
  reached it (watcher, snapshot entry, handler at work, or the enumeration is
  still to come). `Looked`: a watched block with a file system that is not
  reported will be looked at again, because a change is queued or the handler at
  work has still to read. `DrivesOutliveBlocks` is UDisks2's part: without it
  `QueryDrive` could fail for a block that stays.
- `MirrorNoGhosts` (`NoGhost`) from `GhostInv`, for all five clients. `NoGhost`
  speaks of drained states only. `GhostInv` says why it holds there: whatever
  stands for an interface (a proxy object, an enumerated entry, the object at
  hand) stands for one the service exports, or its removal is queued
  (`Truthful`); an announcement or a list in the queue is true unless a removal
  of that interface is queued behind it (`Announced`); and a client handles only
  its own kinds, and nothing before its constructor has come that far
  (`Proper`). The delicate
  steps are the synchronous replies, which overtake the queue, and login1, whose
  call is sent before it subscribes.
- `MirrorWithinLimit` from `LimitInv`, which adds that the maps are finite sets.
- `MirrorComplete` (`Complete`) from `MirrorCovers`, for all five clients.
  `Covered`: an exported interface is announced in the queue with no removal
  behind it, or no removal of it is queued and it is accounted for (has its proxy
  object, is at hand or enumerated, was there first and will still be listed, or
  one of the reasons of `Complete` holds). `Asking` says which enumeration is still to come; login1 needs it
  because its call precedes its subscription.
- `MirrorNeverOlder` (`NeverOlder`, an action property) from `VersionsInOrder`.
  The versions in the queue about one path do not decrease (`InOrder`), and
  neither what a proxy object keeps (`CacheBehind`) nor what a BlueZ handler is
  about to give it (`JobsBehind`) is ahead of what is queued for it. So whatever
  message is applied next is at least as new.
- `MirrorFresh` (`Fresh`) from `FreshInvariant`, which has one part per way to
  come by properties: an announcement in the queue (`AddedFresh`), what a
  handler or a proxy object took from one (`TakenFresh`), a reply waited for
  (`FetchedFresh`) and one not waited for (`AskedFresh`). Each says: the version
  is the service's, or the newest one is still queued, or the news that passed
  it by are in `unheard`; `AskedFresh` adds the call that has still to be
  answered. A failed `GetAllAsync()` goes to `unheard`, so an object that asked
  without waiting is stale where its call failed and only there. It needs
  `VersionsInOrder`: the last message applied is the newest only because the
  queue is ordered.
- `ThreadsStayApart` (`ThreadsApart`) from `ThreadInv`: where main can be while
  the client is registered and the thread alive (`Placed`, `CleanedUp`), and who
  may hold `maps_mutex_` at which statement (`Locked`). It is proved for the
  scripts of all eight programs.
- `PromisesAlive` (`PromiseAlive`) from `Owed`: every unset promise has a call
  outstanding or a reply queued, promises are made only while main asks, and main
  leaves `await` only when all are set; so no statement that ends promises finds
  one unset.
- `RetriesBackOff` (`Retries`) from `BackedOff` (the delay itself; that a power
  of two doubles is derived from counting subsets, since the provers know nothing
  of `^`) and `OnceMore`: `late` is zero while `g_running` holds, and main is
  not at `connect` again once it is one.
- `MirrorIsComplete` (`MirrorComplete` of ConnMan) from `MirrorInv`: the last
  message that mentions a technology or a service says the truth about it
  (`LastWord`), and what no queued message mentions is in the maps exactly if
  ConnMan has it, or is in `missed` (`Settled`).
- `ReaderDividesOnceCalibrated`: the sanity checks leave no zero denominator,
  for every width of the integers and every calibration report.
- `MultFracExact`: where the exact result fits into 32 bits, `mult_frac()`
  returns it if and only if `r * n` does not overflow, for every denominator a
  calibration can have (the sum of two distances of unsigned 16-bit fields). For
  naturals `x * n / d = (x / d) * n + (x % d) * n / d` (`DivisionSplits`), and
  signs separate from absolute values because C++ rounds towards zero
  (`SignedQuotient`); so without an overflow nothing wraps before the result
  does. With one, `r * n` is still below 2^32 (`WideWidths`), so it comes out
  with the wrong sign (`WrapOut`) while `r * n / d` is not zero: the value
  returned is another one.
- `ReaderPrintsState` (`PrintsState`) from `MultFracExact` and the copied units
  of every report (`DualSenseUnits`); for report 1 the first of them is the ID. A
  denominator no wider than a field leaves no room for the overflow
  (`NarrowFits`), which is why the accelerometer is exact. `PrintInv` adds how wide the denominators are and that nothing is
  printed before the reader is valid, which is why a calibration that changes
  the scale never invalidates what was printed.

Every invariant, the action property and the refinement that a run checks are
theorems. Only model-checked are the temporal properties: `StopReturns`,
`RetiredReclaimed`, `ReadyDispatched`, `MessagesProcessed`, `StaleReaderDropped`,
`ReportedInTheEnd`, `Settles`, `Ends`, `LossNoticed`. The prover has no rules for
fairness and `ENABLED`.

## 5. Findings

With a run whose counterexample shows it, quoted in `PROJECT.json`:

1. `stop()` before `run()` is lost (`event_loop.cc:103`).
2. Any hidraw removal retires the reader (`dual_sense.cc:46` and twins).
3. No reader is created when a known controller connects (`dual_sense.cc:143`).
4. The ConnMan client's constructor holds `maps_mutex_` across synchronous
   calls; a handler that waits for it holds the connection: both wait for ever
   (`connman_client.cc:33`).
5. A DualSense whose calibration report fails crashes the reader by a division
   by zero (`ps5_dual_sense/input_reader.cc:482`), although feature reports are
   said to be best-effort.

Met while reading and modelling, without a run:

- A `stop(0)` that races an internal error of the loop overwrites the exit code
  1 (`event_loop.cc:139`, `187`; `event_loop.h:85`).
- `remove(s); add(s)` in one pass leaves `s` unregistered (`event_loop.cc:88`).
- Report 1 of a DualSense on USB is copied into `USBGetStateData` with its ID,
  one byte off (`ps5_dual_sense/input_reader.cc:146`); `ReportIn01USB` in
  `dual_sense_0ce6.h` has the ID before the state. `PrintsState` states the
  consequence: the stick shown is right only where it equals the ID. The
  Bluetooth report 1, which is shorter, is decoded the same way.
- `r * n` in `mult_frac()` overflows for wide gyroscope ranges although the
  result fits (`ps5_dual_sense/input_reader.cc:484`): with plus and minus 65535,
  bias 0, speeds that add up to 127 and a measurement of 32767 the exact value is
  32511, and `r * n` is about 4.26e9. No document promises exactness, so there is
  no violated run; `PrintsState` says that these values are wrong and no others
  are.
- The Horipad reader tests for the decimal IDs 10, 12, 14; the header lists
  0x10, 0x12, 0x14.
- The calibration fields are signed on the device and unsigned in the struct;
  the bias is computed and never applied.
- `GattCharacteristic1` is replaced by each new announcement, where all other
  BlueZ objects keep the first (`bluez_client.cc:124`).
- An exception from a UDisks2 proxy object's constructor while the manager
  enumerates ends the program; later it only ends one handler.
- The systemd1 client neither calls `Subscribe()` nor lists the units there are.
- `geoclue2_client.h` registers a location's `PropertiesChanged` handler on the
  interface `org.freedesktop.GeoClue2`, which has no such signal: the callback
  runs once per location. In network1 one failing link skips the rest.

## 6. Plan

Done: the event loop, the controller clients, the removable device monitor, the
mirrors, the two-threaded programs and the readers. Left, in this order:

1. A composition of `EventLoop` and `GameController` in which `retire()` of the
   reader goes through the loop, instead of the loop's promise
   (`DeferredReclamation`) standing between the two.
2. A refinement: one abstract mirror ("equals the service when drained")
   implemented by `ObjectMirror`, `RemovableMonitor` and `GameController`.

### Not modelled

- The generated proxies and interface files (`src/src/proxy`, more than half of
  all lines; written by `sdbus-c++-xml2cpp` from `interfaces/*.xml`, marked "DO
  NOT EDIT"). Every method marshals its arguments, calls and returns; there is
  no branch and no state. What a call may do to the caller (wait, fail, let the
  service go on, be answered later) is in the models at every call of the
  clients. The models' share of all lines is small for this reason; of the
  handwritten lines they stand for about three in ten, the control of the
  clients and the loop, and the rest is declarations, printing and the programs
  named below.
- network1, geoclue2, resolve1, wpa_supplicant, timesync1, realtimekit1 and
  networkmanager: single-threaded programs whose handlers print what they
  receive. What they keep (the list of links, the one location object) is
  replaced as a whole by the handler that prints it and read by no other step. `PackageKitTransaction` is not used
  by its program.
- Logging, formatting, hexadecimal dumps, property helpers, `UniqueFd` and the
  system call wrappers: sequential, no state, `sys_test.cc` tests the wrappers.
- `SignalSource`: that signals are blocked in all threads and read from a
  signalfd is a property of process masks set once; its `dispatch()` is covered
  by the contract of sources in `EventLoop`.
- Lost netlink events (`udev_monitor.hpp:93`) and a udev monitor that could not
  be created (`udev_monitor.hpp:59-68`, fd -1): the code cannot see the former and
  tolerates the latter, so nothing it promises about removals can be stated for
  them. The reader properties of `GameController` assume neither happens.
- The values in the properties that main and the event thread of hostname1 share
  without a lock: they are only printed, so any outcome is equally right.
