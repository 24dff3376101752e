# AVA: TLA+ models, checks and proofs

AVA is a desktop and Android tool for debugging embedded drives: it samples and
writes variables of a target through a SEGGER J-Link, controls motors through a
vendor SDK or through the same J-Link, and can share a device with other copies
of the tool over the network. This directory holds TLA+ models of the parts of it
in which threads, machines and devices meet, the TLC runs that check them and the
TLAPS proofs about them. `PROJECT.json` lists the components, runs, mutants,
theorems and hazards, and maps every definition to the lines it models. Paths
below are relative to `src/` of the repository unless they begin with `ckit/`,
`docs/` or `tests/`.

## 1. The system

### Components and their state

| Component | State | Operations |
|---|---|---|
| Peer server (`core/remote_device.cpp`) | `ownership` (process-wide recursive mutex), `owner` (session with control), sessions, `clients`, `alive`, `allowWrites` | accept, pair, info, read, write, reset, claim, samples, start, stop |
| Peer client (same file) | socket, `alive`, `control`, `device` snapshot, one mutex, heartbeat thread | connect, close, read, write, claim, reset, startSamples, samples |
| J-Link port (`core/jlink_port.*`) | `mtx_` (`FairMutex`), `isOpen_`, `isConnected_`, `targetEpoch_`, `deviceEpoch_`, `busy_`, HSS, RTT and SWO state, firmware gate | open, connect, close, reset, memory access (plain and bound to an epoch), program, erase, HSS, RTT, SWO |
| Sampler (`core/sampler.cpp`, `core/hss_stream.hpp`) | task lists snapshot from the monitors, running HSS layout, byte carry, time line, watchdog clocks | one loop: refresh, write dirty variables, wave, configure HSS, poll, drain HSS, watchdog; a second thread for the FFT |
| Motor controller (`core/motor_controller.cpp`, `gui/motor_control.cpp`) | `commands_`, `processing_`, `quitting_`, `lastPulse_`, `leases`, SDK handle or J-Link session, snapshot | post, pulse, shutdown; worker loop |
| Firmware gate (`core/firmware_match.hpp`, `core/jlink_port.cpp`, ELF load in `gui/variable.cpp`) | `sources_`, `status_`, `overrideIdentity_`, time and epoch of the last check; the load thread's stage | set and remove source, check, override; load, apply, synchronise, complete |
| RTT and SWO terminals (`core/jlink_port.cpp`) | a life-cycle mutex, a reader thread and its flag each; `rttTxPending_`, `rttResumeRequested_` | start, stop, send, reader loop |
| Sample history (`core/delta_ts_buffer.hpp`, `gui/time_series_buffer.hpp`, `gui/monitor_channel.hpp`) | `rTs_`, `rVals_` (sampler), `read_` (GUI) with its pyramid, `publishedEnd_`, `preserveHistoryTimestamps_` | append, trim, publish, discard a range, clear, clone |
| Asynchronous log (`ckit/src/log.c`, `mpsc.c`, `mempool.c`) | one chunk per producer, pool, intrusive queue, `busy`, file and its error | write, flush, rotate, init, deinit |
| Rest of ckit (`ckit/src`) | byte ring, scheduler, tree, lists, math | one C module each |
| Parsers, parameters, loader, servers, updater, oscilloscope, SPICE, GUI pages, SDKs | see `components` in `PROJECT.json` | |

### How they interact

* The sampler, the GUI and the motor controller call the J-Link port, which
  serialises the hardware with `mtx_`. Operations that alter the target also hold
  a `WriteGuard` (`remote_device.cpp:345`): the recursive mutex `ownership`, and
  the right to proceed only if no remote session owns the device. A read takes
  `mtx_` alone.
* The server exports the port as a `Backend` of lambdas
  (`gui/remote_device_ui.cpp:16-31`, `JLinkPort::startDeviceSharing`). Each of up to eight worker threads
  serves one `Session`; write, reset and claim run under `ownership`, reads do
  not, and a session may own a sampler thread.
* Every request names the device generation (`epoch`) it was made for. Two
  counters stand for it: `deviceEpoch_`, which peers see, and `targetEpoch_`,
  which the port compares under `mtx_`. Both move at a reset, a reconnect or a
  transport loss; `targetEpoch_` alone also moves when the symbol source or the
  route (local or remote) changes.
* On the other side `JLinkPort` routes its calls to `ava_peer::Client` when a
  remote device is selected. A heartbeat thread of the client asks `info` every
  second over the connection the callers use, under the same mutex.
* Variable windows load symbol files on a thread of their own and tell the gate before and
  after; every access of the sampler and of the pages passes the gate under `mtx_`.
* The sampler appends to a channel's history without a lock and publishes it to the GUI
  whenever it gets `mtxMonitors_`; clears and deletions the GUI asks for are carried out by
  the sampler between two iterations, under that mutex.
* Every thread logs. A flusher thread, the crash handler and the shutdown drain the queue.
* The motor page pulses the controller every frame. The worker renews the
  drive's command watchdog only while the pulse is fresh.

### Behaviours that are hard

Loads of `deviceEpoch_`, `targetEpoch_` and `isConnected_` without a lock; two
counters moved one after the other; mutexes held across calls that block; a lease
that must survive nothing but its session; answers that come after the caller has
given up; a thread that joins another while it holds what the other needs; a
byte stream cut by reads at any place, restarted by several causes; device calls that
fail with or without effect while an axis moves; a symbol file replaced while requests formed
with the old one are under way; two copies of a series edited by position on one side and by
time on the other; a lock-free queue whose producers may stall half-way. `hazards` in `PROJECT.json` lists them
line by line with the properties that watch them.

### What correctness means, part by part

* *Sharing* (`docs/remote_devices.md`): one writer at a time, control given back on every
  way out, no request acts on or answers from another generation, `stop()` ends and leaves
  nothing behind.
* *Remote sampling*: a frame is of one generation, losses are counted, an end is reported.
* *Client*: an answer belongs to its request, a `true` means done, a write is never
  replayed or overtaken, what the UI shows of control is honest.
* *Probe lock*: excludes, first come first served, survives wrap-around.
* *HSS*: whole frames in order with true times; only faults restart a stream, and a wedged
  one is restarted.
* *Probe session*: an SDK session is never forgotten and never shared with J-Link Commander; readers
  end before the session they use; every thread comes back; terminal text arrives whole and in order.
* *Firmware gate* (`README.md:306-326`): no access with addresses of another file than the gate judges, no
  write to mismatching firmware without the user's word for this boot of it, and the gate opens again.
* *Log*: what was stored is written once or reported lost; a successful flush covers what came before it.
* *Sample history*: what the GUI shows is what was sampled and not deleted, at the time first shown.
* *Motor* (`docs/motor_control.md`): but for two cases of section 6, a moving axis is under a lease or the user has been
  told; no renewal for a silent GUI; closing the page or the program gives the device back.

## 2. Modules

| Module | Models | Uses |
|---|---|---|
| `PeerLease` | abstract: at most one holder; who may alter the device, and when the lease changes hands | |
| `PeerServer` | server sessions, their lease, the probe behind them, local threads, start/stop | refines `PeerLease` |
| `PeerServerProofs` | inductive invariant, safety theorems, refinement | `PeerServer`, TLAPS |
| `PeerSampler` | the sampling half of one session against local threads | |
| `PeerSamplerProofs` | inductive invariant, frames and answers | `PeerSampler`, TLAPS |
| `PeerLink` | client, heartbeat and wire against the server with each dispatch one step | |
| `PeerLinkProofs` | inductive invariant, answers, order of writes, control | `PeerLink`, TLAPS |
| `FifoLock` | abstract: a queue of callers, the first holds the lock | |
| `FairMutex` | the ticket lock of `jlink_port.hpp:41-72` | refines `FifoLock` |
| `HssSampler` | the HSS path of `Sampler::threadFunc`, with the probe and the GUI as environment | |
| `HssSamplerProofs` | inductive invariant, the three safety properties | `HssSampler`, TLAPS |
| `MotorController` | queue, worker, drive and page | |
| `MotorControllerProofs` | inductive invariant, safety theorems | `MotorController`, TLAPS |
| `ProbeSession` | open, connect, close, reset, erase, and the two terminals, thread by thread | |
| `FirmwareGate` | the gate, its sources, the accesses it guards, and the load of symbol files | |
| `JLinkPortProofs` | the lock: exclusion and refinement; the probe session: inductive invariant, session, reader, text and resumption theorems; the gate: inductive invariant, the three safety properties | `FairMutex`, `ProbeSession`, `FirmwareGate`, TLAPS |
| `FifoQueue` | abstract: nodes pushed, popped once each and given back | |
| `Mpsc` | `ckit/src/mpsc.c` by atomic step | refines `FifoQueue` |
| `AsyncLog` | `ckit/src/log.c` as `main.cpp` runs it | extends `Mpsc` |
| `AsyncLogProofs` | the queue: chain invariant and refinement; the log: inductive invariant and its three safety properties | `AsyncLog`, TLAPS |
| `DeltaTs` | `DeltaTsBuffer` as operators on one value | |
| `TimeSeries` | `TimeSeriesBuffer` and its pyramid | extends `DeltaTs` |
| `MonitorChannel` | the sampler's store and the GUI's copy of one variable | extends `TimeSeries` |
| `MonitorChannelProofs` | inductive invariant, agreement of the stores, stability of shown stamps | `MonitorChannel`, TLAPS |
| `MC*` | constants for TLC (symmetry sets, functions) | |

The modules meet at atomicity boundaries. `PeerServer` opens a dispatch
into the individual loads, lock acquisitions and probe accesses; `PeerLink` takes it as
one step, which `OneWriter` and `WritesHitTheirGeneration` of `PeerServerProofs` justify, and
opens the wire instead. `PeerServer` and `PeerSampler` take `mtx_` as a mutex that
excludes and does not starve; `FairMutex` shows that it does. `ProbeSession` and `FirmwareGate` take a
section under `mtx_` as one step. `AsyncLog` calls the steps of `Mpsc` itself, so that the queue is checked under
the use the logger makes of it; `QueueContract` says that this use is within the contract the refinement needs.

### PeerServer

A thread is a session worker or a local thread; `pc` says where it is. A remote write
goes `idle -> check1 -> ready1 -> lock -> check2 -> ready2 -> target -> device -> enter ->
access -> reply`: `check1/ready1` are `Session::check` before the operation, `lock` the
owner test under `ownership`, `check2/ready2` the second check, `target` and `device` the
loads in the backend lambda, `enter` the test under `mtx_`. A read omits `lock` and makes the
second check after the access; a reset makes none. A reset, connect or loss moves
`targetEpoch_`, `deviceEpoch_` and the flag one at a time, in the code's order.
`gen`, the true generation of the target's memory, is a history variable no guard of the
code reads; the epochs are compared with it only in properties and to bound the model.
`allowWrites` is chosen at each start. A session id is used once, as `sessionCounter`
only grows.

Left out: the pairing cryptography (an outcome), frames and JSON, UDP discovery, `info`
(it reads the state and changes none), sampling.

### PeerSampler

The session thread's `start`, `stop`, `samples`, `reset` and end, the sampler thread's
frame loop block by block, and a local thread that resets, reconnects, loses or closes the
probe. A byte of a frame is the generation it was read from.

### PeerLink

`reqs` and `resps` are the two directions of each connection, empty or with one element,
since the client waits for each answer. A wait may end in `Timeout` at any moment: the 5 s of the code are
not compared with the length of an operation. A session of a client that went away
continues at the server until it notices. One client with two sessions suffices: an old and
a new session contend for the lease as two clients do. The epoch in an answer stands for
the pair epoch and ready.

### FairMutex

`next` and `serving` wrap at `Width`. A waiter sleeps and wakes as
`condition_variable::wait` allows: notified, or spuriously. `unlock` is two steps, the
increment and the notification. `try_lock` is atomic under the inner mutex.

### HssSampler

A frame is a sequence of cells a read may separate; a cell knows its layout, frame number, time
stamp and position, so that a frame put together wrongly shows. `published` is the last
batch handed to the monitors. The clocks of the watchdog and the start retry count
iterations. The probe may keep a frame of the old session after a restart: at most
one, which is what dropping the first batch (`sampler.cpp:1021-1030`) presumes; with more
left over than one read returns the code would publish old data, and the model does not claim otherwise.

### MotorController

One action per command kind of the worker's `switch`, each with every outcome: refused before a
device call, done, or thrown out of it with or without effect. `shownOff` is what the page reads in the snapshot, which
commands leave alone and only a poll or a change of connection replaces. `lapse` is a history variable: how the motion under way
lost its lease, if it did: by a failed stop that was `"reported"`, by one that was `"muted"`, or `"zeroed"`. Set points, units and parameter values are left out, as is a second
axis (the page connects with `axes = 1`). The SDK, the J-Link motor profile and the drive are external.
None, Disable and Clear faults, sent as special commands, are taken to remove the enable.
A calibrating or zeroing command (3, 4, 5, 7) is confirmed while the worker is idle and the last snapshot shows a disabled axis
(`motor_control.cpp:93-105`, `1130`). The worker does not look again (`motor_controller.cpp:867-872`), and a snapshot may be older than the last
command, so a zeroing command may run on an axis that was enabled since. New targets are taken to renew the SDK's watchdog as a keepalive does
(`sdk/neofsa/README.md:77`). The
page never posts `Stop`. A `Stop` posted after a `Disconnect` would
discard it (`motor_controller.cpp:300`), which only a test can do.

### ProbeSession

Two processes call into the port: the detached thread of an asynchronous operation (one at a time, `busy_`) and
the user's. `at` is a process's place in the operation `job`; `term` the terminal at hand, since `close` and
`connect` go through both. `sdk` and `commander` say who really has the probe, the DLL or J-Link Commander, beside
the flags the code keeps. A text of the user is a number: `tx` is `rttTxPending_`, `chunk` the copy the reader sends
outside the data mutex, `got` the last number the target received. The link may die (`TransportLost`) in any section under `mtx_`.
Left out: received bytes, channel set-up, labels, and the remote route.

### FirmwareGate

`targetEpoch_` only tells whether it moved since a request was formed, so a request is bound to `"now"` until the next
increment turns it `"old"`; `"any"` is an access without an epoch. `checked` is the age of the last check on this
connection. A build is a model value; `mailbox` is the identity in the target's RAM, which start-up code publishes
and a reprogrammed target may keep for a while. A reboot clears the mailbox before it can be read; `MismatchApproved`
rests on it, as the gate has no other sign of a boot than a nonce that changes. A check may fail to read anything. A load goes through `page`
(thread), `reload` (applied, addresses synchronised, gate told) as `gui.cpp:2719-2722` does, in separate steps, and a second
load may begin before the tools have heard of the first. All builds keep the identity at one Flash address;
connecting to another remote device while one is in use is left out. Accesses without an epoch
(`sequence_editor.cpp:196`, `variable.cpp:6160` and `6633`) pass the gate like any other but are not refused after a file change;
`README.md:320` speaks of queued requests, and these are formed and executed at once.

### FifoQueue, Mpsc and AsyncLog

`Mpsc` has one action per atomic access: the exchange of `head`, the store of the link, and the consumer's reads, with the
re-insertion of the stub. `PushExchange` is a step of `mpsc_push` (`Push`) by a thread free to make it, on a node it owns;
the log calls `Push` itself, and that it keeps the guard is part of `QueueContract`. Its refinement mapping hides unlinked nodes: an empty answer is allowed while a push is
unfinished. `AsyncLog` adds producers with their spin locks and chunks, the pool, the flusher's loop, a worker's crash handler,
`log_deinit`, and a file whose open, write, sync and close may each fail. Lines may be reordered between the chunks of one
producer, since `log_submit_pending` pushes after it unlocks (`log.c:984-986`); no property claims the order. A
stalled producer hides later chunks from a flush, which `FlushCovers` excepts. Left out: synchronous mode, purge of old files,
formatting, and a crash inside the library's own lock.

### DeltaTs, TimeSeries and MonitorChannel

Time is an integer and the float of an offset a multiple of `Resolution`, so that the writer and the GUI, whose
blocks begin at different samples once either has been trimmed, round one time stamp differently. New
stamps are at least `Resolution` apart, as the header's "normal sample rates" has it; below that
rounding could make two stamps meet. In a clone the first of them counts from the last stamp of the copy, which the rounding may have
put half a resolution after the sampled one (`newest`). At least one sample is kept (`MinKeep`; the code's limit is the length of an
FFT). A sample's value is its identity, so the extrema of a bucket are the set of its samples;
a mean is kept as a sum. The binary searches are counts, as the series they search grow (`StoresAgree`). Every
operation is one action: appending touches nothing the GUI reads, all else is under `mtxMonitors_`. Left out: array
snapshots, rates, the choice of a level to draw, the files behind `MmapVector`; `pruneByTime` has no caller.

## 3. Runs

All runs are exhaustive for their constants.

| Run | Instance | Shows |
|---|---|---|
| `peer_server` | 2 sessions on 1 worker, 1 local thread, 2 generations, 1 switch of source | `NoStaleWrite`, `NoStaleRead`, refinement `LeaseProtocol`, `StopTerminates` |
| `peer_sampler` | 2 blocks, ring of 2, 2 generations, 2 runs of at most 4 frames | `FramesOfOneGeneration`, `AnswerAccounted`, `JoinReturns` |
| `peer_link` | 1 client, 2 connections, 2 writes, 2 generations | `OwnAnswer`, `WritesInOrder`, `ControlHonest` |
| `peer_link_live` | the same with claims only | `StaleNoticed`, `HangUpCompletes` |
| `fair_mutex` | 4 threads, counters of 5 values | `FirstComeFirstServed` (refinement), `NoStarvation` |
| `hss_stream` | layouts of 1 and 2 cells per frame, buffer of 3, 2 reads per iteration, 3 frames, stamps modulo 8 | `WholeFrames`, `TimeFaithful`, `NoGap`, `StalledRestarts` |
| `hss_clear` | one layout, counterexample expected | `NeverTorn` is violated (section 6) |
| `motor` | queue of 1 | `MotionIsLeased`, `RejectedRevokes`, `OneLateRenewal`, `SilenceStops`, `ClosedPageDisconnects`, `ShutdownReturns` |
| `probe_session` | 2 attempts, 3 texts, queue of 2 | `SessionKnown`, `ReadersStopFirst`, `TextInOrder`, `RttResumed`, `ThreadsReturn` |
| `firmware_gate` | 1 window, 2 builds, firmware with and without identity | `SamplesAreCurrent`, `RequestsAreCurrent`, `MismatchApproved`, `GateReopens` |
| `async_log` | 2 workers with 4 lines, 2 chunks of 2, files of 1 line, 1 failure, 1 crash | `RecordsConserved`, `FlushCovers`, `QueueContract` (refinement), `EventuallyWritten` |
| `monitor_channel` | blocks and buckets of 2, 2 levels, 5 samples, 1 clone | `StoresAgree`, `PyramidTrue`, `SeenTimesStay` |

Why these bounds are enough to meet the cases. *peer_server*: a session
contends for lease and mutexes with a local thread, leaves them to its successor, and meets every order of a
request against one change of generation; two sessions at the same time are in reach of the theorems of
section 5 only, which hold for any number of workers and sessions. *peer_sampler*: a ring of two overflows, and a second run
starts on what the first left. *peer_link*: two connections are an old session still at work
and its successor; two writes can be lost, late and overtaken. *fair_mutex*: with counters
one larger than the number of threads the tickets wrap with all threads queued. *hss*: a buffer that
holds a frame and a part of the next makes every split; stamps wrap within three
frames; the watchdog's own gap is one iteration here, and gaps of two with two frames were checked as
well. *motor*: a queue of one is at its limit whenever it is not empty. *probe_session*: the second attempt follows a
failed one, a queue of two fills and is sent in parts, and the third text comes after a stop. *firmware_gate*: the second build
is the other file and the other identity; a second window adds nothing a reload of the first does not, and the theorems
hold for any windows. *async_log*: the first worker fills its chunk and takes the other, so the pool is exhausted; a file of one line is rotated
at every line. *monitor_channel*: five samples fill two buckets of the first level and one of the second; limits of six units
trim one or two samples in the middle of a block, or more than the GUI has seen (the hard reset); stamps of
odd distance round differently from each anchor.

No run uses symmetry. Deadlock is checked in every run.

### Fairness

* `PeerServer`: every thread inside an operation goes on (weak), a lock waited for is obtained
  if it is free again and again (strong: `FairMutex` is first come first served; `ownership` is a
  `std::recursive_mutex`, for which the OS is trusted), a receive on a dead socket
  fails (the 5 s deadline), a `stop()` begun goes on. Peers and users owe nothing.
* `PeerSampler`: the same for the session, the sampler and the local thread.
* `PeerLink`: server and heartbeat go on, a wait that nobody answers times out,
  and the heartbeat gets the client's `std::mutex` if it is free again and again (strong).
* `FairMutex`: a thread that holds the lock releases it, one that was notified runs.
* `HssSampler`: the sampler thread runs; its iterations carry the clocks.
* `ProbeSession`: each thread goes on with what it has begun; a mutex free again and again is obtained (strong for the worker
  and the user); a reader's call into the DLL returns. Nobody has to press a button or lose the link.
* `FirmwareGate`: a load thread ends; the GUI applies what it parsed if it may again and again (strong: it waits
  for `busy_` and for the route), synchronises and tells the gate.
* `AsyncLog`: each thread of the living process goes on; no lock needs more, as a spin lock is held for a bounded section.
* `MotorController`: device calls return, 200 ms pass once the GUI is closed or hung, the
  drive's watchdog runs.

Each property of a passing run has a mutant: a plausible bug in a mapped definition
(marked "Mutant" or "Broken variant" in the modules), under which the run's own configuration finds the property violated.

## 4. What is only model-checked

Liveness (all `~>` and `[]<>` properties) and ENABLED are outside the prover. `PyramidTrue` is not proved: what a bucket of any
level holds is defined by recursion over the levels, and the theorem would need induction over them. Every other
invariant, action property or refinement a run checks is a theorem of section 5.

## 5. What is proved

`PeerServerProofs`, for any finite set of sessions, any set of local threads, any pool size and any bounds on
generations and switches (`ServerAssumption`):

* `Inductive`: `Spec => []IInv`. The invariants one wants are not inductive: that a write about to touch the
  probe is bound to the current generation depends on who holds which mutex, on where the epochs
  stand while a reset moves them, and on the lease. `IInv` is the conjunction of `TypeOK`; `Shape` (which operation can be where); `IoHeld` and
  `OwnershipHeld` (each mutex is held exactly along a stretch of control points); `LeaseKept` (inside the stretch
  guarded by `ownership` the session owns the lease, or nobody does); `StopOrdered`; `EpochsAgree`
  (`deviceEpoch = gen` except while the holder of `mtx_` is moving it, then one behind); `WriteBound` and
  `ReadBound` (what a request in flight carries). Each action is shown to preserve each conjunct it can disturb.
* `TypeCorrect`, `LeaseNeverOrphaned`, `OneWriter`, `WritesHitTheirGeneration`,
  `ReadsComeFromTheirGeneration`, `StopLeavesNothing`: the safety properties of run `peer_server` and three it no longer repeats.
* `ImplementsLease`: `Spec => Lease!Spec` with `holder <- owner` and `writing <-` the threads altering the target.

The mutex in this argument that keeps a stale write out is `mtx_`, not `ownership`: between the check of the device epoch and the access a local
transport loss may happen; it clears `connected` before it gives up `mtx_`, and so `enter` refuses. That is the
second disjunct of `WriteBound`.

`JLinkPortProofs` on the lock, for any finite set of threads smaller than the number of counter values (`MutexAssumption`):
`TicketsInductive` (the tickets of the waiting callers are consecutive from `serving_` on, modulo `Width`), `MutexExcludes`, and
`MutexIsFair` (refinement of `FifoLock`). The code's counters are 32 bits wide, so the assumption says that fewer than 2^32 threads wait.

`MotorControllerProofs`, for any queue length (`MotorAssumption`): `Inductive` proves `IInv`, which joins to the
types what makes the three safety properties survive a step. `CommandKept` ties `cmd`, `processing_` and the
worker's place to each other; `Leased` says at every step but the catch block, which is on its way to a stop, that a moving axis
without a lease has a history; `LapseKept` says what follows from that history: a lease begins a new one, an axis behind a closed
connection was reported, and one the SDK holds and nobody reported has its watchdog running; `RenewalBound` says that a round
which believes in the heartbeat has not renewed late yet. From it: `TypeCorrect`, `MotionUnderLease`,
`FailedRequestsRevoke` and `LateRenewalOnce`. A first version of `IInv` without the clause on
the restoring mode switch is invariant too, but not inductive. The heartbeat's liveness stays with TLC.

`JLinkPortProofs` on the session, for any number of attempts, texts and any queue length (`SessionAssumption`): `SessionInvariant` proves
`IInv`. `SessionKnown` is not inductive: that a `close` finds both readers dead depends on who holds which life-cycle mutex
(`Locks`), that nothing starts a terminal between `close` and the next attach (`Quiet`), and that only the worker, under
`mtx_`, opens, attaches and hands over (`SessionHeld`). `TextKept` places every text between the last one received and the last one accepted:
the queue holds an interval, the reader's copy its front. `Resuming` is about the end of an attempt to connect: what the user wants
is what `rttStart(true)` looks at (`WishKept`), and from the moment the attempt is over RTT is active, or one of the
excuses of `RttResumed` holds and goes on to hold (`Resumed`). From it `SessionIsKnown`, `ReadersFirst`, `TextOrdered` and `Resumes`.

`JLinkPortProofs` on the gate, for any windows, builds and files (`GateAssumption`): `GateInvariant` proves `GateTypeOK`; `TablesFollow` (the tables of
the other tools are of the file the gate judges, while it lets them pass); `RequestsFollow` (a request still bound to
the present epoch was formed from the window's present file); `GateCloses` (a load in progress is known to a fresh check);
`SamplesFollow`; `ForceFollows` (an override of this boot is the user's, unless the next check will forget it). From it
`GateTyped`, `SamplesCurrent`, `RequestsCurrent`, `MismatchesApproved`.

`HssSamplerProofs`, for any layouts, frame sizes, buffer, counter width and period (`HssAssumption`: a period is shorter than half the
counter, or `timestampAdvances` would reject every frame; on the probe 2^31 ticks of a microsecond): `StreamInvariant` proves `IInv`. The published frames say nothing of the
bytes that are still to come, so the invariant speaks of one `Line` of cells, the host's buffer followed by the probe's.

* `Placed` gives the place of every cell in its frame and of every frame before the line's end; `Clocked` lets the stamps of
  successive frames differ by 0 or one period. A read only moves the border inside the line, whatever it splits; `retainTail` takes whole frames
  from its front and the probe appends one at its end, and lemmas on sequences show that each keeps both.
* Nothing is known of a stream whose restart is due (`Broken`): a changed layout, a lost connection and a full buffer leave bytes of which the invariant
  only says that nothing is published from them before the restart (`Session`).
* `Clean` adds, while nothing was torn out by *Clear data* (section 6), that the line holds whole frames and continues the last published one;
  `TimeBase` ties the decoder's 64-bit time line to the true stamp of the next frame, modulo the counter.
* The time of the f-th frame of a batch is a sum of the gaps before it, defined by recursion. `SumsAre` says what it is for a batch of growing stamps; its
  induction is an argument by the least counterexample (`LeastOf`, from the well-foundedness of the naturals).

From it `FramesWhole`, `TimesFaithful` and `FramesFollow` (`NoGap`).

`MonitorChannelProofs`, for any block and resolution, any limits, stamps and bounds (`DeltaTsAssumption`, `MonitorAssumption`): `HistoryInvariant`
proves `IInv`. The series are not bounded, and the steps of the model push or drop any number of samples by recursion, so each such loop is an argument
by the least counterexample (`LeastOf`) over what one push or pop keeps.

* `Sound` says of one store where its anchors are: one for each block from the front's to the newest sample's, and offsets that are multiples of the resolution.
* `Writer` and `Reader` say that each store grows (`Rising`), and by half a resolution at least (`Spaced`). The writer's new stamps are a
  resolution away from the last one, so rounding leaves half of it. The GUI rounds these rounded stamps again, from anchors of
  its own, and could lose the other half. That it does not is `InStep`, the heart of the proof: where the copy takes a sample in the middle of a block of its own while the
  writer is in the middle of one, either the two anchors differ by a multiple of the resolution, and the copy hits
  the writer's stamp exactly, or the copy's block ends before the writer's; and a sample at the start of a block is exact in the copy.
* `Published` maps the writer's published samples to the end of the copy, at times half a resolution apart at most; `Later` orders what
  is not published yet after all the GUI shows, and `Newest` orders the next sample after it once everything has been discarded.
* A discard searches the writer's store by the times the GUI shows (`VisibleTs`). `Published` and `Later` make these times grow too, so
  the searches end at the same samples in both stores; from then on both keep exact times.

From it `StoresAlwaysAgree` and, by what each action does to a sample both before and after it shows, `SeenTimesKept`. The attempt at the first of them
corrected the model: with a resolution of three units TLC found two stamps of a clone that met, since the clone's next sample was dated from the
stamp its original held and not from the copy's (section 2). The proof also uses that a trim leaves the newest sample (`MinKeep`); a trim
to nothing is not a state of the program, and TLC finds no violation there either.

`PeerSamplerProofs`, for any number of blocks, any ring and any bounds (`SamplerAssumption`): `SamplerInv` adds to the two
properties where the epochs stand while the holder of `mtx_` moves them (`IoHeld`, `EpochsFollow`), that between the
join and the next launch there is neither sampler nor frame (`Joined`), that the blocks already read are of the epoch the frame was
begun in as long as the last comparison can still pass (`FrameGrows`), that the ring holds the latest frames of the
run in order (`RingAccounted`), and that a run nobody stopped ends only with an error kept for it (`ErrorKept`). From it
`TypeCorrect`, `FramesWhole` and `AnswersAccounted`.

`PeerLinkProofs`, for any clients, operations and bounds (`LinkAssumption`, and `NoneAssumption`: the mark for "no request" is not a
request): `LinkInvariant` proves `LinkInv`. A direction holds one message at most, so the invariant speaks of the
sessions with a message (`Asking`, `Answering`) and of the message itself (`Question`, `Reply`), and of the landed writes as a
set. `Asked` and `Answered` give `OwnAnswers`: what is under way on the socket a thread in `rpc` waits on is its own
question or the answer to it. `WritesOrdered` is not inductive; it rests on `Pending`: a write left behind on an old
session can land only while that session owns the lease, and as long as it does nothing newer of its client has landed.
`AnswersTrue` says that an answer under way is still true when it arrives, from which `ControlIsHonest`: a
session whose answer grants control has the lease until it asks for release or is over.

`AsyncLogProofs` has two parts. The queue, for any nodes and threads (`MpscAssumption`): `ChainInvariant` says that the stored
links, with those stalled producers still owe, form one chain in the order of the exchanges, from the consumer's tail to `head`, in
which the stub has the place the consumer gave it; `LinksInside`, that nobody writes into a node that was handed out;
`MpscIsFifo`, that `Mpsc` used within its contract implements `FifoQueue`.

The log, for any workers, chunks, capacities and failures (`LogAssumption`; workers are numbered from one on, as the array of
producers is): `LogInvariant` proves `LogInv`, which speaks of the chunks in the queue and the records in a chunk as sets
(`Queued`, `Content`), so that of the sequences only their elements matter.

* `Alone` and `Stopping` keep two flushes apart: `busy` does while the flusher and the crash handler run, and in `log_deinit`, which
  does not take it, the end of all other threads. With `Owned` (a chunk is free, with one producer, on its way, queued, or in
  hand) this is the queue's contract: `QueueKept`.
* `Apart`, `Sinks`, `Accounts` place each stored record in one chunk in use, the buffer, the system or the lost ones. `Charged` bounds
  the loss: a failed write condemns the buffered lines, and the sync or the close that follows the next one;
  a file that has failed and is still open has therefore lost strictly less than a full file and one line per failure. From
  these `Conserved`.
* `HandedOver` and `TakenOut` follow what a flush has to cover, by the place of its thread: first out of the producers' chunks with an
  index below its own, then out of the queue. `Seen` says what an empty answer of `mpsc_pop` means: unless a push overlapped it, no
  link is unstored and the queue is empty. From these `FlushesCover`.

The steps of a writer and of a flush are first brought into the form of what they do to each variable (`LogStep`); then one lemma
per conjunct of `LogInv` has a step for each of them.

## 6. Findings

`hss_clear`: *Clear data* sets a flag in the monitors and, separately, asks for a restart of the HSS stream. The
sampler acts on the first in its refresh block, on the second where it configures HSS. If the GUI asks between the
two, or while the sampler's `try_lock` fails, the stream is restarted first and the carried partial frame of the new
stream is dropped one iteration later (`sampler.cpp:566`), against `hss_stream.hpp:39`: "Preserve every incomplete
frame, including reads containing no full frame". The bytes that follow are cut out of place until a misread time
stamp fails to advance. This affects plotted data only.

Two remarks from modelling the motor controller, where the code does less than `docs/motor_control.md` says. `MotionIsLeased` and
`SilenceStops` name both cases, so that everything else is checked and proved.

* A failed stop may go unreported. A poll that throws reports its error and sets `pollError`, which only a good poll or a connect
  resets. If a queued Enable succeeds next and the poll after it finds the feedback lost or the command expired, a `stop()` that
  throws there (`motor_controller.cpp:1056`) has already cleared the lease, and the handler, which takes it for one more error of the same run, neither tries
  again nor reports it (`1095`). Line 118 of the document has "错误显示在页面和操作记录中", errors are shown on the page and in the log.
  The drive's watchdog ends the motion (`"muted"`).
* A zeroing command may run on an enabled axis. Line 62 of the document has "校准、无感、标零和清错要求先失能", calibration, sensorless, zeroing and clearing
  faults require the axis to be disabled first. The page looks at the last snapshot only; between the end of an Enable and the end of the next
  poll, which may wait long for the probe, it still shows the axis disabled. The special command then drops the lease (`motor_controller.cpp:546`, `870`).
  Through the SDK the watchdog ends the motion; a J-Link axis moves on with no lease for the silence of the GUI to revoke (`Unwatched`), until
  it is disabled or disconnected.

Two remarks from modelling the gate. `setFirmwareSource` and `removeFirmwareSource` return without telling the gate while a remote
device is used (`jlink_port.cpp:1214`, `1241`); a window whose file changed then is judged by its former file when the local
probe is selected again, until the next load. The properties except such windows (`missed`). And the writer's and the GUI's time
stamps of one sample may differ by a rounding; `discardTimeRange` knows (`monitor_channel.hpp:656-666`) and the mutant of
`StoresAgree` shows what would happen if it did not.

## 7. Not modelled

The reasons are in `components` in `PROJECT.json`: parsers, parameter files, fault tables, numeric simulation and drawing
are sequential; the HTTP clients, storage maintenance, dialogs and instruments are I/O. Most lines of the repository are
vendored libraries (`thirdparty/`: ImGui, ImPlot, GLFW headers) and GUI drawing.

## 8. Plan

Done: sharing, probe lock, remote sampling, client, HSS, motor, probe session and terminals, firmware gate, queue and log, sample
history; the proofs of each, except the pyramid of the last. Next, most important first:

1. `SamplerWrites`: the dirty-variable writes and POLL reads against edits of the variable table.
2. `Spsc` of ckit as a FIFO of bytes; `Mempool` as a partition.
