# Verification of virtio-device-poc

TLA+ models of the vhost-user back-end (`vhost-user/`), the virtio-gpu device
(`device/virtio-gpu/`) and the virtio-console device (`device/virtio-console/`),
checked with TLC on small instances, and theorems about them proved with TLAPS for
every instance. The source lines of each definition are in `PROJECT.json` under
`map`.

## The system

A virtual machine's front-end speaks vhost-user to a daemon. One connection
thread serves its requests, one at a time; the device runs threads of its own;
both share the vrings.

| component | state | operations | interacts with | hard part |
|---|---|---|---|---|
| `Vring` | enabled, kick, call, list of epolls, `Queue` (ready, next_avail) under a mutex | start, stop, set_kick, set_call, set_enabled, try_lock_queue, read_kick, signal_used_queue, register_self | connection thread, device threads, epoll | three kinds of synchronisation (atomics, queue mutex, epolls mutex), no common lock |
| `VhostUserHandler` | device_activated, memory_updated, features, mappings | one per request | Vring, device.activate | errors of the vring are unwrapped; requests in any order |
| gpu worker (`GpuWorker`) | its epoll | handle_queue_event, process_queue, process_queue_chain | control queue, rutabaga | EVENT_IDX, errors end the thread |
| fences (`FenceState`) | descs, completed_fences under a mutex | create_fence, process_fence, fence handler | rutabaga's threads, control queue | responses out of order, two mutexes |
| gpu resources (`RutabagaVirtioGpu`) | resources, scanouts | create, unref, set_scanout, flush | rutabaga, front-end display | association kept twice, commands refused half-way |
| gpu protocol (`protocol.rs`) and device (`device.rs`) | the worker's thread handle, exit event, socket | decode, encode, activate, stop | worker, rutabaga, connection thread | lengths, errors that end the thread |
| console control (`MainWorker`, `ConsoleControl`) | message queue, eventfd | process_rx, process_tx | ports, guest | stop, lost messages |
| console ports | eof, byte streams | process_rx, process_tx, start, shutdown | control, stdin/stdout | blocking with the queue locked, EOF |
| `EventManager`, event tokens | epoll | add, wait, wait_one | all workers | a batch of events grows stale |
| dirty log (`bitmap.rs`) | mapped bitmap per region | mark_dirty, dirty_at, replace | workers, set_log_base | page arithmetic |
| daemon (`lib.rs`) | connection thread | start, wait, serve | handler | the device is never stopped |

What would make each correct: a stopped or disabled ring is left alone, its
answered index is final and no interrupt is lost; a kick is never lost; requests
are answered; every descriptor goes back exactly once, after its fence; scanouts
and resources agree; control messages and port bytes arrive in order and once;
stop ends the threads; every written page is marked. The hazards behind these,
each at its line, are in `PROJECT.json` under `hazards`.

## Modules

### `Vring` and `Ring` (with `MCVring`, `VringProofs`)

`vring.rs` as the requests of `handler.rs` drive it and the device threads use
it. `hpc` is the connection thread's place in a request and `hring`, `hreq`,
`hold` its locals; `wpc[t]` is a device thread's place and `wring`, `wfd`,
`todo`, `irq` its locals. A step is one atomic load or store, one `epoll_ctl`
loop under the epolls mutex, or one operation under the queue mutex, so every
point at which another thread can look is a state.

* `set_vring_kick` is `SetVringKick` (swap), `IsStarted`, `Rebind`
  (update_epolls), then `InitializeVring`, `Start`, `WatchKick`, `Activate`.
  `get_vring_base` is `GetVringBase`, `Stop`, `Halt`, `ReadBase`, `DropKick`
  (then `IsStarted` again), `DropCall`.
* `reg[r]` is what the kernel's epolls hold for a ring, `epolls[r]` what the
  vring believes. An `epoll_ctl` that fails is an `unwrap` in every caller: `hpc`
  becomes `"panicked"` (EEXIST, ENOENT) or `"ebadf"` (the old eventfd was closed
  first), with any part of the epolls updated before it.
* `Closed` models Rust's ownership: the old kick dies in `set_kick` unless a
  thread still holds the `Arc` it loaded (`wfd`).
* A worker registers (`RegisterLoad`, `RegisterCtl`, `AddEpoll`), waits for a
  batch of events (`Wait`, `NextEvent`), and then `ReadKick`, `KickEnabled`,
  `TryLock`, `Lock`, `Check`, `Pop`, `Drained`, `Signal`.
* A completer is the fence handler of the gpu. It has the fence_state mutex from
  `FenceHandler` to `FenceReturns` (`FenceFree`) and takes the queue under it for
  every descriptor that matches (`Complete`); the worker takes fence_state with the
  queue locked (`ProcessFence`). With `Polled` the handler is called on the worker from
  `event_poll`, so a worker does nothing else meanwhile (`AtLarge`); without, rutabaga
  has a thread for it, and the two mutexes can be taken in opposite orders
  (`FenceDeadlock`, the finding `gpu_fence_thread`).
* A chain may be one the worker cannot process (`Fail`): an error returns from `run`
  without the interrupt for the chains used before, a panic (a command without an
  implementation, a port's `assert_eq!`) poisons the queue mutex, and whoever takes it
  next panics as well (`LockPoisoned`, `QueueMut`). The worker's epoll goes with it
  (`Die`): `update_epolls` upgrades a `Weak` in vain.
* Without `EventIdx` a worker that is not a port signals nothing: `handle_queue_event`
  drops what `process_queue` returns. The handler of a fence signals always; its
  `add_used` is taken to succeed here (`GpuCommand` has the one that fails).
* `Sync` distinguishes the gpu, whose `activate` waits on a channel for the
  registration, from the console, whose `activate` does not (its threads may
  register arbitrarily late). `Ports` are console port threads, which are also
  woken by their I/O (`IoReady`) and signal after dropping the guard. The end of
  a port thread at EOF and what it does with its chains are in `ConsolePort`.
* Requests are issued with valid indices; the `InvalidParam` returns change
  nothing. A front-end passes a new eventfd every time (`Fresh`), and
  `SET_VRING_BASE` an index the driver has published.
* `Ring` is the abstract specification: what a front-end may rely on. The device
  works on a ring in sessions, one at a time and only while the ring runs; a stop or
  a rewind falls between two sessions; GET_VRING_BASE answers the index of a stopped
  ring. `Vring` implements it under `running <- ready`, `index <- next_avail`,
  `published <- avail`, `answer <- base` and `session <- Sessions`, the rings whose
  queue a thread has.

### `GpuFence` (with `GpuFenceProofs`)

The control queue of the gpu and its fences. Commands are numbered by their place
in the avail ring; the number stands for the head descriptor and the fence id,
because the driver counts fences up. `available` is the state of the vring as
`try_lock_queue` sees it (details in `Vring`). The worker's steps are those of
`handle_queue_event`, `process_queue` and `process_queue_chain`; `enable_notification`
is two steps (`Arm`, `Recheck`), as the driver can publish between them. A fence
handler per ring runs `Enter`, `Scan`, `ReturnDesc`, `Leave`, each a step under
the mutex it needs. `threaded` chooses between the two ways rutabaga calls it: on
a thread of its own, or on the worker from `event_poll`; `event_idx` whether the
driver negotiated the feature. `Fail` is any error of `process_queue_chain`, which
`worker.run().unwrap()` turns into the end of the worker thread. `FenceSignalled`
is external: fences of one ring complete in increasing order.

### `GpuScanout` (with `GpuScanoutProofs`)

One action per command. `host` is rutabaga's set of resources, `shown` what the
front-end was told, `painted` a record of the last flush; `torn` is set when a
command is refused after it changed something. Calls to rutabaga and messages to
the front-end may fail wherever the code handles an error.

### `GpuCommand` (with `GpuCommandProofs`)

The gpu's worker as a server of commands, and `GpuDevice` around it. A chain is
its type, the bytes of its readable and its writable part, whether it asks for a fence
and whether `add_used` will take its head. `Decodes` is
`GpuCommand::decode`, which fails where the descriptors end; `Answers` what
`process_gpu_command` can answer, rutabaga and the front-end being free to refuse;
`CanEncode`, `EncodedLen` and `WrittenLen` are `GpuResponse::encode`: whether it
succeeds, the length it returns and the bytes it has put into the chain, which are
three different things. The sizes are sums of the structures' fields. `Pop` and
`Reply` are the two halves of `process_queue_chain`: an error of `create_fence`
replaces the response, and a fenced chain is returned or kept by `FenceState` (`held`),
which returns or drops it later (`FenceDone`). `worker = "dead"` is a thread that
panicked: the `panic!` of the blob commands and of ResourceAssignUuid, an error of
`encode`, of `add_used` or of a `Reader`, which `run().unwrap()` turns into the end of
the thread, or a `copy_from_slice` of a wrong length. `SetGpuSocket`, `Activate`, `Activated`,
`Stop` and `Joined` are the device's side, with the channel of `activate` in
`report`.

### `ConsoleControl` (with `ConsoleControlProofs`)

The control plane of the console. `queue` and `queue_evt` are `ConsoleControl`'s
message queue and its eventfd, `Push` is `push_msg` / `push_vec`; `Answer` is what
the worker pushes for `DEVICE_READY` and `PORT_READY`. The main worker takes a
batch of events from epoll (`Wait`, `Event`) and is then in `process_rx`
(`rxlock`, `rxpop`) or `process_tx` (`txlock`, `txpop`, `txpush`); a push is a step
of its own as the ports' threads push too. A message is written or lost
(`WriteMessage`): `process_rx` loses any message, and the buffer it popped for it, when
the buffer has no room for it or the write fails; `taken` has the messages in the order
of their buffers. `Activate` has the mapping of ports to queue indices, `Stop` and
`Joined` are `Console::stop`. `Quit` is modelled as what it does: it leaves the loop
over the batch. The front-end enables, disables, starts and stops the control rings
(`SetEnabled`, `StartRing`, `GetVringBase`; how, is in `Vring`); `TryLock` needs a ring
that is enabled and ready. `missed` notes a wake-up that was consumed while the queue
was disabled or stopped, or that went with the kick of a stopped ring.

### `ConsolePort` and `Pipe` (with `ConsolePortProofs`)

The thread of a port, in either direction (`kind`). `top`, `wait`, `lock` are the
event loop, `pop`, `io`, `block`, `use` hold the queue mutex. `ring` has the end
offset of every published chain in the stream of bytes, so that a chain put back,
used or half written is an equation between `start`, `cur` and `done`. A `Read` or
`Write` is one `read_volatile` / `write_volatile`: some bytes, none, the end, or an
error. A write can fail for good (EPIPE) or once (`errors`); the chain is put back in
both cases and, if the output recovers, written again from its start. A descriptor that
runs out of mapped memory trips `assert_eq!(n, desc_len)` and poisons the queue
(`"panicked"`). The file is edge-triggered (`edge`); the output blocks with the queue
locked (`Writable`), and `Vring::stop` on the connection thread waits for that mutex
(`GetVringBase`, `RingStopped`). `RingReset` is the rest of GET_VRING_BASE,
`set_kick(None)` and `set_call(None)`: the thread signals after it has released the
queue, so its signal can find no call eventfd (`call`). `add_used` is taken to succeed.

`Pipe` is the abstract specification: bytes come out once and in order, and the
reader is told of the end together with the last of them; after a failed read bytes
may be missing, after a failed write they may be repeated. `ConsolePort` implements
it under `sent <- put`, `got <- done`, `closed <- told`, `lossy <- failed` and
`rewound <- failed /\ ~ IsInput`.

### `Handler` (with `MCHandler`, `HandlerProofs`)

The requests that `Vring` leaves out, one action each: memory table and regions
(`mem` is the mapped memory, `mappings` the table of `vmm_va_to_gpa`), ring
addresses (`set_queue_info` field by field), the start of rings and the activation
of the device, reset, the end of the connection, and `SET_LOG_BASE`. The latter
replaces the bitmaps one region at a time (`ReplaceBitmap`) while device threads
write through a snapshot of the memory they loaded earlier (`snap`). A write
(`DeviceWrites`) and its `mark_dirty` (`MarkDirty`) are two steps, with the bitmap the
region has at the second; a read from a file that fails has written nothing and marks
the whole buffer (port_io.rs:143). `Fits`, `MarkedPages`, `page_word` and `page_bit` are
the page arithmetic of `bitmap.rs`. `gen` tells two mappings of the same region apart.
`written`, `base` and `early` are history variables: pages that were or may have been
written, regions that had a log, rings that started before the memory table.

The handler is generic in the device's `Bitmap`. Both devices of the repository have
`()` (vhost-gpu/src/lib.rs:97, vhost-console/src/main.rs:17), whose `MemRegionBitmap::new`
refuses every region (bitmap.rs:47-50): for them (`Loggable = FALSE`) SET_LOG_BASE
succeeds on an empty memory only and nothing is logged. The run and the theorem about
the log are about a device with `BitmapMmapRegion`, for which the code was written.

## Runs

| run | shows | instance |
|---|---|---|
| `vring_gpu` | `Vring` implements `Ring`, stop is final and owes no interrupt while no worker ended, epolls agree with the kicks, `epoll_ctl` never fails with ENOENT or EEXIST, kicks are served and requests return, unless a queue is poisoned or the mutexes of `gpu_fence_thread` deadlock | 1 ring, worker, fence thread (`Polled = FALSE`), EVENT_IDX, 2 eventfds, 1 chain; 231k states |
| `vring_console` | a stopped ring is left alone by a port as well, which registers late, looks at its queue without a kick and may panic with it | 1 ring, port, 3 eventfds (symmetric), 2 chains; 441k states |
| `vring_kick` | violation: replacing the kick of a watched ring is EBADF | as `vring_gpu` |
| `gpu_fence` | descriptors conserved, no early response, no missed fence, no kick suppressed that the worker needs, no wait for a mutex under event_poll, commands are executed, completed fences return | 2 fence rings, 3 commands; 768k states |
| `gpu_fence_thread` | violation: queue mutex and fence_state in opposite orders | 2 commands |
| `gpu_scanout` | association agrees, scanouts with a resource are shown, flushes hit their scanouts | 2 resources, 2 scanouts; 4.5k states |
| `gpu_scanout_unref` | violation: a refused unref removes the resource | as `gpu_scanout` |
| `gpu_command` | the used length is what was written (two exceptions), what can end the worker, every command is returned or handed to `FenceState`, stop joins | 2 commands of any type at the edges of their length, fenced or not, 5 response sizes; 80k states |
| `console_control` | the handshake is in order, a buffer is taken only with a message, used buffers are signalled, activation finds its queues, no wake-up is lost but those of a queue that is disabled or stopped, and so with messages and commands | 2 ports, 2 commands, 6 buffers, 1 disable or stop; 1.43M states |
| `console_stop` | violation: `Console::stop` never comes back | 1 port, 1 command |
| `console_port` | a port implements `Pipe`, used chains are signalled unless the call is gone, bytes keep moving, GET_VRING_BASE and stop come back | input and output, 3 bytes, 2 chains of 1 or 2 bytes, output of 1 byte, 1 disable, 1 write error; 347k states |
| `handler` | the two copies of the memory map agree, ring addresses lie in memory, an early ring does not use up the activation, the log has every full page that was written and no page that the device left alone, refused requests leave memory, mappings and log alone | 3 regions of which two overlap and one starts within a page, 5 tables, 2 memory changes, 2 logs, 1 unmarked write at a time; 966k states |

Bounds. Rings do not share state, so one ring shows every interference between
the connection thread and the device threads; several rings matter only to the
order of a batch of events. Two eventfds are an old and a new kick; the third in
`vring_console` is one that is still registered. One published chain is enough
for a ring that is ahead or behind; two allow a chain to be popped on either side
of every step of the handler. Two fence rings and three commands give fences of
one ring in order, of two rings out of order, and an unfenced command between
them. Response buffers of 0, 23, 24, 408 and 1056 bytes are no room, one byte
short of a header, a header, and the exact sizes of display info and EDID; each
command's request is a byte short of its header, a byte short, or complete. Two
ports of which one is the console and one has a name have every message; three
buffers per kick and six in all leave the queue empty, short, and long enough for a
handshake. Chains of one and two bytes against an output of one byte give partial
reads and writes, a blocked output in the middle of a chain, and a chain put back
after another was used; one write error (`MaxErrors`) gives a chain written twice. One
pause (`MaxPauses`) is a queue disabled, or stopped and started again, at any moment.
In `handler` a page has 16 bytes and a log word two pages;
one region ends within a page, two share a word, and one write crosses a page.
`MaxMaps` and `MaxLogs` allow a region to be replaced while the device still has
the old one, `MaxWriters` a write that is marked after the log was replaced. The theorems lift the safety properties they state to all sizes.

No passing run checks deadlock, as every system may stop: guest, host and front-end at
their bounds, threads end (at the end of the input, at Quit, at a chain that cannot be
processed) or panic, a connection is closed; in `GpuScanout` a command that changes
nothing is a stuttering step. That what must go on does go on is stated by the liveness
properties instead.

Fairness. The operating system runs every thread: weak fairness of each worker,
fence handler, completer and port thread. A mutex that is released again and again
is obtained in the end: strong fairness of each worker, of a fence handler that has
something to return, and of the connection thread in `Vring`, which wait for the same
mutexes; in `ConsolePort` weak fairness of `RingStopped \/ RingReset`, which is enough
there. A fence handler comes to the end of `descs`, which the code walks once (strong
fairness of `FenceReturns`). The driver looks at
`avail_event` after it has published (`Kick` in `GpuFence`). A join that can return
does (`Joined` in `ConsoleControl` and `GpuCommand`). epoll reports its ready
sources in turn and so does not pass over stopfd for ever (`WakeToStop`). In
`ConsolePort` somebody reads the output (`HostReads`): `RingStops` and `ThreadEnds`
say what the code does for an output that is read. The bad case is assumed away: a
blocked `process_tx` on an output that nobody reads or closes holds up GET_VRING_BASE
and `Console::stop` for ever, as `wait_until_writable` has no timeout and does not poll
stopfd. Nothing is assumed of the
front-end, of the guest, of rutabaga's fences, of a port's input, or of commands
failing.

## Findings

The violation runs are disagreements between the code and its own comments;
`PROJECT.json` quotes them.

* `vring_kick`: `old_kick_efd.map(|fd| ...)` consumes the last reference, so the
  eventfd is closed before it is deleted from the epolls.
* `gpu_fence_thread`: the fence handler and the worker take fence_state and the
  queue mutex in opposite orders.
* `gpu_scanout_unref`: the resource is removed before it is checked.
* `console_stop`: `break` leaves the loop over the batch, not the thread.

## Observed

What the models show about the code besides, where no property of a passing run
can promise the contrary; the exceptions written into the properties are these.

* The console's `activate` does not wait for `register_self` (vring.rs:221): a
  SET_VRING_KICK between its load of the kick and `add_epoll` leaves the worker
  on the old eventfd. `WatchedIffStarted` and `EpollCtlNeverFails` are therefore
  stated for the gpu, whose `activate` waits.
* RESET_DEVICE, which is in `Handler` and not in `Vring`, stops the rings and keeps
  their kicks (handler.rs:216). After activation it also ends the gpu's worker and
  with it the epoll, so that nothing is left to disagree. Before activation it
  leaves stopped rings with a kick: with two rings the worker then registers, at
  the activation by the first, the kick of the second as well, and the later
  `Vring::start` of that one is EEXIST. `WatchedIffStarted` and
  `EpollCtlNeverFails` say nothing of a front-end that resets so early.
* `set_enabled` (vring.rs:115) does not take the queue mutex: a worker in its
  critical section pops chains after SET_VRING_ENABLE 0 was answered, unlike the
  comment at handler.rs:495.
* `read_kick` resets the counter before `try_lock_queue` looks at `enabled` and `ready`:
  a kick or a `queue_evt` that is read while the ring is disabled or stopped is
  consumed, and neither enabling nor starting the ring looks at the queue (`missed` in
  the console's modules). A kick that was not read goes with the eventfd at
  GET_VRING_BASE.
* Without EVENT_IDX the gpu's worker never interrupts the driver: the result of
  `process_queue` is thrown away (worker.rs:131). With it, an error on a later chain of
  a batch (worker.rs:121) ends the worker without the interrupt for the earlier ones.
  `StoppedRingIsSignalled` excepts both.
* A port signals after it has released the queue (process_tx.rs:39-42): a GET_VRING_BASE
  in between takes the call eventfd away (handler.rs:417) and the guest is not
  interrupted. `UsedIsSignalled` of `ConsolePort` excepts it.
* A panic with the queue locked (a gpu command without an implementation, the
  `assert_eq!` at process_tx.rs:73, a PORT_READY for a port that does not exist) poisons
  the mutex: the next request for that ring panics on the connection thread.
* A write to a port's output that fails puts the chain back, with a part of it written
  (process_tx.rs:83-86): if the output recovers, the bytes come twice.
* A control message is lost, with the buffer popped for it, when the buffer is too short
  or the write fails (console_control.rs:273-285), the first messages of the handshake
  too.
* A fenced response whose ring is unavailable when the fence completes is dropped
  (the FIXME at virtio_gpu.rs:343).
* RESET_DEVICE stops the device and keeps `device_activated`: it is not activated
  again. Nor is it after an `activate` that failed, as handler.rs:163 sets the flag first:
  a started ring may have no device. ADD_MEM_REG does not set `memory_updated`: with it alone the device is
  never activated.
* The last page of a region that ends within a page is never marked in the log
  (`Partial`). A region that does not start at a page has its marks in the wrong pages
  (`Aligned`); no code checks the alignment.
* An EDID that is not 1024 bytes long panics in `encode`; plane info that fits is
  not written although its length is reported; a capset that is cut is reported in
  full.
* `process_tx` of the control queue returns every chain under head index 0, and a
  chain it cannot read under none.
* A port at the end of its input ends without the interrupt for the last chain; if
  it had nothing to put into the chain, the guest is not told of the end.

## Proofs

The assumptions are the constants' (`ConstantsAssumption` in each module, evaluated
by its runs): types and distinct markers. Nothing else is assumed.

`VringProofs`: for any rings, workers, completers, eventfds and service assignment.
`StoppedRingIsQuiet` is not inductive: a thread could be in the critical section
without the lock. `StopInv` adds that a thread in the critical section owns the
queue mutex (`LockHeld`), that `stop`'s request keeps the ring not ready until its
end (`StopHeld`), and `BaseIsFinal` itself; `Halt` needs the free mutex, hence no
thread is processing, and `Check` lets a thread in only when the ring is ready.
`StopOwesNoSignal` holds when there are no ports, with EVENT_IDX and until a device
thread ends on a chain (`Failed`): an interrupt is owed only by a thread inside the
critical section (`SignalOwed`), and workers do not exist before activation (`Dormant`).

`WatchedAgrees` and `EpollCtlSucceeds` are proved under the hypothesis `Sync`, for the
gpu: its `activate` waits on a channel until the worker has registered; for the console
they are false (see Observed). What is registered is not a function of the ring's state
alone but of the place in the request, so `WatchInv` says for every place of the
connection thread which kick the epolls hold (`Registered`, `RegInv`); that a ring that
is not ready has no kick, but for the ring of a request about to start or just stopping
it (`StoppedHasNoKick`: otherwise a worker would register a kick that `start` adds
again); that a new kick differs from the old one (`NewKick`); and that a worker
registers only while `activate` waits, with the kick the ring still has
(`RegisterHeld`). The EBADF of the `vring_kick` finding and a poisoned queue are places of their own,
where the connection thread is gone; a worker that ends takes its registrations and its
place in `epolls` with it.

`VringKeepsContract` is the refinement of `Ring`. It needs `LockHeld` for more than
the stop: only one thread can have a session of a ring (`OneSession`), and a free mutex
is what shows that `Halt` and `SetVringBase` fall between sessions
(`FreeHasNoSession`). `StartHeld` says that `start` finds the ring stopped.
`QueueNeverLeaked` is the converse of `LockHeld`: who holds the mutex is in the critical
section, or has panicked there. Its second half, `HolderGoesOn`, is what that alone
does not give: the thread inside can still wait for fence_state. With polled fences it
does not, as a fence handler runs only while every worker is in `event_poll`; with
threaded ones it may, for ever, which is `FenceDeadlock`, the exception of
`RequestsReturn` and `PendingKickServed`.

`GpuFenceProofs`: for any fence rings and number of commands. `FenceInv` adds to
the three properties that a handler looking at `descs` holds fence_state
(`FenceHeld`), that it is not behind its ring's last completion (`HandlerAhead`),
that an open fence is later than everything its ring has completed or is
completing (`OpenAhead`) and that a signalled one has been noted or is being
handled (`SignalledSeen`). A fence signalled between `create_fence` and
`process_fence` is then either noted, and the response returned at once, or its
handler has yet to take fence_state. `KickComes` and `NoCommandForgotten` need
`Armed`: a worker that sleeps, or that has written avail_event and not yet looked
again, asked for a kick at the index it looks at next. `PollingNeverWaits` needs that
the mutexes are held where the code has their guards and nowhere else (`GuardsHeld`),
and that event_poll runs one handler while the worker does nothing else (`OnePoll`);
without the second the lock order of the `gpu_fence_thread` finding is a deadlock.

`GpuScanoutProofs`: for any resources and scanouts. `ScanoutInv` adds that until a
command is torn the resource of every scanout is in the map, which is what makes
the exclusive or of `disable` a removal (`DetachedFacts`) and a new resource one
that no scanout names.

`GpuCommandProofs`: for any response sizes, capsets and EDIDs. `UsedLenHonest` and
`WellFormedSurvives` follow from `CommandInv`: the response in hand is one the
command in hand can have, so display info, capset info and an EDID answer only the
commands that ask for them (`AnswersFit`), and the chain in hand is one the driver can
make, fenced or not. `FitsIsEncoded` says that a response that fits is encoded, `LengthsDiffer` that
the returned and the written length differ for plane info and capsets only.

`ConsoleControlProofs`: for any number of ports and any bounds. `ControlPanics` needs
that the queue indices of the ports are distinct, in range and none of the control
queues' (`QueuesAreThere`), so `activate` never meets a missing queue. `ControlSignals`
is `IrqInv`: outside a queue's loop nothing is owed, inside it `raise_irq` is set as
soon as something is. `ControlKeepsBuffers` says that `process_rx` pops a buffer before
it knows of a message and puts it back when there is none, so that a write that fails
loses a message and a buffer, and never a buffer alone. `ControlInOrder` counts: for a pair of messages of which the first has to
come first, the lead of the first over the second is never negative in the buffers
taken, nor along the queue after it, nor along what the worker still has to push
(`Ahead` in `OrderInv`, with the lead as a function of the position, `Path`). An answer
has the first of a pair before the second, and other messages do not count.
`ControlWakesUp` is inductive with the types and that only a started ring has a kick
(`KickOfStarted`): every step that adds a message, a buffer or a command leaves a
counter behind, `process_rx` reads the counters before it looks, and a queue that is
disabled or stopped by then, or stopped with an unread kick, is in `missed`.

`ConsolePortProofs`: for any chains, room and bounds. `PortImplementsPipe` is the
safety part of the refinement: initial states map to initial states, every step to a
step of `Pipe` or a stutter. `PortInv` adds to the types that the chains' ends ascend
from `start` to `given` (`ChainsInOrder`), that `cur` is within the head chain
(`CurOfHead`), that until a read fails `put = done + cur + file` on the input side
(`InputConserved`), that until a write fails what is in the output is the bytes of the
used chains and of the one in hand (`OutputConserved`), and that `eof` means that the file is closed and empty
(`EofIsFinal`): without the last the end could be told before bytes that are still
in the file. `SignalPending` gives `PortSignals`: a used chain is signalled, or about to
be, or the call eventfd is gone. `PortKeepsEvents` needs `GivesUp`: a
thread that puts a chain back has seen an empty file, and if bytes came since there is
a new edge.

`HandlerProofs`: for any rings, regions, tables and addresses. `MappingsCorrect` needs
that mapped regions are apart (`Apart`), or else the removal of one address from
`mappings` could take another region with it. `AddressesCorrect` needs that the first
mapping exists (`LeastNumber`, by the well-foundedness of the naturals) and that an
address within a mapping translates into its region. `ActivationReached` is
`ActivationInv`: a ring that started with a memory table has found `device_activated`
set, or set it, and it is set only together with a call of `activate`, which may fail.
`DirtyLogSound` is `LogInv`: the regions of the log are those whose bitmap is in it and
those still to be replaced, each has its last page in the log, and a page that is due
is marked or covered by a mark still to come (`DueMarked`), where only what was or is
being written has a mark (`MarkedNoted`). It rests on the arithmetic of `bitmap.rs`: the
pages of a write are those between the quotients of its first and its last byte
(`DivMonotone`, `DivLast`), different pages have different bits (`DivInjective`), and
the page numbers within a region that starts at a page are those of the guest's memory
(`DivAligned`); the last is a hypothesis of the property (`Aligned`), as no code checks
it. `RefusedAtomic` is an action property and follows from the
actions and `ReplyInv`.

Every invariant and every action property of the passing runs is stated by a theorem.
Only model-checked is liveness, which is out of the prover's reach: `PendingKickServed`,
`RequestsReturn`, `CommandsExecuted`, `FencedReturned`, `MessagesDelivered`,
`CommandsObeyed`, `BytesMoved`, `RingStops`, `ThreadEnds`, `CommandsHandled`,
`StopJoins`. For most of them the safety half is proved: that what is to happen is
never forgotten (`WatchedAgrees`, `NoCommandForgotten`, `NoFenceMissed`,
`ControlWakesUp`, `PortKeepsEvents`) and that nobody waits for a mutex that is not
given back (`QueueNeverLeaked`, `PollingNeverWaits`); what is left to TLC is that
threads that can run do.

The invariants of the proofs that no run lists were checked by TLC on the instances
above first, `OrderInv` on a part of its instance's states only. `Vring` was also checked
with `Polled = TRUE`, with and without `EventIdx` (81k and 128k states): there
`HolderGoesOn` holds, and the liveness properties without the deadlock.

## Plan

Every component that carries the program's logic is modelled. Left are

1. RESET_DEVICE as a request of `Vring`, with the death of the worker's epoll, so that
   the early reset under Observed is a run instead of a remark;
2. the safety halves of `CommandsHandled` and `StopJoins` as theorems of
   `GpuCommandProofs`;
3. an abstract queue of fenced responses refined by `GpuFence`.

## Not modelled

* Requests without state that matters here: SET_OWNER and RESET_OWNER, features and
  protocol features, SET_VRING_NUM, the configuration space, and those answered with
  a constant. `set_err` is stored and never read; `unregister_self` and
  `remove_epoll`, `EventManager::remove`, `modify_fd` and `delete_fd` have no caller.
* What becomes of an error reply: that is in the vhost crate, as the other libraries
  (virtio-queue, vm-memory, rutabaga, gfxstream) are outside; only what the code
  relies on is modelled, marked external.
* Console chains so malformed that `Reader::new` or `Writer::new` fails, whose
  `unwrap` ends the thread; `Port::shutdown`, which is not called on a running port;
  a second activation of the console, which asserts on the ports it has given away.
* The values and byte order of the fields of `protocol.rs` (only lengths are
  modelled), and the packing of event tokens, a compile-time macro.
* Post-copy migration (a build feature around userfaultfd), listening and error
  classification of the daemon, command line parsing, the virtio traits and the
  unfinished mocks.
