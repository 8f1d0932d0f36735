# A TLA+ verification of the XDMA driver with double buffering

This directory models the Linux driver in `xdma/`, a fork of the Xilinx XDMA
reference driver with a double-buffer (ping-pong) mode for continuous capture.
The modules are translated from the C code; line numbers in `PROJECT.json`
("map") say which lines each definition stands for.

    tlc -workers 2 -config engine_sync.cfg MCXdmaEngine     # any run of the table
    tlapm XdmaEngineProofs.tla                              # the proofs
    tlapm ServiceProofs.tla
    tlapm DescUsedProofs.tla
    tlapm PollModeProofs.tla
    tlapm DbufProofs.tla
    tlapm AioProofs.tla
    tlapm LifecycleProofs.tla
    tlapm RingProofs.tla                                    # about ten minutes

## 1. The system

| component | source | state | operations |
|---|---|---|---|
| SG DMA engine | `libxdma.c` | `transfer_list`, `running`, `shutdown`, `desc_dequeued`, `desc_used`, the registers | `transfer_queue`, `engine_start`, `xdma_engine_stop`, `transfer_abort`, `engine_service` and its parts |
| Blocking requests | `libxdma.c` | `desc_lock`, the request, `xfer->state` | `xdma_xfer_submit` |
| Asynchronous requests | `libxdma.c` | the request, its callback | `xdma_xfer_submit_nowait`, `xdma_xfer_completion` |
| Interrupts | `libxdma.c` | channel enable bits, `engine->work` | `xdma_isr`, `xdma_channel_irq`, `engine_service_work`, `irq_setup/teardown` |
| Device reset | `libxdma.c`, `xdma_mod.c` | `XDEV_FLAG_OFFLINE`, `shutdown` | `xdma_device_offline`, `xdma_device_online` |
| Double buffering | `cdev_sgdma.c`, `xdma_mod.h` | `dbuf_active`, `dbuf_read_idx`, two slots | start, stop, close, `char_sgdma_read`, `dbuf_io_done` |
| Polled mode | `xdma_thread.c`, `libxdma.c` | the per-CPU threads, their work lists, the writeback word | `xthread_main`, `xdma_thread_add_work/remove_work`, `engine_service_poll` |
| Descriptor ring | `libxdma.c` | ring indices | `xdma_init_request`, `transfer_init`, `xdma_get_next_adj`, `xdma_xfer_aperture` |
| Asynchronous file I/O | `cdev_sgdma.c` | `cdev_async_io` counters | `cdev_aio_read/write`, `async_io_handler` |
| Performance test | `libxdma.c`, `cdev_sgdma.c` | `xdma_perf`, the cyclic transfer | perf ioctls, `engine_cyclic_stop` |
| User interrupts | `cdev_events.c`, `libxdma.c` | `events_irq` | `user_irq_service`, `char_events_read/poll` |
| Probe and remove | `xdma_mod.c`, `xdma_cdev.c`, `libxdma.c` | resources held, `xdev_list`, device nodes | `probe_one`, `remove_one`, `xdma_device_open/close`, cdev creation, AER and reset handlers |
| Register access | `cdev_ctrl.c`, `cdev_bypass.c`, `cdev_xvc.c` | none | MMIO copies |
| Tools, capture scripts | `tools/`, `dbuf_capture.c`, `*.py` | buffers | sequential clients, LFSR continuity check |

**How they interact.** A caller builds a transfer (`transfer_init`), puts it on
`transfer_list` and starts an idle engine (`transfer_queue`). The hardware works
through the chain and raises an interrupt; `xdma_isr` masks the channel and
schedules `engine->work`; the work item takes `engine->lock`, reads and clears the
status, reads the completed-descriptor count, completes every transfer before the
last completed one, decides the last one, and stops or restarts the engine. A
blocking caller is woken, or gives up after its timeout and aborts; an asynchronous
one is told by its callback. Double buffering is a client of the asynchronous
interface: its callback marks a slot filled, and `read()` copies the slot and queues
it again. A PCI reset stops the engine under its lock, tears the interrupts down,
and brings both back later, concurrently with all of this.

In polled mode there is no interrupt: a pool of threads, created with the first
device and destroyed with the last, watches a word in memory to which each engine
writes its completed count, and calls the same `engine_service`. Below a request lies
the descriptor ring, which blocking and asynchronous requests share; above it,
asynchronous file I/O submits a vector of segments and completes the kernel's iocb
from the callbacks. Probe and remove set all of it up and take it down.

**What is hard.** The timeout that races with a late interrupt; a work item that
was scheduled for one transfer and runs when another one is queued; the unlocked
checks before a critical section (`offline`) and unlocked updates after it
(`desc_used`); the u32 difference of two counters of which one restarts; an error
that leaves transfers listed on a stopped engine; slot memory that is freed
independently of the engine; completions that cross a stop and a restart; a
writeback word that is read and cleared without a lock; a ring whose entries nobody
checks to be free; callbacks that run while their request is still being submitted;
a probe that fails half-way while another device joins. The
`hazards` of `PROJECT.json` list these line by line with the properties that watch
them.

**What makes each part correct.** Engine: what it reports as done was done, it only
writes into memory whose owner still waits, the list holds what is outstanding.
Requests: every call ends, and the count it returns is right. Reset: nothing moves
while offline. Double buffering: the reader sees the stream without gap, repetition
or mixture, and every read ends. Polled mode: a count is applied to the transfer it is
of, and the thread does not sleep over work. Ring: chains stay whole, prefetch stays
inside them, every unit goes to its place. Asynchronous I/O: one answer, after
everything, with the right count. Probe and remove: what was set up is taken down
once, and nothing is used after it was taken down.

## 2. Modules

| module | models | composed with |
|---|---|---|
| `XdmaEngine` | one engine in interrupt mode with its callers, interrupt, work item and resets | refines `TransferService` |
| `TransferService` | what `xdma_xfer_submit` promises, abstractly | |
| `PollMode` | one polling thread, several engines, their callers | |
| `Ring` | the descriptor ring, request splitting, the aperture | |
| `Aio` | asynchronous file I/O over an abstract engine queue | |
| `Dbuf` | double buffering over an abstract engine queue | |
| `Lifecycle` | module, devices, thread pool, device nodes, error recovery | |
| `XdmaEngineProofs`, `ServiceProofs`, `DescUsedProofs` | the proofs | extend `XdmaEngine` |
| `PollModeProofs`, `DbufProofs`, `AioProofs`, `LifecycleProofs`, `RingProofs` | the proofs | each extends its component |

`MC...` modules only add symmetry sets and bounded inputs.

### `XdmaEngine` (with `MCXdmaEngine`, `XdmaEngineProofs`, `ServiceProofs`, `DescUsedProofs`)

One engine in interrupt mode. Actors: the callers in `Sync` and `Async`, the
hardware, the interrupt handler, the work item, the device thread.

* **Atomicity.** A critical section under `engine->lock` is one action.
  `engine_service` is split where it reads a register (`ServiceStatus`,
  `ServiceCount`), because the hardware goes on meanwhile, and per transfer in
  `engine_service_transfer_list` (`ServiceList`); `svc.pc # "idle"` means that the
  work item holds the lock. The unlocked `desc_used -= desc_num` is a load and a
  store (`DescUsedLoad`, `DescUsedStore`). The offline check of `transfer_queue`,
  which is before the lock, is an action of its own (`QueueCheck`).
* **Callers.** `pc` follows `xdma_xfer_submit`: mutex, init, check, queue, wait,
  switch, load, store, then either the next transfer of the request or exit.
  `WaitEnd` is enabled at any time: it stands for the wake-up, the timeout and the
  signal alike; what happened is decided by `xfer->state` in `XferSwitch`, as in the
  code. With `timeout_ms` = 0 the code waits without a timeout: safety is not
  affected, `SubmitReturns` is only for callers that have one. What the caller is told
  is `Result`: the count, and the error only if the count is 0. A return resets the
  request's locals, which frees the model from remembering requests that are gone.
* **Data.** A transfer is a number of descriptors. How a request is cut is left open
  (any `d` in `1..MaxDesc`): the ring arithmetic is in `Ring`.
  An asynchronous request is one transfer; its callback is the one of asynchronous
  file I/O, which calls `xdma_xfer_completion`.
* **Hardware** (external). Writing RUN restarts the status and the completed count;
  clearing RUN halts the engine at once; reading the clear-on-read status register
  clears error and pending bits; the interrupt is a level as long as a status bit is
  pending. `HwDesc` moves one descriptor, with `eop_flush` it may also write an
  end-of-packet result. `HwError` halts the engine with an error bit.
* **Registers that read as all ones.** On a timeout the code reads the engine's status
  first, and that fails when the identifier does not match, as in a reset
  (`Unreadable`; a failing device is taken for one that will be reset). Then it neither
  aborts the transfer nor stops the engine, but frees the request all the same:
  freed memory stays in `transfer_list`. The model takes this step and sets the history
  variable `lost`; what the driver does with freed memory is not a question a model can
  answer, so the properties claim nothing from there on, and the constraint
  `NothingLost` ends such behaviours. `engine_service` reads no identifier: what it
  makes of all ones in the status and the count is not modelled.
* **`moved`** is a history variable: how many descriptors of a transfer's last run
  were really moved. The driver never sees it; the properties compare against it.
* Left out: MSI-X vectors (which mask per engine instead of per device), credit mode, cyclic transfers, and the adjacency and address fields.

### `TransferService` and the refinement

The abstract service knows neither engine nor ring: a caller is idle, waiting, being
served, or has been told a count or an error; data is delivered to the caller being
served and to nobody else. When its service ends, for whatever reason, it is told the
count of what was delivered (`told`), or an error if that is nothing. This is weaker
than success or failure, and it is what the code does: `xdma_xfer_submit` returns the
count as soon as it is not 0, though a later transfer of the request failed, so that a
caller cannot tell an error from an end of packet. `broken` is the engine's `lost`:
a step to a broken service is any step (`Promised`).

The mapping (`Phase`, `Told`, `Delivered` and `TS` in `XdmaEngine`) reads the phase off
`pc` and `Result`, and takes as delivered what earlier transfers counted plus, once the
transfer at hand is COMPLETED, what the hardware has moved of it (with `eop_flush`, what
`engine_service` counted). So the completing `ServiceFinal` is the abstract `Deliver`,
`Submit` is `Request`, `LockDesc` is `Grant`, a refusal and the `DescUsedStore` that
leaves the loop are `Answer`, `SubmitReturn` is `Return`, and everything else stutters.

### `PollMode` (with `MCPollMode`, `PollModeProofs`)

`xthread_main` line by line: the look for pending work engine by engine, the sleep on
`schedule`, the clearing of it, then per engine the threshold taken from the list
head without the lock, the monitor loop on the writeback word, and `engine_service`.
Reading the word, clearing it and using its value are three steps; the hardware and
the callers run in between.

* On an empty list the code takes the list head itself for a transfer. On a 64-bit
  build the word it reads there as `desc_cmpl_th` is the lock word of `shutdown_wq`,
  0, so the monitor loop is skipped; the model does that.
* `engine_service_poll` looks at the status that was read when the engine was started
  (busy), so a count below the chain length means "stopped half-way" only through the
  word.
* `upset` is a history variable: the engine met an error or a caller's timeout. What
  such an engine's word says later may be of an earlier transfer. There are no resets
  here, so a timeout can read the status and always stops the engine.
* With `eop_flush` the word is written after every descriptor; one that arrives
  between the read and the clear is lost, and a count of a descriptor that ends after
  the end of packet stays in the word for the next transfer. The properties say where
  they exclude this.

### `Ring` (with `MCRing`, `RingProofs`)

`xdma_init_request` with its loop (`Cuts` is where the loop is after each software
descriptor, `Piece` the descriptor it makes there), `transfer_init` with the cut at the
end of the ring, `xdma_get_next_adj`, `xdma_xfer_aperture` descriptor by
descriptor under the engine lock, and the three ways entries are given back. A
descriptor carries which piece of the host list it moves where, so a property can
compare it with a direct definition (`HostPos`). `age` and `over` are history: the
code does not check that the entries it takes are free, so `over` marks the
behaviours in which more were taken than the ring has; nothing is claimed there.
`astray` marks an aperture request whose second pass begins in a later list entry:
`sg` starts from the first entry again there, and the data is not where it belongs.

* `mode` is the engine's: addresses count up, stay fixed (`non_incr_addr`), or the
  engine is a stream, whose descriptors carry the place of their result instead of an
  FPGA address. It is chosen once: `engine_addrmode_set` during a request is not
  modelled.
* On a stream a chain of several descriptors may end with a packet (`PacketEnds`); a
  blocking request with `eop_flush` ends then, with the rest of its data never in a
  chain. `EndsWhole` says that nothing else ends a request early. Asynchronous requests
  do not look at it.
* The aperture comes from the ioctl unchecked, and the start address is masked with
  `aperture - 1` (`And`, bit by bit). For a size that is no power of two that is not
  the place in the aperture; `DataInPlace` claims the place for powers of two only.
* `desc_used` is not in this module: blocking requests subtract from it without the
  lock, which is a matter of `XdmaEngine`.

### `Aio` (with `MCAio`, `AioProofs`)

`cdev_aio_read` and `cdev_aio_write` (the same loop), with each failure: misaligned
segment (structure freed), segment that cannot be mapped (structure left behind),
refused submission (ignored). `async_io_handler` runs concurrently; a callback that
finds the structure or the iocb gone may do anything the model allows, and is
recorded in `touched`. A vector without segments returns -EIOCBQUEUED and is never
completed. `EngineError` is an error before the first descriptor: `engine_service`
completes nothing and the engine stands still (`stuck`) until somebody submits again.
`cancel` is never set and the `trylock` cannot fail, so those branches are left out.
All segments use the same device position, `read_iter` passes `iov_offset` as position,
and the `kfree` of the callbacks is given the last element of their array: data and
memory the model does not have.

### `Lifecycle` (with `MCLifecycle`, `LifecycleProofs`)

Module load and unload; per device a control that follows `probe_one`,
`xdma_device_open` with its unwinding labels, `xpdev_create_interfaces`,
`remove_one`, `xdma_device_close`, and the AER and function-reset handlers. The PCI
core serialises what it does with one device; devices overlap. What the kernel holds
is kept apart from what the driver remembers, because they differ: `irq_teardown`,
`xpdev_destroy_interfaces` and `disable_msi_msix` go by flags some of which are
never cleared. Releasing what is not held is recorded in `twice`.

`blame` names the failures after which the code is known to leave something behind or
to release twice, and `CleanExit` promises nothing then: an MSI-X user handler that
cannot be registered (the channel handlers stay), a `create_xcdev` that fails after a
chrdev region exists (`xpdev_destroy_interfaces` runs twice, earlier nodes of the
group have no flag), and a device that is removed while frozen or comes back from a
reset without its handlers (handlers freed again at removal). A device that met one is
not probed again in the model.

An engine that is found in polled mode goes through three kinds of steps:
`engine_init` begins the search at thread 1, each `ScanThread` looks at one thread under
its lock, and `xdma_thread_add_work` adds the engine to the one chosen. No lock is held
over the search, so the searches of two devices, and a removal, interleave; `raced` is
history and collects, for each search, the threads whose work another device changed
meanwhile. `remove_engines` takes the engines off their threads in one step.

### `Dbuf` (with `MCDbuf`, `DbufProofs`)

The double buffer over an abstract engine queue: transfers are executed in order and
finished by `dbuf_io_done`. Each slot has an address in `Bufs`; a fresh allocation
may or may not reuse an address the engine still writes to. Blocks of the stream are
numbered modulo `Period`, so a skipped, repeated or torn block is a wrong number.

* The callback's `err` is always 0, because `engine_transfer_completion` passes 0
  for FAILED transfers as well; its error branch is dead code.
* An error after some descriptors completes the transfer as FAILED; an error before
  the first one is not serviced at all and leaves the head of the list "stuck" until
  the next `transfer_queue` restarts the engine (`Restarted`).
* The callback never calls `xdma_xfer_completion`, so each slot cycle leaks its
  request; that leak is memory, not control, and is not in the model.
* A `read()` while double buffering is off takes the ordinary path, a blocking
  request of `XdmaEngine`; the two modules are not composed yet.
* `read()` with a count above the slot size returns -EINVAL and changes nothing; it
  is no action. With a count below it the user is given the beginning of the block, and
  the rest is lost when the slot is queued again: `InOrder` is about the numbers of the
  blocks that reads return data of, not about how much of each.
* `clean` is a history variable: nothing failed in this session and no transfer of
  an older session was in flight when it started. The order properties are promised
  for clean sessions only; `dbuf_stop` shows what happens in others.
* `FreeSlots` is one step though the code frees two slots one after the other; no
  property tells the intermediate state apart for one thread.

Definitions named `Mut_...` are plausible mistakes placed before the definition they
would replace. The specification does not use them; each property is known to fail
when one of them is put in.

## 3. Runs

| run | instance | distinct states | shows |
|---|---|---|---|
| `engine_sync` | 2 blocking callers, requests of up to 3 descriptors in transfers of up to 2, errors, 2 resets | 462,096 | no false completion, no DMA into a freed request, list consistent, quiet while offline, counts that add up, decided outcomes stay, `TransferService` implemented |
| `engine_live` | the same with `eop_flush`, 1 reset, software fairness only | 129,265 | counts that add up with partial transfers, every caller with a timeout returns |
| `engine_async_live` | 3 asynchronous requests, no errors, hardware fairness | 11,862 | each callback runs, after all data moved; `desc_used` exact |
| `engine_async_reset` | 3 asynchronous requests, errors, 1 reset | 164,264 | quiet while offline, also with a wrapped count |
| `dbuf` | 1 thread, 3 addresses, 2 sessions, faults, fairness | 1,176,845 | blocks in order, no torn copy, every slot in exactly one place, every read returns |
| `lifecycle` | 2 devices, MSI-X and legacy, pool of 2 threads, 2 channels, one failure or reset, polled and interrupt mode, searches for a thread interleaved | 2,107,572 | clean exit after any failure, handlers and nodes never without what they use, unique names, a consistent pool, idle threads first but for races |
| `poll` | 2 engines on one thread, engine 1 with errors and timeouts, engine 2 with `eop_flush`, chains of up to 2 | 494,839 | a count is applied to its own transfer, no false failure, nobody is slept over |
| `ring` | 3 requests of any kind, ring of 4, fetch block of 2, descriptors of up to 2 units, aperture of 4, all three modes | 439,519 | chains whole, prefetch inside them, data in place, only a packet ends a request early |
| `aio` | 2 calls of up to 3 segments, all failures | 105,288 | the answer is final and right, memory freed early only by a late segment's error, accepted vectors complete unless the engine stands still |

Three runs end in a violation on purpose. Each states what a comment in the code
says, and TLC finds the code doing something else (quotes are under `findings`):

| run | what TLC finds |
|---|---|
| `async_wrap` | the u32 difference of completed and dequeued descriptors wraps, and a transfer is reported as done that never ran; see below |
| `dbuf_stop` | stop frees both slots while the engine has transfers into them |
| `ring_tfer` | two asynchronous requests that each fit the ring are submitted together; the chain of one starts in the middle, is cut at the end of the ring and, when the other one takes entries in between, again: three transfers where `tfer[]` has two |

The trace of `async_wrap`, with a transfer of 2 descriptors listed and running: an error
interrupt is raised; the device goes offline, which stops the engine and leaves the
transfer listed; the work item of the interrupt stays queued. The device comes online,
and the submission of another request restarts the engine with the listed transfer. The
hardware moves 1 descriptor. The old work item now finds 1 of 2, fails the transfer as
stopped half-way and adds all 2 to `desc_dequeued`, while the hardware stops on another
error. The work item of that error reads a count of 1; 1 - 2 wraps, and
`engine_service_transfer_list` takes everything listed for done. It needs the reset:
with `MaxResets` = 0 TLC finds no violation.

What the properties do not say, because the code does not do it: `InOrder`, `OnePlace`
and `ReadReturns` exclude sessions in which a transfer or a submission failed or that
began with older transfers in flight (`clean`), `CallbackRuns` is checked without
hardware errors, `Completes` excludes an engine that stands still, and everything about
blocking requests but `OfflineQuiet` ends with `lost`.

Other behaviours of the code that the models show, and that the properties therefore
exclude or do not claim: a work item left by an aborted transfer may fail the next
transfer as stopped half-way (its caller gets -EIO, no DMA is left behind); a
submission refused with -EBUSY keeps its descriptors in `desc_used`; a blocking
transfer aborted behind an asynchronous one stays listed; a work item pending at a
reset enables the channel interrupt after `xdma_device_offline` turned it off; a
failed slot transfer is reported to the double buffer with err 0.

**Deadlock** is checked except where the system really may stop:
`engine_async_reset` and `async_wrap`, where an error before the first descriptor, or
a reset, leaves asynchronous transfers on a stopped engine and no timeout covers
them; `aio`, where a vector without segments, with a refused segment or behind a stopped
engine never completes; `lifecycle`,
where the module may fail to load for good, or every device is mishandled once.

**Bounds and why they are enough.**

* `Sync`: two callers. They exclude each other by `desc_lock`, so the races are
  between one transfer and what the previous one left behind. `Async`: three, so that
  the list has a first, a middle and a last transfer.
* `MaxDesc` = 2 is the least that has a transfer stopped half-way; `MaxReq` = 3 gives
  requests of two and of three transfers, the last one shorter.
* `MaxResets` bounds the number of resets: with 2, a second reset meets what the first
  left. It is the only cap on a counter in `XdmaEngine`.
* `Wrap` = 64 stands for 2^32. No count in the instance comes near it, so a wrapped
  difference is recognisably huge, as in the driver.
* `Period` = 3: at most two slots are in flight or filled, so three numbers tell
  the expected block from the one before and the one after.
* `Bufs` = 3: two slots and one address that can differ from the previous session.
  `MaxSessions` = 2: a session and what the session before it left on the engine.
* `Last` = 2: the thread that is busy with one engine while the other needs it.
  `Faulty` is only a bound: errors and timeouts on one engine, so that the other shows
  it is not disturbed.
* `Size` = 4 with `Block` = 2: chains that start and end in the middle and at the
  border of a fetch block and wrap. The constraint `WithinRing` leaves out states in
  which more entries were taken than the ring has. Lists of 1 to 3 descriptors; the
  wide lists cross the aperture inside a list entry and at its border.
* `MaxSegs` = 3: a first, a middle and a last segment; two calls share the engine.
* `MaxFaults` = 1: one refused request or reset, at any step; the unwinding of one
  failure is what the code is written for. `MaxIdx` = 2 with two devices lets an index
  be handed out, given back and handed out again.

`NothingLost`, in `engine_sync` and `engine_live`, leaves out what follows a timeout that
failed to read the engine's status; the step itself is taken and checked.

Symmetry is used only in runs that check safety.

**Fairness.** `SoftwareFairness` in `XdmaEngine` assumes that threads inside the
driver go on: strong fairness per caller, because the engine spinlock and the
`desc_lock` mutex are granted in order of arrival and so are not withheld for ever,
and because `wait_event_interruptible_timeout` ends; weak fairness of the interrupt
handler and the work queue. `SubmitReturns` assumes nothing of the hardware: a hung
engine is covered by the timeout, which must not be 0. A reset need not be followed by
the device coming online again. `HardwareFairness` is added only for `CallbackRuns`, where no timeout
exists. In `Dbuf`, a thread inside `read()` goes on, the hardware executes what is
queued and completions are delivered; no signal and no user call is assumed. In
`PollMode` the thread runs and the hardware executes its chains (weak fairness), a
caller that queued a transfer goes on to wake the thread, and the monitor loop ends
(strong fairness of `MonitorDone`, from `POLL_TIMEOUT_SECONDS`); no caller's timeout
is assumed, so `Served` is what the thread achieves by itself. In `Aio` the submitting
thread runs, and an engine that does not stand still ends the first transfer of its
list (weak fairness of `Service`, whose guard is that it is not `stuck`).

## 4. Proofs

`XdmaEngineProofs` proves, for every set of requests, every chain and request size,
any number of resets, with or without errors and `eop_flush`, from
`EngineAssumption` alone (kinds of request disjoint, sizes positive, the modulus
larger than a chain):

* **TypeCorrect**: `Spec => []TypeOK`. Type correctness is inductive; the proof has a
  lemma per part (`FlagsTyped`, `EngineTyped`, `CallersTyped`, `DeviceTyped`).
* **OfflineIsQuiet**: `Spec => []OfflineQuiet`, with asynchronous requests as well.
  `OfflineQuiet` alone is not inductive: a refused `transfer_queue` is only refused
  because the shutdown request stands, and a work item can restart the engine unless
  it is known to be idle. `OfflineInv` adds both.

and, for blocking requests only (`ASSUME Async = {}`):

* **CompletionIsTruthful**, **DmaIsOwned**, **QueueIsSubmitted**, from the inductive
  invariant `SyncInv`, whose parts say:
  `OwnerInv`, desc_lock is held exactly by the request past it; `QueueInv`, so at most
  one transfer is queued and its caller still waits; `ActiveInv`, while the engine
  runs or is serviced, the hardware's chain is that transfer's and its count is what
  was moved, so the count a work item applies belongs to the transfer it is applied
  to; `BusyInv`, the hardware is not busy behind the driver's back. It is an invariant
  until a timeout fails to read the engine's status: the theorems, like the properties,
  speak of the time before (`lost`), and no constraint on the resets is assumed.

`ServiceProofs` builds on `SyncInv`, again for blocking requests only:

* **SubmitIsAccounted** (`SubmitAccounts`), **OutcomeIsFinal** (`SettledStays`) and
  **EngineImplementsService** (`ImplementsService`, the refinement). They rest on
  `AccountInv`, the books of a request: at every point of `xdma_xfer_submit` what is
  done, in the transfer at hand and left adds up to what was asked for, and a COMPLETED
  transfer was counted whole or up to an end of packet. It is needed because
  `SubmitAccounts` speaks of the exit only, and the sum it states is built up over the
  loop, also the sum that is told to a caller whose later transfer failed.
* The argument: `StepEffect` shows that every step either changes nothing a caller
  sees (`Quiet`) or is one of eleven effects on one caller (`CallerStep`), which the
  other callers do not see. `AccountInv`, the finality of outcomes and the refinement
  are then shown effect by effect, without the engine. `DeliveredIsGot` replaces the
  history variable in the refinement mapping by what the driver counted, which is the
  point of the refinement: under `AccountInv` the two agree. A step that sets `lost`
  maps to a step to a broken service.

The restriction to blocking requests is needed: `async_wrap` is a counterexample with
asynchronous ones, and an abort behind an asynchronous transfer breaks
`QueueSubmitted`. A corollary of `SyncInv` is that the loop of
`engine_service_transfer_list` does nothing when there are only blocking requests.

`PollModeProofs` proves, for any number of engines on the polling thread, any of them
with `eop_flush` or errors, and any chain length, from `PollAssumption`:

* **TypeCorrect** (`TypeOK`), **PolledCompletionIsReal** (`PollTruthful`) and
  **PolledFailureHasCause** (`NoFalseFailure`), from `PollInv`, which is stated engine
  by engine. `Sound` holds of every engine: the hardware stays within its chain (types
  need this too), and an error bit, in memory or already in the thread's hands, or a
  failure, has a cause. `Calm` holds of an engine without `eop_flush` that met no error
  and no timeout: a non-zero word, in memory or in the thread's hands, is the count of
  the listed transfer, whose chain is finished, and at `engine_service` nothing is left
  in memory. This strengthening is needed because the word is read, cleared and used in
  three steps without the lock; it shows why no later transfer can meet the word of an
  earlier one.
* The argument: `UntouchedKeeps` settles every engine a step does not touch, so each
  action is looked at for one engine only.

`DescUsedProofs` proves **DescUsedIsExact** (`DescUsedExact`) for any number of requests
of one kind, blocking or asynchronous, without resets but with errors, timeouts and
`eop_flush`. Both restrictions are needed: a submission refused during a reset never
gives its descriptors back, and with both kinds the unlocked load and store of
`xdma_xfer_submit` can lose an update (both are listed hazards). `CountInv` adds that a
listed asynchronous transfer is listed once and still counted, that a blocking request
past `desc_lock` owns it, and that the value loaded is still the value stored. The
steps are then of three sorts, which keep the counted set, add the descriptors of one
transfer, or take them away (`CountStays`, `CountGrows`, `CountShrinks`).

`DbufProofs` proves, for any number of sessions, addresses and blocks (from
`DbufAssumption`: at least three block numbers), with or without faults:

* **TypeCorrect** (`TypeOK`), for any number of threads;
* **StreamInOrder** (`InOrder`), **CopyIsWhole** (`NoTornCopy`) and **SlotIsOnce**
  (`OnePlace`), for one thread at a time (`OneThread`): nothing in the code keeps two
  readers of one file apart, which is a listed hazard. The inductive invariant says
  where the two slots of a clean session are. `Flow` has three shapes, both slots with
  the engine, one filled, both filled, and each fixes the engine's queue, which slot is
  read next and which block number is in which memory. `StreamInv` says which shape
  holds at each label of `char_sgdma_read`; it is needed because the read index and the
  block that is due move on later than the slot does. `ControlInv` says which labels
  know the session to be active and the slot to be the one that is due.

`AioProofs` proves **TypeCorrect** (`TypeOK`), **AnswerFinal** (`AnswerIsFinal`) and
**FreedByErrorOnly** (`FreedOnlyByLateError`) for any number of calls and segments. The
submitting thread and the callbacks share counters and no lock around the submission, so
the invariant is about the books: a segment is pinned until its callback has counted it,
pinned and counted ones together are at most those mapped (`BooksInv`), and every
listed segment is pinned and listed once (`ListInv`). So the count reaches the number of
segments only when none is left in the list, and before an error the memory of the call
is there as long as anything is (`MemoryInv`).

`LifecycleProofs` proves, for any number of devices, threads, engines and refused
requests (from `LifecycleAssumption`; the devices are finitely many, because the pool
counts their engines): **TypeCorrect** (`TypeOK`), **ExitIsClean** (`CleanExit`),
**HandlersBacked** (`HandlerBacked`), **NamesDiffer** (`NamesUnique`), **PoolCorrect**
(`PoolServes`), **ClassLives** (`ClassOutlives`) and the action property
**IdleThreadsFirst** (`IdleFirst`).

* `IdleFirst` has an invariant of its own, `ScanInv`, which says of a search under way,
  all but for the threads in `raced`: thread 1 has the work it had at the start, the
  threads passed so far are busy, and if the one chosen is busy, no idle one was passed.
  `ScanInvKept` shows it kept, with the steps of other devices in `OthersRace`; at the
  end of the search it is what `IdleFirst` says.
* The invariant `LifeInv` is the table behind the unwinding labels: for every label, what
  the device holds (`HeldInv`), which handlers are registered (`IrqInv`), how flags and
  nodes agree (`CdevInv`), that nothing was released twice (`TwiceInv`) and whether it has
  engines (`EngsInv`). `CleanExit` speaks of the last label only, so it needs the whole
  table. `ListInv` says that the listed devices are those past `xdev_list_add` and that
  their indices increase, which is why the index of the last one plus one is free.
  `PoolInv` says that `work_cnt` counts the engines of a thread.
* The argument: `DevStep` shows that a step of one device leaves the others alone, so each
  action is looked at for one device; the list and the pool, which devices share, have
  lemmas of their own for the actions that touch them.

`RingProofs` proves, for any number of requests, any scatter lists and any sizes of ring,
fetch block, descriptor and aperture and each mode of the engine, from `RingAssumption`
(sizes positive, lists non-empty with positive entries; the ring need not be a multiple of
the fetch block, nor the aperture a power of two):

* **ChainsIntact** (`ChainIntact`), **DataPlaced** (`DataInPlace`) and the action property
  **NoEarlyEnd** (`EndsWhole`), from the inductive invariant `RingInv` (**RingHolds**).
* **BlocksFit** (`BlockInChain`) and **TypeCorrect** (`TypeOK`), when the scatter lists of
  aperture requests have one entry (`OneEntry`). The restriction is needed: a pass that
  goes on in a later list entry starts from the first one again, and with a list of 1 and
  5 units, the other constants as in the run, TLC finds a transfer without entries, which
  is not of its type and whose prefetch is outside the chain. The lists of the run are
  too short for that.

The argument. A transfer's `age` is how far `desc_idx` has moved since the transfer was
taken, so its entries start `age` behind `desc_idx`, and of two transfers the older one is
older by at least its own length. As long as no age exceeds the ring (`AgeInv`), entries of
different transfers are therefore disjoint, and a step that takes, links or clears entries
touches one transfer only; `ChainInv` follows for the others. `FlowInv` is what does not
depend on ages: which labels a request of each kind can be at (`ControlInv`), how far it
is cut (`IdxInv`), that a transfer ends before the end of the ring (`NumInv`), who has
`desc_lock` (`LockInv`), that the list is in queue order (`ListInv`), and for the aperture
where in the list a pass is (`WalkInv`) and what it has filled (`FillInv`).

What `xdma_init_request` computes is a recursion over the list. The library's induction
theorems take an operator and are of no use to the installed provers, so `RingProofs`
states induction for sets of numbers (`Inductive`, from the least-number principle) and
the recursion equation for functions (`Recursion`), and shows with them, for every list,
that the loop ends, that each piece begins where the one before it ended, and that the
pieces fit the room that was allocated.

Each of these inductive invariants was checked by TLC on the instance of its run before
it was proved, `LifeInv` also with two failures (7.9 million states), `RingInv` also
without the constraint `WithinRing` (2 million states, not to the end).

Only model-checked: the liveness properties, `CallbackTruthful`, and `TypeOK` and
`BlockInChain` of `Ring` for aperture lists of several entries. Liveness stays with TLC:
the prover handles neither fairness nor ENABLED.

## 5. What is not modelled, and the plan

Not to be modelled: register access devices (no state of their own), command line
tools and Python scripts (sequential clients, one pass over their data), formatting
and logging.

Not modelled yet:

1. The performance test and cyclic transfers (`xdma_performance_submit`,
   `engine_cyclic_stop`, the perf ioctls), and user interrupts with their event
   devices.
2. The MSI-X channel handler, which masks per engine; `xdma_kthread_stop`, which sets
   `schedule` before `kthread_stop`, so that a thread that clears it in between goes
   back to sleep.
3. An asynchronous request of several transfers one of which fails (`XdmaEngine` has
   one transfer per request, `Ring` has no failures).
4. `Dbuf` with two threads, which nothing in the code serialises; `Dbuf` in polled
   mode, where `dbuf_submit_slot` does not wake the thread.
5. `Lifecycle` composed with `XdmaEngine`: `remove_engines` does not wait for a work
   item that is already queued.

Theorems to add: `CallbackTruthful` (asynchronous requests without errors and resets), for
which the engine's invariant has to follow several listed transfers instead of one.
