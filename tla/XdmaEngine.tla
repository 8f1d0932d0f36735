----------------------------- MODULE XdmaEngine -----------------------------
(***************************************************************************)
(* One SG DMA engine of libxdma in interrupt mode: the transfer list, the  *)
(* engine registers it drives, the interrupt handler with its work item,   *)
(* the callers of xdma_xfer_submit (blocking, with a timeout) and of       *)
(* xdma_xfer_submit_nowait (completion by callback), and the device thread *)
(* that takes the device offline and online again around a PCI reset.      *)
(* The interrupt handler is xdma_isr(), the one of MSI and legacy mode.    *)
(*                                                                         *)
(* An operator Mut_X that stands before a definition is a plausible mistake *)
(* in it; it is not used by the specification, only to see that the        *)
(* properties notice the mistake.                                          *)
(*                                                                         *)
(* Every critical section under engine->lock is one action, except         *)
(* engine_service(): it reads two hardware registers while the hardware    *)
(* goes on, so it is split at those reads and svc.pc # "idle" means that   *)
(* the work item holds the lock.  A transfer is measured in descriptors.   *)
(***************************************************************************)
EXTENDS Integers, Sequences, FiniteSetsExt

CONSTANTS
  Sync,      \* requests made through xdma_xfer_submit
  Async,     \* requests made through xdma_xfer_submit_nowait
  MaxDesc,   \* largest number of descriptors in one transfer
  MaxReq,    \* largest number of descriptors in one blocking request
  EopFlush,  \* engine->eop_flush (AXI-ST C2H node opened with O_TRUNC)
  HwErrors,  \* whether the hardware may report an error
  MaxResets, \* bound: how often the PCI core resets the device
  Wrap,      \* modulus of the u32 descriptor count (2^32 in the driver)
  None       \* no transfer, no owner

ASSUME EngineAssumption ==
  /\ Sync \cap Async = {}
  /\ None \notin Sync \cup Async
  /\ MaxDesc \in Nat \ {0}
  /\ MaxReq \in Nat \ {0}
  /\ EopFlush \in BOOLEAN
  /\ HwErrors \in BOOLEAN
  /\ MaxResets \in Nat
  /\ Wrap \in Nat /\ Wrap > MaxDesc

VARIABLES
  queue,     \* engine->transfer_list
  xfer,      \* the struct xdma_transfer of each request
  running,   \* engine->running
  shutdown,  \* engine->shutdown
  dequeued,  \* engine->desc_dequeued
  descUsed,  \* engine->desc_used
  svc,       \* engine_service() in progress: pc, status read, desc_count
  hw,        \* the engine's registers and the chain it executes
  irqEnabled,   \* channel interrupt enable bit of this engine
  irqInstalled, \* an interrupt handler is registered
  work,      \* engine->work is queued
  descLock,  \* engine->desc_lock
  pc,        \* control of each request
  want,      \* descriptors of the whole request (req->sw_desc_cnt)
  rem,       \* descriptors of the request not yet in a transfer (nents)
  done,      \* descriptors the request reports as done
  rv,        \* rv of xdma_xfer_submit
  tmp,       \* value of desc_used between its load and its store
  offline,   \* XDEV_FLAG_OFFLINE
  dpc,       \* control of the device thread
  resets,    \* number of resets so far
  lost,      \* history: a transfer was freed while it was in transfer_list
  moved      \* history: descriptors moved in the last run of a transfer

engineVars == <<queue, xfer, running, shutdown, dequeued, descUsed>>
irqVars    == <<irqEnabled, irqInstalled, work>>
callVars   == <<descLock, pc, want, rem, done, rv, tmp>>
devVars    == <<offline, dpc, resets, lost>>
vars       == <<engineVars, svc, hw, irqVars, callVars, devVars, moved>>

Xfers == Sync \cup Async

States == {"NONE", "NEW", "SUBMITTED", "COMPLETED", "FAILED", "ABORTED"}

Labels == {"idle", "mutex", "init", "check", "queue", "wait", "switch", "load",
           "store", "exit"}

NoXfer == [st |-> "NONE", num |-> 0, cmpl |-> 0, eop |-> 0, rcved |-> FALSE]

SvcIdle == [pc |-> "idle", err |-> FALSE, cnt |-> 0]

XferType == [st: States, num: 0..MaxDesc, cmpl: 0..MaxDesc, eop: 0..MaxDesc,
             rcved: BOOLEAN]

HwType == [cur: Xfers \cup {None}, num: 0..MaxDesc, done: 0..MaxDesc,
           busy: BOOLEAN, err: BOOLEAN, pend: BOOLEAN]

FlagsOK ==
  /\ running \in BOOLEAN
  /\ irqEnabled \in BOOLEAN
  /\ irqInstalled \in BOOLEAN
  /\ work \in BOOLEAN
  /\ offline \in BOOLEAN
  /\ lost \in BOOLEAN

EngineOK ==
  /\ queue \in Seq(Xfers)
  /\ xfer \in [Xfers -> XferType]
  /\ shutdown \in SUBSET {"REQUEST", "IDLE"}
  /\ dequeued \in Nat
  /\ descUsed \in Int
  /\ svc \in [pc: {"idle", "count", "list"}, err: BOOLEAN, cnt: Nat]
  /\ hw \in HwType
  /\ moved \in [Xfers -> Nat]

CallersOK ==
  /\ descLock \in Sync \cup {None}
  /\ pc \in [Xfers -> Labels]
  /\ want \in [Xfers -> 0..MaxReq]
  /\ rem \in [Xfers -> 0..MaxReq]
  /\ done \in [Xfers -> Nat]
  /\ rv \in [Xfers -> {"OK", "EBUSY", "EIO", "ETIMEDOUT"}]
  /\ tmp \in [Sync -> Int]

DeviceOK ==
  /\ dpc \in {"online", "off_engine", "off_irq", "offline", "on_irq", "on_flag"}
  /\ resets \in 0..MaxResets

TypeOK == FlagsOK /\ EngineOK /\ CallersOK /\ DeviceOK

Init ==
  /\ queue = <<>>
  /\ xfer = [t \in Xfers |-> NoXfer]
  /\ running = FALSE
  /\ shutdown = {}
  /\ dequeued = 0
  /\ descUsed = 0
  /\ svc = SvcIdle
  /\ hw = [cur |-> None, num |-> 0, done |-> 0, busy |-> FALSE, err |-> FALSE,
           pend |-> FALSE]
  /\ irqEnabled = TRUE
  /\ irqInstalled = TRUE
  /\ work = FALSE
  /\ descLock = None
  /\ pc = [t \in Xfers |-> "idle"]
  /\ want = [t \in Xfers |-> 0]
  /\ rem = [t \in Xfers |-> 0]
  /\ done = [t \in Xfers |-> 0]
  /\ rv = [t \in Xfers |-> "OK"]
  /\ tmp = [s \in Sync |-> 0]
  /\ offline = FALSE
  /\ dpc = "online"
  /\ resets = 0
  /\ lost = FALSE
  /\ moved = [t \in Xfers |-> 0]

-----------------------------------------------------------------------------
(* The engine lock and the two register sequences that start and stop it.  *)

Mut_NoLock == TRUE
LockFree == svc.pc = "idle"

\* RUN is written: status bits and the completed count restart from zero.
Mut_StaleCount(t) == [cur |-> t, num |-> xfer[t].num, done |-> hw.done,
                      busy |-> TRUE, err |-> FALSE, pend |-> FALSE]
Mut_LongChain(t) == [cur |-> t, num |-> xfer[t].num + 1, done |-> 0,
                     busy |-> TRUE, err |-> FALSE, pend |-> FALSE]
Launch(t) == [cur |-> t, num |-> xfer[t].num, done |-> 0, busy |-> TRUE,
              err |-> FALSE, pend |-> FALSE]

\* RUN is cleared: the hardware halts; latched status bits stay.
Mut_RunKept == hw
Halted == [hw EXCEPT !.busy = FALSE]

\* engine_start() with the first transfer of q; the engine must be idle.
engine_start(q) ==
  /\ running' = TRUE
  /\ shutdown' = {}
  /\ dequeued' = 0
  /\ hw' = Launch(Head(q))
  /\ moved' = [moved EXCEPT ![Head(q)] = 0]

-----------------------------------------------------------------------------
(* Submission: xdma_xfer_submit, xdma_xfer_submit_nowait, transfer_queue.  *)

Goto(t, label) == pc' = [pc EXCEPT ![t] = label]

\* The caller enters; an offline device is refused before anything is built.
\* A blocking request may need several transfers, an asynchronous one fits one.
Submit(t) ==
  /\ pc[t] = "idle"
  /\ ~offline
  /\ \/ t \in Sync  /\ Goto(t, "mutex")
     \/ t \in Async /\ Goto(t, "init")
  /\ \E n \in 1..MaxReq :
        /\ t \in Async => n <= MaxDesc
        /\ want' = [want EXCEPT ![t] = n]
        /\ rem' = [rem EXCEPT ![t] = n]
        /\ done' = [done EXCEPT ![t] = 0]
  /\ rv' = [rv EXCEPT ![t] = "OK"]
  /\ UNCHANGED <<engineVars, svc, hw, irqVars, descLock, tmp, devVars, moved>>

\* mutex_lock(&engine->desc_lock): one blocking request at a time.
LockDesc(s) ==
  /\ pc[s] = "mutex"
  /\ descLock = None
  /\ descLock' = s
  /\ Goto(s, "init")
  /\ UNCHANGED <<engineVars, svc, hw, irqVars, want, rem, done, rv, tmp, devVars,
                 moved>>

\* transfer_init(): the ring decides how many descriptors this transfer gets.
transfer_init(t) ==
  /\ pc[t] = "init"
  /\ LockFree
  /\ \E d \in 1..MaxDesc :
        /\ d <= rem[t]
        /\ t \in Async => d = rem[t]
        /\ xfer' = [xfer EXCEPT ![t] = [NoXfer EXCEPT !.st = "NEW", !.num = d]]
        /\ rem' = [rem EXCEPT ![t] = @ - d]
        /\ descUsed' = descUsed + d
  /\ moved' = [moved EXCEPT ![t] = 0]
  /\ Goto(t, "check")
  /\ UNCHANGED <<queue, running, shutdown, dequeued, svc, hw, irqVars, descLock,
                 want, done, rv, tmp, devVars>>

\* transfer_queue() or its caller gives up with -EBUSY.  The blocking caller
\* goes to unmap_sgl, the asynchronous one frees the request; neither gives
\* back the descriptors that transfer_init() counted.
Refuse(t) ==
  /\ rv' = [rv EXCEPT ![t] = "EBUSY"]
  /\ \/ t \in Sync  /\ Goto(t, "exit") /\ UNCHANGED xfer
     \/ t \in Async /\ Goto(t, "idle") /\ xfer' = [xfer EXCEPT ![t] = NoXfer]
  /\ UNCHANGED <<queue, running, shutdown, dequeued, hw, moved>>

\* transfer_queue(), before the lock: the device must be online.
QueueCheck(t) ==
  /\ pc[t] = "check"
  /\ \/ offline /\ Refuse(t)
     \/ /\ ~offline
        /\ Goto(t, "queue")
        /\ UNCHANGED <<queue, xfer, running, shutdown, dequeued, hw, moved, rv>>
  /\ UNCHANGED <<descUsed, svc, irqVars, descLock, want, rem, done, tmp, devVars>>

\* Engine is being shut down; do not accept new transfers.
Mut_AcceptAlways == FALSE
ShuttingDown == "REQUEST" \in shutdown

\* transfer_queue(), under the lock: queue the transfer, start an idle engine.
transfer_queue(t) ==
  /\ pc[t] = "queue"
  /\ LockFree
  /\ \/ ShuttingDown /\ Refuse(t)
     \/ /\ ~ShuttingDown
        /\ queue' = Append(queue, t)
        /\ xfer' = [xfer EXCEPT ![t].st = "SUBMITTED"]
        /\ Goto(t, "wait")
        /\ \/ ~running /\ engine_start(Append(queue, t))
           \/ running /\ UNCHANGED <<running, shutdown, dequeued, hw, moved>>
        /\ UNCHANGED rv
  /\ UNCHANGED <<descUsed, svc, irqVars, descLock, want, rem, done, tmp, devVars>>

-----------------------------------------------------------------------------
(* The blocking caller after transfer_queue().                             *)

\* The wait ends: the state changed, the timeout expired or a signal arrived.
\* With timeout_ms = 0 there is no timeout; SubmitReturns is not about that.
Mut_NoTimeout(s) ==
  /\ pc[s] = "wait"
  /\ xfer[s].st # "SUBMITTED"
  /\ Goto(s, "switch")
  /\ UNCHANGED <<engineVars, svc, hw, irqVars, descLock, want, rem, done, rv,
                 tmp, devVars, moved>>
WaitEnd(s) ==
  /\ pc[s] = "wait"
  /\ Goto(s, "switch")
  /\ UNCHANGED <<engineVars, svc, hw, irqVars, descLock, want, rem, done, rv,
                 tmp, devVars, moved>>

\* transfer_abort() removes the transfer only from the head of the list.
Mut_AbortKeeps(s) == queue
AbortedQueue(s) ==
  IF queue # <<>> /\ Head(queue) = s THEN Tail(queue) ELSE queue

\* The registers of a device that is being reset, or that has failed and will be
\* reset once the PCI core has told the driver, may read as all ones.
\* engine_status_read(), which looks at the identifier first, then fails.
Unreadable == dpc # "online" \/ resets < MaxResets

\* switch (xfer->state) under the lock.  A timeout aborts the transfer and stops
\* the engine only if the status can be read; the request is freed in any case.
XferSwitch(s) ==
  /\ pc[s] = "switch"
  /\ LockFree
  /\ Goto(s, "load")
  /\ \/ /\ xfer[s].st = "COMPLETED"
        /\ rv' = [rv EXCEPT ![s] = "OK"]
        \* streaming counts the result entries, memory-mapped the length
        /\ done' = [done EXCEPT ![s] = @ + (IF EopFlush THEN xfer[s].cmpl
                                                        ELSE xfer[s].num)]
        \* an end of packet finishes the whole request
        /\ rem' = [rem EXCEPT ![s] = IF xfer[s].rcved THEN 0 ELSE @]
        /\ UNCHANGED <<queue, xfer, running, hw, lost>>
     \/ /\ xfer[s].st = "FAILED"
        /\ rv' = [rv EXCEPT ![s] = "EIO"]
        /\ UNCHANGED <<queue, xfer, running, hw, rem, done, lost>>
     \/ /\ xfer[s].st = "SUBMITTED"
        /\ rv' = [rv EXCEPT ![s] = "ETIMEDOUT"]
        /\ queue' = AbortedQueue(s)
        /\ xfer' = [xfer EXCEPT ![s].st = "ABORTED"]
        /\ running' = FALSE
        /\ hw' = Halted
        /\ UNCHANGED <<rem, done, lost>>
     \/ /\ xfer[s].st = "SUBMITTED"
        /\ Unreadable
        /\ rv' = [rv EXCEPT ![s] = "ETIMEDOUT"]
        /\ lost' = TRUE
        /\ UNCHANGED <<queue, xfer, running, hw, rem, done>>
  /\ UNCHANGED <<shutdown, dequeued, descUsed, svc, irqVars, descLock, want, tmp,
                 offline, dpc, resets, moved>>

\* The descriptors a finished transfer returns.
Mut_GiveCompleted(t) == xfer[t].cmpl
GiveBack(t) == xfer[t].num

\* engine->desc_used -= xfer->desc_num, outside the engine lock: the load ...
DescUsedLoad(s) ==
  /\ pc[s] = "load"
  /\ tmp' = [tmp EXCEPT ![s] = descUsed]
  /\ Goto(s, "store")
  /\ UNCHANGED <<engineVars, svc, hw, irqVars, descLock, want, rem, done, rv,
                 devVars, moved>>

\* while (nents), left on an error.
Mut_OneTransfer(s) == TRUE
LoopDone(s) == rv[s] # "OK" \/ rem[s] = 0

\* ... and the store, then transfer_destroy() and the loop condition.
DescUsedStore(s) ==
  /\ pc[s] = "store"
  /\ descUsed' = tmp[s] - GiveBack(s)
  /\ tmp' = [tmp EXCEPT ![s] = 0]
  /\ Goto(s, IF LoopDone(s) THEN "exit" ELSE "init")
  /\ UNCHANGED <<queue, xfer, running, shutdown, dequeued, svc, hw, irqVars,
                 descLock, want, rem, done, rv, devVars, moved>>

\* What the caller is told: the count as soon as some data was processed, though
\* a later transfer of the request failed, else rv.
Mut_ErrorFirst(s) == [count |-> IF rv[s] # "OK" THEN 0 ELSE done[s], err |-> rv[s]]
Result(s) == [count |-> done[s], err |-> IF done[s] # 0 THEN "OK" ELSE rv[s]]

\* mutex_unlock, unmap_sgl and xdma_request_free: the request's memory is gone.
\* A transfer that is still in transfer_list is from here on freed memory, which
\* the model takes for an empty transfer; then lost holds.
SubmitReturn(s) ==
  /\ pc[s] = "exit"
  /\ descLock' = None
  /\ xfer' = [xfer EXCEPT ![s] = NoXfer]
  /\ want' = [want EXCEPT ![s] = 0]
  /\ rem' = [rem EXCEPT ![s] = 0]
  /\ done' = [done EXCEPT ![s] = 0]
  /\ rv' = [rv EXCEPT ![s] = "OK"]
  /\ moved' = [moved EXCEPT ![s] = 0]
  /\ Goto(s, "idle")
  /\ UNCHANGED <<queue, running, shutdown, dequeued, descUsed, svc, hw, irqVars,
                 tmp, devVars>>

-----------------------------------------------------------------------------
(* The hardware and its interrupt.                                         *)

\* One descriptor is moved.  The last one of the chain stops the engine; with
\* eop_flush every descriptor requests an interrupt and may end a packet.
HwDesc ==
  /\ hw.busy
  /\ hw.done < hw.num
  /\ LET d == hw.done + 1
         last == d = hw.num
     IN /\ hw' = [hw EXCEPT !.done = d, !.busy = ~last,
                            !.pend = @ \/ last \/ EopFlush]
        /\ \/ hw.cur = None /\ UNCHANGED <<xfer, moved>>
           \/ /\ hw.cur # None
              /\ moved' = [moved EXCEPT ![hw.cur] = @ + 1]
              /\ \/ UNCHANGED xfer
                 \/ /\ EopFlush
                    /\ xfer[hw.cur].eop = 0
                    /\ xfer' = [xfer EXCEPT ![hw.cur].eop = d]
  /\ UNCHANGED <<queue, running, shutdown, dequeued, descUsed, svc, irqVars,
                 callVars, devVars>>

\* The engine halts with an error bit in its status register.
HwError ==
  /\ HwErrors
  /\ hw.busy
  /\ hw' = [hw EXCEPT !.busy = FALSE, !.err = TRUE, !.pend = TRUE]
  /\ UNCHANGED <<engineVars, svc, irqVars, callVars, devVars, moved>>

\* xdma_isr / xdma_channel_irq: mask the engine, schedule_work(&engine->work).
xdma_isr ==
  /\ irqInstalled
  /\ irqEnabled
  /\ hw.pend
  /\ irqEnabled' = FALSE
  /\ work' = TRUE
  /\ UNCHANGED <<engineVars, svc, hw, irqInstalled, callVars, devVars, moved>>

-----------------------------------------------------------------------------
(* engine_service_work(): engine_service(engine, 0) under the engine lock. *)

\* The work item ends: its interrupt is enabled again and the lock released.
Mut_IrqStaysMasked == svc' = SvcIdle /\ UNCHANGED irqEnabled
WorkEnd ==
  /\ svc' = SvcIdle
  /\ irqEnabled' = TRUE

\* Take the lock and read (and clear) the status register.  An engine that is
\* not running only has its status cleared; one that is no longer busy stops.
ServiceStatus ==
  /\ work
  /\ LockFree
  /\ work' = FALSE
  /\ hw' = [hw EXCEPT !.err = FALSE, !.pend = FALSE]
  /\ \/ ~running /\ WorkEnd /\ UNCHANGED running
     \/ /\ running
        /\ svc' = [pc |-> "count", err |-> hw.err, cnt |-> 0]
        /\ running' = hw.busy
        /\ UNCHANGED irqEnabled
  /\ UNCHANGED <<queue, xfer, shutdown, dequeued, descUsed, irqInstalled,
                 callVars, devVars, moved>>

\* desc_count -= engine->desc_dequeued, a u32.
NotDequeued == (hw.done - dequeued) % Wrap

\* Read completed_desc_count; nothing completed means nothing more to do.
ServiceCount ==
  /\ svc.pc = "count"
  /\ \/ hw.done = 0 /\ WorkEnd
     \/ /\ hw.done # 0
        /\ svc' = [svc EXCEPT !.pc = "list", !.cnt = NotDequeued]
        /\ UNCHANGED irqEnabled
  /\ UNCHANGED <<engineVars, hw, irqInstalled, work, callVars, devVars, moved>>

\* engine_transfer_completion(): wake a blocking caller, or run the callback of
\* an asynchronous request, whose xdma_xfer_completion() gives its descriptors
\* back and frees it.
Complete(h, x) ==
  \/ /\ h \in Sync
     /\ xfer' = [xfer EXCEPT ![h] = x]
     /\ UNCHANGED <<descUsed, pc, rv>>
  \/ /\ h \in Async
     /\ xfer' = [xfer EXCEPT ![h] = NoXfer]
     /\ descUsed' = descUsed - GiveBack(h)
     /\ Goto(h, "idle")
     /\ rv' = [rv EXCEPT ![h] = IF x.st = "COMPLETED" THEN "OK" ELSE "EIO"]

\* engine_service_transfer_list(): one transfer that lies before the last
\* completed one; its desc_cmpl stays as it was.
ServiceList ==
  /\ svc.pc = "list"
  /\ queue # <<>>
  /\ svc.cnt > xfer[Head(queue)].num
  /\ LET h == Head(queue) IN
        /\ svc' = [svc EXCEPT !.cnt = @ - xfer[h].num]
        /\ queue' = Tail(queue)
        /\ dequeued' = dequeued + xfer[h].num
        /\ Complete(h, [xfer[h] EXCEPT !.st = "COMPLETED"])
  /\ hw' = [hw EXCEPT !.cur = IF @ = Head(queue) THEN None ELSE @]
  /\ UNCHANGED <<running, shutdown, irqVars, descLock, want, rem, done, tmp,
                 devVars, moved>>

\* engine_service_resume(): q is the list, run the running flag and d the
\* dequeued count when it is called.
engine_service_resume(q, run, d) ==
  LET kept == [hw EXCEPT !.busy = @ /\ run,
                         !.cur = IF q # <<>> /\ @ = Head(q) THEN @ ELSE None]
  IN
  \/ /\ ~run
     /\ q # <<>>
     /\ engine_start(q)
  \/ /\ ~run
     /\ q = <<>>
     /\ shutdown' = shutdown \cup (IF ShuttingDown THEN {"IDLE"} ELSE {})
     /\ running' = FALSE
     /\ dequeued' = d
     /\ hw' = kept
     /\ UNCHANGED moved
  \/ /\ run
     /\ running' = (q # <<>>)
     /\ dequeued' = d
     /\ hw' = [kept EXCEPT !.busy = @ /\ q # <<>>]
     /\ UNCHANGED <<shutdown, moved>>

\* engine_service_final_transfer(): the transfer h leaves the list as x.
Finish(h, x, run, d) ==
  /\ queue' = Tail(queue)
  /\ Complete(h, x)
  /\ engine_service_resume(Tail(queue), run, d)

\* engine_service_final_transfer() and engine_service_resume().
ServiceFinal ==
  /\ svc.pc = "list"
  /\ \/ /\ queue = <<>>
        /\ engine_service_resume(<<>>, running, dequeued)
        /\ UNCHANGED <<queue, xfer, descUsed, pc, rv>>
     \/ /\ queue # <<>>
        /\ svc.cnt <= xfer[Head(queue)].num
        /\ LET h == Head(queue)
               x == xfer[h]
               n == svc.cnt
               partial == ~svc.err /\ n < x.num
               eop == x.eop # 0 /\ x.eop <= n
           IN \/ /\ svc.err                      \* engine_err_handle()
                 /\ Finish(h, [x EXCEPT !.st = "FAILED"], FALSE, dequeued)
              \/ /\ partial /\ EopFlush /\ eop   \* end of packet received
                 /\ Finish(h, [x EXCEPT !.st = "COMPLETED", !.cmpl = n,
                                        !.rcved = TRUE], FALSE, dequeued + n)
              \/ /\ partial /\ EopFlush /\ ~eop  \* wait for more descriptors
                 /\ xfer' = [xfer EXCEPT ![h].cmpl = n]
                 /\ engine_service_resume(queue, running, dequeued)
                 /\ UNCHANGED <<queue, descUsed, pc, rv>>
              \/ /\ partial /\ ~EopFlush         \* "stopped half-way"
                 /\ Finish(h, [x EXCEPT !.st = "FAILED", !.cmpl = n], running,
                           dequeued + x.num)
              \/ /\ ~svc.err /\ n = x.num
                 /\ Finish(h, [x EXCEPT !.st = "COMPLETED", !.cmpl = n], running,
                           dequeued + x.num)
  /\ WorkEnd
  /\ UNCHANGED <<irqInstalled, work, descLock, want, rem, done, tmp, devVars>>

-----------------------------------------------------------------------------
(* xdma_device_offline() and xdma_device_online() around a PCI reset.      *)

OfflineFlag ==
  /\ resets < MaxResets
  /\ resets' = resets + 1
  /\ dpc = "online"
  /\ offline' = TRUE
  /\ dpc' = "off_engine"
  /\ UNCHANGED <<engineVars, svc, hw, irqVars, callVars, lost, moved>>

OfflineEngine ==
  /\ dpc = "off_engine"
  /\ LockFree
  /\ shutdown' = shutdown \cup {"REQUEST"}
  /\ running' = FALSE
  /\ hw' = Halted
  /\ dpc' = "off_irq"
  /\ UNCHANGED <<queue, xfer, dequeued, descUsed, svc, irqVars, callVars, offline,
                 resets, lost, moved>>

\* Mask every channel interrupt, then irq_teardown().
OfflineIrq ==
  /\ dpc = "off_irq"
  /\ irqEnabled' = FALSE
  /\ irqInstalled' = FALSE
  /\ dpc' = "offline"
  /\ UNCHANGED <<engineVars, svc, hw, work, callVars, offline, resets,
                 lost, moved>>

OnlineEngine ==
  /\ dpc = "offline"
  /\ LockFree
  /\ shutdown' = shutdown \ {"REQUEST"}
  /\ dpc' = "on_irq"
  /\ UNCHANGED <<queue, xfer, running, dequeued, descUsed, svc, hw, irqVars,
                 callVars, offline, resets, lost, moved>>

\* irq_setup(), then unmask every channel interrupt.
OnlineIrq ==
  /\ dpc = "on_irq"
  /\ irqEnabled' = TRUE
  /\ irqInstalled' = TRUE
  /\ dpc' = "on_flag"
  /\ UNCHANGED <<engineVars, svc, hw, work, callVars, offline, resets,
                 lost, moved>>

OnlineFlag ==
  /\ dpc = "on_flag"
  /\ offline' = FALSE
  /\ dpc' = "online"
  /\ UNCHANGED <<engineVars, svc, hw, irqVars, callVars, resets, lost, moved>>

-----------------------------------------------------------------------------

SyncStep(s) ==
  \/ WaitEnd(s) \/ XferSwitch(s) \/ DescUsedLoad(s)
  \/ DescUsedStore(s) \/ SubmitReturn(s)

QueueStep(t) == transfer_init(t) \/ QueueCheck(t) \/ transfer_queue(t)

Service == ServiceStatus \/ ServiceCount \/ ServiceList \/ ServiceFinal

Device ==
  \/ OfflineFlag \/ OfflineEngine \/ OfflineIrq
  \/ OnlineEngine \/ OnlineIrq \/ OnlineFlag

Next ==
  \/ \E t \in Xfers : Submit(t) \/ QueueStep(t)
  \/ \E s \in Sync : LockDesc(s) \/ SyncStep(s)
  \/ HwDesc \/ HwError \/ xdma_isr
  \/ Service
  \/ Device

Spec == Init /\ [][Next]_vars

\* The scheduler runs every thread that can go on, the engine spinlock and the
\* desc_lock mutex are granted in order, and every wait has a timeout.  Nothing
\* is assumed of the hardware.
SoftwareFairness ==
  /\ \A t \in Async : SF_vars(QueueStep(t))
  /\ \A s \in Sync : SF_vars(QueueStep(s) \/ LockDesc(s) \/ SyncStep(s))
  /\ WF_vars(xdma_isr)
  /\ WF_vars(Service)

\* The hardware works through a chain it was given.
HardwareFairness == WF_vars(HwDesc)

FairSpec == Spec /\ SoftwareFairness

LiveSpec == FairSpec /\ HardwareFairness

-----------------------------------------------------------------------------
(* Properties.                                                             *)

\* A blocking transfer that engine_service() marks COMPLETED has moved every
\* descriptor it reports (desc_cmpl), and that is all of them unless an end of
\* packet was found among them: no late interrupt, abort or reset makes
\* xdma_xfer_submit() report data that was never transferred.  Excepted, here and
\* below, is what follows a timeout whose status read failed.
Truthful ==
  \A s \in Sync : xfer[s].st = "COMPLETED" =>
    /\ moved[s] >= xfer[s].cmpl
    /\ \/ xfer[s].cmpl = xfer[s].num
       \/ EopFlush /\ xfer[s].eop \in 1..xfer[s].cmpl
CompletedTruthful == lost \/ Truthful

\* The hardware only ever works on the transfer at the head of transfer_list,
\* so never into buffers that xdma_xfer_submit() or a callback has unmapped.
DmaOwned ==
  lost \/ (hw.busy => running /\ queue # <<>> /\ hw.cur = Head(queue))

\* transfer_list holds each transfer once and only transfers that are still
\* SUBMITTED ("queue of non-completed transfers"): none that was aborted by its
\* caller, completed, or freed with its request.
QueueSubmitted ==
  lost \/ /\ \A i, j \in DOMAIN queue : queue[i] = queue[j] => i = j
          /\ \A i \in DOMAIN queue : xfer[queue[i]].st = "SUBMITTED"

\* From the moment xdma_device_offline() has stopped the engine until
\* xdma_device_online() lets it accept transfers again, neither a racing
\* transfer_queue() nor a late work item has the hardware running.
OfflineQuiet == dpc \in {"off_irq", "offline"} => ~running /\ ~hw.busy

\* The requests whose transfer is built and not given back, and its descriptors.
Held == {t \in Xfers : pc[t] \in {"check", "queue", "wait", "switch", "load", "store"}}
Taken == {w \in Held \X (1..MaxDesc) : w[2] <= xfer[w[1]].num}

\* engine->desc_used counts the descriptors of the transfers that were built
\* and not yet given back ("total descriptors used").
DescUsedExact == descUsed = Cardinality(Taken)

\* What xdma_xfer_submit() returns adds up, however the request was cut: a count
\* of zero is never reported as success; a count without an error inside is the
\* whole request or ends with an end of packet; and the count of a call in which a
\* transfer failed, timed out or was refused, which the caller cannot tell from
\* the end of a packet, is exactly the place in the request where that transfer
\* begins.
SubmitAccounts ==
  \A s \in Sync : pc[s] = "exit" /\ ~lost =>
    LET r == Result(s)
    IN /\ r.count = 0 => r.err # "OK"
       /\ rv[s] = "OK" => r.count = want[s] \/ (EopFlush /\ xfer[s].rcved)
       /\ rv[s] # "OK" => r.count + xfer[s].num + rem[s] = want[s]

\* The outcome of a transfer is final: once engine_service() or transfer_abort()
\* has decided it, nothing but freeing or rebuilding the transfer changes it, so
\* a completion that comes after the timeout does not overwrite the abort.
SettledStays ==
  [][\A s \in Sync : ~lost /\ xfer[s].st \in {"COMPLETED", "FAILED", "ABORTED"} =>
        xfer'[s] = xfer[s] \/ xfer'[s].st \in {"NONE", "NEW"}]_vars

\* The callback of an asynchronous request reports success only after the
\* hardware has moved all its descriptors.
CallbackTruthful ==
  [][\A t \in Async :
        pc[t] = "wait" /\ pc'[t] = "idle" /\ rv'[t] = "OK" =>
           moved[t] = xfer[t].num]_vars

\* A caller of xdma_xfer_submit() always returns, even if the hardware hangs,
\* reports an error or the device is reset under it.  The wait has a timeout: the
\* module parameters h2c_timeout and c2h_timeout are not 0.
SubmitReturns == \A s \in Sync : pc[s] # "idle" ~> pc[s] = "idle" \/ lost

\* Every asynchronous request ends: its callback runs or its submission fails.
CallbackRuns == \A t \in Async : pc[t] # "idle" ~> pc[t] = "idle"

-----------------------------------------------------------------------------
(* The abstract service that the blocking callers see.                     *)

Phase(s) ==
  CASE pc[s] = "idle"  -> "idle"
    [] pc[s] = "mutex" -> "waiting"
    [] pc[s] = "exit"  -> IF Result(s).err = "OK" THEN "count" ELSE "error"
    [] OTHER           -> "serving"

\* The count the caller is told.
Told(s) == IF pc[s] = "exit" THEN Result(s).count ELSE 0

\* Descriptors delivered: those of earlier transfers and, once the transfer at
\* hand is COMPLETED and until the caller is through with it, what the hardware
\* has moved of it (with eop_flush, what engine_service() has counted).
Delivered(s) ==
  LET counted == pc[s] \in {"load", "store"}
      open == xfer[s].st = "COMPLETED" /\ (counted \/ pc[s] \in {"wait", "switch"})
  IN CASE open /\ ~EopFlush -> done[s] - (IF counted THEN xfer[s].num ELSE 0)
                               + moved[s]
       [] open /\ EopFlush  -> done[s] + (IF counted THEN 0 ELSE xfer[s].cmpl)
       [] ~open             -> done[s]

TS == INSTANCE TransferService WITH
        Callers <- Sync,
        phase <- [s \in Sync |-> Phase(s)],
        want  <- [s \in Sync |-> want[s]],
        got   <- [s \in Sync |-> Delivered(s)],
        told  <- [s \in Sync |-> Told(s)],
        owner <- descLock,
        broken <- lost

\* The engine, its interrupt, timeouts, errors and resets implement the service:
\* callers are served one after the other, a caller is told exactly what was
\* delivered to it, or an error when that is nothing, however the ring cut its
\* request and whatever transfer of it failed, and nothing is delivered to a
\* caller that waits, was told an outcome, or has returned.
ImplementsService == TS!Spec
=============================================================================
