-------------------------------- MODULE Dbuf --------------------------------
(***************************************************************************)
(* The double buffer (ping-pong) mode of a C2H character device, the part  *)
(* this repository adds to the driver: two DMA-coherent slots that are     *)
(* queued on the engine in turn, a completion callback that marks a slot   *)
(* filled, and a read() that copies a filled slot and queues it again.     *)
(*                                                                         *)
(* The engine is seen as xdma_xfer_submit_nowait() shows it: a queue of    *)
(* transfers, executed one after the other in the order of submission and  *)
(* finished by the callback, which engine_transfer_completion() always     *)
(* calls with err = 0.  (XdmaEngine is the model of the engine itself.)    *)
(* Any thread that holds the file may start, stop and read; the code takes *)
(* no lock that covers more than one assignment.                           *)
(***************************************************************************)
EXTENDS Integers, Sequences, FiniteSets

CONSTANTS
  Threads,     \* threads that share the open file
  Bufs,        \* addresses dma_alloc_coherent() can return
  Period,      \* blocks of the stream are numbered modulo Period
  Faults,      \* whether a submission or a DMA transfer may fail
  MaxSessions, \* bound: how often double buffering is started
  NoBuf        \* slot->virt == NULL

ASSUME DbufAssumption ==
  /\ Threads # {}
  /\ NoBuf \notin Bufs
  /\ Period \in Nat /\ Period > 2
  /\ Faults \in BOOLEAN
  /\ MaxSessions \in Nat

Slots == {0, 1}          \* XDMA_DBUF_NUM
Junk  == Period          \* memory that holds no complete block

VARIABLES
  opened,   \* engine->device_open
  active,   \* xcdev->dbuf_active
  readIdx,  \* xcdev->dbuf_read_idx
  filled,   \* slot->filled
  buf,      \* slot->virt
  queue,    \* slot transfers the engine still has to finish
  mem,      \* contents of the DMA memory
  block,    \* number of the next block of the stream
  pc,       \* control of each thread
  idx,      \* idx of char_sgdma_read
  got,      \* what the read has copied to its caller
  sessions, \* number of starts so far
  clean,    \* history: nothing failed in this session, and no transfer of an
            \* earlier session was in flight when it started
  expect    \* history: the block the next successful read must return

slotVars == <<active, readIdx, filled, buf>>
hwVars   == <<queue, mem, block>>
readVars == <<idx, got>>
histVars == <<sessions, clean, expect>>
vars     == <<opened, slotVars, hwVars, pc, readVars, histVars>>

Transfers == [slot: Slots, buf: Bufs, st: {"queued", "moved", "failed", "stuck"}]

Labels == {"idle", "alloc", "first", "second", "stop", "free", "wait", "copy",
           "submit", "toggle"}

TypeOK ==
  /\ opened \in BOOLEAN /\ active \in BOOLEAN /\ clean \in BOOLEAN
  /\ readIdx \in Slots
  /\ filled \in [Slots -> BOOLEAN]
  /\ buf \in [Slots -> Bufs \cup {NoBuf}]
  /\ queue \in Seq(Transfers)
  /\ mem \in [Bufs -> 0..Period]
  /\ block \in 0..(Period - 1) /\ expect \in 0..(Period - 1)
  /\ pc \in [Threads -> Labels]
  /\ idx \in [Threads -> Slots]
  /\ got \in [Threads -> 0..Period]
  /\ sessions \in 0..MaxSessions

Init ==
  /\ opened = FALSE
  /\ active = FALSE
  /\ readIdx = 0
  /\ filled = [i \in Slots |-> FALSE]
  /\ buf = [i \in Slots |-> NoBuf]
  /\ queue = <<>>
  /\ mem = [b \in Bufs |-> Junk]
  /\ block = 0
  /\ pc = [t \in Threads |-> "idle"]
  /\ idx = [t \in Threads |-> 0]
  /\ got = [t \in Threads |-> Junk]
  /\ sessions = 0
  /\ clean = TRUE
  /\ expect = 0

Goto(t, label) == pc' = [pc EXCEPT ![t] = label]

Succ(n) == (n + 1) % Period

\* The slots' memory goes back to the system, whatever the engine does with it.
FreeSlots ==
  /\ buf' = [i \in Slots |-> NoBuf]
  /\ mem' = [b \in Bufs |-> Junk]

-----------------------------------------------------------------------------
(* char_sgdma_open, char_sgdma_close                                       *)

Open ==
  /\ ~opened
  /\ opened' = TRUE
  /\ UNCHANGED <<slotVars, hwVars, pc, readVars, histVars>>

\* The last reference is dropped, so no thread is inside a call.
Close ==
  /\ opened
  /\ \A t \in Threads : pc[t] = "idle"
  /\ opened' = FALSE
  /\ \/ active /\ active' = FALSE /\ FreeSlots
     \/ ~active /\ UNCHANGED <<active, buf, mem>>
  /\ UNCHANGED <<readIdx, filled, queue, block, pc, readVars, histVars>>

-----------------------------------------------------------------------------
(* dbuf_submit_slot: clear filled, then give the slot to the engine.       *)

Mut_FilledKept(i) == filled
Unfill(i) == [filled EXCEPT ![i] = FALSE]

\* transfer_queue() starts an engine that stands still again, with whatever
\* transfer is first in its list.
Restarted(q) ==
  [j \in DOMAIN q |-> IF q[j].st = "stuck" THEN [q[j] EXCEPT !.st = "queued"]
                                           ELSE q[j]]

Submitted(i) ==
  /\ buf[i] # NoBuf
  /\ filled' = Unfill(i)
  /\ queue' = Append(Restarted(queue),
                      [slot |-> i, buf |-> buf[i], st |-> "queued"])
  /\ UNCHANGED <<mem, block, clean>>

SubmitFailed(i) ==
  /\ Faults \/ buf[i] = NoBuf
  /\ filled' = Unfill(i)
  /\ clean' = FALSE
  /\ UNCHANGED hwVars

-----------------------------------------------------------------------------
(* ioctl_do_dbuf_start                                                     *)

StartEnter(t) ==
  /\ pc[t] = "idle"
  /\ opened
  /\ ~active
  /\ sessions < MaxSessions
  /\ sessions' = sessions + 1
  /\ Goto(t, "alloc")
  /\ UNCHANGED <<opened, slotVars, hwVars, readVars, clean, expect>>

\* Both slots get fresh memory, or what was allocated is freed again.
StartAlloc(t) ==
  /\ pc[t] = "alloc"
  /\ readIdx' = 0
  /\ \/ /\ \E f \in [Slots -> Bufs \ {buf[0], buf[1]}] :
              f[0] # f[1] /\ buf' = f
        /\ mem' = [b \in Bufs |-> Junk]    \* coherent memory comes zeroed
        /\ active' = TRUE
        /\ clean' = (queue = <<>>)
        /\ expect' = block
        /\ Goto(t, "first")
     \/ /\ FreeSlots
        /\ Goto(t, "idle")
        /\ UNCHANGED <<active, clean, expect>>
  /\ UNCHANGED <<opened, filled, queue, block, readVars, sessions>>

\* for (i = 0; i < XDMA_DBUF_NUM; i++) dbuf_submit_slot(xcdev, i)
Mut_OneSlot(i) == "idle"
AfterSlot(i) == IF i = 0 THEN "second" ELSE "idle"

StartSubmit(t) ==
  /\ pc[t] \in {"first", "second"}
  /\ LET i == IF pc[t] = "first" THEN 0 ELSE 1
     IN \/ /\ Submitted(i)
           /\ Goto(t, AfterSlot(i))
           /\ UNCHANGED active
        \/ /\ SubmitFailed(i)
           /\ active' = FALSE
           /\ Goto(t, "free")
  /\ UNCHANGED <<opened, readIdx, buf, readVars, sessions, expect>>

\* The end of ioctl_do_dbuf_stop, and the error path of ioctl_do_dbuf_start.
Free(t) ==
  /\ pc[t] = "free"
  /\ FreeSlots
  /\ Goto(t, "idle")
  /\ UNCHANGED <<opened, active, readIdx, filled, queue, block, readVars, histVars>>

-----------------------------------------------------------------------------
(* ioctl_do_dbuf_stop                                                      *)

StopEnter(t) ==
  /\ pc[t] = "idle"
  /\ opened
  /\ active
  /\ Goto(t, "stop")
  /\ UNCHANGED <<opened, slotVars, hwVars, readVars, histVars>>

StopClear(t) ==
  /\ pc[t] = "stop"
  /\ active' = FALSE
  /\ Goto(t, "free")
  /\ UNCHANGED <<opened, readIdx, filled, buf, hwVars, readVars, histVars>>

-----------------------------------------------------------------------------
(* char_sgdma_read while double buffering is active                        *)

ReadEnter(t) ==
  /\ pc[t] = "idle"
  /\ opened
  /\ active
  /\ idx' = [idx EXCEPT ![t] = readIdx]
  /\ Goto(t, "wait")
  /\ UNCHANGED <<opened, slotVars, hwVars, got, histVars>>

\* wait_event_interruptible(slot->filled || !dbuf_active)
ReadWake(t) ==
  /\ pc[t] = "wait"
  /\ \/ active /\ filled[idx[t]] /\ Goto(t, "copy")
     \/ ~active /\ Goto(t, "idle")                          \* -EIO
  /\ UNCHANGED <<opened, slotVars, hwVars, readVars, histVars>>

ReadSignal(t) ==
  /\ pc[t] = "wait"
  /\ Goto(t, "idle")                                        \* -ERESTARTSYS
  /\ UNCHANGED <<opened, slotVars, hwVars, readVars, histVars>>

\* The block is copied as far as the count asks: with a count below the slot size
\* the user gets its beginning, and the rest is lost when the slot is queued again.
\* got stands for the block the user was given data of.
ReadCopy(t) ==
  /\ pc[t] = "copy"
  /\ \/ /\ buf[idx[t]] # NoBuf
        /\ got' = [got EXCEPT ![t] = mem[buf[idx[t]]]]
        /\ Goto(t, "submit")
     \/ Goto(t, "idle") /\ UNCHANGED got                    \* -EFAULT
  /\ UNCHANGED <<opened, slotVars, hwVars, idx, histVars>>

\* The slot is queued again; on a failure read() returns the error code and
\* the slot stays outside the queue.
ReadSubmit(t) ==
  /\ pc[t] = "submit"
  /\ \/ Submitted(idx[t])    /\ Goto(t, "toggle")
     \/ SubmitFailed(idx[t]) /\ Goto(t, "idle")
  /\ UNCHANGED <<opened, active, readIdx, buf, readVars, sessions, expect>>

\* xcdev->dbuf_read_idx ^= 1
Mut_NoToggle == readIdx
Mut_Increment == readIdx + 1
NextSlot == 1 - readIdx

ReadReturn(t) ==
  /\ pc[t] = "toggle"
  /\ readIdx' = NextSlot
  /\ expect' = Succ(expect)
  /\ got' = [got EXCEPT ![t] = Junk]
  /\ Goto(t, "idle")
  /\ UNCHANGED <<opened, active, filled, buf, hwVars, idx, sessions, clean>>

-----------------------------------------------------------------------------
(* The engine and the completion callback                                  *)

HwBlock ==
  /\ queue # <<>>
  /\ Head(queue).st = "queued"
  /\ queue' = [queue EXCEPT ![1].st = "moved"]
  /\ mem' = [mem EXCEPT ![Head(queue).buf] = block]
  /\ block' = Succ(block)
  /\ UNCHANGED <<opened, slotVars, pc, readVars, histVars>>

\* An error after some descriptors completes the transfer as FAILED; one before
\* the first descriptor is not serviced at all and blocks the queue.
HwError ==
  /\ Faults
  /\ queue # <<>>
  /\ Head(queue).st = "queued"
  /\ clean' = FALSE
  /\ \/ /\ queue' = [queue EXCEPT ![1].st = "failed"]
        /\ mem' = [mem EXCEPT ![Head(queue).buf] = Junk]
     \/ /\ queue' = [queue EXCEPT ![1].st = "stuck"]
        /\ UNCHANGED mem
  /\ UNCHANGED <<opened, slotVars, block, pc, readVars, sessions, expect>>

\* engine_transfer_completion() calls dbuf_io_done(cb, 0) for FAILED and for
\* COMPLETED transfers alike, so its error branch is never taken.
dbuf_io_done ==
  /\ queue # <<>>
  /\ Head(queue).st \in {"moved", "failed"}
  /\ queue' = Tail(queue)
  /\ \/ active /\ filled' = [filled EXCEPT ![Head(queue).slot] = TRUE]
     \/ ~active /\ UNCHANGED filled
  /\ UNCHANGED <<opened, active, readIdx, buf, mem, block, pc, readVars, histVars>>

-----------------------------------------------------------------------------

Read(t) ==
  \/ ReadEnter(t) \/ ReadWake(t) \/ ReadSignal(t) \/ ReadCopy(t)
  \/ ReadSubmit(t) \/ ReadReturn(t)

Control(t) ==
  \/ StartEnter(t) \/ StartAlloc(t) \/ StartSubmit(t) \/ StopEnter(t)
  \/ StopClear(t) \/ Free(t)

Next ==
  \/ Open \/ Close
  \/ \E t \in Threads : Read(t) \/ Control(t)
  \/ HwBlock \/ HwError \/ dbuf_io_done

Spec == Init /\ [][Next]_vars

\* A thread inside a read() goes on when it can, the hardware executes what is
\* queued, and the engine's work item delivers completions.  Nothing makes a
\* signal arrive or a user call stop.
Fairness ==
  /\ \A t \in Threads :
        WF_vars(ReadWake(t) \/ ReadCopy(t) \/ ReadSubmit(t) \/ ReadReturn(t))
  /\ WF_vars(HwBlock)
  /\ WF_vars(dbuf_io_done)

FairSpec == Spec /\ Fairness

-----------------------------------------------------------------------------
(* Properties.                                                             *)

\* Consecutive successful read() calls return consecutive blocks of the stream,
\* beginning with the first one of the session: none is skipped, returned twice
\* or returned before the DMA has written it.  How much of a block the count asks
\* for is left out.
InOrder == \A t \in Threads : pc[t] = "toggle" /\ clean => got[t] = expect

\* While char_sgdma_read() copies a slot the engine has no transfer into the
\* memory of that slot.
NoTornCopy ==
  \A t \in Threads : pc[t] = "copy" /\ clean =>
    /\ buf[idx[t]] # NoBuf
    /\ \A j \in DOMAIN queue : queue[j].buf # buf[idx[t]]

\* Once started, each slot is in exactly one place: filled and waiting for the
\* reader, or in the engine's queue, and there only once.
OnePlace ==
  active /\ clean /\ (\A t \in Threads : pc[t] \notin {"first", "second"}) =>
    \A i \in Slots :
      Cardinality({j \in DOMAIN queue : queue[j].slot = i})
        = IF filled[i] THEN 0 ELSE 1

\* A read() that waits for a slot returns, unless something failed.
ReadReturns ==
  \A t \in Threads : pc[t] = "wait" ~> (pc[t] = "idle" \/ ~clean)

\* The slot fields are used only "while dbuf_active=true": no transfer is in
\* flight into memory that ioctl_do_dbuf_stop() has freed.
InFlightLive == \A j \in DOMAIN queue : \E i \in Slots : queue[j].buf = buf[i]
=============================================================================
