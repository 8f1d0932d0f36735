------------------------------ MODULE PollMode ------------------------------
(***************************************************************************)
(* Polled mode: one completion thread (xthread_main) that serves several   *)
(* engines by watching the descriptor count that each engine writes back   *)
(* to memory, the blocking caller of each engine, and the hardware.        *)
(*                                                                         *)
(* desc_lock lets one blocking request at a time use an engine, so each    *)
(* engine has one caller and transfer_list has at most one entry.  The     *)
(* thread takes no lock for the head of the list nor for the writeback     *)
(* word, so reading the word, clearing it and using its value are steps of *)
(* their own; engine_service() is one step under the engine lock.  The     *)
(* status register engine_service() looks at is the one read when the      *)
(* engine was started, busy, unless an error makes it read it again.       *)
(***************************************************************************)
EXTENDS Naturals

CONSTANTS
  Last,     \* the engines on the thread's work list are 1..Last
  Flush,    \* the engines opened with eop_flush (AXI-ST C2H only)
  Faulty,   \* bound: the engines that may meet an error or a caller's timeout
  MaxDesc   \* largest number of descriptors in a transfer

ASSUME PollAssumption ==
  /\ Last \in Nat \ {0}
  /\ Flush \subseteq 1..Last
  /\ Faulty \subseteq 1..Last
  /\ MaxDesc \in Nat \ {0}

Engines == 1..Last

VARIABLES
  pc,       \* control of the caller of each engine
  xfer,     \* its transfer: state, descriptors, end of packet, completed ones
  listed,   \* the transfer is on engine->transfer_list
  running,  \* engine->running
  hw,       \* the engine's chain: busy, completed_desc_count
  wb,       \* the writeback word: count and error bit
  sched,    \* thp->schedule
  th,       \* control of the thread
  item,     \* the work item (engine) it is at
  expect,   \* expected_wb
  val,      \* desc_wb
  upset     \* history: the engine had a timeout or an error

callVars == <<pc, xfer>>
engVars  == <<listed, running>>
thVars   == <<th, item, expect, val>>
vars == <<callVars, engVars, hw, wb, sched, thVars, upset>>

NoWb == [cnt |-> 0, err |-> FALSE]
Words == [cnt: 0..MaxDesc, err: BOOLEAN]
Stopped == [busy |-> FALSE, done |-> 0]
NoXfer == [st |-> "NONE", num |-> 0, eop |-> 0]

TypeOK ==
  /\ pc \in [Engines -> {"idle", "queue", "wake", "wait", "switch"}]
  /\ xfer \in [Engines ->
        [st: {"NONE", "NEW", "SUBMITTED", "COMPLETED", "FAILED", "ABORTED"},
         num: 0..MaxDesc, eop: 0..MaxDesc]]
  /\ listed \in [Engines -> BOOLEAN]
  /\ running \in [Engines -> BOOLEAN]
  /\ hw \in [Engines -> [busy: BOOLEAN, done: 0..MaxDesc]]
  /\ wb \in [Engines -> Words]
  /\ sched \in BOOLEAN
  /\ th \in {"pend", "wait", "sleep", "woken", "clear", "proc", "monitor",
             "reset", "service"}
  /\ item \in Engines
  /\ expect \in 0..MaxDesc
  /\ val \in Words
  /\ upset \in [Engines -> BOOLEAN]

Init ==
  /\ pc = [e \in Engines |-> "idle"]
  /\ xfer = [e \in Engines |-> NoXfer]
  /\ listed = [e \in Engines |-> FALSE]
  /\ running = [e \in Engines |-> FALSE]
  /\ hw = [e \in Engines |-> Stopped]
  /\ wb = [e \in Engines |-> NoWb]
  /\ sched = FALSE
  /\ th = "pend" /\ item = 1 /\ expect = 0 /\ val = NoWb
  /\ upset = [e \in Engines |-> FALSE]

-----------------------------------------------------------------------------
(* The caller: xdma_xfer_submit().                                         *)

Goto(e, label) == pc' = [pc EXCEPT ![e] = label]

\* desc_lock taken and the transfer built.
Submit(e) ==
  /\ pc[e] = "idle"
  /\ Goto(e, "queue")
  /\ \E n \in 1..MaxDesc :
        xfer' = [xfer EXCEPT ![e] = [st |-> "NEW", num |-> n, eop |-> 0]]
  /\ UNCHANGED <<engVars, hw, wb, sched, thVars, upset>>

\* transfer_queue() and engine_start(); the writeback word is left as it is.
transfer_queue(e) ==
  /\ pc[e] = "queue"
  /\ xfer' = [xfer EXCEPT ![e].st = "SUBMITTED"]
  /\ listed' = [listed EXCEPT ![e] = TRUE]
  /\ running' = [running EXCEPT ![e] = TRUE]
  /\ hw' = [hw EXCEPT ![e] = [busy |-> TRUE, done |-> 0]]
  /\ Goto(e, "wake")
  /\ UNCHANGED <<wb, sched, thVars, upset>>

\* xdma_kthread_wakeup(): schedule is set, then a sleeping thread is woken.
Mut_WakeOnly(e) ==
  /\ pc[e] = "wake"
  /\ th' = IF th = "sleep" THEN "woken" ELSE th
  /\ Goto(e, "wait")
  /\ UNCHANGED <<xfer, engVars, hw, wb, sched, item, expect, val, upset>>
xdma_kthread_wakeup(e) ==
  /\ pc[e] = "wake"
  /\ sched' = TRUE
  /\ th' = IF th = "sleep" THEN "woken" ELSE th
  /\ Goto(e, "wait")
  /\ UNCHANGED <<xfer, engVars, hw, wb, item, expect, val, upset>>

\* The wait ends because the transfer was decided, or by timeout or signal.
WaitEnd(e) ==
  /\ pc[e] = "wait"
  /\ \/ xfer[e].st # "SUBMITTED" /\ UNCHANGED upset
     \/ /\ xfer[e].st = "SUBMITTED"
        /\ e \in Faulty
        /\ upset' = [upset EXCEPT ![e] = TRUE]
  /\ Goto(e, "switch")
  /\ UNCHANGED <<xfer, engVars, hw, wb, sched, thVars>>

\* switch (xfer->state): a transfer still submitted is aborted and the engine
\* stopped.  Then the caller returns and its request is freed.  A decided one has
\* left the engine stopped; its count is read no more and forgotten here.
XferSwitch(e) ==
  /\ pc[e] = "switch"
  /\ listed' = [listed EXCEPT ![e] = FALSE]
  /\ running' = [running EXCEPT ![e] = FALSE]
  /\ hw' = [hw EXCEPT ![e] = Stopped]
  /\ xfer' = [xfer EXCEPT ![e] = NoXfer]
  /\ Goto(e, "idle")
  /\ UNCHANGED <<wb, sched, thVars, upset>>

-----------------------------------------------------------------------------
(* The hardware.                                                           *)

\* A descriptor is moved.  The count is written back for the last one, with
\* eop_flush for every one (XDMA_DESC_COMPLETED), which may then end a packet.
HwDesc(e) ==
  /\ hw[e].busy
  /\ LET d == hw[e].done + 1
         last == d = xfer[e].num
     IN /\ hw' = [hw EXCEPT ![e] = [busy |-> ~last, done |-> d]]
        /\ wb' = IF last \/ e \in Flush
                 THEN [wb EXCEPT ![e] = [cnt |-> d, err |-> FALSE]] ELSE wb
        /\ \/ UNCHANGED xfer
           \/ /\ e \in Flush
              /\ xfer[e].eop = 0
              /\ xfer' = [xfer EXCEPT ![e].eop = d]
  /\ UNCHANGED <<pc, engVars, sched, thVars, upset>>

\* The engine halts with an error, which is written back with the count.
HwError(e) ==
  /\ e \in Faulty
  /\ hw[e].busy
  /\ hw' = [hw EXCEPT ![e].busy = FALSE]
  /\ wb' = [wb EXCEPT ![e] = [cnt |-> hw[e].done, err |-> TRUE]]
  /\ upset' = [upset EXCEPT ![e] = TRUE]
  /\ UNCHANGED <<callVars, engVars, sched, thVars>>

-----------------------------------------------------------------------------
(* xthread_main().                                                         *)

ThGoto(label) == th' = label
ThreadOnly == UNCHANGED <<callVars, engVars, hw, upset>>

\* The next work item, or the top of the loop.
Mut_PastEnd ==
  /\ expect' = 0
  /\ val' = NoWb
  /\ item' = item + 1
  /\ ThGoto(IF item = Last THEN "pend" ELSE "proc")
NextItem ==
  /\ expect' = 0
  /\ val' = NoWb
  /\ item' = IF item = Last THEN 1 ELSE item + 1
  /\ ThGoto(IF item = Last THEN "pend" ELSE "proc")

\* xdma_thread_cmpl_status_pend() of one engine, under its lock.
Pending == listed[item]

\* xthread_work_pending(): the engines are looked at one after the other.
xthread_work_pending ==
  /\ th = "pend"
  /\ \/ /\ Pending
        /\ ThGoto("clear")
        /\ item' = 1
     \/ /\ ~Pending
        /\ item' = IF item = Last THEN 1 ELSE item + 1
        /\ ThGoto(IF item = Last THEN "wait" ELSE "pend")
  /\ ThreadOnly
  /\ UNCHANGED <<wb, sched, expect, val>>

\* xthread_reschedule(): sleep until schedule is set.
xthread_reschedule ==
  /\ th \in {"wait", "woken"}
  /\ ThGoto(IF sched THEN "clear" ELSE "sleep")
  /\ ThreadOnly
  /\ UNCHANGED <<wb, sched, item, expect, val>>

ClearSchedule ==
  /\ th = "clear"
  /\ sched' = FALSE
  /\ ThGoto("proc")
  /\ ThreadOnly
  /\ UNCHANGED <<wb, item, expect, val>>

\* The count at which the thread looks at a transfer, set by transfer_init().
desc_cmpl_th(e) == IF e \in Flush THEN 1 ELSE xfer[e].num

\* xdma_thread_cmpl_status_proc(): desc_cmpl_th of the first transfer, looked up
\* without the lock.  On an empty list the list head is taken for a transfer; at
\* the place of desc_cmpl_th a 64-bit build has the lock word of shutdown_wq,
\* which is 0, so nothing is expected and the monitor loop is skipped.
xdma_thread_cmpl_status_proc ==
  /\ th = "proc"
  /\ \/ /\ listed[item]
        /\ expect' = desc_cmpl_th(item)
        /\ ThGoto("monitor")
        /\ UNCHANGED <<item, val>>
     \/ ~listed[item] /\ NextItem
  /\ ThreadOnly
  /\ UNCHANGED <<wb, sched>>

\* engine_service_wb_monitor(): read the word; on timeout return it.
MonitorRead ==
  /\ th = "monitor"
  /\ \/ /\ wb[item] # NoWb
        /\ val' = wb[item]
        /\ ThGoto("reset")
        /\ UNCHANGED <<item, expect>>
     \/ wb[item] = NoWb /\ NextItem
  /\ ThreadOnly
  /\ UNCHANGED <<wb, sched>>

\* The count read is what was waited for, or an error.
Expected == val.err \/ val.cnt >= expect

\* ... clear a non-zero word; return it when it is the expected one or the
\* timeout has passed (POLL_TIMEOUT_SECONDS) ...
Mut_KeepWord ==
  /\ th = "reset"
  /\ ThGoto("service")
  /\ ThreadOnly
  /\ UNCHANGED <<wb, sched, item, expect, val>>
MonitorDone ==
  /\ th = "reset"
  /\ wb' = [wb EXCEPT ![item] = NoWb]
  /\ ThGoto("service")
  /\ ThreadOnly
  /\ UNCHANGED <<sched, item, expect, val>>

\* ... or go on polling.
MonitorAgain ==
  /\ th = "reset"
  /\ ~Expected
  /\ wb' = [wb EXCEPT ![item] = NoWb]
  /\ ThGoto("monitor")
  /\ ThreadOnly
  /\ val' = NoWb
  /\ UNCHANGED <<sched, item, expect>>

\* engine_service(): what it decides of the listed transfer x for the count n;
\* "SUBMITTED" keeps it listed.
Mut_NoFlush(x, n, flush, err) ==
  IF n > x.num \/ (n = x.num /\ ~err) THEN "COMPLETED" ELSE "FAILED"
Verdict(x, n, flush, err) ==
  CASE n > x.num                          -> "COMPLETED"
    [] n <= x.num /\ err                  -> "FAILED"
    [] n < x.num /\ ~err /\ ~flush        -> "FAILED"
    [] n < x.num /\ ~err /\ flush         -> IF x.eop \in 1..n THEN "COMPLETED"
                                                              ELSE "SUBMITTED"
    [] n = x.num /\ ~err                  -> "COMPLETED"

engine_service_poll ==
  /\ th = "service"
  /\ LET e == item
         n == IF val.cnt = 0 THEN hw[e].done ELSE val.cnt
         s == Verdict(xfer[e], n, e \in Flush, val.err)
     IN \/ /\ ~running[e]
           /\ UNCHANGED <<xfer, engVars, hw>>
        \/ /\ running[e] /\ n = 0      \* an error before the first descriptor
           /\ running' = [running EXCEPT ![e] = hw[e].busy]
           /\ UNCHANGED <<xfer, listed, hw>>
        \/ /\ running[e] /\ n # 0
           /\ xfer' = [xfer EXCEPT ![e].st = s]
           /\ listed' = [listed EXCEPT ![e] = s = "SUBMITTED"]
           /\ running' = [running EXCEPT ![e] = s = "SUBMITTED"]
           /\ hw' = [hw EXCEPT ![e].busy = @ /\ s = "SUBMITTED"]
  /\ NextItem
  /\ UNCHANGED <<pc, wb, sched, upset>>

-----------------------------------------------------------------------------

Caller(e) ==
  \/ Submit(e) \/ transfer_queue(e) \/ xdma_kthread_wakeup(e)
  \/ WaitEnd(e) \/ XferSwitch(e)

Thread ==
  \/ xthread_work_pending \/ xthread_reschedule \/ ClearSchedule
  \/ xdma_thread_cmpl_status_proc \/ MonitorRead \/ MonitorDone \/ MonitorAgain
  \/ engine_service_poll

Next ==
  \/ \E e \in Engines : Caller(e) \/ HwDesc(e) \/ HwError(e)
  \/ Thread

Spec == Init /\ [][Next]_vars

\* A caller that queued a transfer goes on to wake the thread, the thread runs,
\* its polling of one engine has a deadline, and the hardware executes what it was
\* given.  No timeout of a caller is assumed.
FairSpec ==
  /\ Spec
  /\ WF_vars(Thread)
  /\ SF_vars(MonitorDone)
  /\ \A e \in Engines :
       /\ WF_vars(transfer_queue(e) \/ xdma_kthread_wakeup(e))
       /\ WF_vars(HwDesc(e))

-----------------------------------------------------------------------------
(* Properties.                                                             *)

\* Without eop_flush and before a timeout or an error, a transfer is COMPLETED
\* only when the hardware has moved all of it: a word that the thread read and
\* cleared without the lock, or that was left over by an earlier transfer, is
\* never applied to a transfer it is not of.  (With eop_flush it can be: the count
\* of a descriptor that ends after the end of packet was found stays in the word.)
PollTruthful ==
  \A e \in Engines \ Flush :
    xfer[e].st = "COMPLETED" /\ ~upset[e] => hw[e].done = xfer[e].num

\* Without a timeout or an error no transfer fails, with eop_flush neither: the
\* thread never takes a count of another moment for "stopped half-way".
NoFalseFailure ==
  \A e \in Engines : xfer[e].st = "FAILED" => upset[e]

\* The thread does not sleep over a transfer: every blocking caller that waits
\* is served without its timeout, also when the thread is polling another
\* engine, unless an error comes before the first descriptor.  With eop_flush a
\* writeback that arrives between the read and the clear is lost, so this is
\* promised to the other engines only.
Served ==
  \A e \in Engines \ Flush :
    pc[e] = "wait" ~> xfer[e].st # "SUBMITTED" \/ upset[e]
=============================================================================
