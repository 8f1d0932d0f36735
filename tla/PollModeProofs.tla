--------------------------- MODULE PollModeProofs ---------------------------
(***************************************************************************)
(* Proofs about PollMode for any number of engines on the thread and any   *)
(* chain length: an engine that met neither an error nor a timeout has its *)
(* transfers decided by its own writeback word, whatever the others do.    *)
(***************************************************************************)
EXTENDS PollMode, TLAPS

-----------------------------------------------------------------------------
(* The inductive invariant.                                                *)

\* The thread has read a word of engine e and not yet used it.
Serving(e) == th \in {"reset", "service"} /\ item = e

\* The chain of e was executed to its end and nobody has looked at it yet.
Finished(e) ==
  /\ xfer[e].st = "SUBMITTED" /\ listed[e] /\ running[e]
  /\ ~hw[e].busy /\ hw[e].done = xfer[e].num /\ xfer[e].num >= 1

\* Every engine: an idle one is off the list, the hardware stays within its
\* chain, and an error in a word, or a failure, has a cause.
Sound(e) ==
  /\ pc[e] \in {"idle", "queue"} => ~hw[e].busy /\ ~listed[e] /\ ~running[e]
  /\ pc[e] = "idle" => xfer[e].st = "NONE"
  /\ pc[e] = "queue" => xfer[e].st = "NEW" /\ xfer[e].num >= 1
  /\ hw[e].busy => hw[e].done < xfer[e].num
  /\ wb[e].err => upset[e]
  /\ Serving(e) /\ val.err => upset[e]
  /\ xfer[e].st = "FAILED" => upset[e]

\* An engine without eop_flush that met no error and no timeout: a word in memory,
\* or in the thread's hands, is that of the transfer that is on the list.
Calm(e) ==
  e \notin Flush /\ ~upset[e] =>
    /\ wb[e] # NoWb => Finished(e) /\ wb[e].cnt = xfer[e].num
    /\ Serving(e) => Finished(e) /\ val.cnt = xfer[e].num
    /\ th = "service" /\ item = e => wb[e] = NoWb
    /\ hw[e].busy => xfer[e].st = "SUBMITTED" /\ listed[e] /\ running[e]
    /\ xfer[e].st = "COMPLETED" => hw[e].done = xfer[e].num
    /\ pc[e] = "switch" => xfer[e].st # "SUBMITTED"

PollInv == \A e \in Engines : Sound(e) /\ Calm(e)

-----------------------------------------------------------------------------
(* Type correctness.                                                       *)

States == {"NONE", "NEW", "SUBMITTED", "COMPLETED", "FAILED", "ABORTED"}
XferType == [st: States, num: 0..MaxDesc, eop: 0..MaxDesc]
HwType == [busy: BOOLEAN, done: 0..MaxDesc]
Threads == {"pend", "wait", "sleep", "woken", "clear", "proc", "monitor", "reset",
            "service"}

LEMMA Types ==
  ASSUME TypeOK
  PROVE  /\ pc \in [Engines -> {"idle", "queue", "wake", "wait", "switch"}]
         /\ xfer \in [Engines -> XferType]
         /\ listed \in [Engines -> BOOLEAN] /\ running \in [Engines -> BOOLEAN]
         /\ hw \in [Engines -> HwType]
         /\ wb \in [Engines -> Words]
         /\ upset \in [Engines -> BOOLEAN]
         /\ th \in Threads /\ item \in Engines /\ expect \in 0..MaxDesc /\ val \in Words
         /\ MaxDesc \in Nat /\ NoWb \in Words /\ Stopped \in HwType
         /\ NoXfer \in XferType
<1>1. MaxDesc \in Nat
  BY PollAssumption DEF PollAssumption
<1>2. NoWb \in Words /\ Stopped \in HwType /\ NoXfer \in XferType
  BY <1>1 DEF NoWb, Words, Stopped, HwType, NoXfer, XferType, States
<1> QED
  BY <1>1, <1>2 DEF TypeOK, XferType, States, HwType, Threads

\* What a decided or submitted transfer looks like.
LEMMA XferUpdate ==
  ASSUME NEW x \in XferType, NEW st \in States, NEW d \in 0..MaxDesc
  PROVE  [x EXCEPT !.st = st] \in XferType /\ [x EXCEPT !.eop = d] \in XferType
BY DEF XferType

LEMMA VerdictTyped ==
  ASSUME NEW x \in XferType, NEW n \in Nat, NEW f, NEW err \in BOOLEAN
  PROVE  Verdict(x, n, f, err) \in {"COMPLETED", "FAILED", "SUBMITTED"}
<1>1. x.num \in Nat
  BY DEF XferType
<1> QED
  BY <1>1 DEF Verdict

LEMMA NextItemTyped ==
  ASSUME TypeOK, NextItem
  PROVE  item' \in Engines /\ expect' \in 0..MaxDesc /\ val' \in Words
         /\ th' \in {"pend", "proc"}
<1>1. Last \in Nat \ {0} /\ MaxDesc \in Nat
  BY PollAssumption DEF PollAssumption
<1> QED
  BY <1>1, Types DEF NextItem, ThGoto, Engines

LEMMA CallerTyped ==
  ASSUME TypeOK, NEW e \in Engines, Caller(e)
  PROVE  TypeOK'
<1> USE Types DEF Goto, engVars, thVars, callVars
<1>1. CASE Submit(e)
  <2>1. PICK n \in 1..MaxDesc :
          xfer' = [xfer EXCEPT ![e] = [st |-> "NEW", num |-> n, eop |-> 0]]
    BY <1>1 DEF Submit
  <2>2. [st |-> "NEW", num |-> n, eop |-> 0] \in XferType
    BY DEF XferType, States
  <2>3. xfer' \in [Engines -> XferType]
    BY <2>1, <2>2
  <2> QED
    BY <1>1, <2>3 DEF Submit, TypeOK, XferType, States
<1>2. CASE transfer_queue(e)
  <2>1. [xfer[e] EXCEPT !.st = "SUBMITTED"] \in XferType
    BY XferUpdate DEF States
  <2>2. [busy |-> TRUE, done |-> 0] \in HwType
    BY DEF HwType
  <2>3. xfer' \in [Engines -> XferType] /\ hw' \in [Engines -> HwType]
    BY <1>2, <2>1, <2>2 DEF transfer_queue
  <2> QED
    BY <1>2, <2>3 DEF transfer_queue, TypeOK, XferType, States, HwType
<1>3. CASE xdma_kthread_wakeup(e)
  BY <1>3 DEF xdma_kthread_wakeup, TypeOK
<1>4. CASE WaitEnd(e)
  BY <1>4 DEF WaitEnd, TypeOK
<1>5. CASE XferSwitch(e)
  <2>1. xfer' \in [Engines -> XferType] /\ hw' \in [Engines -> HwType]
    BY <1>5 DEF XferSwitch
  <2> QED
    BY <1>5, <2>1 DEF XferSwitch, TypeOK, XferType, States, HwType
<1> QED
  BY <1>1, <1>2, <1>3, <1>4, <1>5 DEF Caller

LEMMA HardwareTyped ==
  ASSUME TypeOK, PollInv, NEW e \in Engines, HwDesc(e) \/ HwError(e)
  PROVE  TypeOK'
<1> USE Types DEF engVars, thVars, callVars
<1>1. hw[e] \in HwType /\ xfer[e] \in XferType
  OBVIOUS
<1>2. CASE HwDesc(e)
  <2> DEFINE d == hw[e].done + 1
             last == d = xfer[e].num
  <2>1. hw[e].done < xfer[e].num
    BY <1>2 DEF HwDesc, PollInv, Sound
  <2>2. d \in 0..MaxDesc
    BY <1>1, <2>1 DEF HwType, XferType
  <2>3. /\ hw' = [hw EXCEPT ![e] = [busy |-> ~last, done |-> d]]
        /\ wb' \in {wb, [wb EXCEPT ![e] = [cnt |-> d, err |-> FALSE]]}
        /\ xfer' \in {xfer, [xfer EXCEPT ![e] = [xfer[e] EXCEPT !.eop = d]]}
        /\ UNCHANGED <<pc, listed, running, sched, th, item, expect, val, upset>>
    BY <1>2 DEF HwDesc
  <2>4. [busy |-> ~last, done |-> d] \in HwType
    BY <2>2 DEF HwType
  <2>5. [cnt |-> d, err |-> FALSE] \in Words /\ [xfer[e] EXCEPT !.eop = d] \in XferType
    BY <1>1, <2>2, XferUpdate DEF Words, States
  <2> HIDE DEF d, last
  <2>6. /\ hw' \in [Engines -> HwType] /\ wb' \in [Engines -> Words]
        /\ xfer' \in [Engines -> XferType]
    BY <2>3, <2>4, <2>5
  <2> QED
    BY <2>3, <2>6 DEF TypeOK, XferType, States, HwType
<1>3. CASE HwError(e)
  <2>1. [hw[e] EXCEPT !.busy = FALSE] \in HwType
        /\ [cnt |-> hw[e].done, err |-> TRUE] \in Words
    BY <1>1 DEF HwType, Words
  <2>2. /\ hw' = [hw EXCEPT ![e] = [hw[e] EXCEPT !.busy = FALSE]]
        /\ wb' = [wb EXCEPT ![e] = [cnt |-> hw[e].done, err |-> TRUE]]
    BY <1>3 DEF HwError
  <2>3. hw' \in [Engines -> HwType] /\ wb' \in [Engines -> Words]
    BY <2>1, <2>2
  <2>4. /\ upset' \in [Engines -> BOOLEAN]
        /\ UNCHANGED <<pc, xfer, listed, running, sched, th, item, expect, val>>
    BY <1>3 DEF HwError
  <2> QED
    BY <2>3, <2>4 DEF TypeOK, HwType
<1> QED
  BY <1>2, <1>3

LEMMA ThreadTyped ==
  ASSUME TypeOK, Thread
  PROVE  TypeOK'
<1> USE Types DEF engVars, thVars, callVars, ThreadOnly, ThGoto
<1>0. Last \in Nat \ {0}
  BY PollAssumption DEF PollAssumption
<1>1. CASE xthread_work_pending
  <2>1. item' \in Engines
    BY <1>0, <1>1 DEF xthread_work_pending, Engines
  <2>2. /\ th' \in Threads
        /\ UNCHANGED <<pc, xfer, listed, running, hw, wb, sched, expect, val, upset>>
    BY <1>1 DEF xthread_work_pending, Threads
  <2> QED
    BY <2>1, <2>2 DEF TypeOK, Threads
<1>2. CASE xthread_reschedule \/ ClearSchedule
  BY <1>2 DEF xthread_reschedule, ClearSchedule, TypeOK
<1>3. CASE xdma_thread_cmpl_status_proc
  <2>1. desc_cmpl_th(item) \in 0..MaxDesc
    <3>1. MaxDesc \in Nat \ {0}
      BY PollAssumption DEF PollAssumption
    <3>2. xfer[item].num \in 0..MaxDesc
      BY DEF XferType
    <3>3. 1 \in 0..MaxDesc
      BY <3>1
    <3> QED
      BY <3>2, <3>3, Zenon DEF desc_cmpl_th
  <2>2. item' \in Engines /\ expect' \in 0..MaxDesc /\ val' \in Words
        /\ th' \in {"monitor", "pend", "proc"}
    BY <1>3, <2>1, NextItemTyped DEF xdma_thread_cmpl_status_proc
  <2> QED
    BY <1>3, <2>2 DEF xdma_thread_cmpl_status_proc, TypeOK
<1>4. CASE MonitorRead
  <2>1. item' \in Engines /\ expect' \in 0..MaxDesc /\ val' \in Words
        /\ th' \in {"reset", "pend", "proc"}
    BY <1>4, NextItemTyped DEF MonitorRead
  <2> QED
    BY <1>4, <2>1 DEF MonitorRead, TypeOK
<1>5. CASE MonitorDone \/ MonitorAgain
  BY <1>5 DEF MonitorDone, MonitorAgain, TypeOK
<1>6. CASE engine_service_poll
  <2> DEFINE n == IF val.cnt = 0 THEN hw[item].done ELSE val.cnt
             f == item \in Flush
             s == Verdict(xfer[item], n, f, val.err)
  <2>1. s \in {"COMPLETED", "FAILED", "SUBMITTED"}
    <3>1. n \in Nat /\ val.err \in BOOLEAN /\ xfer[item] \in XferType
      BY DEF HwType, Words
    <3> HIDE DEF n, f
    <3> QED
      BY <3>1, VerdictTyped
  <2>2. /\ item' \in Engines /\ expect' \in 0..MaxDesc /\ val' \in Words
        /\ th' \in {"pend", "proc"}
    BY <1>6, NextItemTyped DEF engine_service_poll
  <2>3. /\ xfer' \in {xfer, [xfer EXCEPT ![item] = [xfer[item] EXCEPT !.st = s]]}
        /\ \/ UNCHANGED <<listed, running, hw>>
           \/ UNCHANGED <<listed, hw>> /\ running' = [running EXCEPT ![item] = hw[item].busy]
           \/ /\ listed' = [listed EXCEPT ![item] = s = "SUBMITTED"]
              /\ running' = [running EXCEPT ![item] = s = "SUBMITTED"]
              /\ hw' = [hw EXCEPT ![item] = [hw[item] EXCEPT !.busy = @ /\ s = "SUBMITTED"]]
        /\ UNCHANGED <<pc, wb, sched, upset>>
    BY <1>6, Zenon DEF engine_service_poll
  <2> HIDE DEF n, f, s
  <2>4. xfer' \in [Engines -> XferType]
    <3>1. [xfer[item] EXCEPT !.st = s] \in XferType
      BY <2>1, XferUpdate DEF States
    <3> QED
      BY <2>3, <3>1
  <2>5. (s = "SUBMITTED") \in BOOLEAN /\ hw[item].busy \in BOOLEAN
    BY DEF HwType
  <2>6. [hw[item] EXCEPT !.busy = @ /\ s = "SUBMITTED"] \in HwType
    BY DEF HwType
  <2> DEFINE h == [hw[item] EXCEPT !.busy = @ /\ s = "SUBMITTED"]
             l == s = "SUBMITTED"
             b == hw[item].busy
  <2>7. hw' \in {hw, [hw EXCEPT ![item] = h]}
        /\ listed' \in {listed, [listed EXCEPT ![item] = l]}
        /\ running' \in {running, [running EXCEPT ![item] = l],
                         [running EXCEPT ![item] = b]}
    BY <2>3, Zenon
  <2>8. h \in HwType /\ l \in BOOLEAN /\ b \in BOOLEAN
    BY <2>5, <2>6, Zenon
  <2> HIDE DEF h, l, b
  <2>9. /\ listed' \in [Engines -> BOOLEAN] /\ running' \in [Engines -> BOOLEAN]
        /\ hw' \in [Engines -> HwType]
    BY <2>7, <2>8
  <2> QED
    BY <2>2, <2>3, <2>4, <2>9 DEF TypeOK, XferType, States, HwType
<1> QED
  BY <1>1, <1>2, <1>3, <1>4, <1>5, <1>6 DEF Thread

LEMMA StepTyped ==
  ASSUME TypeOK, PollInv, [Next]_vars
  PROVE  TypeOK'
<1>1. CASE UNCHANGED vars
  BY <1>1 DEF vars, callVars, engVars, thVars, TypeOK
<1> QED
  BY <1>1, CallerTyped, HardwareTyped, ThreadTyped DEF Next

-----------------------------------------------------------------------------
(* The invariant is inductive.                                             *)

\* A step leaves engine f alone, and the word the thread holds of it.
Untouched(f) ==
  /\ pc'[f] = pc[f] /\ xfer'[f] = xfer[f] /\ listed'[f] = listed[f]
  /\ running'[f] = running[f] /\ hw'[f] = hw[f] /\ wb'[f] = wb[f]
  /\ upset'[f] = upset[f]
  /\ Serving(f)' => th' = th /\ item' = item /\ val' = val

LEMMA UntouchedKeeps ==
  ASSUME NEW f \in Engines, Sound(f), Calm(f), Untouched(f)
  PROVE  Sound(f)' /\ Calm(f)'
<1>1. Serving(f)' => Serving(f) /\ val' = val
  BY DEF Untouched, Serving
<1>2. Finished(f) => Finished(f)'
  BY DEF Untouched, Finished
<1>3. Sound(f)'
  BY <1>1 DEF Untouched, Sound
<1>4. th' = "service" /\ item' = f => th = "service" /\ item = f
  BY DEF Untouched, Serving
<1>5. Calm(f)'
  BY <1>1, <1>2, <1>4 DEF Untouched, Calm
<1> QED
  BY <1>3, <1>5

LEMMA CallerKeeps ==
  ASSUME TypeOK, PollInv, NEW e \in Engines, Caller(e)
  PROVE  PollInv'
<1> USE DEF Goto, engVars, thVars, callVars
<1>0. Sound(e) /\ Calm(e)
  BY DEF PollInv
<1>1. ASSUME NEW f \in Engines, f # e
      PROVE  Untouched(f)
  <2>1. th' \in {"reset", "service"} => th' = th
    BY DEF Caller, Submit, transfer_queue, xdma_kthread_wakeup, WaitEnd, XferSwitch
  <2>2. item' = item /\ val' = val /\ wb' = wb
    BY DEF Caller, Submit, transfer_queue, xdma_kthread_wakeup, WaitEnd, XferSwitch
  <2>3. pc'[f] = pc[f] /\ xfer'[f] = xfer[f] /\ upset'[f] = upset[f]
    BY <1>1, Types
       DEF Caller, Submit, transfer_queue, xdma_kthread_wakeup, WaitEnd, XferSwitch
  <2>4. listed'[f] = listed[f] /\ running'[f] = running[f] /\ hw'[f] = hw[f]
    BY <1>1, Types
       DEF Caller, Submit, transfer_queue, xdma_kthread_wakeup, WaitEnd, XferSwitch
  <2> QED
    BY <2>1, <2>2, <2>3, <2>4 DEF Untouched, Serving
<1>2. Sound(e)' /\ Calm(e)'
  <2>1. CASE Submit(e)
    <3>1. PICK n \in 1..MaxDesc :
            xfer' = [xfer EXCEPT ![e] = [st |-> "NEW", num |-> n, eop |-> 0]]
      BY <2>1 DEF Submit
    <3>2. xfer'[e] = [st |-> "NEW", num |-> n, eop |-> 0] /\ pc'[e] = "queue"
      BY <2>1, <3>1, Types DEF Submit
    <3>3. UNCHANGED <<listed, running, hw, wb, th, item, val, upset>> /\ pc[e] = "idle"
      BY <2>1 DEF Submit
    <3>4. n >= 1
      BY Types
    <3>5. Sound(e)'
      BY <1>0, <3>2, <3>3, <3>4 DEF Sound, Serving
    <3>6. Calm(e)'
      BY <1>0, <3>2, <3>3, <3>4 DEF Sound, Calm, Serving, Finished
    <3> QED
      BY <3>5, <3>6
  <2>2. CASE transfer_queue(e)
    <3>1. /\ xfer'[e].st = "SUBMITTED" /\ xfer'[e].num = xfer[e].num
          /\ listed'[e] /\ running'[e] /\ pc'[e] = "wake"
          /\ hw'[e] = [busy |-> TRUE, done |-> 0]
      BY <2>2, Types DEF transfer_queue, XferType
    <3>2. UNCHANGED <<wb, th, item, val, upset>> /\ pc[e] = "queue"
      BY <2>2 DEF transfer_queue
    <3>3. xfer[e].num \in Nat
      BY Types DEF XferType
    <3>4. Sound(e)'
      BY <1>0, <3>1, <3>2, <3>3 DEF Sound, Serving
    <3>5. Calm(e)'
      BY <1>0, <3>1, <3>2, <3>3 DEF Sound, Calm, Serving, Finished
    <3> QED
      BY <3>4, <3>5
  <2>3. CASE xdma_kthread_wakeup(e)
    <3>1. /\ pc'[e] = "wait" /\ pc[e] = "wake"
          /\ UNCHANGED <<xfer, listed, running, hw, wb, item, val, upset>>
      BY <2>3, Types DEF xdma_kthread_wakeup
    <3>2. th' \in {"reset", "service"} => th' = th
      BY <2>3 DEF xdma_kthread_wakeup
    <3>3. Sound(e)'
      BY <1>0, <3>1, <3>2 DEF Sound, Serving
    <3>4. Calm(e)'
      BY <1>0, <3>1, <3>2 DEF Calm, Serving, Finished
    <3> QED
      BY <3>3, <3>4
  <2>4. CASE WaitEnd(e)
    <3>1. /\ pc'[e] = "switch" /\ pc[e] = "wait"
          /\ UNCHANGED <<xfer, listed, running, hw, wb, th, item, val>>
          /\ upset'[e] = upset[e] \/ upset'[e] = TRUE
          /\ xfer[e].st = "SUBMITTED" => upset'[e]
      BY <2>4, Types DEF WaitEnd
    <3>2. Sound(e)'
      BY <1>0, <3>1 DEF Sound, Serving
    <3>3. Calm(e)'
      BY <1>0, <3>1 DEF Calm, Serving, Finished
    <3> QED
      BY <3>2, <3>3
  <2>5. CASE XferSwitch(e)
    <3>1. /\ pc'[e] = "idle" /\ pc[e] = "switch" /\ xfer'[e] = NoXfer
          /\ ~listed'[e] /\ ~running'[e] /\ hw'[e] = Stopped
          /\ UNCHANGED <<wb, th, item, val, upset>>
      BY <2>5, Types DEF XferSwitch
    <3>2. Sound(e)'
      BY <1>0, <3>1 DEF Sound, Serving, NoXfer, Stopped
    <3>3. Calm(e)'
      BY <1>0, <3>1 DEF Calm, Serving, Finished, NoXfer, Stopped
    <3> QED
      BY <3>2, <3>3
  <2> QED
    BY <2>1, <2>2, <2>3, <2>4, <2>5 DEF Caller
<1> QED
  BY <1>1, <1>2, UntouchedKeeps DEF PollInv

LEMMA HardwareKeeps ==
  ASSUME TypeOK, PollInv, NEW e \in Engines, HwDesc(e) \/ HwError(e)
  PROVE  PollInv'
<1> USE DEF engVars, thVars, callVars
<1>0. Sound(e) /\ Calm(e) /\ hw[e].busy
  BY DEF PollInv, HwDesc, HwError
<1>1. ASSUME NEW f \in Engines, f # e
      PROVE  Untouched(f)
  <2>1. UNCHANGED <<pc, listed, running, th, item, val>>
    BY DEF HwDesc, HwError
  <2>2. xfer'[f] = xfer[f] /\ hw'[f] = hw[f]
    BY <1>1, Types DEF HwDesc, HwError
  <2>3. wb'[f] = wb[f] /\ upset'[f] = upset[f]
    BY <1>1, Types DEF HwDesc, HwError
  <2> QED
    BY <2>1, <2>2, <2>3 DEF Untouched, Serving
<1>2. Sound(e)' /\ Calm(e)'
  <2>1. hw[e].done \in Nat /\ xfer[e].num \in Nat
    BY Types DEF HwType, XferType
  <2>2. CASE HwDesc(e)
    <3> DEFINE d == hw[e].done + 1
               last == d = xfer[e].num
    <3>1. hw'[e].done = d /\ (hw'[e].busy <=> ~last)
      BY <2>2, Types DEF HwDesc
    <3>0. d <= xfer[e].num /\ d \in Nat /\ xfer[e].num >= 1
      BY <1>0, <2>1 DEF Sound
    <3>2. /\ ~last /\ e \notin Flush => wb'[e] = wb[e]
          /\ last => wb'[e] = [cnt |-> d, err |-> FALSE]
          /\ wb'[e] = wb[e] \/ wb'[e] = [cnt |-> d, err |-> FALSE]
      BY <2>2, Types DEF HwDesc
    <3>3. xfer'[e].st = xfer[e].st /\ xfer'[e].num = xfer[e].num
      BY <2>2, Types DEF HwDesc, XferType
    <3>4. UNCHANGED <<pc, listed, running, th, item, val, upset>>
      BY <2>2 DEF HwDesc
    <3>5. wb'[e].err => wb[e].err
      BY <3>2
    <3>6. Sound(e)'
      <4>1. hw'[e].busy => hw'[e].done < xfer'[e].num
        BY <2>1, <3>0, <3>1, <3>3
      <4>2. pc[e] \notin {"idle", "queue"}
        BY <1>0 DEF Sound
      <4> QED
        BY <1>0, <3>3, <3>4, <3>5, <4>1, <4>2 DEF Sound, Serving
    <3>7. e \notin Flush /\ ~upset[e] => wb[e] = NoWb /\ ~Serving(e)
      BY <1>0 DEF Calm, Finished
    <3>8. Calm(e)'
      <4>1. SUFFICES ASSUME e \notin Flush, ~upset[e]
                     PROVE  Calm(e)'
        BY <3>4 DEF Calm
      <4>2. xfer[e].st = "SUBMITTED" /\ listed[e] /\ running[e]
        BY <1>0, <4>1 DEF Calm
      <4>3. ~Serving(e)' /\ wb[e] = NoWb
        BY <3>4, <3>7, <4>1 DEF Serving
      <4>4. CASE last
        <5>1. Finished(e)' /\ wb'[e].cnt = xfer'[e].num
          BY <3>0, <3>1, <3>2, <3>3, <3>4, <4>2, <4>4 DEF Finished
        <5> QED
          BY <1>0, <3>1, <3>3, <3>4, <4>1, <4>2, <4>3, <4>4, <5>1 DEF Calm, Serving
      <4>5. CASE ~last
        <5>1. wb'[e] = NoWb
          BY <3>2, <4>1, <4>3, <4>5
        <5>2. pc'[e] # "switch"
          BY <1>0, <3>4, <4>1, <4>2 DEF Calm
        <5> QED
          BY <3>3, <3>4, <4>2, <4>3, <5>1, <5>2 DEF Calm, Serving
      <4> QED
        BY <4>4, <4>5
    <3> QED
      BY <3>6, <3>8
  <2>3. CASE HwError(e)
    <3>1. /\ ~hw'[e].busy /\ upset'[e]
          /\ UNCHANGED <<pc, xfer, listed, running, th, item, val>>
      BY <2>3, Types DEF HwError, HwType
    <3>2. Sound(e)'
      BY <1>0, <3>1 DEF Sound, Serving
    <3> QED
      BY <3>1, <3>2 DEF Calm
  <2> QED
    BY <2>2, <2>3
<1> QED
  BY <1>1, <1>2, UntouchedKeeps DEF PollInv

\* What engine_service() decides of a chain that was executed to its end, and
\* what it can only decide after an error.
LEMMA VerdictFinished ==
  ASSUME NEW x \in XferType, NEW n \in Nat, NEW f, NEW err \in BOOLEAN
  PROVE  /\ n = x.num /\ ~err => Verdict(x, n, f, err) = "COMPLETED"
         /\ f /\ ~err => Verdict(x, n, f, err) # "FAILED"
<1>1. x.num \in Nat
  BY DEF XferType
<1> QED
  BY <1>1 DEF Verdict

LEMMA ThreadKeeps ==
  ASSUME TypeOK, PollInv, Thread
  PROVE  PollInv'
<1> USE DEF engVars, thVars, callVars, ThreadOnly, ThGoto
<1>e. PICK e \in Engines : e = item
  BY Types
<1> USE <1>e
<1>0. e \in Engines /\ Sound(e) /\ Calm(e)
  BY DEF PollInv
<1>1. CASE xthread_work_pending \/ xthread_reschedule \/ ClearSchedule
           \/ xdma_thread_cmpl_status_proc \/ (MonitorRead /\ NextItem)
  <2>1. th' \notin {"reset", "service"}
    BY <1>1 DEF xthread_work_pending, xthread_reschedule, ClearSchedule,
                xdma_thread_cmpl_status_proc, MonitorRead, NextItem
  <2>2. UNCHANGED <<pc, xfer, listed, running, hw, wb, upset>>
    BY <1>1 DEF xthread_work_pending, xthread_reschedule, ClearSchedule,
                xdma_thread_cmpl_status_proc, MonitorRead
  <2>3. \A f \in Engines : Untouched(f)
    BY <2>1, <2>2 DEF Untouched, Serving
  <2> QED
    BY <2>3, UntouchedKeeps DEF PollInv
<1>2. ASSUME NEW f \in Engines, f # e, ~(MonitorRead /\ NextItem),
             MonitorRead \/ MonitorDone \/ MonitorAgain \/ engine_service_poll
      PROVE  Untouched(f)
  <2>1. UNCHANGED <<pc, upset>> /\ (item' = item \/ th' \in {"pend", "proc"})
    BY <1>2 DEF MonitorRead, MonitorDone, MonitorAgain, engine_service_poll, NextItem
  <2>2. xfer'[f] = xfer[f] /\ hw'[f] = hw[f] /\ wb'[f] = wb[f]
    BY <1>2, Types DEF MonitorRead, MonitorDone, MonitorAgain, engine_service_poll
  <2>3. listed'[f] = listed[f] /\ running'[f] = running[f]
    BY <1>2, Types DEF MonitorRead, MonitorDone, MonitorAgain, engine_service_poll
  <2> QED
    BY <1>2, <2>1, <2>2, <2>3 DEF Untouched, Serving
<1>3. ASSUME MonitorRead, ~NextItem
      PROVE  Sound(e)' /\ Calm(e)'
  <2>1. /\ th = "monitor" /\ th' = "reset" /\ val' = wb[e] /\ wb[e] # NoWb
        /\ UNCHANGED <<pc, xfer, listed, running, hw, wb, item, upset>>
    BY <1>3 DEF MonitorRead
  <2>2. Sound(e)'
    BY <1>0, <2>1 DEF Sound, Serving
  <2>3. Calm(e)'
    BY <1>0, <2>1 DEF Calm, Serving, Finished
  <2> QED
    BY <2>2, <2>3
<1>4. ASSUME MonitorDone \/ MonitorAgain
      PROVE  Sound(e)' /\ Calm(e)'
  <2>1. /\ th = "reset" /\ wb'[e] = NoWb
        /\ UNCHANGED <<pc, xfer, listed, running, hw, item, upset>>
    BY <1>4, Types DEF MonitorDone, MonitorAgain
  <2>2. th' = "monitor" \/ (th' = "service" /\ val' = val)
    BY <1>4 DEF MonitorDone, MonitorAgain
  <2>3. Sound(e)'
    BY <1>0, <2>1, <2>2 DEF Sound, Serving, NoWb
  <2>4. Calm(e)'
    BY <1>0, <2>1, <2>2 DEF Calm, Serving, Finished
  <2> QED
    BY <2>3, <2>4
<1>5. ASSUME engine_service_poll
      PROVE  Sound(e)' /\ Calm(e)'
  <2> DEFINE n == IF val.cnt = 0 THEN hw[e].done ELSE val.cnt
             flush == e \in Flush
             s == Verdict(xfer[e], n, flush, val.err)
  <2>1. /\ th = "service" /\ th' \in {"pend", "proc"}
        /\ UNCHANGED <<pc, wb, upset>>
    BY <1>5 DEF engine_service_poll, NextItem
  <2>2. ~Serving(e)' /\ Serving(e)
    BY <2>1 DEF Serving
  <2>3. CASE ~running[e]
    <3>1. UNCHANGED <<xfer, listed, running, hw>>
      BY <1>5, <2>3 DEF engine_service_poll
    <3> QED
      BY <1>0, <2>1, <2>2, <3>1, UntouchedKeeps DEF Untouched
  <2>4. CASE running[e] /\ n = 0
    <3>1. UNCHANGED <<xfer, listed, hw>> /\ running'[e] = hw[e].busy
      BY <1>5, <2>4, Types DEF engine_service_poll
    <3>2. Sound(e)'
      BY <1>0, <2>1, <2>2, <2>4, <3>1 DEF Sound
    <3>3. e \notin Flush => upset[e]
      <4>1. SUFFICES ASSUME e \notin Flush, ~upset[e]
                     PROVE  FALSE
        OBVIOUS
      <4>2. Finished(e) /\ val.cnt = xfer[e].num
        BY <1>0, <2>2, <4>1 DEF Calm
      <4> QED
        BY <2>4, <4>2 DEF Finished
    <3>4. Calm(e)'
      BY <2>1, <3>3 DEF Calm
    <3> QED
      BY <3>2, <3>4
  <2>5. CASE running[e] /\ n # 0
    <3>1. n \in Nat /\ val.err \in BOOLEAN /\ xfer[e] \in XferType
          /\ hw[e].busy \in BOOLEAN
      BY Types DEF HwType, Words
    <3>2. /\ xfer' = [xfer EXCEPT ![e].st = s]
          /\ listed' = [listed EXCEPT ![e] = s = "SUBMITTED"]
          /\ running' = [running EXCEPT ![e] = s = "SUBMITTED"]
          /\ hw' = [hw EXCEPT ![e].busy = @ /\ s = "SUBMITTED"]
      BY <1>5, <2>5, Zenon DEF engine_service_poll
    <3>3. /\ n = xfer[e].num /\ ~val.err => s = "COMPLETED"
          /\ flush /\ ~val.err => s # "FAILED"
          /\ s \in {"COMPLETED", "FAILED", "SUBMITTED"}
      <4> HIDE DEF n, flush
      <4> QED
        BY <3>1, VerdictFinished, VerdictTyped
    <3> HIDE DEF n, s
    <3>4. /\ xfer'[e].st = s /\ xfer'[e].num = xfer[e].num
          /\ hw'[e].done = hw[e].done /\ (hw'[e].busy => hw[e].busy)
      BY <3>2, Types DEF XferType, HwType
    <3>5. /\ listed'[e] => s = "SUBMITTED"
          /\ running'[e] => s = "SUBMITTED"
          /\ hw'[e].busy => s = "SUBMITTED"
      BY <3>2, Types DEF HwType
    <3>6. val.err => upset[e]
      BY <1>0, <2>2 DEF Sound
    <3>7. e \notin Flush /\ ~upset[e] =>
            s = "COMPLETED" /\ hw[e].done = xfer[e].num /\ ~hw[e].busy /\ wb[e] = NoWb
      <4>1. SUFFICES ASSUME e \notin Flush, ~upset[e]
                     PROVE  s = "COMPLETED" /\ hw[e].done = xfer[e].num
                            /\ ~hw[e].busy /\ wb[e] = NoWb
        OBVIOUS
      <4>2. Finished(e) /\ val.cnt = xfer[e].num /\ wb[e] = NoWb
        BY <1>0, <2>1, <2>2, <4>1 DEF Calm
      <4>3. n = xfer[e].num
        BY <4>2, Types DEF n, Finished, XferType
      <4> QED
        BY <3>3, <3>6, <4>1, <4>2, <4>3 DEF Finished
    <3>8. pc[e] \notin {"idle", "queue"}
      BY <1>0, <2>5 DEF Sound
    <3>9. s = "FAILED" => upset[e]
      BY <3>3, <3>6, <3>7
    <3>10. Sound(e)'
      BY <1>0, <2>1, <2>2, <3>3, <3>4, <3>5, <3>8, <3>9 DEF Sound
    <3>11. Calm(e)'
      BY <2>1, <2>2, <3>4, <3>5, <3>7 DEF Calm, Serving
    <3> QED
      BY <3>10, <3>11
  <2> QED
    BY <2>3, <2>4, <2>5, Types
<1> QED
  BY <1>0, <1>1, <1>2, <1>3, <1>4, <1>5, UntouchedKeeps DEF PollInv, Thread

-----------------------------------------------------------------------------
(* Theorems.                                                               *)

LEMMA InitSafe ==
  ASSUME Init
  PROVE  TypeOK /\ PollInv
<1>1. Last \in Nat \ {0} /\ MaxDesc \in Nat
  BY PollAssumption DEF PollAssumption
<1>2. TypeOK
  <2>1. /\ NoWb \in Words /\ 1 \in Engines /\ 0 \in 0..MaxDesc
        /\ NoXfer \in XferType /\ Stopped \in HwType
    BY <1>1 DEF NoWb, Words, Engines, NoXfer, XferType, States, Stopped, HwType
  <2>2. xfer \in [Engines -> XferType] /\ hw \in [Engines -> HwType]
        /\ wb \in [Engines -> Words]
    BY <2>1 DEF Init
  <2> QED
    BY <2>1, <2>2 DEF Init, TypeOK, XferType, States, HwType
<1>3. ASSUME NEW e \in Engines
      PROVE  Sound(e) /\ Calm(e)
  BY DEF Init, Sound, Calm, Serving, Finished, NoWb, NoXfer, Stopped
<1> QED
  BY <1>2, <1>3 DEF PollInv

LEMMA StepSafe ==
  ASSUME TypeOK, PollInv, [Next]_vars
  PROVE  TypeOK' /\ PollInv'
<1>1. CASE UNCHANGED vars
  <2>1. \A f \in Engines : Untouched(f)
    BY <1>1 DEF vars, callVars, engVars, thVars, Untouched
  <2> QED
    BY <2>1, UntouchedKeeps, StepTyped DEF PollInv
<1> QED
  BY <1>1, StepTyped, CallerKeeps, HardwareKeeps, ThreadKeeps DEF Next

LEMMA Safe == Spec => [](TypeOK /\ PollInv)
<1>1. Init => TypeOK /\ PollInv
  BY InitSafe
<1>2. TypeOK /\ PollInv /\ [Next]_vars => (TypeOK /\ PollInv)'
  BY StepSafe
<1> QED
  BY <1>1, <1>2, PTL DEF Spec

\* The state of the thread, the callers, the engines and the writeback words keeps
\* its type; in particular the thread never walks past the end of its work list,
\* and the hardware never counts past the end of a chain.
THEOREM TypeCorrect == Spec => []TypeOK
BY Safe, PTL

\* Without eop_flush and before a timeout or an error, a transfer that
\* engine_service_poll() completes was executed to its last descriptor, for any
\* number of engines that share the thread and any chain length.
THEOREM PolledCompletionIsReal == Spec => []PollTruthful
<1>1. PollInv => PollTruthful
  BY DEF PollInv, Calm, PollTruthful
<1> QED
  BY <1>1, Safe, PTL

\* A transfer that engine_service_poll() fails had an error or a timeout, with
\* eop_flush too: no count of another moment is taken for a chain cut short.
THEOREM PolledFailureHasCause == Spec => []NoFalseFailure
<1>1. PollInv => NoFalseFailure
  BY DEF PollInv, Sound, NoFalseFailure
<1> QED
  BY <1>1, Safe, PTL
=============================================================================
