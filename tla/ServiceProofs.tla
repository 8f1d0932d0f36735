--------------------------- MODULE ServiceProofs ----------------------------
(***************************************************************************)
(* What xdma_xfer_submit() tells its callers, for any number of blocking   *)
(* requests: the count it returns is right, a decided outcome stays, and   *)
(* XdmaEngine implements TransferService.                                  *)
(***************************************************************************)
EXTENDS XdmaEngineProofs

-----------------------------------------------------------------------------
(* The books a blocking request keeps.                                     *)

\* A COMPLETED transfer was counted whole, or up to an end of packet; without
\* eop_flush the hardware has moved exactly its descriptors.
Outcome(s) ==
  xfer[s].st = "COMPLETED" =>
    /\ xfer[s].rcved => EopFlush /\ xfer[s].cmpl >= 1
    /\ ~xfer[s].rcved => xfer[s].cmpl = xfer[s].num
    /\ ~EopFlush => moved[s] = xfer[s].num

\* What is done, in the transfer at hand, and left adds up to what is wanted.
Account(s) ==
  /\ pc[s] \in {"idle", "mutex"} => done[s] = 0
  /\ pc[s] \in {"mutex", "init", "check", "queue", "wait", "switch"} => rv[s] = "OK"
  /\ pc[s] = "mutex" => rem[s] = want[s] /\ rem[s] >= 1
  /\ pc[s] = "init" => done[s] + rem[s] = want[s] /\ rem[s] >= 1
  /\ pc[s] \in {"check", "queue", "wait", "switch"} =>
       done[s] + xfer[s].num + rem[s] = want[s] /\ xfer[s].num >= 1
  /\ pc[s] \in {"check", "queue"} => xfer[s].st = "NEW" /\ ~xfer[s].rcved
  /\ pc[s] \in {"wait", "switch"} =>
       /\ xfer[s].st \in {"SUBMITTED", "COMPLETED", "FAILED"}
       /\ xfer[s].st = "SUBMITTED" => ~xfer[s].rcved
       /\ Outcome(s)
  /\ pc[s] \in {"load", "store"} =>
       /\ xfer[s].st = "COMPLETED" <=> rv[s] = "OK"
       /\ Outcome(s)
       /\ rv[s] = "OK" => done[s] >= 1
       /\ rv[s] = "OK" /\ ~xfer[s].rcved => done[s] + rem[s] = want[s]
       /\ rv[s] = "OK" /\ xfer[s].rcved => rem[s] = 0
  /\ pc[s] \in {"load", "store", "exit"} /\ rv[s] # "OK" =>
       done[s] + xfer[s].num + rem[s] = want[s]
  /\ pc[s] = "exit" /\ rv[s] = "OK" =>
       /\ done[s] >= 1
       /\ done[s] = want[s] \/ (EopFlush /\ xfer[s].rcved)

AccountInv == \A s \in Sync : Account(s)

-----------------------------------------------------------------------------
(* What each step of a caller s changes of it; nobody else sees a change.  *)

Same(u) ==
  /\ pc'[u] = pc[u] /\ want'[u] = want[u] /\ rem'[u] = rem[u]
  /\ done'[u] = done[u] /\ rv'[u] = rv[u]
  /\ xfer'[u] = xfer[u] /\ moved'[u] = moved[u]

Others(s) == \A u \in Sync \ {s} : Same(u)

\* Submit: a new request.
Enters(s) ==
  /\ Others(s) /\ UNCHANGED descLock
  /\ pc[s] = "idle" /\ pc'[s] = "mutex"
  /\ want'[s] \in 1..MaxReq /\ rem'[s] = want'[s] /\ done'[s] = 0 /\ rv'[s] = "OK"
  /\ xfer'[s] = xfer[s]

\* LockDesc.
Locks(s) ==
  /\ Others(s) /\ descLock = None /\ descLock' = s
  /\ pc[s] = "mutex" /\ pc'[s] = "init"
  /\ want'[s] = want[s] /\ rem'[s] = rem[s] /\ done'[s] = done[s] /\ rv'[s] = rv[s]
  /\ xfer'[s] = xfer[s]

\* transfer_init.
Builds(s) ==
  /\ Others(s) /\ UNCHANGED descLock
  /\ pc[s] = "init" /\ pc'[s] = "check"
  /\ want'[s] = want[s] /\ done'[s] = done[s] /\ rv'[s] = rv[s]
  /\ xfer'[s].st = "NEW" /\ ~xfer'[s].rcved
  /\ xfer'[s].num >= 1 /\ rem'[s] = rem[s] - xfer'[s].num

\* QueueCheck or transfer_queue that gives up.
Refused(s) ==
  /\ Others(s) /\ UNCHANGED descLock
  /\ pc[s] \in {"check", "queue"} /\ pc'[s] = "exit" /\ rv'[s] = "EBUSY"
  /\ want'[s] = want[s] /\ rem'[s] = rem[s] /\ done'[s] = done[s]
  /\ xfer'[s] = xfer[s]

\* transfer_queue that accepts the transfer.
Queues(s) ==
  /\ Others(s) /\ UNCHANGED descLock
  /\ pc[s] = "queue" /\ pc'[s] = "wait"
  /\ want'[s] = want[s] /\ rem'[s] = rem[s] /\ done'[s] = done[s] /\ rv'[s] = rv[s]
  /\ xfer'[s].st = "SUBMITTED" /\ xfer'[s].num = xfer[s].num
  /\ xfer'[s].rcved = xfer[s].rcved

\* QueueCheck that goes on, WaitEnd and DescUsedLoad: only the control moves.
Moves(s) ==
  /\ Others(s) /\ UNCHANGED descLock
  /\ \/ pc[s] = "check" /\ pc'[s] = "queue"
     \/ pc[s] = "wait" /\ pc'[s] = "switch"
     \/ pc[s] = "load" /\ pc'[s] = "store"
  /\ want'[s] = want[s] /\ rem'[s] = rem[s] /\ done'[s] = done[s] /\ rv'[s] = rv[s]
  /\ xfer'[s] = xfer[s] /\ moved'[s] = moved[s]

\* XferSwitch of a COMPLETED transfer.
Counts(s) ==
  /\ Others(s) /\ UNCHANGED descLock
  /\ pc[s] = "switch" /\ pc'[s] = "load" /\ xfer[s].st = "COMPLETED"
  /\ rv'[s] = "OK" /\ want'[s] = want[s]
  /\ done'[s] = done[s] + (IF EopFlush THEN xfer[s].cmpl ELSE xfer[s].num)
  /\ rem'[s] = (IF xfer[s].rcved THEN 0 ELSE rem[s])
  /\ xfer'[s] = xfer[s] /\ moved'[s] = moved[s]

\* XferSwitch of a transfer that failed or is aborted.
GivesUp(s) ==
  /\ Others(s) /\ UNCHANGED descLock
  /\ pc[s] = "switch" /\ pc'[s] = "load" /\ xfer[s].st \in {"FAILED", "SUBMITTED"}
  /\ rv'[s] \in {"EIO", "ETIMEDOUT"} /\ xfer'[s].st \in {"FAILED", "ABORTED"}
  /\ xfer[s].st = "FAILED" => xfer'[s] = xfer[s]
  /\ xfer'[s].num = xfer[s].num
  /\ want'[s] = want[s] /\ rem'[s] = rem[s] /\ done'[s] = done[s]

\* DescUsedStore.
Stores(s) ==
  /\ Others(s) /\ UNCHANGED descLock
  /\ pc[s] = "store"
  /\ pc'[s] = (IF rv[s] # "OK" \/ rem[s] = 0 THEN "exit" ELSE "init")
  /\ want'[s] = want[s] /\ rem'[s] = rem[s] /\ done'[s] = done[s] /\ rv'[s] = rv[s]
  /\ xfer'[s] = xfer[s] /\ moved'[s] = moved[s]

\* SubmitReturn.
Returns(s) ==
  /\ Others(s) /\ descLock' = None
  /\ pc[s] = "exit" /\ pc'[s] = "idle"
  /\ want'[s] = 0 /\ done'[s] = 0 /\ xfer'[s].st = "NONE"

\* ServiceFinal.
Decides(h) ==
  /\ pc[h] \in {"wait", "switch"} /\ xfer[h].st = "SUBMITTED"
  /\ UNCHANGED <<pc, want, rem, done, rv, descLock>>
  /\ \A u \in Sync \ {h} : xfer'[u] = xfer[u] /\ moved'[u] = moved[u]
  /\ xfer'[h].num = xfer[h].num
  /\ \/ /\ xfer'[h].st \in {"SUBMITTED", "FAILED"}
        /\ xfer'[h].rcved = xfer[h].rcved
     \/ /\ xfer'[h].st = "COMPLETED" /\ xfer'[h].rcved = xfer[h].rcved
        /\ xfer'[h].cmpl = xfer[h].num /\ moved'[h] = xfer[h].num
     \/ /\ EopFlush /\ xfer'[h].st = "COMPLETED" /\ xfer'[h].rcved
        /\ xfer'[h].cmpl >= 1 /\ xfer'[h].cmpl <= xfer[h].num

\* Everything else.
Quiet ==
  /\ UNCHANGED <<pc, want, rem, done, rv, descLock>>
  /\ \A s \in Sync :
       /\ xfer'[s].st = xfer[s].st /\ xfer'[s].num = xfer[s].num
       /\ xfer'[s].cmpl = xfer[s].cmpl /\ xfer'[s].rcved = xfer[s].rcved
       /\ xfer[s].st # "SUBMITTED" => xfer'[s] = xfer[s] /\ moved'[s] = moved[s]

CallerStep(s) ==
  \/ Enters(s) \/ Locks(s) \/ Builds(s) \/ Refused(s) \/ Queues(s) \/ Moves(s)
  \/ Counts(s) \/ GivesUp(s) \/ Stores(s) \/ Returns(s) \/ Decides(s)

-----------------------------------------------------------------------------
(* How a step changes what a caller sees.                                  *)

LEMMA CallTypes ==
  ASSUME Async = {}, TypeOK
  PROVE  /\ Xfers = Sync /\ None \notin Sync
         /\ pc \in [Sync -> Labels]
         /\ xfer \in [Sync -> XferType]
         /\ moved \in [Sync -> Nat]
         /\ want \in [Sync -> 0..MaxReq] /\ rem \in [Sync -> 0..MaxReq]
         /\ done \in [Sync -> Nat]
         /\ rv \in [Sync -> {"OK", "EBUSY", "EIO", "ETIMEDOUT"}]
         /\ MaxReq \in Nat /\ MaxDesc \in Nat /\ EopFlush \in BOOLEAN
<1>1. Xfers = Sync /\ None \notin Sync
  BY SyncTypes
<1> QED
  BY <1>1, EngineAssumption DEF EngineAssumption, TypeOK, EngineOK, CallersOK

\* Hardware, interrupt, the reads of the work item and the device thread leave
\* every caller and every decided transfer alone.
LEMMA QuietStep ==
  ASSUME Async = {}, TypeOK, SyncInv,
         HwDesc \/ HwError \/ xdma_isr \/ ServiceStatus \/ ServiceCount \/ Device
         \/ UNCHANGED vars
  PROVE  Quiet
<1> USE DEF Quiet
<1>1. UNCHANGED <<pc, want, rem, done, rv, descLock>>
  BY DEF HwDesc, HwError, xdma_isr, ServiceStatus, ServiceCount, Device, OfflineFlag,
     OfflineEngine, OfflineIrq, OnlineEngine, OnlineIrq, OnlineFlag, vars, callVars
<1>2. CASE ~HwDesc
  <2>1. UNCHANGED <<xfer, moved>>
    BY <1>2 DEF HwError, xdma_isr, ServiceStatus, ServiceCount, Device, OfflineFlag,
       OfflineEngine, OfflineIrq, OnlineEngine, OnlineIrq, OnlineFlag, vars, engineVars
  <2> QED
    BY <1>1, <2>1
<1>3. CASE HwDesc
  <2>1. hw.busy /\ running /\ queue # <<>> /\ hw.cur = Head(queue)
    BY <1>3 DEF HwDesc, SyncInv, BusyInv, ActiveInv
  <2>2. queue = <<descLock>> /\ descLock \in Sync /\ xfer[descLock].st = "SUBMITTED"
    BY <2>1 DEF SyncInv, QueueInv
  <2>3. hw.cur = descLock
    BY <2>1, <2>2
  <2>4. \/ UNCHANGED xfer
        \/ \E d \in Int : xfer' = [xfer EXCEPT ![descLock].eop = d]
    <3>1. hw.done + 1 \in Int
      BY DEF TypeOK, EngineOK, HwType
    <3> QED
      BY <1>3, <2>3, <3>1 DEF HwDesc
  <2>5. UNCHANGED moved \/ moved' = [moved EXCEPT ![descLock] = @ + 1]
    BY <1>3, <2>3 DEF HwDesc
  <2>6. xfer \in [Sync -> XferType] /\ moved \in [Sync -> Nat]
    BY CallTypes
  <2> QED
    BY <1>1, <2>2, <2>4, <2>5, <2>6 DEF XferType
<1> QED
  BY <1>2, <1>3

\* engine_service_final_transfer() decides the queued transfer h, or lets it go on.
LEMMA FinalStep ==
  ASSUME Async = {}, TypeOK, SyncInv, ServiceFinal
  PROVE  \E h \in Sync : Decides(h)
<1> USE DEF Decides
<1> DEFINE h == Head(queue)
           x == xfer[h]
           n == svc.cnt
<1>1. svc.pc = "list" /\ UNCHANGED <<want, rem, done, descLock>>
  BY DEF ServiceFinal
<1>2. /\ queue # <<>> /\ queue = <<h>> /\ h = descLock /\ h \in Sync
      /\ x.st = "SUBMITTED" /\ hw.cur = h /\ hw.num = x.num /\ pc[h] \in {"wait", "switch"}
      /\ n <= hw.done /\ hw.done <= hw.num /\ hw.done = moved[h] /\ dequeued = 0
  BY <1>1 DEF SyncInv, ActiveInv, QueueInv
<1>3. xfer \in [Sync -> XferType] /\ moved \in [Sync -> Nat] /\ x \in XferType
      /\ h \notin Async
  BY <1>2, CallTypes
<1>4. n \in Nat /\ hw.done \in Nat /\ hw.num \in Nat /\ x.eop \in Nat /\ x.num \in Nat
  BY <1>3 DEF TypeOK, EngineOK, HwType, XferType
<1>5. Tail(queue) = <<>>
  <2>1. queue = <<descLock>>
    BY <1>2
  <2>2. Tail(<<descLock>>) = <<>>
    OBVIOUS
  <2> QED
    BY <2>1, <2>2
<1>6. ASSUME NEW y, NEW run, NEW d, Finish(h, y, run, d)
      PROVE  xfer' = [xfer EXCEPT ![h] = y] /\ UNCHANGED <<pc, rv, moved>>
  <2>1. Complete(h, y) /\ engine_service_resume(<<>>, run, d)
    BY <1>5, <1>6 DEF Finish
  <2>2. xfer' = [xfer EXCEPT ![h] = y] /\ UNCHANGED <<pc, rv>>
    BY <1>3, <2>1 DEF Complete
  <2>3. UNCHANGED moved
    BY <2>1 DEF engine_service_resume
  <2> QED
    BY <2>2, <2>3
<1>7. \/ /\ \E run, d : \/ Finish(h, [x EXCEPT !.st = "FAILED"], run, d)
                        \/ Finish(h, [x EXCEPT !.st = "FAILED", !.cmpl = n], run, d)
      \/ /\ EopFlush /\ x.eop # 0 /\ x.eop <= n /\ n < x.num
         /\ \E run, d : Finish(h, [x EXCEPT !.st = "COMPLETED", !.cmpl = n,
                                           !.rcved = TRUE], run, d)
      \/ /\ n = x.num
         /\ \E run, d : Finish(h, [x EXCEPT !.st = "COMPLETED", !.cmpl = n], run, d)
      \/ /\ xfer' = [xfer EXCEPT ![h].cmpl = n]
         /\ engine_service_resume(queue, running, dequeued)
         /\ UNCHANGED <<pc, rv>>
  BY <1>2 DEF ServiceFinal
<1>8. CASE \E run, d : \/ Finish(h, [x EXCEPT !.st = "FAILED"], run, d)
                       \/ Finish(h, [x EXCEPT !.st = "FAILED", !.cmpl = n], run, d)
  <2> DEFINE Y == {[x EXCEPT !.st = "FAILED"], [x EXCEPT !.st = "FAILED", !.cmpl = n]}
  <2>1. \A y \in Y : y.st = "FAILED" /\ y.num = x.num /\ y.rcved = x.rcved
    BY <1>3 DEF XferType
  <2>2. PICK y \in Y : xfer' = [xfer EXCEPT ![h] = y] /\ UNCHANGED <<pc, rv, moved>>
    BY <1>6, <1>8
  <2> HIDE DEF Y
  <2> QED
    BY <1>1, <1>2, <1>3, <2>1, <2>2
<1>9. CASE /\ EopFlush /\ x.eop # 0 /\ x.eop <= n /\ n < x.num
           /\ \E run, d : Finish(h, [x EXCEPT !.st = "COMPLETED", !.cmpl = n,
                                             !.rcved = TRUE], run, d)
  <2> DEFINE y == [x EXCEPT !.st = "COMPLETED", !.cmpl = n, !.rcved = TRUE]
  <2>1. y.st = "COMPLETED" /\ y.num = x.num /\ y.rcved /\ y.cmpl = n
    BY <1>3 DEF XferType
  <2>2. xfer' = [xfer EXCEPT ![h] = y] /\ UNCHANGED <<pc, rv, moved>>
    BY <1>6, <1>9
  <2>3. n >= 1 /\ n <= x.num
    BY <1>4, <1>9
  <2> HIDE DEF y
  <2> QED
    BY <1>1, <1>2, <1>3, <1>9, <2>1, <2>2, <2>3
<1>10. CASE /\ n = x.num
            /\ \E run, d : Finish(h, [x EXCEPT !.st = "COMPLETED", !.cmpl = n], run, d)
  <2> DEFINE y == [x EXCEPT !.st = "COMPLETED", !.cmpl = n]
  <2>1. y.st = "COMPLETED" /\ y.num = x.num /\ y.rcved = x.rcved /\ y.cmpl = x.num
    BY <1>3, <1>10 DEF XferType
  <2>2. xfer' = [xfer EXCEPT ![h] = y] /\ UNCHANGED <<pc, rv, moved>>
    BY <1>6, <1>10
  <2>3. moved[h] = x.num
    BY <1>2, <1>4, <1>10
  <2> HIDE DEF y
  <2> QED
    BY <1>1, <1>2, <1>3, <2>1, <2>2, <2>3
<1>11. CASE /\ xfer' = [xfer EXCEPT ![h].cmpl = n]
            /\ engine_service_resume(queue, running, dequeued)
            /\ UNCHANGED <<pc, rv>>
  <2>1. xfer'[h].st = "SUBMITTED" /\ xfer'[h].num = x.num /\ xfer'[h].rcved = x.rcved
        /\ \A u \in Sync \ {h} : xfer'[u] = xfer[u]
    BY <1>2, <1>3, <1>11 DEF XferType
  <2>2. \A u \in Sync \ {h} : moved'[u] = moved[u]
    BY <1>2, <1>3, <1>11 DEF engine_service_resume, engine_start
  <2> QED
    BY <1>1, <1>2, <1>11, <2>1, <2>2
<1> QED
  BY <1>7, <1>8, <1>9, <1>10, <1>11

\* The steps of a caller that leave the engine alone.
LEMMA PlainSteps ==
  ASSUME Async = {}, TypeOK, NEW s \in Sync
  PROVE  /\ Submit(s) => Enters(s)
         /\ LockDesc(s) => Locks(s)
         /\ QueueCheck(s) => Refused(s) \/ Moves(s)
         /\ WaitEnd(s) \/ DescUsedLoad(s) => Moves(s)
         /\ DescUsedStore(s) => Stores(s)
<1>1. s \notin Async
  OBVIOUS
<1> USE <1>1, CallTypes DEF Goto, Others, Same, engineVars
<1>2. Submit(s) => Enters(s)
  BY DEF Submit, Enters
<1>3. LockDesc(s) => Locks(s)
  BY DEF LockDesc, Locks
<1>4. QueueCheck(s) => Refused(s) \/ Moves(s)
  BY DEF QueueCheck, Refuse, Refused, Moves
<1>5. WaitEnd(s) \/ DescUsedLoad(s) => Moves(s)
  BY DEF WaitEnd, DescUsedLoad, Moves
<1>6. DescUsedStore(s) => Stores(s)
  BY DEF DescUsedStore, Stores, LoopDone
<1> QED
  BY <1>2, <1>3, <1>4, <1>5, <1>6

LEMMA BuildStep ==
  ASSUME Async = {}, TypeOK, NEW s \in Sync, transfer_init(s)
  PROVE  Builds(s)
<1>1. PICK d \in 1..MaxDesc :
        /\ xfer' = [xfer EXCEPT ![s] = [NoXfer EXCEPT !.st = "NEW", !.num = d]]
        /\ rem' = [rem EXCEPT ![s] = @ - d]
  BY DEF transfer_init
<1> DEFINE x == [NoXfer EXCEPT !.st = "NEW", !.num = d]
<1>2. x.st = "NEW" /\ x.num = d /\ ~x.rcved
  BY DEF NoXfer
<1>3. xfer' = [xfer EXCEPT ![s] = x]
  BY <1>1
<1>4. d >= 1
  BY CallTypes
<1> HIDE DEF x
<1>5. /\ pc' = [pc EXCEPT ![s] = "check"] /\ pc[s] = "init"
      /\ moved' = [moved EXCEPT ![s] = 0]
      /\ UNCHANGED <<descLock, want, done, rv>>
  BY DEF transfer_init, Goto
<1> QED
  BY <1>1, <1>2, <1>3, <1>4, <1>5, CallTypes DEF Builds, Others, Same

LEMMA QueueStepEffect ==
  ASSUME Async = {}, TypeOK, SyncInv, NEW s \in Sync, transfer_queue(s)
  PROVE  Refused(s) \/ Queues(s)
<1>1. pc[s] = "queue" /\ s \notin Async /\ UNCHANGED <<descLock, want, rem, done>>
  BY DEF transfer_queue
<1>2. queue = <<>>
  BY <1>1, CallerFindsIdle
<1>3. CASE Refuse(s)
  BY <1>1, <1>3, CallTypes DEF Refuse, Refused, Goto, Others, Same
<1>4. CASE ~Refuse(s)
  <2>1. /\ xfer' = [xfer EXCEPT ![s].st = "SUBMITTED"]
        /\ pc' = [pc EXCEPT ![s] = "wait"] /\ UNCHANGED rv
        /\ engine_start(Append(queue, s)) \/ UNCHANGED moved
    BY <1>4 DEF transfer_queue, Goto
  <2>2. Head(Append(queue, s)) = s
    BY <1>2
  <2>3. UNCHANGED moved \/ moved' = [moved EXCEPT ![s] = 0]
    BY <2>1, <2>2 DEF engine_start
  <2>4. xfer'[s].st = "SUBMITTED" /\ xfer'[s].num = xfer[s].num
        /\ xfer'[s].rcved = xfer[s].rcved
        /\ \A u \in Sync \ {s} : xfer'[u] = xfer[u]
    BY <2>1, CallTypes DEF XferType
  <2>5. \A u \in Sync \ {s} : pc'[u] = pc[u] /\ moved'[u] = moved[u]
    BY <2>1, <2>3, CallTypes
  <2>6. pc'[s] = "wait"
    BY <2>1, CallTypes
  <2> QED
    BY <1>1, <2>1, <2>4, <2>5, <2>6 DEF Queues, Others, Same
<1> QED
  BY <1>3, <1>4

LEMMA SwitchStep ==
  ASSUME Async = {}, TypeOK, NEW s \in Sync, XferSwitch(s), ~lost'
  PROVE  Counts(s) \/ GivesUp(s)
<1>1. pc[s] = "switch" /\ pc' = [pc EXCEPT ![s] = "load"]
      /\ UNCHANGED <<descLock, want, moved>>
  BY DEF XferSwitch, Goto
<1>2. CASE xfer[s].st = "COMPLETED"
  <2> DEFINE k == IF EopFlush THEN xfer[s].cmpl ELSE xfer[s].num
             r == IF xfer[s].rcved THEN 0 ELSE rem[s]
  <2>1. /\ rv' = [rv EXCEPT ![s] = "OK"] /\ done' = [done EXCEPT ![s] = @ + k]
        /\ rem' = [rem EXCEPT ![s] = r] /\ UNCHANGED xfer
    BY <1>2 DEF XferSwitch
  <2>2. Others(s) /\ pc'[s] = "load" /\ rv'[s] = "OK" /\ done'[s] = done[s] + k
        /\ rem'[s] = r
    <3> HIDE DEF k, r
    <3> QED
      BY <1>1, <2>1, CallTypes DEF Others, Same
  <2> QED
    BY <1>1, <1>2, <2>1, <2>2 DEF Counts
<1>3. CASE xfer[s].st # "COMPLETED"
  <2>1. /\ UNCHANGED <<rem, done>>
        /\ \/ xfer[s].st = "FAILED" /\ UNCHANGED xfer /\ rv' = [rv EXCEPT ![s] = "EIO"]
           \/ /\ xfer[s].st = "SUBMITTED" /\ xfer' = [xfer EXCEPT ![s].st = "ABORTED"]
              /\ rv' = [rv EXCEPT ![s] = "ETIMEDOUT"]
    BY <1>3 DEF XferSwitch
  <2>2. /\ \A u \in Sync \ {s} : xfer'[u] = xfer[u] /\ rv'[u] = rv[u] /\ pc'[u] = pc[u]
        /\ pc'[s] = "load" /\ rv'[s] \in {"EIO", "ETIMEDOUT"}
        /\ xfer'[s].st \in {"FAILED", "ABORTED"}
        /\ xfer[s].st \in {"FAILED", "SUBMITTED"}
        /\ xfer[s].st = "FAILED" => xfer'[s] = xfer[s]
        /\ xfer'[s].num = xfer[s].num
    BY <1>1, <2>1, CallTypes DEF XferType
  <2> QED
    BY <1>1, <2>1, <2>2 DEF GivesUp, Others, Same
<1> QED
  BY <1>2, <1>3

LEMMA ReturnStep ==
  ASSUME Async = {}, TypeOK, NEW s \in Sync, SubmitReturn(s)
  PROVE  Returns(s)
<1>1. NoXfer.st = "NONE"
  BY DEF NoXfer
<1> QED
  BY <1>1, CallTypes DEF SubmitReturn, Returns, Goto, Others, Same

\* Every step is a step of one caller, or one that no caller sees.
LEMMA StepEffect ==
  ASSUME Async = {}, TypeOK, SyncInv, [Next]_vars, ~lost'
  PROVE  Quiet \/ \E s \in Sync : CallerStep(s)
<1>1. Xfers = Sync
  BY CallTypes
<1>2. ASSUME NEW s \in Sync, Submit(s) \/ QueueStep(s) \/ LockDesc(s) \/ SyncStep(s)
      PROVE  CallerStep(s)
  BY <1>2, PlainSteps, BuildStep, QueueStepEffect, SwitchStep, ReturnStep
     DEF QueueStep, SyncStep, CallerStep
<1>3. CASE \E s \in Sync : Submit(s) \/ QueueStep(s) \/ LockDesc(s) \/ SyncStep(s)
  BY <1>2, <1>3
<1>4. CASE HwDesc \/ HwError \/ xdma_isr \/ ServiceStatus \/ ServiceCount \/ Device
           \/ UNCHANGED vars
  BY <1>4, QuietStep
<1>5. CASE ServiceList
  BY <1>5, ServiceListImpossible
<1>6. CASE ServiceFinal
  BY <1>6, FinalStep DEF CallerStep
<1> QED
  BY <1>1, <1>3, <1>4, <1>5, <1>6 DEF Next, Service

-----------------------------------------------------------------------------
(* The books are kept.                                                     *)

LEMMA SameKeeps ==
  ASSUME NEW u \in Sync, Account(u), Same(u)
  PROVE  Account(u)'
BY DEF Account, Outcome, Same

\* The numbers that Account adds up.
LEMMA CallNumbers ==
  ASSUME Async = {}, TypeOK, NEW s \in Sync
  PROVE  /\ want[s] \in Nat /\ rem[s] \in Nat /\ done[s] \in Nat
         /\ xfer[s].num \in Nat /\ xfer[s].cmpl \in Nat /\ moved[s] \in Nat
         /\ xfer[s].rcved \in BOOLEAN /\ EopFlush \in BOOLEAN
BY CallTypes DEF XferType

LEMMA QuietKeepsAccount ==
  ASSUME Quiet, NEW s \in Sync, Account(s)
  PROVE  Account(s)'
<1>1. /\ xfer'[s].st = xfer[s].st /\ xfer'[s].num = xfer[s].num
      /\ xfer'[s].cmpl = xfer[s].cmpl /\ xfer'[s].rcved = xfer[s].rcved
      /\ xfer[s].st = "COMPLETED" => moved'[s] = moved[s]
      /\ UNCHANGED <<pc, want, rem, done, rv>>
  BY DEF Quiet
<1>2. Outcome(s) => Outcome(s)'
  BY <1>1 DEF Outcome
<1> QED
  BY <1>1, <1>2 DEF Account

\* Steps of a caller on its way to the queue.
LEMMA FrontKeepsAccount ==
  ASSUME Async = {}, TypeOK, TypeOK', NEW s \in Sync, Account(s),
         Enters(s) \/ Locks(s) \/ Builds(s) \/ Refused(s) \/ Queues(s)
  PROVE  Account(s)'
<1>1. /\ want[s] \in Nat /\ rem[s] \in Nat /\ done[s] \in Nat /\ xfer[s].num \in Nat
      /\ want'[s] \in Nat /\ rem'[s] \in Nat /\ done'[s] \in Nat
      /\ xfer'[s].num \in Nat
  <2>1. s \in Xfers
    BY DEF Xfers
  <2>2. /\ xfer'[s] \in XferType /\ want'[s] \in 0..MaxReq /\ rem'[s] \in 0..MaxReq
        /\ done'[s] \in Nat
    BY <2>1 DEF TypeOK, EngineOK, CallersOK
  <2>3. xfer'[s].num \in Nat
    BY <2>2 DEF XferType
  <2> QED
    BY <2>2, <2>3, CallNumbers
<1>2. CASE Enters(s)
  BY <1>1, <1>2 DEF Enters, Account
<1>3. CASE Locks(s)
  BY <1>1, <1>3 DEF Locks, Account
<1>4. CASE Builds(s)
  BY <1>1, <1>4 DEF Builds, Account
<1>5. CASE Refused(s)
  BY <1>1, <1>5 DEF Refused, Account
<1>6. CASE Queues(s)
  <2>1. Outcome(s)'
    BY <1>6 DEF Queues, Outcome
  <2> QED
    BY <1>1, <1>6, <2>1 DEF Queues, Account
<1> QED
  BY <1>2, <1>3, <1>4, <1>5, <1>6

\* Steps of a caller whose transfer was queued.
LEMMA BackKeepsAccount ==
  ASSUME Async = {}, TypeOK, NEW s \in Sync, Account(s),
         Moves(s) \/ Counts(s) \/ GivesUp(s) \/ Stores(s) \/ Returns(s)
  PROVE  Account(s)'
<1>1. /\ want[s] \in Nat /\ rem[s] \in Nat /\ done[s] \in Nat /\ xfer[s].num \in Nat
      /\ xfer[s].cmpl \in Nat
  BY CallNumbers
<1>2. CASE Moves(s)
  <2>1. Outcome(s) => Outcome(s)'
    BY <1>2 DEF Moves, Outcome
  <2> QED
    BY <1>2, <2>1 DEF Moves, Account
<1>3. CASE Counts(s)
  <2>1. /\ Outcome(s) /\ Outcome(s)'
        /\ done[s] + xfer[s].num + rem[s] = want[s] /\ xfer[s].num >= 1
    BY <1>3 DEF Counts, Account, Outcome
  <2>2. CASE xfer[s].rcved
    <3>1. done'[s] = done[s] + xfer[s].cmpl /\ xfer[s].cmpl >= 1
      BY <1>3, <2>1, <2>2 DEF Counts, Outcome
    <3>2. done'[s] >= 1
      BY <1>1, <3>1
    <3> QED
      BY <1>3, <2>1, <2>2, <3>2 DEF Counts, Account
  <2>3. CASE ~xfer[s].rcved
    <3>1. done'[s] = done[s] + xfer[s].num
      BY <1>3, <2>1, <2>3 DEF Counts, Outcome
    <3>2. done'[s] + rem'[s] = want'[s]
      BY <1>1, <1>3, <2>1, <2>3, <3>1 DEF Counts
    <3>3. done'[s] >= 1
      BY <1>1, <2>1, <3>1
    <3> QED
      BY <1>3, <2>1, <2>3, <3>2, <3>3 DEF Counts, Account
  <2> QED
    BY <2>2, <2>3
<1>4. CASE GivesUp(s)
  <2>1. Outcome(s)'
    BY <1>4 DEF GivesUp, Outcome
  <2> QED
    BY <1>4, <2>1 DEF GivesUp, Account
<1>5. CASE Stores(s)
  BY <1>1, <1>5 DEF Stores, Account, Outcome
<1>6. CASE Returns(s)
  BY <1>6 DEF Returns, Account
<1> QED
  BY <1>2, <1>3, <1>4, <1>5, <1>6

LEMMA DecideKeepsAccount ==
  ASSUME Async = {}, TypeOK, NEW s \in Sync, Account(s), Decides(s)
  PROVE  Account(s)'
<1>1. pc[s] \in {"wait", "switch"} /\ ~xfer[s].rcved
  BY DEF Decides, Account
<1>2. Outcome(s)'
  BY <1>1 DEF Decides, Outcome
<1> QED
  BY <1>1, <1>2 DEF Decides, Account

LEMMA AccountStep ==
  ASSUME Async = {}, TypeOK, TypeOK', SyncInv, AccountInv, [Next]_vars, ~lost'
  PROVE  AccountInv'
<1>1. CASE Quiet
  BY <1>1, QuietKeepsAccount DEF AccountInv
<1>2. ASSUME NEW s \in Sync, CallerStep(s)
      PROVE  AccountInv'
  <2>1. Account(s)'
    BY <1>2, FrontKeepsAccount, BackKeepsAccount, DecideKeepsAccount
       DEF AccountInv, CallerStep
  <2>2. Others(s)
    BY <1>2 DEF CallerStep, Enters, Locks, Builds, Refused, Queues, Moves, Counts,
       GivesUp, Stores, Returns, Decides, Others, Same
  <2> QED
    BY <2>1, <2>2, SameKeeps DEF AccountInv, Others
<1> QED
  BY <1>1, <1>2, StepEffect

LEMMA AccountInvariant ==
  ASSUME Async = {}
  PROVE  Spec => [](TypeOK /\ (lost \/ (SyncInv /\ AccountInv)))
<1>1. Init => AccountInv
  BY DEF Init, AccountInv, Account, Xfers
<1>2. TypeOK /\ TypeOK' /\ SyncInv /\ AccountInv /\ [Next]_vars
        => AccountInv' \/ lost'
  BY AccountStep
<1> QED
  BY <1>1, <1>2, SyncInvariant, LostStays, PTL DEF Spec

\* With blocking requests only, what xdma_xfer_submit() returns adds up, into
\* however many transfers the ring cut the request: zero comes with an error, a
\* count after no error is the whole request or ends with a packet, and a count
\* after an error is the place where the transfer that failed begins.
THEOREM SubmitIsAccounted ==
  ASSUME Async = {}
  PROVE  Spec => []SubmitAccounts
<1>1. TypeOK /\ (lost \/ (SyncInv /\ AccountInv)) => SubmitAccounts
  <2> SUFFICES ASSUME TypeOK, AccountInv, NEW s \in Sync, pc[s] = "exit"
               PROVE  LET r == Result(s)
                      IN /\ r.count = 0 => r.err # "OK"
                         /\ rv[s] = "OK" =>
                              r.count = want[s] \/ (EopFlush /\ xfer[s].rcved)
                         /\ rv[s] # "OK" => r.count + xfer[s].num + rem[s] = want[s]
    BY DEF SubmitAccounts
  <2>1. Account(s) /\ done[s] \in Nat
    BY CallNumbers DEF AccountInv
  <2>2. /\ Result(s).count = done[s]
        /\ done[s] = 0 => Result(s).err = rv[s]
    BY DEF Result
  <2>3. rv[s] = "OK" => done[s] # 0
    BY <2>1 DEF Account
  <2> QED
    BY <2>1, <2>2, <2>3 DEF Account
<1> QED
  BY <1>1, AccountInvariant, PTL

\* Giving a transfer up without reading the status leaves it as it was.
LEMMA LosingKeeps ==
  ASSUME [Next]_vars, ~lost, lost'
  PROVE  UNCHANGED xfer
<1>1. ASSUME Device PROVE FALSE
  BY <1>1 DEF Device, OfflineFlag, OfflineEngine, OfflineIrq, OnlineEngine,
     OnlineIrq, OnlineFlag
<1>2. \E s \in Sync : XferSwitch(s)
  BY <1>1 DEF Next, QueueStep, SyncStep, Service, Submit, transfer_init, QueueCheck,
     transfer_queue, LockDesc, WaitEnd, DescUsedLoad, DescUsedStore,
     SubmitReturn, HwDesc, HwError, xdma_isr, ServiceStatus, ServiceCount,
     ServiceList, ServiceFinal, devVars, vars
<1> QED
  BY <1>2 DEF XferSwitch

\* With blocking requests only, no late completion, timeout or reset changes the
\* outcome of a transfer once engine_service() or transfer_abort() has decided it,
\* as long as no freed transfer was left in the list.
THEOREM OutcomeIsFinal ==
  ASSUME Async = {}
  PROVE  Spec => SettledStays
<1> DEFINE Stays == \A s \in Sync :
               ~lost /\ xfer[s].st \in {"COMPLETED", "FAILED", "ABORTED"} =>
                  xfer'[s] = xfer[s] \/ xfer'[s].st \in {"NONE", "NEW"}
<1>0. ASSUME [Next]_vars, lost' PROVE Stays
  BY <1>0, LosingKeeps
<1>1. ASSUME TypeOK, SyncInv, AccountInv, [Next]_vars, ~lost' PROVE [Stays]_vars
  <2>1. CASE Quiet
    BY <2>1 DEF Quiet
  <2>2. ASSUME NEW s \in Sync, CallerStep(s)
        PROVE  Stays
    <3>1. Others(s)
      BY <2>2 DEF CallerStep, Enters, Locks, Builds, Refused, Queues, Moves, Counts,
         GivesUp, Stores, Returns, Decides, Others, Same
    <3>2. xfer[s].st \in {"COMPLETED", "FAILED", "ABORTED"} =>
            xfer'[s] = xfer[s] \/ xfer'[s].st \in {"NONE", "NEW"}
      <4>1. pc[s] = "queue" => xfer[s].st = "NEW"
        BY <1>1 DEF AccountInv, Account
      <4>2. CASE Enters(s) \/ Locks(s) \/ Builds(s) \/ Refused(s) \/ Queues(s) \/ Moves(s)
        BY <4>1, <4>2 DEF Enters, Locks, Builds, Refused, Queues, Moves
      <4>3. CASE Counts(s) \/ GivesUp(s) \/ Stores(s) \/ Returns(s) \/ Decides(s)
        <5>1. \/ xfer'[s] = xfer[s]
              \/ xfer[s].st \in {"FAILED", "SUBMITTED"} /\ xfer[s].st # "FAILED"
              \/ xfer'[s].st = "NONE"
          BY <4>3 DEF Counts, GivesUp, Stores, Returns, Decides
        <5> QED
          BY <5>1
      <4> QED
        BY <2>2, <4>2, <4>3 DEF CallerStep
    <3> QED
      BY <3>1, <3>2 DEF Others, Same
  <2> QED
    BY <1>1, <2>1, <2>2, StepEffect
<1>2. TypeOK /\ (lost \/ (SyncInv /\ AccountInv)) /\ [Next]_vars => [Stays]_vars
  BY <1>0, <1>1
<1> QED
  BY <1>2, AccountInvariant, PTL DEF Spec, SettledStays

-----------------------------------------------------------------------------
(* XdmaEngine implements TransferService.                                  *)

\* What the books say was delivered.
Got(s) ==
  done[s] + (IF pc[s] \in {"wait", "switch"} /\ xfer[s].st = "COMPLETED"
               THEN xfer[s].cmpl ELSE 0)

phaseBar == [s \in Sync |-> Phase(s)]
wantBar  == [s \in Sync |-> want[s]]
gotBar   == [s \in Sync |-> Delivered(s)]
toldBar  == [s \in Sync |-> Told(s)]

LEMMA DeliveredIsGot ==
  ASSUME Async = {}
  PROVE  TypeOK /\ AccountInv => gotBar = [s \in Sync |-> Got(s)]
<1> SUFFICES ASSUME TypeOK, AccountInv, NEW s \in Sync PROVE Delivered(s) = Got(s)
  BY DEF gotBar
<1>1. /\ done[s] \in Nat /\ xfer[s].num \in Nat /\ xfer[s].cmpl \in Nat
      /\ moved[s] \in Nat /\ EopFlush \in BOOLEAN
  BY CallNumbers
<1>2. CASE pc[s] \in {"wait", "switch"} /\ xfer[s].st = "COMPLETED"
  <2>1. Outcome(s)
    BY <1>2 DEF AccountInv, Account
  <2>2. ~EopFlush => moved[s] = xfer[s].cmpl
    BY <1>2, <2>1 DEF Outcome
  <2> QED
    BY <1>1, <1>2, <2>2 DEF Delivered, Got
<1>3. CASE pc[s] \in {"load", "store"} /\ xfer[s].st = "COMPLETED"
  <2>1. Outcome(s)
    BY <1>3 DEF AccountInv, Account
  <2>2. ~EopFlush => moved[s] = xfer[s].num
    BY <1>3, <2>1 DEF Outcome
  <2> QED
    BY <1>1, <1>3, <2>2 DEF Delivered, Got
<1>4. CASE xfer[s].st # "COMPLETED" \/ pc[s] \notin {"wait", "switch", "load", "store"}
  BY <1>1, <1>4 DEF Delivered, Got
<1> QED
  BY <1>2, <1>3, <1>4

LEMMA DeliveredIsGotNext ==
  ASSUME Async = {}
  PROVE  (TypeOK /\ AccountInv => gotBar = [s \in Sync |-> Got(s)])'
BY DeliveredIsGot, PTL

\* A step of s changes the abstract state at s only.
LEMMA ViewOfStep ==
  ASSUME Async = {}, TypeOK, TypeOK', AccountInv, AccountInv',
         NEW s \in Sync, Others(s)
  PROVE  /\ phaseBar' = [phaseBar EXCEPT ![s] = Phase(s)']
         /\ wantBar' = [wantBar EXCEPT ![s] = want'[s]]
         /\ gotBar' = [gotBar EXCEPT ![s] = Got(s)']
         /\ toldBar' = [toldBar EXCEPT ![s] = Told(s)']
         /\ phaseBar[s] = Phase(s) /\ wantBar[s] = want[s] /\ gotBar[s] = Got(s)
         /\ toldBar[s] = Told(s)
<1>1. gotBar = [u \in Sync |-> Got(u)]
  BY DeliveredIsGot
<1>2. gotBar' = [u \in Sync |-> Got(u)']
  BY DeliveredIsGotNext
<1>3. \A u \in Sync \ {s} : Got(u)' = Got(u)
  BY DEF Others, Same, Got
<1>4. \A u \in Sync \ {s} : Phase(u)' = Phase(u)
  BY DEF Others, Same, Phase, Result
<1>5. \A u \in Sync \ {s} : want'[u] = want[u]
  BY DEF Others, Same
<1>6. gotBar' = [gotBar EXCEPT ![s] = Got(s)'] /\ gotBar[s] = Got(s)
  BY <1>1, <1>2, <1>3
<1>7. phaseBar' = [phaseBar EXCEPT ![s] = Phase(s)'] /\ phaseBar[s] = Phase(s)
  BY <1>4 DEF phaseBar
<1>8. wantBar' = [wantBar EXCEPT ![s] = want'[s]] /\ wantBar[s] = want[s]
  BY <1>5 DEF wantBar
<1>9. \A u \in Sync \ {s} : Told(u)' = Told(u)
  BY DEF Others, Same, Told, Result
<1>10. toldBar' = [toldBar EXCEPT ![s] = Told(s)'] /\ toldBar[s] = Told(s)
  BY <1>9 DEF toldBar
<1> QED
  BY <1>6, <1>7, <1>8, <1>10

LEMMA ExceptSame ==
  ASSUME NEW S, NEW f, f = [u \in S |-> f[u]], NEW s \in S, NEW v, v = f[s]
  PROVE  [f EXCEPT ![s] = v] = f
OBVIOUS

\* What s keeps, the abstract state keeps.
LEMMA ViewKept ==
  ASSUME Async = {}, TypeOK, TypeOK', AccountInv, AccountInv',
         NEW s \in Sync, Others(s)
  PROVE  /\ Phase(s)' = Phase(s) => phaseBar' = phaseBar
         /\ want'[s] = want[s] => wantBar' = wantBar
         /\ Got(s)' = Got(s) => gotBar' = gotBar
         /\ Told(s)' = Told(s) => toldBar' = toldBar
<1>1. /\ phaseBar = [u \in Sync |-> phaseBar[u]]
      /\ wantBar = [u \in Sync |-> wantBar[u]]
      /\ gotBar = [u \in Sync |-> gotBar[u]]
      /\ toldBar = [u \in Sync |-> toldBar[u]]
  BY DEF phaseBar, wantBar, gotBar, toldBar
<1>2. Phase(s)' = Phase(s) => phaseBar' = phaseBar
  <2>1. Phase(s)' = Phase(s) => phaseBar' = [phaseBar EXCEPT ![s] = phaseBar[s]]
    BY ViewOfStep
  <2> QED
    BY <1>1, <2>1, ExceptSame
<1>3. want'[s] = want[s] => wantBar' = wantBar
  <2>1. want'[s] = want[s] => wantBar' = [wantBar EXCEPT ![s] = wantBar[s]]
    BY ViewOfStep
  <2> QED
    BY <1>1, <2>1, ExceptSame
<1>4. Got(s)' = Got(s) => gotBar' = gotBar
  <2>1. Got(s)' = Got(s) => gotBar' = [gotBar EXCEPT ![s] = gotBar[s]]
    BY ViewOfStep
  <2> QED
    BY <1>1, <2>1, ExceptSame
<1>5. Told(s)' = Told(s) => toldBar' = toldBar
  <2>1. Told(s)' = Told(s) => toldBar' = [toldBar EXCEPT ![s] = toldBar[s]]
    BY ViewOfStep
  <2> QED
    BY <1>1, <2>1, ExceptSame
<1> QED
  BY <1>2, <1>3, <1>4, <1>5

ServiceStep ==
  TS!Next \/ UNCHANGED <<phaseBar, wantBar, gotBar, toldBar, descLock, lost>>

\* A new request and the grant of desc_lock.
LEMMA EntryImplements ==
  ASSUME Async = {}, TypeOK, TypeOK', AccountInv, AccountInv', lost' = lost,
         NEW s \in Sync, Enters(s) \/ Locks(s)
  PROVE  ServiceStep
<1>1. Others(s) /\ Account(s) /\ Account(s)'
  BY DEF Enters, Locks, AccountInv
<1>2. Got(s)' = Got(s)
  BY <1>1, CallNumbers DEF Enters, Locks, Got, Account
<1>3. gotBar' = gotBar /\ toldBar' = toldBar
  <2>1. Told(s)' = Told(s)
    BY DEF Enters, Locks, Told
  <2> QED
    BY <1>1, <1>2, <2>1, ViewKept
<1>4. CASE Enters(s)
  <2>1. Phase(s) = "idle" /\ Phase(s)' = "waiting"
    BY <1>4 DEF Enters, Phase
  <2>2. want'[s] \in 1..MaxReq /\ UNCHANGED descLock
    BY <1>4 DEF Enters
  <2>3. /\ phaseBar[s] = "idle" /\ phaseBar' = [phaseBar EXCEPT ![s] = "waiting"]
        /\ \E n \in 1..MaxReq : wantBar' = [wantBar EXCEPT ![s] = n]
    BY <1>1, <2>1, <2>2, ViewOfStep
  <2>4. TS!Request(s)
    BY <1>3, <2>2, <2>3 DEF TS!Request, TS!Step, phaseBar, wantBar, gotBar,
     toldBar
  <2> QED
    BY <2>4 DEF ServiceStep, TS!Next
<1>5. CASE Locks(s)
  <2>1. Phase(s) = "waiting" /\ Phase(s)' = "serving"
    BY <1>5 DEF Locks, Phase
  <2>2. want'[s] = want[s] /\ descLock = None /\ descLock' = s
    BY <1>5 DEF Locks
  <2>3. phaseBar[s] = "waiting" /\ phaseBar' = [phaseBar EXCEPT ![s] = "serving"]
    BY <1>1, <2>1, ViewOfStep
  <2>4. wantBar' = wantBar
    BY <1>1, <2>2, ViewKept
  <2>5. TS!Grant(s)
    BY <1>3, <2>2, <2>3, <2>4 DEF TS!Grant, TS!Step, phaseBar, wantBar, gotBar,
     toldBar
  <2> QED
    BY <2>5 DEF ServiceStep, TS!Next
<1> QED
  BY <1>4, <1>5

\* Steps the service does not see.
LEMMA InnerImplements ==
  ASSUME Async = {}, TypeOK, TypeOK', AccountInv, AccountInv', lost' = lost,
         NEW s \in Sync, Builds(s) \/ Queues(s) \/ Moves(s) \/ Counts(s) \/ GivesUp(s)
  PROVE  ServiceStep
<1>1. Others(s) /\ Account(s) /\ UNCHANGED descLock /\ want'[s] = want[s]
  BY DEF Builds, Queues, Moves, Counts, GivesUp, AccountInv
<1>2. /\ done[s] \in Nat /\ xfer[s].num \in Nat /\ xfer[s].cmpl \in Nat
      /\ EopFlush \in BOOLEAN
  BY CallNumbers
<1>3. Phase(s)' = Phase(s) /\ Told(s)' = Told(s)
  <2>1. /\ pc[s] \in {"init", "check", "queue", "wait", "switch", "load", "store"}
        /\ pc'[s] \in {"init", "check", "queue", "wait", "switch", "load", "store"}
    BY DEF Builds, Queues, Moves, Counts, GivesUp
  <2>2. Phase(s) = "serving" /\ Told(s) = 0
    BY <2>1 DEF Phase, Told
  <2>3. Phase(s)' = "serving" /\ Told(s)' = 0
    BY <2>1 DEF Phase, Told
  <2> QED
    BY <2>2, <2>3
<1>4. Got(s)' = Got(s)
  <2>1. CASE Counts(s)
    <3>1. ~EopFlush => xfer[s].cmpl = xfer[s].num
      BY <1>1, <2>1 DEF Counts, Account, Outcome
    <3> QED
      BY <1>2, <2>1, <3>1 DEF Counts, Got
  <2>2. CASE Builds(s) \/ Queues(s) \/ Moves(s) \/ GivesUp(s)
    BY <1>1, <1>2, <2>2 DEF Builds, Queues, Moves, GivesUp, Got, Account
  <2> QED
    BY <2>1, <2>2
<1> QED
  BY <1>1, <1>3, <1>4, ViewKept DEF ServiceStep

\* The outcome: refused, aborted, failed or finished.
LEMMA OutcomeImplements ==
  ASSUME Async = {}, TypeOK, TypeOK', AccountInv, AccountInv', lost' = lost,
         NEW s \in Sync, Refused(s) \/ Stores(s)
  PROVE  ServiceStep
<1>1. Others(s) /\ Account(s) /\ UNCHANGED descLock /\ want'[s] = want[s]
  BY DEF Refused, Stores, AccountInv
<1>2. done[s] \in Nat /\ rem[s] \in Nat /\ want[s] \in Nat
  BY CallNumbers
<1>3. Got(s)' = Got(s) /\ Got(s) = done[s]
  BY <1>2 DEF Refused, Stores, Got
<1>4. gotBar' = gotBar /\ wantBar' = wantBar /\ gotBar[s] = done[s]
      /\ wantBar[s] = want[s]
  BY <1>1, <1>3, ViewKept, ViewOfStep
<1>5. Phase(s) = "serving" /\ Told(s) = 0
  BY DEF Refused, Stores, Phase, Told
<1>6. /\ phaseBar[s] = "serving" /\ phaseBar' = [phaseBar EXCEPT ![s] = Phase(s)']
      /\ toldBar' = [toldBar EXCEPT ![s] = Told(s)']
  BY <1>1, <1>5, ViewOfStep
<1>7. CASE pc'[s] = "init"
  <2>1. Phase(s)' = "serving" /\ Told(s)' = 0
    BY <1>7 DEF Phase, Told
  <2> QED
    BY <1>1, <1>4, <1>5, <2>1, ViewKept DEF ServiceStep
<1>8. CASE pc'[s] = "exit"
  <2>1. done'[s] = done[s]
    BY DEF Refused, Stores
  <2>2. done[s] = 0 => rv'[s] # "OK"
    <3>1. CASE Refused(s)
      BY <3>1 DEF Refused
    <3>2. CASE Stores(s)
      BY <1>1, <1>2, <3>2 DEF Stores, Account
    <3> QED
      BY <3>1, <3>2
  <2>3. Told(s)' = done[s]
    BY <1>8, <2>1 DEF Told, Result
  <2>4. Phase(s)' = (IF done[s] > 0 THEN "count" ELSE "error")
    <3>1. Result(s)'.err = (IF done'[s] # 0 THEN "OK" ELSE rv'[s])
      BY DEF Result
    <3>2. Phase(s)' = (IF Result(s)'.err = "OK" THEN "count" ELSE "error")
      BY <1>8 DEF Phase
    <3>3. CASE done[s] = 0
      BY <2>1, <2>2, <3>1, <3>2, <3>3
    <3>4. CASE done[s] # 0
      BY <1>2, <2>1, <3>1, <3>2, <3>4
    <3> QED
      BY <3>3, <3>4
  <2>5. TS!Answer(s)
    BY <1>1, <1>4, <1>6, <2>3, <2>4
       DEF TS!Answer, TS!Step, phaseBar, wantBar, gotBar, toldBar
  <2> QED
    BY <2>5 DEF ServiceStep, TS!Next
<1>9. pc'[s] = "init" \/ pc'[s] = "exit"
  BY DEF Refused, Stores
<1> QED
  BY <1>7, <1>8, <1>9

LEMMA ReturnImplements ==
  ASSUME Async = {}, TypeOK, TypeOK', AccountInv, AccountInv', lost' = lost,
         NEW s \in Sync, Returns(s)
  PROVE  ServiceStep
<1>1. Others(s) /\ descLock' = None /\ want'[s] = 0 /\ done'[s] = 0 /\ pc'[s] = "idle"
      /\ pc[s] = "exit"
  BY DEF Returns
<1>2. Got(s)' = 0
  BY <1>1 DEF Got
<1>3. Phase(s)' = "idle" /\ Told(s)' = 0
  BY <1>1 DEF Phase, Told
<1>4. Phase(s) = "count" \/ Phase(s) = "error"
  BY <1>1 DEF Phase
<1>5. /\ phaseBar[s] = "count" \/ phaseBar[s] = "error"
      /\ toldBar' = [toldBar EXCEPT ![s] = 0]
      /\ phaseBar' = [phaseBar EXCEPT ![s] = "idle"]
      /\ wantBar' = [wantBar EXCEPT ![s] = 0]
      /\ gotBar' = [gotBar EXCEPT ![s] = 0]
  BY <1>1, <1>2, <1>3, <1>4, ViewOfStep
<1>6. TS!Return(s)
  BY <1>1, <1>5 DEF TS!Return, TS!Step, phaseBar, wantBar, gotBar,
     toldBar
<1> QED
  BY <1>6 DEF ServiceStep, TS!Next

\* engine_service() delivers to the caller it decides for.
LEMMA DecideImplements ==
  ASSUME Async = {}, TypeOK, TypeOK', AccountInv, AccountInv', lost' = lost,
         NEW s \in Sync, Decides(s)
  PROVE  ServiceStep
<1>1. /\ Others(s) /\ Account(s) /\ UNCHANGED <<pc, done, descLock>>
      /\ want'[s] = want[s] /\ rv'[s] = rv[s]
      /\ pc[s] \in {"wait", "switch"} /\ xfer[s].st = "SUBMITTED"
  BY DEF Decides, AccountInv, Others, Same
<1>2. /\ done[s] \in Nat /\ rem[s] \in Nat /\ want[s] \in 0..MaxReq
      /\ xfer[s].num \in Nat /\ MaxReq \in Nat
  BY CallNumbers, CallTypes
<1>3. Phase(s)' = Phase(s) /\ Phase(s) = "serving" /\ Told(s)' = Told(s)
  BY <1>1 DEF Phase, Told
<1>4. Got(s) = done[s]
  BY <1>1, <1>2 DEF Got
<1>5. CASE xfer'[s].st # "COMPLETED"
  <2>1. Got(s)' = Got(s)
    BY <1>1, <1>4, <1>2, <1>5 DEF Got
  <2> QED
    BY <1>1, <1>3, <2>1, ViewKept DEF ServiceStep
<1>6. CASE xfer'[s].st = "COMPLETED"
  <2> DEFINE k == xfer'[s].cmpl
  <2>1. done[s] + xfer[s].num + rem[s] = want[s] /\ xfer[s].num >= 1
    BY <1>1 DEF Account
  <2>2. k \in Nat
    <3>1. s \in Xfers
      BY DEF Xfers
    <3>2. xfer'[s] \in XferType
      BY <3>1 DEF TypeOK, EngineOK
    <3> QED
      BY <3>2 DEF XferType
  <2>3. k >= 1 /\ k <= xfer[s].num
    BY <1>2, <1>6, <2>1 DEF Decides
  <2>4. Got(s)' = Got(s) + k
    BY <1>1, <1>4, <1>6 DEF Got
  <2> HIDE DEF k
  <2>5. k \in 1..MaxReq /\ Got(s) + k <= want[s]
    BY <1>2, <1>4, <2>1, <2>2, <2>3
  <2>6. /\ gotBar' = [gotBar EXCEPT ![s] = gotBar[s] + k]
        /\ gotBar[s] + k <= wantBar[s] /\ phaseBar[s] = "serving"
    BY <1>1, <1>3, <2>4, <2>5, ViewOfStep
  <2>7. phaseBar' = phaseBar /\ wantBar' = wantBar /\ toldBar' = toldBar
    BY <1>1, <1>3, ViewKept
  <2>8. TS!Deliver(s)
    BY <1>1, <2>5, <2>6, <2>7 DEF TS!Deliver, phaseBar, wantBar, gotBar,
     toldBar
  <2> QED
    BY <2>8 DEF ServiceStep, TS!Next
<1> QED
  BY <1>5, <1>6

LEMMA QuietImplements ==
  ASSUME Async = {}, TypeOK, TypeOK', AccountInv, AccountInv', lost' = lost,
         Quiet
  PROVE  ServiceStep
<1>1. UNCHANGED <<pc, want, done, rv, descLock>>
  BY DEF Quiet
<1>2. \A s \in Sync : Got(s)' = Got(s)
  BY DEF Quiet, Got
<1>3. \A s \in Sync : Phase(s)' = Phase(s) /\ Told(s)' = Told(s)
  BY <1>1 DEF Phase, Told, Result
<1>4. gotBar' = gotBar
  BY <1>2, DeliveredIsGot, DeliveredIsGotNext
<1>5. phaseBar' = phaseBar /\ wantBar' = wantBar /\ toldBar' = toldBar
  BY <1>1, <1>3 DEF phaseBar, wantBar, toldBar
<1> QED
  BY <1>1, <1>4, <1>5 DEF ServiceStep

LEMMA StepImplements ==
  ASSUME Async = {}, TypeOK, TypeOK', SyncInv, AccountInv, AccountInv', [Next]_vars,
         ~lost, ~lost'
  PROVE  [TS!Next]_(TS!vars)
<1>1. lost' = lost
  BY DEF TypeOK, FlagsOK
<1>2. ServiceStep
  BY <1>1, StepEffect, QuietImplements, EntryImplements, InnerImplements,
     OutcomeImplements, ReturnImplements, DecideImplements DEF CallerStep
<1> QED
  BY <1>2 DEF ServiceStep, TS!vars, phaseBar, wantBar, gotBar, toldBar

\* With blocking requests only, the engine with its interrupt, timeouts, hardware
\* errors and resets implements the service that xdma_xfer_submit() promises:
\* callers are served one after the other, a caller is told exactly what was
\* delivered to it, or an error when that is nothing, and nothing is delivered to
\* a caller that waits, was told an outcome, or has returned.  The promise ends
\* with a timeout that leaves a freed transfer in the list.
THEOREM EngineImplementsService ==
  ASSUME Async = {}
  PROVE  Spec => ImplementsService
<1>1. Init => TS!Init
  <2> SUFFICES ASSUME Init PROVE TS!Init
    OBVIOUS
  <2>1. \A s \in Sync : pc[s] = "idle" /\ want[s] = 0 /\ done[s] = 0
                        /\ xfer[s].st # "COMPLETED"
    BY DEF Init, Xfers, NoXfer
  <2>2. \A s \in Sync : Phase(s) = "idle"
    BY <2>1 DEF Phase
  <2>3. \A s \in Sync : Delivered(s) = 0
    BY <2>1 DEF Delivered
  <2>4. descLock = None /\ lost = FALSE
    BY DEF Init
  <2>5. \A s \in Sync : Told(s) = 0
    BY <2>1 DEF Told
  <2> QED
    BY <2>1, <2>2, <2>3, <2>4, <2>5 DEF TS!Init
<1>2. ASSUME TypeOK, lost \/ (SyncInv /\ AccountInv),
             TypeOK', (lost \/ (SyncInv /\ AccountInv))', [Next]_vars
      PROVE  [TS!Promised]_(TS!vars)
  BY <1>2, StepImplements, LostStays DEF TS!Promised
<1>3. /\ TypeOK /\ (lost \/ (SyncInv /\ AccountInv))
      /\ TypeOK' /\ (lost \/ (SyncInv /\ AccountInv))'
      /\ [Next]_vars
      => [TS!Promised]_(TS!vars)
  BY <1>2
<1> QED
  BY <1>1, <1>3, AccountInvariant, PTL DEF Spec, ImplementsService, TS!Spec
=============================================================================
