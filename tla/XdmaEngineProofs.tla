-------------------------- MODULE XdmaEngineProofs --------------------------
(***************************************************************************)
(* Proofs about XdmaEngine for any number of requests, any transfer sizes  *)
(* and any number of resets.                                               *)
(***************************************************************************)
EXTENDS XdmaEngine, TLAPS

-----------------------------------------------------------------------------
(* Type correctness.                                                       *)

LEMMA InitTyped == Init => TypeOK
<1> SUFFICES ASSUME Init PROVE TypeOK
  OBVIOUS
<1> USE EngineAssumption DEF EngineAssumption, Init
<1>1. FlagsOK
  BY Zenon DEF FlagsOK
<1>2. EngineOK
  BY DEF EngineOK, Xfers, NoXfer, XferType, HwType, States, SvcIdle
<1>3. CallersOK
  BY DEF CallersOK, Labels, Xfers
<1>4. DeviceOK
  BY DEF DeviceOK
<1> QED
  BY <1>1, <1>2, <1>3, <1>4 DEF TypeOK

LEMMA CallersTyped ==
  ASSUME TypeOK, [Next]_vars
  PROVE  CallersOK'
<1> USE EngineAssumption DEF EngineAssumption, TypeOK, CallersOK, Labels, Goto
<1>1. ASSUME NEW t \in Xfers, Submit(t) PROVE CallersOK'
  BY <1>1 DEF Submit
<1>2. ASSUME NEW t \in Xfers, transfer_init(t) PROVE CallersOK'
  BY <1>2 DEF transfer_init
<1>3. ASSUME NEW t \in Xfers, QueueCheck(t) PROVE CallersOK'
  BY <1>3 DEF QueueCheck, Refuse
<1>4. ASSUME NEW t \in Xfers, transfer_queue(t) PROVE CallersOK'
  BY <1>4 DEF transfer_queue, Refuse
<1>5. ASSUME NEW s \in Sync, LockDesc(s) PROVE CallersOK'
  BY <1>5 DEF LockDesc, Xfers
<1>6. ASSUME NEW s \in Sync, WaitEnd(s) PROVE CallersOK'
  BY <1>6 DEF WaitEnd, Xfers
<1>7. ASSUME NEW s \in Sync, XferSwitch(s) PROVE CallersOK'
  <2> USE <1>7 DEF XferSwitch
  <2>1. s \in Xfers
    BY DEF Xfers
  <2>2. xfer[s].cmpl \in Nat /\ xfer[s].num \in Nat
    BY <2>1 DEF EngineOK, XferType
  <2>3. rem' \in [Xfers -> 0..MaxReq] /\ done' \in [Xfers -> Nat]
    <3>1. CASE xfer[s].st = "COMPLETED"
      <4> DEFINE n == IF EopFlush THEN xfer[s].cmpl ELSE xfer[s].num
      <4>1. n \in Nat
        BY <2>2
      <4>2. done' = [done EXCEPT ![s] = @ + n]
        BY <3>1
      <4> HIDE DEF n
      <4>3. done' \in [Xfers -> Nat]
        BY <2>1, <4>1, <4>2
      <4> DEFINE r == IF xfer[s].rcved THEN 0 ELSE rem[s]
      <4>4. r \in 0..MaxReq
        BY <2>1
      <4>5. rem' = [rem EXCEPT ![s] = r]
        BY <3>1
      <4> HIDE DEF r
      <4> QED
        BY <2>1, <4>3, <4>4, <4>5
    <3>2. CASE xfer[s].st # "COMPLETED"
      BY <3>2
    <3> QED
      BY <3>1, <3>2
  <2>4. rv' \in [Xfers -> {"OK", "EBUSY", "EIO", "ETIMEDOUT"}]
    BY <2>1
  <2> QED
    BY <2>1, <2>3, <2>4
<1>8. ASSUME NEW s \in Sync, DescUsedLoad(s) PROVE CallersOK'
  BY <1>8 DEF DescUsedLoad, Xfers, EngineOK
<1>9. ASSUME NEW s \in Sync, DescUsedStore(s) PROVE CallersOK'
  BY <1>9 DEF DescUsedStore, Xfers
<1>10. ASSUME NEW s \in Sync, SubmitReturn(s) PROVE CallersOK'
  BY <1>10 DEF SubmitReturn, Xfers
<1>11. ASSUME HwDesc PROVE CallersOK'
  BY <1>11 DEF HwDesc, callVars
<1>12. ASSUME HwError PROVE CallersOK'
  BY <1>12 DEF HwError, callVars
<1>13. ASSUME xdma_isr PROVE CallersOK'
  BY <1>13 DEF xdma_isr, callVars
<1>14. ASSUME ServiceStatus \/ ServiceCount PROVE CallersOK'
  BY <1>14 DEF ServiceStatus, ServiceCount, callVars
<1>15. ASSUME NEW h \in Xfers, NEW x, Complete(h, x)
       PROVE  /\ pc' \in [Xfers -> Labels]
              /\ rv' \in [Xfers -> {"OK", "EBUSY", "EIO", "ETIMEDOUT"}]
  BY <1>15 DEF Complete
<1>16. ASSUME queue # <<>> PROVE Head(queue) \in Xfers
  BY <1>16 DEF EngineOK
<1>17. ASSUME ServiceList PROVE CallersOK'
  BY <1>15, <1>16, <1>17 DEF ServiceList
<1>18. ASSUME ServiceFinal PROVE CallersOK'
  BY <1>15, <1>16, <1>18 DEF ServiceFinal, Finish
<1>19. ASSUME Device PROVE CallersOK'
  BY <1>19 DEF Device, OfflineFlag, OfflineEngine, OfflineIrq, OnlineEngine,
     OnlineIrq, OnlineFlag, callVars
<1>20. CASE UNCHANGED vars
  BY <1>20 DEF vars, callVars
<1> QED
  BY <1>1, <1>2, <1>3, <1>4, <1>5, <1>6, <1>7, <1>8, <1>9, <1>10, <1>11, <1>12,
     <1>13, <1>14, <1>17, <1>18, <1>19, <1>20 DEF Next, QueueStep, SyncStep, Service

LEMMA DeviceTyped ==
  ASSUME TypeOK, [Next]_vars
  PROVE  DeviceOK'
<1> USE EngineAssumption DEF EngineAssumption, TypeOK, DeviceOK
<1>1. CASE Device
  BY <1>1 DEF Device, OfflineFlag, OfflineEngine, OfflineIrq, OnlineEngine,
     OnlineIrq, OnlineFlag
<1>2. ASSUME ~Device PROVE UNCHANGED <<dpc, resets>>
  BY <1>2 DEF Next, QueueStep, SyncStep, Service, Submit, transfer_init, QueueCheck,
     transfer_queue, LockDesc, WaitEnd, XferSwitch, DescUsedLoad, DescUsedStore,
     SubmitReturn, HwDesc, HwError, xdma_isr, ServiceStatus, ServiceCount,
     ServiceList, ServiceFinal, devVars, vars
<1> QED
  BY <1>1, <1>2

LEMMA FlagsTyped ==
  ASSUME TypeOK, [Next]_vars
  PROVE  FlagsOK'
<1> USE DEF TypeOK, FlagsOK
<1>1. ASSUME NEW t \in Xfers, Submit(t) \/ transfer_init(t) PROVE FlagsOK'
  BY <1>1, Zenon DEF Submit, transfer_init, irqVars, devVars, engineVars
<1>2. ASSUME NEW t \in Xfers, QueueCheck(t) PROVE FlagsOK'
  BY <1>2, Zenon DEF QueueCheck, Refuse, irqVars, devVars
<1>3. ASSUME NEW t \in Xfers, transfer_queue(t) PROVE FlagsOK'
  BY <1>3, Zenon DEF transfer_queue, Refuse, engine_start, irqVars, devVars
<1>4. ASSUME NEW s \in Sync, LockDesc(s) \/ WaitEnd(s) \/ DescUsedLoad(s)
                             \/ DescUsedStore(s) \/ SubmitReturn(s)
      PROVE  FlagsOK'
  BY <1>4, Zenon DEF LockDesc, WaitEnd, DescUsedLoad, DescUsedStore, SubmitReturn,
     irqVars, devVars, engineVars
<1>5. ASSUME NEW s \in Sync, XferSwitch(s) PROVE FlagsOK'
  BY <1>5, Zenon DEF XferSwitch, irqVars, devVars
<1>6. ASSUME HwDesc \/ HwError \/ xdma_isr PROVE FlagsOK'
  BY <1>6, Zenon DEF HwDesc, HwError, xdma_isr, irqVars, devVars, engineVars
<1>7. ASSUME ServiceStatus PROVE FlagsOK'
  <2>1. hw.busy \in BOOLEAN
    BY DEF EngineOK, HwType
  <2> QED
    BY <1>7, <2>1, Zenon DEF ServiceStatus, WorkEnd, devVars
<1>8. ASSUME ServiceCount \/ ServiceList PROVE FlagsOK'
  BY <1>8, Zenon DEF ServiceCount, ServiceList, WorkEnd, devVars, engineVars, irqVars
<1>9. ASSUME NEW q, NEW r, NEW d, engine_service_resume(q, r, d)
      PROVE  running' \in BOOLEAN
  BY <1>9, Zenon DEF engine_service_resume, engine_start
<1>10. ASSUME ServiceFinal PROVE FlagsOK'
  <2>1. running' \in BOOLEAN
    BY <1>9, <1>10, Zenon DEF ServiceFinal, Finish
  <2> QED
    BY <1>10, <2>1, Zenon DEF ServiceFinal, WorkEnd, devVars
<1>11. ASSUME Device PROVE FlagsOK'
  BY <1>11, Zenon DEF Device, OfflineFlag, OfflineEngine, OfflineIrq, OnlineEngine,
     OnlineIrq, OnlineFlag, engineVars, irqVars
<1>12. CASE UNCHANGED vars
  BY <1>12, Zenon DEF vars, engineVars, irqVars, devVars
<1> QED
  BY <1>1, <1>2, <1>3, <1>4, <1>5, <1>6, <1>7, <1>8, <1>10, <1>11, <1>12, Zenon
     DEF Next, QueueStep, SyncStep, Service

\* Starting the engine with the first transfer of a list.
LEMMA StartTyped ==
  ASSUME TypeOK, NEW q \in Seq(Xfers), q # <<>>, engine_start(q)
  PROVE  /\ shutdown' \in SUBSET {"REQUEST", "IDLE"}
         /\ dequeued' \in Nat
         /\ hw' \in HwType
         /\ moved' \in [Xfers -> Nat]
<1>1. Head(q) \in Xfers
  OBVIOUS
<1>2. xfer[Head(q)].num \in 0..MaxDesc
  BY <1>1 DEF TypeOK, EngineOK, XferType
<1>3. Launch(Head(q)) \in HwType
  BY <1>1, <1>2, EngineAssumption DEF EngineAssumption, Launch, HwType
<1>4. moved' \in [Xfers -> Nat]
  BY <1>1 DEF engine_start, TypeOK, EngineOK
<1> QED
  BY <1>3, <1>4 DEF engine_start

\* engine_service_resume() leaves typed registers.
LEMMA ResumeTyped ==
  ASSUME TypeOK, NEW q \in Seq(Xfers), NEW run \in BOOLEAN, NEW d \in Nat,
         engine_service_resume(q, run, d)
  PROVE  /\ shutdown' \in SUBSET {"REQUEST", "IDLE"}
         /\ dequeued' \in Nat
         /\ hw' \in HwType
         /\ moved' \in [Xfers -> Nat]
<1>1. CASE ~run /\ q # <<>>
  BY <1>1, StartTyped DEF engine_service_resume
<1> DEFINE kept == [hw EXCEPT !.busy = @ /\ run,
                      !.cur = IF q # <<>> /\ @ = Head(q) THEN @ ELSE None]
<1>2. kept \in HwType
  BY DEF HwType, TypeOK, EngineOK
<1>3. CASE ~run /\ q = <<>>
  <2>1. hw' = kept
    BY <1>3 DEF engine_service_resume
  <2> HIDE DEF kept
  <2> QED
    BY <1>2, <1>3, <2>1 DEF engine_service_resume, TypeOK, EngineOK
<1>4. CASE run
  <2>1. hw' = [kept EXCEPT !.busy = @ /\ q # <<>>]
    BY <1>4 DEF engine_service_resume
  <2> HIDE DEF kept
  <2> QED
    BY <1>2, <1>4, <2>1 DEF engine_service_resume, TypeOK, EngineOK, HwType
<1> QED
  BY <1>1, <1>3, <1>4

\* A transfer leaves the list.
LEMMA CompleteTyped ==
  ASSUME TypeOK, NEW h \in Xfers, NEW x \in XferType, Complete(h, x)
  PROVE  xfer' \in [Xfers -> XferType] /\ descUsed' \in Int
<1>1. xfer \in [Xfers -> XferType] /\ descUsed \in Int
  BY DEF TypeOK, EngineOK, XferType
<1>2. NoXfer \in XferType
  BY EngineAssumption DEF EngineAssumption, NoXfer, XferType, States
<1>3. xfer[h].num \in Int
  BY <1>1 DEF XferType
<1>4. CASE h \in Sync /\ xfer' = [xfer EXCEPT ![h] = x] /\ UNCHANGED descUsed
  BY <1>1, <1>4
<1>5. CASE xfer' = [xfer EXCEPT ![h] = NoXfer] /\ descUsed' = descUsed - xfer[h].num
  BY <1>1, <1>2, <1>3, <1>5
<1> QED
  BY <1>4, <1>5 DEF Complete, GiveBack

\* Appending to a list.
LEMMA AppendProperty ==
  ASSUME NEW S, NEW q \in Seq(S), NEW t \in S
  PROVE  Append(q, t) \in Seq(S) /\ Append(q, t) # <<>>
<1>1. Append(q, t) \in Seq(S)
  OBVIOUS
<1>2. Len(Append(q, t)) = Len(q) + 1 /\ Len(q) \in Nat
  OBVIOUS
<1>3. Len(<<>>) = 0
  OBVIOUS
<1> QED
  BY <1>1, <1>2, <1>3

\* The number of descriptors of a transfer and its state.
LEMMA XferState ==
  ASSUME NEW x \in XferType, NEW st \in States
  PROVE  x.num \in 0..MaxDesc /\ [x EXCEPT !.st = st] \in XferType
BY DEF XferType

\* Updating the counts of a transfer.
LEMMA XferUpdate ==
  ASSUME NEW x \in XferType, NEW st \in States, NEW n \in 0..MaxDesc
  PROVE  /\ [x EXCEPT !.cmpl = n] \in XferType
         /\ [x EXCEPT !.eop = n] \in XferType
         /\ [x EXCEPT !.st = st, !.num = n] \in XferType
         /\ [x EXCEPT !.st = st, !.cmpl = n] \in XferType
         /\ [x EXCEPT !.st = st, !.cmpl = n, !.rcved = TRUE] \in XferType
BY DEF XferType

LEMMA EngineTyped ==
  ASSUME TypeOK, [Next]_vars
  PROVE  EngineOK'
<1> USE EngineAssumption DEF EngineAssumption, TypeOK, EngineOK
<1>0. NoXfer \in XferType /\ SvcIdle \in [pc: {"idle", "count", "list"},
                                          err: BOOLEAN, cnt: Nat]
  BY DEF NoXfer, XferType, States, SvcIdle
<1>1. ASSUME NEW t \in Xfers, Submit(t) PROVE EngineOK'
  BY <1>1 DEF Submit, engineVars
<1>2. ASSUME NEW t \in Xfers, transfer_init(t) PROVE EngineOK'
  <2>1. PICK d \in 1..MaxDesc :
          /\ xfer' = [xfer EXCEPT ![t] = [NoXfer EXCEPT !.st = "NEW", !.num = d]]
          /\ descUsed' = descUsed + d
    BY <1>2 DEF transfer_init
  <2>2. [NoXfer EXCEPT !.st = "NEW", !.num = d] \in XferType
    <3>1. d \in 0..MaxDesc /\ "NEW" \in States
      BY DEF States
    <3> QED
      BY <1>0, <3>1, XferUpdate
  <2> QED
    BY <1>2, <2>1, <2>2 DEF transfer_init
<1>3. ASSUME NEW t \in Xfers, Refuse(t) PROVE xfer' \in [Xfers -> XferType]
  BY <1>0, <1>3 DEF Refuse
<1>4. ASSUME NEW t \in Xfers, QueueCheck(t) PROVE EngineOK'
  BY <1>3, <1>4 DEF QueueCheck, Refuse
<1>5. ASSUME NEW t \in Xfers, transfer_queue(t) PROVE EngineOK'
  <2>1. CASE Refuse(t)
    BY <1>3, <1>5, <2>1 DEF transfer_queue, Refuse
  <2>2. CASE ~Refuse(t)
    <3>1. /\ queue' = Append(queue, t)
          /\ xfer' = [xfer EXCEPT ![t].st = "SUBMITTED"]
          /\ \/ engine_start(Append(queue, t))
             \/ UNCHANGED <<shutdown, dequeued, hw, moved>>
          /\ UNCHANGED <<descUsed, svc>>
      BY <1>5, <2>2 DEF transfer_queue
    <3>2. Append(queue, t) \in Seq(Xfers) /\ Append(queue, t) # <<>>
      BY AppendProperty
    <3>3. xfer' \in [Xfers -> XferType]
      <4>1. [xfer[t] EXCEPT !.st = "SUBMITTED"] \in XferType
        BY XferState DEF States
      <4>2. xfer' = [xfer EXCEPT ![t] = [xfer[t] EXCEPT !.st = "SUBMITTED"]]
        BY <3>1
      <4> QED
        BY <4>1, <4>2
    <3> QED
      BY <3>1, <3>2, <3>3, StartTyped
  <2> QED
    BY <2>1, <2>2
<1>6. ASSUME NEW s \in Sync, LockDesc(s) \/ WaitEnd(s) \/ DescUsedLoad(s)
      PROVE  EngineOK'
  BY <1>6 DEF LockDesc, WaitEnd, DescUsedLoad, engineVars
<1>7. ASSUME NEW s \in Sync, XferSwitch(s) PROVE EngineOK'
  <2>1. AbortedQueue(s) \in Seq(Xfers)
    BY DEF AbortedQueue
  <2>2. Halted \in HwType
    BY DEF Halted, HwType
  <2>3. [xfer EXCEPT ![s].st = "ABORTED"] \in [Xfers -> XferType]
    BY DEF XferType, States, Xfers
  <2> QED
    BY <1>7, <2>1, <2>2, <2>3 DEF XferSwitch
<1>8. ASSUME NEW s \in Sync, DescUsedStore(s) PROVE EngineOK'
  <2>1. s \in Xfers /\ xfer[s].num \in Int /\ tmp[s] \in Int
    BY DEF Xfers, XferType, CallersOK
  <2> QED
    BY <1>8, <2>1 DEF DescUsedStore, GiveBack
<1>9. ASSUME NEW s \in Sync, SubmitReturn(s) PROVE EngineOK'
  BY <1>0, <1>9 DEF SubmitReturn, Xfers
<1>10. ASSUME HwDesc PROVE EngineOK'
  <2>1. hw' = [hw EXCEPT !.done = hw.done + 1, !.busy = ~(hw.done + 1 = hw.num),
                         !.pend = @ \/ hw.done + 1 = hw.num \/ EopFlush]
        /\ hw.done < hw.num
    BY <1>10 DEF HwDesc
  <2>2. hw' \in HwType
    <3>1. hw.done + 1 \in 0..MaxDesc
      BY <2>1 DEF HwType
    <3> DEFINE last == hw.done + 1 = hw.num
    <3>2. hw' = [hw EXCEPT !.done = hw.done + 1, !.busy = ~last,
                           !.pend = @ \/ last \/ EopFlush]
      BY <2>1
    <3>3. (~last) \in BOOLEAN /\ (hw.pend \/ last \/ EopFlush) \in BOOLEAN
      BY Zenon
    <3> HIDE DEF last
    <3> QED
      BY <3>1, <3>2, <3>3 DEF HwType
  <2>3. CASE hw.cur = None
    BY <1>10, <2>2, <2>3 DEF HwDesc
  <2>4. CASE hw.cur # None
    <3>1. hw.cur \in Xfers /\ hw.done + 1 \in 0..MaxDesc
      BY <2>1, <2>4 DEF HwType
    <3>2. [xfer EXCEPT ![hw.cur].eop = hw.done + 1] \in [Xfers -> XferType]
      BY <3>1 DEF XferType
    <3>3. moved' = [moved EXCEPT ![hw.cur] = @ + 1] /\ moved' \in [Xfers -> Nat]
      <4>1. moved' = [moved EXCEPT ![hw.cur] = moved[hw.cur] + 1]
        BY <1>10, <2>4, Zenon DEF HwDesc
      <4>2. moved[hw.cur] + 1 \in Nat
        BY <3>1
      <4> QED
        BY <3>1, <4>1, <4>2
    <3>4. \/ UNCHANGED xfer
          \/ xfer' = [xfer EXCEPT ![hw.cur].eop = hw.done + 1]
      BY <1>10, <2>4 DEF HwDesc
    <3>5. xfer' \in [Xfers -> XferType]
      BY <3>2, <3>4
    <3> QED
      BY <1>10, <2>2, <3>3, <3>5 DEF HwDesc
  <2> QED
    BY <2>3, <2>4
<1>11. ASSUME HwError \/ xdma_isr PROVE EngineOK'
  BY <1>11 DEF HwError, xdma_isr, HwType, engineVars
<1>12. ASSUME ServiceStatus PROVE EngineOK'
  <2>1. [hw EXCEPT !.err = FALSE, !.pend = FALSE] \in HwType
    BY DEF HwType
  <2>2. [pc |-> "count", err |-> hw.err, cnt |-> 0]
           \in [pc: {"idle", "count", "list"}, err: BOOLEAN, cnt: Nat]
    BY DEF HwType
  <2> QED
    BY <1>0, <1>12, <2>1, <2>2 DEF ServiceStatus, WorkEnd
<1>13. ASSUME ServiceCount PROVE EngineOK'
  <2>1. NotDequeued \in Nat
    BY DEF NotDequeued, HwType
  <2> QED
    BY <1>0, <1>13, <2>1 DEF ServiceCount, WorkEnd, engineVars
<1>14. ASSUME queue # <<>>
       PROVE  /\ Head(queue) \in Xfers /\ Tail(queue) \in Seq(Xfers)
              /\ xfer[Head(queue)] \in XferType
  BY <1>14
<1>15. ASSUME ServiceList PROVE EngineOK'
  <2> DEFINE h == Head(queue)
             x == [xfer[h] EXCEPT !.st = "COMPLETED"]
  <2>1. /\ h \in Xfers /\ Tail(queue) \in Seq(Xfers)
        /\ xfer[h] \in XferType
    BY <1>14, <1>15 DEF ServiceList
  <2>2. x \in XferType /\ xfer[h].num \in Nat
    <3>1. "COMPLETED" \in States
      BY DEF States
    <3> QED
      BY <2>1, <3>1, XferState
  <2>3. xfer' \in [Xfers -> XferType] /\ descUsed' \in Int
    BY <1>15, <2>1, <2>2, CompleteTyped DEF ServiceList
  <2>4. hw' \in HwType
    BY <1>15 DEF ServiceList, HwType
  <2>5. svc.cnt > xfer[h].num /\ svc' = [svc EXCEPT !.cnt = @ - xfer[h].num]
    BY <1>15 DEF ServiceList
  <2>6. dequeued' = dequeued + xfer[h].num /\ queue' = Tail(queue)
    BY <1>15 DEF ServiceList
  <2>7. UNCHANGED <<shutdown, moved>>
    BY <1>15 DEF ServiceList
  <2> HIDE DEF h, x
  <2>8. svc.cnt - xfer[h].num \in Nat /\ dequeued' \in Nat
    <3> DEFINE c == svc.cnt
               m == xfer[h].num
    <3>1. c \in Nat /\ m \in Nat /\ c > m
      BY <2>2, <2>5
    <3> HIDE DEF c, m
    <3>2. c - m \in Nat
      BY <3>1
    <3> QED
      BY <2>6, <3>1, <3>2 DEF c, m
  <2>9. svc' \in [pc: {"idle", "count", "list"}, err: BOOLEAN, cnt: Nat]
    BY <2>5, <2>8
  <2> QED
    BY <2>1, <2>3, <2>4, <2>6, <2>7, <2>8, <2>9
<1>16. ASSUME ServiceFinal PROVE EngineOK'
  <2>0. svc' = SvcIdle
    BY <1>16 DEF ServiceFinal, WorkEnd
  <2>1. ASSUME queue # <<>>, NEW x \in XferType, NEW run \in BOOLEAN,
               NEW d \in Nat, Finish(Head(queue), x, run, d)
        PROVE  EngineOK'
    BY <1>0, <1>14, <2>0, <2>1, CompleteTyped, ResumeTyped DEF Finish
  <2>2. CASE queue = <<>>
    BY <1>0, <1>16, <2>0, <2>2, ResumeTyped DEF ServiceFinal, FlagsOK
  <2>3. CASE queue # <<>>
    <3> DEFINE x == xfer[Head(queue)]
               n == svc.cnt
    <3>1. x \in XferType /\ n \in Nat /\ n <= x.num
      BY <1>14, <1>16, <2>3 DEF ServiceFinal
    <3>2. /\ x.num \in Nat /\ n \in 0..MaxDesc /\ dequeued + n \in Nat
          /\ dequeued + x.num \in Nat
      <4>1. x.num \in 0..MaxDesc
        BY <3>1 DEF XferType
      <4> HIDE DEF x, n
      <4> QED
        BY <3>1, <4>1
    <3>3. /\ [x EXCEPT !.st = "FAILED"] \in XferType
          /\ [x EXCEPT !.st = "FAILED", !.cmpl = n] \in XferType
          /\ [x EXCEPT !.st = "COMPLETED", !.cmpl = n] \in XferType
          /\ [x EXCEPT !.st = "COMPLETED", !.cmpl = n, !.rcved = TRUE] \in XferType
          /\ [x EXCEPT !.cmpl = n] \in XferType
      <4>1. "FAILED" \in States /\ "COMPLETED" \in States
        BY DEF States
      <4> QED
        BY <3>1, <3>2, <4>1, XferState, XferUpdate
    <3>4. running \in BOOLEAN
      BY DEF FlagsOK
    <3>5. ASSUME xfer' = [xfer EXCEPT ![Head(queue)].cmpl = n],
                 engine_service_resume(queue, running, dequeued),
                 UNCHANGED <<queue, descUsed>>
          PROVE  EngineOK'
      <4>1. xfer' \in [Xfers -> XferType]
        BY <1>14, <2>3, <3>3, <3>5
      <4> QED
        BY <1>0, <2>0, <3>4, <3>5, <4>1, ResumeTyped
    <3> QED
      BY <1>16, <2>1, <2>3, <3>2, <3>3, <3>4, <3>5 DEF ServiceFinal
  <2> QED
    BY <2>2, <2>3
<1>17. ASSUME Device PROVE EngineOK'
  BY <1>17 DEF Device, OfflineFlag, OfflineEngine, OfflineIrq, OnlineEngine,
     OnlineIrq, OnlineFlag, Halted, HwType, engineVars
<1>18. CASE UNCHANGED vars
  BY <1>18 DEF vars, engineVars
<1> QED
  BY <1>1, <1>2, <1>4, <1>5, <1>6, <1>7, <1>8, <1>9, <1>10, <1>11, <1>12, <1>13,
     <1>15, <1>16, <1>17, <1>18 DEF Next, QueueStep, SyncStep, Service

\* Type correctness: the state stays within its types whatever mix of blocking
\* and asynchronous requests, hardware errors and resets the engine meets; the
\* u32 arithmetic of engine_service() is what keeps the counts natural numbers.
THEOREM TypeCorrect == Spec => []TypeOK
<1>1. Init => TypeOK
  BY InitTyped
<1>2. TypeOK /\ [Next]_vars => TypeOK'
  BY CallersTyped, DeviceTyped, FlagsTyped, EngineTyped DEF TypeOK
<1> QED
  BY <1>1, <1>2, PTL DEF Spec

-----------------------------------------------------------------------------
(* The engine is quiet while the device is offline.                        *)

\* Between the two critical sections of xdma_device_offline() and
\* xdma_device_online() the shutdown request stands, which refuses new transfers;
\* nobody else starts the engine, because a work item that takes the lock finds
\* it not running and leaves.
OfflineInv ==
  dpc \in {"off_irq", "offline"} =>
    /\ "REQUEST" \in shutdown
    /\ ~running
    /\ ~hw.busy
    /\ svc.pc = "idle"

LEMMA OfflineStep == TypeOK /\ OfflineInv /\ [Next]_vars => OfflineInv'
<1> SUFFICES ASSUME TypeOK, OfflineInv, [Next]_vars PROVE OfflineInv'
  OBVIOUS
<1> USE DEF OfflineInv
<1>1. ASSUME NEW t \in Xfers, Submit(t) \/ transfer_init(t) \/ QueueCheck(t)
      PROVE  OfflineInv'
  BY <1>1 DEF Submit, transfer_init, QueueCheck, Refuse, engineVars, devVars
<1>2. ASSUME NEW t \in Xfers, transfer_queue(t) PROVE OfflineInv'
  BY <1>2 DEF transfer_queue, ShuttingDown, Refuse, devVars
<1>3. ASSUME NEW s \in Sync, LockDesc(s) \/ WaitEnd(s) \/ DescUsedLoad(s)
                             \/ DescUsedStore(s) \/ SubmitReturn(s)
      PROVE  OfflineInv'
  BY <1>3 DEF LockDesc, WaitEnd, DescUsedLoad, DescUsedStore, SubmitReturn,
     engineVars, devVars
<1>4. ASSUME NEW s \in Sync, XferSwitch(s) PROVE OfflineInv'
  <2>1. Halted.busy = FALSE
    BY DEF Halted, TypeOK, EngineOK, HwType
  <2> QED
    BY <1>4, <2>1 DEF XferSwitch, devVars
<1>5. ASSUME HwDesc \/ HwError \/ xdma_isr PROVE OfflineInv'
  BY <1>5 DEF HwDesc, HwError, xdma_isr, engineVars, devVars
<1>6. ASSUME ServiceStatus PROVE OfflineInv'
  <2>1. [hw EXCEPT !.err = FALSE, !.pend = FALSE].busy = hw.busy
    BY DEF TypeOK, EngineOK, HwType
  <2> QED
    BY <1>6, <2>1 DEF ServiceStatus, WorkEnd, SvcIdle, devVars
<1>7. ASSUME ServiceCount \/ ServiceList \/ ServiceFinal PROVE OfflineInv'
  BY <1>7 DEF ServiceCount, ServiceList, ServiceFinal, devVars
<1>8. ASSUME OfflineEngine PROVE OfflineInv'
  <2>1. Halted.busy = FALSE
    BY DEF Halted, TypeOK, EngineOK, HwType
  <2> QED
    BY <1>8, <2>1 DEF OfflineEngine, LockFree
<1>9. ASSUME OfflineFlag \/ OfflineIrq \/ OnlineEngine \/ OnlineIrq \/ OnlineFlag
      PROVE  OfflineInv'
  BY <1>9 DEF OfflineFlag, OfflineIrq, OnlineEngine, OnlineIrq, OnlineFlag,
     engineVars
<1>10. CASE UNCHANGED vars
  BY <1>10 DEF vars, engineVars, devVars
<1> QED
  BY <1>1, <1>2, <1>3, <1>4, <1>5, <1>6, <1>7, <1>8, <1>9, <1>10
     DEF Next, QueueStep, SyncStep, Service, Device

\* From the critical section of xdma_device_offline() to that of
\* xdma_device_online() the engine does not run, whatever is submitted, timed
\* out or serviced meanwhile.
THEOREM OfflineIsQuiet == Spec => []OfflineQuiet
<1>1. Init => OfflineInv
  BY DEF Init, OfflineInv
<1>2. OfflineInv => OfflineQuiet
  BY DEF OfflineInv, OfflineQuiet
<1> QED
  BY <1>1, <1>2, OfflineStep, TypeCorrect, PTL DEF Spec

-----------------------------------------------------------------------------
(* Blocking requests only: what xdma_xfer_submit() reports is true.        *)

\* desc_lock is held exactly by the request that is past it.
OwnerInv == \A s \in Sync : pc[s] \notin {"idle", "mutex"} <=> descLock = s

\* So at most one transfer is queued, and its caller still waits for it.
QueueInv ==
  queue # <<>> =>
    /\ descLock \in Sync
    /\ queue = <<descLock>>
    /\ pc[descLock] \in {"wait", "switch"}
    /\ xfer[descLock].st = "SUBMITTED"

\* While the engine runs, or is being serviced, the chain in the hardware is that
\* of the queued transfer, and its completed count is what was really moved.
ActiveInv ==
  running \/ svc.pc # "idle" =>
    /\ queue # <<>>
    /\ hw.cur = Head(queue)
    /\ hw.num = xfer[hw.cur].num
    /\ hw.done <= hw.num
    /\ hw.done = moved[hw.cur]
    /\ dequeued = 0
    /\ svc.pc = "list" => svc.cnt <= hw.done

BusyInv == hw.busy => running

SyncInv == OwnerInv /\ QueueInv /\ ActiveInv /\ BusyInv /\ Truthful

\* The types the proof uses, with the blocking requests only.
LEMMA SyncTypes ==
  ASSUME Async = {}, TypeOK
  PROVE  /\ Xfers = Sync /\ None \notin Sync
         /\ pc \in [Sync -> Labels]
         /\ xfer \in [Sync -> XferType]
         /\ moved \in [Sync -> Nat]
         /\ descLock \in Sync \cup {None}
         /\ queue \in Seq(Sync)
<1>1. Xfers = Sync /\ None \notin Sync
  BY EngineAssumption DEF EngineAssumption, Xfers
<1> QED
  BY <1>1 DEF TypeOK, EngineOK, CallersOK

\* The steps of a caller that do not touch the engine.
LEMMA CallerKeeps ==
  ASSUME Async = {}, TypeOK, SyncInv, NEW s \in Sync,
         Submit(s) \/ LockDesc(s) \/ QueueCheck(s) \/ WaitEnd(s)
         \/ DescUsedLoad(s) \/ DescUsedStore(s)
  PROVE  SyncInv'
<1> USE DEF SyncInv
<1>1. UNCHANGED <<queue, xfer, running, dequeued, svc, hw, moved>>
  BY EngineAssumption DEF EngineAssumption, Submit, LockDesc, QueueCheck, Refuse,
     WaitEnd, DescUsedLoad, DescUsedStore, engineVars
<1>2. \/ pc[s] = "idle" /\ pc' = [pc EXCEPT ![s] = "mutex"] /\ UNCHANGED descLock
      \/ pc[s] = "mutex" /\ pc' = [pc EXCEPT ![s] = "init"] /\ descLock = None
           /\ descLock' = s
      \/ /\ pc[s] \in {"check", "load", "store"}
         /\ \E l \in {"queue", "store", "init", "exit"} : pc' = [pc EXCEPT ![s] = l]
         /\ UNCHANGED descLock
      \/ pc[s] = "wait" /\ pc' = [pc EXCEPT ![s] = "switch"] /\ UNCHANGED descLock
  BY EngineAssumption DEF EngineAssumption, Submit, LockDesc, QueueCheck, Refuse,
     WaitEnd, DescUsedLoad, DescUsedStore, Goto
<1>3. pc \in [Sync -> Labels] /\ None \notin Sync
  BY SyncTypes
<1>4. OwnerInv'
  BY <1>2, <1>3 DEF OwnerInv
<1>5. QueueInv'
  BY <1>1, <1>2, <1>3 DEF QueueInv, OwnerInv
<1>6. ActiveInv' /\ BusyInv' /\ Truthful'
  BY <1>1 DEF ActiveInv, BusyInv, Truthful
<1> QED
  BY <1>4, <1>5, <1>6

\* A caller that builds, queues or frees its transfer finds the engine idle.
LEMMA CallerFindsIdle ==
  ASSUME Async = {}, TypeOK, SyncInv, NEW s \in Sync,
         pc[s] \in {"init", "queue", "load", "store", "exit"}
  PROVE  descLock = s /\ queue = <<>> /\ ~running /\ svc.pc = "idle" /\ ~hw.busy
<1>1. descLock = s
  BY DEF SyncInv, OwnerInv
<1>2. queue = <<>>
  BY <1>1 DEF SyncInv, QueueInv
<1>3. ~running /\ svc.pc = "idle"
  BY <1>2 DEF SyncInv, ActiveInv
<1> QED
  BY <1>1, <1>2, <1>3 DEF SyncInv, BusyInv

\* transfer_init() and the return of xdma_xfer_submit().
LEMMA BuildKeeps ==
  ASSUME Async = {}, TypeOK, SyncInv, NEW s \in Sync,
         transfer_init(s) \/ SubmitReturn(s)
  PROVE  SyncInv'
<1>1. pc[s] \in {"init", "exit"}
  BY DEF transfer_init, SubmitReturn
<1>2. descLock = s /\ queue = <<>> /\ ~running /\ svc.pc = "idle" /\ ~hw.busy
  BY <1>1, CallerFindsIdle
<1>3. UNCHANGED <<queue, running, svc, hw>>
  BY DEF transfer_init, SubmitReturn
<1>4. pc \in [Sync -> Labels] /\ xfer \in [Sync -> XferType] /\ None \notin Sync
      /\ moved \in [Sync -> Nat]
  BY SyncTypes
<1>5. OwnerInv'
  BY <1>2, <1>4 DEF SyncInv, OwnerInv, transfer_init, SubmitReturn, Goto
<1>6. QueueInv' /\ ActiveInv' /\ BusyInv'
  BY <1>2, <1>3 DEF QueueInv, ActiveInv, BusyInv
<1>7. Truthful'
  <2>1. xfer'[s].st # "COMPLETED" /\ \A t \in Sync \ {s} : xfer'[t] = xfer[t]
    <3>1. CASE transfer_init(s)
      <4>1. PICK d \in 1..MaxDesc :
              xfer' = [xfer EXCEPT ![s] = [NoXfer EXCEPT !.st = "NEW", !.num = d]]
        BY <3>1 DEF transfer_init
      <4>2. [NoXfer EXCEPT !.st = "NEW", !.num = d].st = "NEW"
        BY DEF NoXfer
      <4> QED
        BY <1>4, <4>1, <4>2
    <3>2. CASE SubmitReturn(s)
      BY <1>4, <3>2 DEF SubmitReturn, NoXfer
    <3> QED
      BY <3>1, <3>2
  <2>2. moved' = [moved EXCEPT ![s] = 0]
    BY DEF transfer_init, SubmitReturn
  <2> QED
    BY <1>4, <2>1, <2>2 DEF SyncInv, Truthful
<1> QED
  BY <1>5, <1>6, <1>7 DEF SyncInv

\* transfer_queue() finds the list empty, so it starts the engine with its own
\* transfer.
LEMMA QueueKeeps ==
  ASSUME Async = {}, TypeOK, SyncInv, NEW s \in Sync, transfer_queue(s)
  PROVE  SyncInv'
<1>1. descLock = s /\ queue = <<>> /\ ~running /\ svc.pc = "idle" /\ ~hw.busy
  BY CallerFindsIdle DEF transfer_queue
<1>2. pc \in [Sync -> Labels] /\ xfer \in [Sync -> XferType] /\ None \notin Sync
      /\ moved \in [Sync -> Nat]
  BY SyncTypes
<1>3. UNCHANGED <<svc, descLock>> /\ s \notin Async
  BY DEF transfer_queue
<1>4. CASE Refuse(s) /\ UNCHANGED xfer /\ Goto(s, "exit")
  <2>1. UNCHANGED <<queue, xfer, running, dequeued, hw, moved>>
    BY <1>4 DEF Refuse
  <2>2. OwnerInv'
    BY <1>1, <1>2, <1>3, <1>4 DEF SyncInv, OwnerInv, Goto
  <2>3. QueueInv' /\ ActiveInv' /\ BusyInv' /\ Truthful'
    BY <1>1, <1>3, <2>1 DEF SyncInv, QueueInv, ActiveInv, BusyInv, Truthful
  <2> QED
    BY <2>2, <2>3 DEF SyncInv
<1>5. CASE /\ queue' = Append(queue, s)
           /\ xfer' = [xfer EXCEPT ![s].st = "SUBMITTED"]
           /\ Goto(s, "wait")
           /\ engine_start(Append(queue, s))
  <2>1. queue' = <<s>> /\ Head(queue') = s /\ queue' # <<>>
    BY <1>1, <1>5
  <2>2. running' = TRUE /\ dequeued' = 0 /\ hw' = Launch(s)
        /\ moved' = [moved EXCEPT ![s] = 0]
    BY <1>5, <2>1 DEF engine_start
  <2>3. hw'.cur = s /\ hw'.num = xfer[s].num /\ hw'.done = 0
    BY <2>2 DEF Launch
  <2>4. OwnerInv'
    BY <1>1, <1>2, <1>3, <1>5 DEF SyncInv, OwnerInv, Goto
  <2>5. QueueInv'
    BY <1>1, <1>2, <1>3, <1>5, <2>1 DEF QueueInv, Goto, XferType
  <2>6. xfer'[s].num = xfer[s].num /\ xfer[s].num \in Nat /\ moved'[s] = 0
    BY <1>2, <1>5, <2>2 DEF XferType
  <2>7. svc'.pc = "idle"
    BY <1>1, <1>3
  <2>8. ActiveInv'
    BY <1>3, <2>1, <2>2, <2>3, <2>6, <2>7 DEF ActiveInv
  <2>9. BusyInv'
    BY <2>2 DEF BusyInv
  <2>10. Truthful'
    BY <1>2, <1>5, <2>2 DEF SyncInv, Truthful, XferType
  <2> QED
    BY <2>4, <2>5, <2>8, <2>9, <2>10 DEF SyncInv
<1> QED
  BY <1>1, <1>3, <1>4, <1>5 DEF transfer_queue, Refuse

\* The switch of xdma_xfer_submit(): a timeout that can read the status empties
\* the list and stops the engine, any other outcome leaves the engine alone.
LEMMA SwitchKeeps ==
  ASSUME Async = {}, TypeOK, SyncInv, NEW s \in Sync, XferSwitch(s), ~lost'
  PROVE  SyncInv'
<1>1. pc[s] = "switch" /\ svc.pc = "idle" /\ pc' = [pc EXCEPT ![s] = "load"]
      /\ UNCHANGED <<dequeued, svc, descLock, moved>>
  BY DEF XferSwitch, LockFree, Goto
<1>2. descLock = s
  BY <1>1 DEF SyncInv, OwnerInv
<1>3. pc \in [Sync -> Labels] /\ xfer \in [Sync -> XferType] /\ None \notin Sync
      /\ queue \in Seq(Sync) /\ Xfers = Sync
  BY SyncTypes
<1>4. OwnerInv'
  BY <1>1, <1>2, <1>3 DEF SyncInv, OwnerInv
<1>5. CASE xfer[s].st \in {"COMPLETED", "FAILED"}
  <2>1. UNCHANGED <<queue, xfer, running, hw>>
    BY <1>5 DEF XferSwitch
  <2>2. queue = <<>>
    BY <1>2, <1>5 DEF SyncInv, QueueInv
  <2>3. QueueInv' /\ ActiveInv' /\ BusyInv' /\ Truthful'
    BY <1>1, <2>1, <2>2 DEF SyncInv, QueueInv, ActiveInv, BusyInv, Truthful
  <2> QED
    BY <1>4, <2>3 DEF SyncInv
<1>6. CASE xfer[s].st = "SUBMITTED"
  <2>1. /\ queue' = AbortedQueue(s)
        /\ xfer' = [xfer EXCEPT ![s].st = "ABORTED"]
        /\ running' = FALSE
        /\ hw' = Halted
    BY <1>6 DEF XferSwitch
  <2>2. queue' = <<>>
    <3>1. CASE queue = <<>>
      BY <2>1, <3>1 DEF AbortedQueue
    <3>2. CASE queue # <<>>
      <4>1. queue = <<s>>
        BY <1>2, <3>2 DEF SyncInv, QueueInv
      <4>2. Head(<<s>>) = s /\ Tail(<<s>>) = <<>>
        OBVIOUS
      <4> QED
        BY <2>1, <3>2, <4>1, <4>2 DEF AbortedQueue
    <3> QED
      BY <3>1, <3>2
  <2>3. ~hw'.busy
    BY <2>1 DEF Halted, TypeOK, EngineOK, HwType
  <2>4. QueueInv' /\ ActiveInv' /\ BusyInv'
    BY <1>1, <2>1, <2>2, <2>3 DEF QueueInv, ActiveInv, BusyInv
  <2>5. Truthful'
    BY <1>1, <1>3, <2>1 DEF SyncInv, Truthful, XferType
  <2> QED
    BY <1>4, <2>4, <2>5 DEF SyncInv
<1> QED
  BY <1>5, <1>6 DEF XferSwitch

\* The hardware moves descriptors of the queued transfer only.
LEMMA HardwareKeeps ==
  ASSUME Async = {}, TypeOK, SyncInv, HwDesc \/ HwError \/ xdma_isr
  PROVE  SyncInv'
<1>1. xfer \in [Sync -> XferType] /\ moved \in [Sync -> Nat] /\ queue \in Seq(Sync)
      /\ None \notin Sync
  BY SyncTypes
<1>2. UNCHANGED <<queue, running, dequeued, svc, pc, descLock>>
  BY DEF HwDesc, HwError, xdma_isr, engineVars, callVars
<1>3. OwnerInv'
  BY <1>2 DEF SyncInv, OwnerInv
<1>4. hw \in HwType
  BY DEF TypeOK, EngineOK
<1>5. CASE HwError \/ xdma_isr
  <2>1. /\ UNCHANGED <<xfer, moved>>
        /\ hw'.cur = hw.cur /\ hw'.num = hw.num /\ hw'.done = hw.done
        /\ (hw'.busy => hw.busy)
    BY <1>4, <1>5 DEF HwError, xdma_isr, engineVars, HwType
  <2>2. QueueInv' /\ ActiveInv' /\ BusyInv' /\ Truthful'
    BY <1>2, <2>1 DEF SyncInv, QueueInv, ActiveInv, BusyInv, Truthful
  <2> QED
    BY <1>3, <2>2 DEF SyncInv
<1>6. CASE HwDesc
  <2> DEFINE t == hw.cur
  <2>1. hw.busy /\ hw.done < hw.num
    BY <1>6 DEF HwDesc
  <2>2. /\ running /\ queue = <<descLock>> /\ descLock \in Sync
        /\ t = descLock /\ xfer[t].st = "SUBMITTED" /\ hw.num = xfer[t].num
        /\ hw.done = moved[t] /\ dequeued = 0 /\ queue # <<>>
        /\ svc.pc = "list" => svc.cnt <= hw.done
    BY <2>1 DEF SyncInv, BusyInv, ActiveInv, QueueInv
  <2>3. /\ hw'.cur = t /\ hw'.num = hw.num /\ hw'.done = hw.done + 1
    BY <1>4, <1>6 DEF HwDesc, HwType
  <2>4. moved' = [moved EXCEPT ![t] = @ + 1]
    BY <1>1, <1>6, <2>2 DEF HwDesc
  <2>5. UNCHANGED xfer \/ xfer' = [xfer EXCEPT ![t].eop = hw.done + 1]
    BY <1>6 DEF HwDesc
  <2>6. /\ xfer'[t].st = "SUBMITTED" /\ xfer'[t].num = xfer[t].num
        /\ \A u \in Sync \ {t} : xfer'[u] = xfer[u] /\ moved'[u] = moved[u]
        /\ moved'[t] = hw.done + 1
    BY <1>1, <2>2, <2>4, <2>5 DEF XferType
  <2>7. hw.done \in Nat /\ hw.num \in Nat /\ svc.cnt \in Nat
    BY <1>4 DEF HwType, TypeOK, EngineOK
  <2> HIDE DEF t
  <2>8. QueueInv'
    BY <1>2, <2>2, <2>6 DEF SyncInv, QueueInv
  <2>9. ActiveInv'
    <3>1. Head(queue) = t
      BY <2>2
    <3> QED
      BY <1>2, <2>1, <2>2, <2>3, <2>6, <2>7, <3>1 DEF ActiveInv
  <2>10. BusyInv'
    BY <1>2, <2>2 DEF BusyInv
  <2>11. Truthful'
    BY <2>6 DEF SyncInv, Truthful
  <2> QED
    BY <1>3, <2>8, <2>9, <2>10, <2>11 DEF SyncInv
<1> QED
  BY <1>5, <1>6

\* Reading the status and the completed count.
LEMMA ServiceReadKeeps ==
  ASSUME Async = {}, TypeOK, SyncInv, ServiceStatus \/ ServiceCount
  PROVE  SyncInv'
<1>1. UNCHANGED <<queue, xfer, dequeued, pc, descLock, moved>>
  BY DEF ServiceStatus, ServiceCount, engineVars, callVars
<1>2. OwnerInv' /\ QueueInv' /\ Truthful'
  BY <1>1 DEF SyncInv, OwnerInv, QueueInv, Truthful
<1>3. hw \in HwType /\ svc \in [pc: {"idle", "count", "list"}, err: BOOLEAN, cnt: Nat]
  BY DEF TypeOK, EngineOK
<1>4. CASE ServiceStatus
  <2>1. /\ hw'.cur = hw.cur /\ hw'.num = hw.num /\ hw'.done = hw.done
        /\ hw'.busy = hw.busy
    BY <1>3, <1>4 DEF ServiceStatus, HwType
  <2>2. \/ ~running /\ ~running' /\ svc'.pc = "idle"
        \/ running /\ (running' <=> hw.busy) /\ svc'.pc = "count"
    BY <1>4 DEF ServiceStatus, WorkEnd, SvcIdle
  <2>3. ActiveInv'
    BY <1>1, <2>1, <2>2 DEF SyncInv, ActiveInv
  <2>4. BusyInv'
    BY <2>1, <2>2 DEF SyncInv, BusyInv
  <2> QED
    BY <1>2, <2>3, <2>4 DEF SyncInv
<1>5. CASE ServiceCount
  <2>1. UNCHANGED <<hw, running>> /\ svc.pc = "count"
    BY <1>5 DEF ServiceCount, engineVars
  <2>2. dequeued = 0 /\ hw.done \in 0..MaxDesc
    BY <1>3, <2>1 DEF SyncInv, ActiveInv, HwType
  <2>3. NotDequeued = hw.done
    BY <2>2, EngineAssumption DEF EngineAssumption, NotDequeued
  <2>4. \/ svc'.pc = "idle"
        \/ svc'.pc = "list" /\ svc'.cnt = hw.done
    <3>1. \/ svc' = SvcIdle
          \/ svc' = [svc EXCEPT !.pc = "list", !.cnt = hw.done]
      BY <1>5, <2>3 DEF ServiceCount, WorkEnd
    <3>2. SvcIdle.pc = "idle"
      BY DEF SvcIdle
    <3>3. /\ [svc EXCEPT !.pc = "list", !.cnt = hw.done].pc = "list"
          /\ [svc EXCEPT !.pc = "list", !.cnt = hw.done].cnt = hw.done
      BY <1>3
    <3> QED
      BY <3>1, <3>2, <3>3, Zenon
  <2>5. ActiveInv'
    BY <1>1, <2>1, <2>2, <2>4 DEF SyncInv, ActiveInv
  <2>6. BusyInv'
    BY <2>1 DEF SyncInv, BusyInv
  <2> QED
    BY <1>2, <2>5, <2>6 DEF SyncInv
<1> QED
  BY <1>4, <1>5

\* No transfer lies before the last one: there is only one.
LEMMA ServiceListImpossible ==
  ASSUME Async = {}, TypeOK, SyncInv, ServiceList
  PROVE  FALSE
<1>1. svc.pc = "list" /\ svc.cnt > xfer[Head(queue)].num
  BY DEF ServiceList
<1>2. svc.cnt <= hw.done /\ hw.done <= hw.num /\ hw.num = xfer[Head(queue)].num
  BY <1>1 DEF SyncInv, ActiveInv
<1>3. svc.cnt \in Nat /\ hw.done \in Nat /\ hw.num \in Nat
  BY DEF TypeOK, EngineOK, HwType
<1> QED
  BY <1>1, <1>2, <1>3

\* The transfer leaves the list: the engine stops and stays idle.
LEMMA FinishKeeps ==
  ASSUME Async = {}, TypeOK, SyncInv, svc.pc = "list", svc' = SvcIdle,
         UNCHANGED descLock,
         NEW x \in XferType, NEW run \in BOOLEAN, NEW d,
         Finish(Head(queue), x, run, d),
         x.st = "COMPLETED" =>
            /\ x.cmpl <= hw.done
            /\ x.cmpl = x.num \/ (EopFlush /\ x.eop \in 1..x.cmpl)
  PROVE  SyncInv'
<1> DEFINE h == Head(queue)
<1>1. /\ queue = <<h>> /\ h = descLock /\ h \in Sync /\ h \notin Async
      /\ moved[h] = hw.done
  BY DEF SyncInv, ActiveInv, QueueInv
<1>2. Tail(queue) = <<>>
  <2>1. queue = <<descLock>>
    BY <1>1
  <2>2. Tail(<<descLock>>) = <<>>
    OBVIOUS
  <2> QED
    BY <2>1, <2>2
<1>3. xfer \in [Sync -> XferType] /\ moved \in [Sync -> Nat]
  BY SyncTypes
<1>4. queue' = <<>> /\ xfer' = [xfer EXCEPT ![h] = x] /\ UNCHANGED pc
  BY <1>1, <1>2 DEF Finish, Complete
<1>5. engine_service_resume(<<>>, run, d)
  BY <1>2 DEF Finish
<1>6. ~running' /\ ~hw'.busy /\ UNCHANGED moved
  <2>1. hw \in HwType
    BY DEF TypeOK, EngineOK
  <2> DEFINE kept == [hw EXCEPT !.busy = @ /\ run,
                 !.cur = IF <<>> # <<>> /\ @ = Head(<<>>) THEN @ ELSE None]
  <2>2. kept.busy = (hw.busy /\ run)
    BY <2>1 DEF HwType
  <2>3. CASE ~run
    <3>1. hw' = kept /\ ~running' /\ UNCHANGED moved
      BY <1>5, <2>3 DEF engine_service_resume
    <3> HIDE DEF kept
    <3> QED
      BY <2>2, <2>3, <3>1
  <2>4. CASE run
    <3>1. /\ hw' = [kept EXCEPT !.busy = @ /\ <<>> # <<>>]
          /\ running' = (<<>> # <<>>) /\ UNCHANGED moved
      BY <1>5, <2>4 DEF engine_service_resume
    <3>2. kept \in HwType
      BY <2>1 DEF HwType
    <3> HIDE DEF kept
    <3>3. [kept EXCEPT !.busy = @ /\ <<>> # <<>>].busy = (kept.busy /\ <<>> # <<>>)
      BY <3>2 DEF HwType
    <3> QED
      BY <3>1, <3>3
  <2> QED
    BY <2>3, <2>4
<1>7. svc'.pc = "idle"
  BY DEF SvcIdle
<1>8. OwnerInv' /\ QueueInv' /\ ActiveInv' /\ BusyInv'
  BY <1>4, <1>6, <1>7 DEF SyncInv, OwnerInv, QueueInv, ActiveInv, BusyInv
<1>9. Truthful'
  <2>1. \A u \in Sync \ {h} : xfer'[u] = xfer[u] /\ moved'[u] = moved[u]
    BY <1>3, <1>4, <1>6
  <2>2. xfer'[h] = x /\ moved'[h] = hw.done
    BY <1>1, <1>3, <1>4, <1>6
  <2>3. x.cmpl \in Nat /\ hw.done \in Nat
    BY DEF XferType, TypeOK, EngineOK, HwType
  <2> HIDE DEF h
  <2> QED
    BY <2>1, <2>2, <2>3 DEF SyncInv, Truthful
<1> QED
  BY <1>8, <1>9 DEF SyncInv

\* engine_service_final_transfer() and engine_service_resume().
LEMMA ServiceFinalKeeps ==
  ASSUME Async = {}, TypeOK, SyncInv, ServiceFinal
  PROVE  SyncInv'
<1> DEFINE h == Head(queue)
           x == xfer[h]
           n == svc.cnt
<1>1. svc.pc = "list" /\ svc' = SvcIdle /\ UNCHANGED descLock
  BY DEF ServiceFinal, WorkEnd
<1>2. /\ queue # <<>> /\ queue = <<h>> /\ h = descLock /\ h \in Sync
      /\ x.st = "SUBMITTED" /\ hw.cur = h /\ hw.num = x.num
      /\ n <= hw.done /\ hw.done <= hw.num /\ hw.done = moved[h] /\ dequeued = 0
  BY <1>1 DEF SyncInv, ActiveInv, QueueInv
<1>3. xfer \in [Sync -> XferType] /\ moved \in [Sync -> Nat] /\ x \in XferType
  BY <1>2, SyncTypes
<1>4. n \in 0..MaxDesc /\ hw.done \in Nat /\ hw.num \in 0..MaxDesc /\ running \in BOOLEAN
  <2>1. hw.done \in Nat /\ hw.num \in 0..MaxDesc /\ n \in Nat
    BY DEF TypeOK, EngineOK, HwType
  <2>2. n \in 0..MaxDesc
    BY <1>2, <2>1, EngineAssumption DEF EngineAssumption
  <2> QED
    BY <2>1, <2>2 DEF TypeOK, FlagsOK
<1>5. CASE \E run \in BOOLEAN, d \in Int :
             \/ Finish(h, [x EXCEPT !.st = "FAILED"], run, d)
             \/ Finish(h, [x EXCEPT !.st = "FAILED", !.cmpl = n], run, d)
  <2>1. /\ [x EXCEPT !.st = "FAILED"] \in XferType
        /\ [x EXCEPT !.st = "FAILED", !.cmpl = n] \in XferType
        /\ [x EXCEPT !.st = "FAILED"].st = "FAILED"
        /\ [x EXCEPT !.st = "FAILED", !.cmpl = n].st = "FAILED"
    BY <1>3, <1>4 DEF XferType, States
  <2> HIDE DEF h, x, n
  <2> QED
    BY <1>1, <1>5, <2>1, FinishKeeps DEF h
<1>6. CASE /\ EopFlush /\ x.eop # 0 /\ x.eop <= n
           /\ \E d \in Int : Finish(h, [x EXCEPT !.st = "COMPLETED", !.cmpl = n,
                                               !.rcved = TRUE], FALSE, d)
  <2> DEFINE y == [x EXCEPT !.st = "COMPLETED", !.cmpl = n, !.rcved = TRUE]
  <2>1. y \in XferType /\ y.st = "COMPLETED" /\ y.cmpl = n /\ y.eop = x.eop
    BY <1>3, <1>4 DEF XferType, States
  <2>2. x.eop \in Nat
    BY <1>3 DEF XferType
  <2>3. y.eop \in 1..y.cmpl
    BY <1>4, <1>6, <2>1, <2>2
  <2>4. PICK d \in Int : Finish(h, y, FALSE, d)
    BY <1>6
  <2> HIDE DEF x, n, y
  <2> QED
    BY <1>1, <1>2, <1>6, <2>1, <2>3, <2>4, FinishKeeps DEF h, n
<1>7. CASE /\ n = x.num
           /\ \E d \in Int : Finish(h, [x EXCEPT !.st = "COMPLETED", !.cmpl = n],
                                    running, d)
  <2> DEFINE y == [x EXCEPT !.st = "COMPLETED", !.cmpl = n]
  <2>1. y \in XferType /\ y.st = "COMPLETED" /\ y.cmpl = n /\ y.num = x.num
    BY <1>3, <1>4 DEF XferType, States
  <2>2. PICK d \in Int : Finish(h, y, running, d)
    BY <1>7
  <2> HIDE DEF x, n, y
  <2> QED
    BY <1>1, <1>2, <1>4, <1>7, <2>1, <2>2, FinishKeeps DEF h, n
<1>8. CASE /\ xfer' = [xfer EXCEPT ![h].cmpl = n]
           /\ engine_service_resume(queue, running, dequeued)
           /\ UNCHANGED <<queue, pc>>
  <2>1. /\ xfer'[h].st = "SUBMITTED" /\ xfer'[h].num = x.num
        /\ \A u \in Sync \ {h} : xfer'[u] = xfer[u]
    BY <1>2, <1>3, <1>8 DEF XferType
  <2>2. svc'.pc = "idle"
    BY <1>1 DEF SvcIdle
  <2>3. hw \in HwType
    BY DEF TypeOK, EngineOK
  <2>4. /\ hw'.cur = h /\ hw'.num = x.num /\ hw'.done <= hw'.num
        /\ hw'.done = moved'[h] /\ dequeued' = 0 /\ running'
        /\ \A u \in Sync \ {h} : moved'[u] = moved[u]
    <3>1. CASE ~running
      <4>1. engine_start(queue)
        BY <1>2, <1>8, <3>1 DEF engine_service_resume
      <4> HIDE DEF h
      <4>2. hw' = Launch(h) /\ dequeued' = 0 /\ running'
            /\ moved' = [moved EXCEPT ![h] = 0]
        BY <4>1 DEF engine_start, h
      <4> QED
        BY <1>2, <1>3, <1>4, <4>2 DEF Launch
    <3>2. CASE running
      <4> DEFINE kept == [hw EXCEPT !.busy = @ /\ running,
                     !.cur = IF queue # <<>> /\ @ = Head(queue) THEN @ ELSE None]
      <4>1. /\ hw' = [kept EXCEPT !.busy = @ /\ queue # <<>>]
            /\ running' = (queue # <<>>) /\ dequeued' = dequeued
            /\ UNCHANGED moved
        BY <1>8, <3>2 DEF engine_service_resume
      <4>2. kept \in HwType /\ kept.cur = hw.cur /\ kept.num = hw.num
            /\ kept.done = hw.done
        BY <1>2, <2>3 DEF HwType
      <4> HIDE DEF kept
      <4>3. hw'.cur = hw.cur /\ hw'.num = hw.num /\ hw'.done = hw.done
        BY <4>1, <4>2 DEF HwType
      <4> QED
        BY <1>2, <4>1, <4>3
    <3> QED
      BY <3>1, <3>2
  <2> HIDE DEF x
  <2>5. ActiveInv'
    BY <1>2, <1>8, <2>1, <2>2, <2>4 DEF ActiveInv
  <2>6. OwnerInv' /\ QueueInv' /\ BusyInv'
    BY <1>1, <1>2, <1>8, <2>1, <2>4 DEF SyncInv, OwnerInv, QueueInv, BusyInv
  <2>7. Truthful'
    BY <2>1, <2>4 DEF SyncInv, Truthful
  <2> QED
    BY <2>5, <2>6, <2>7 DEF SyncInv
<1> QED
  <2>1. dequeued \in Int /\ dequeued + n \in Int /\ dequeued + x.num \in Int
    BY <1>2, <1>4
  <2> QED
    BY <1>2, <1>4, <1>5, <1>6, <1>7, <1>8, <2>1 DEF ServiceFinal

\* The device thread stops the engine or leaves it alone.
LEMMA DeviceKeeps ==
  ASSUME Async = {}, TypeOK, SyncInv, Device
  PROVE  SyncInv'
<1>1. UNCHANGED <<queue, xfer, dequeued, svc, pc, descLock, moved>>
  BY DEF Device, OfflineFlag, OfflineEngine, OfflineIrq, OnlineEngine, OnlineIrq,
     OnlineFlag, engineVars, callVars
<1>2. \/ UNCHANGED <<running, hw>>
      \/ svc.pc = "idle" /\ running' = FALSE /\ hw' = Halted
  BY DEF Device, OfflineFlag, OfflineEngine, OfflineIrq, OnlineEngine, OnlineIrq,
     OnlineFlag, engineVars, LockFree
<1>3. ~Halted.busy
  BY DEF Halted, TypeOK, EngineOK, HwType
<1>4. OwnerInv' /\ QueueInv' /\ Truthful'
  BY <1>1 DEF SyncInv, OwnerInv, QueueInv, Truthful
<1>5. ActiveInv' /\ BusyInv'
  BY <1>1, <1>2, <1>3 DEF SyncInv, ActiveInv, BusyInv
<1> QED
  BY <1>4, <1>5 DEF SyncInv

\* As long as every timeout could read the engine's status.
LEMMA SyncStepKeeps ==
  ASSUME Async = {}
  PROVE  TypeOK /\ SyncInv /\ [Next]_vars => SyncInv' \/ lost'
<1> SUFFICES ASSUME TypeOK, SyncInv, [Next]_vars, ~lost' PROVE SyncInv'
  OBVIOUS
<1>1. CASE UNCHANGED vars
  <2>1. UNCHANGED <<queue, xfer, running, dequeued, svc, hw, pc, descLock, moved>>
    BY <1>1 DEF vars, engineVars, callVars
  <2> QED
    BY <2>1 DEF SyncInv, OwnerInv, QueueInv, ActiveInv, BusyInv, Truthful
<1>2. Xfers = Sync
  BY SyncTypes
<1> QED
  BY <1>1, <1>2, CallerKeeps, BuildKeeps, QueueKeeps, SwitchKeeps, HardwareKeeps,
     ServiceReadKeeps, ServiceListImpossible, ServiceFinalKeeps, DeviceKeeps
     DEF Next, QueueStep, SyncStep, Service

\* A transfer that was freed in the list is never forgotten.
LEMMA LostStays == lost /\ [Next]_vars => lost'
<1> SUFFICES ASSUME lost, [Next]_vars PROVE lost'
  OBVIOUS
<1>1. CASE Device
  BY <1>1 DEF Device, OfflineFlag, OfflineEngine, OfflineIrq, OnlineEngine,
     OnlineIrq, OnlineFlag
<1>2. CASE ~Device
  BY <1>2 DEF Next, QueueStep, SyncStep, Service, Submit, transfer_init, QueueCheck,
     transfer_queue, LockDesc, WaitEnd, XferSwitch, DescUsedLoad, DescUsedStore,
     SubmitReturn, HwDesc, HwError, xdma_isr, ServiceStatus, ServiceCount,
     ServiceList, ServiceFinal, devVars, vars
<1> QED
  BY <1>1, <1>2

LEMMA SyncInvariant ==
  ASSUME Async = {}
  PROVE  Spec => [](TypeOK /\ (lost \/ SyncInv))
<1>1. Init => SyncInv
  <2> SUFFICES ASSUME Init PROVE SyncInv
    OBVIOUS
  <2>1. OwnerInv /\ QueueInv /\ ActiveInv /\ BusyInv
    BY EngineAssumption DEF EngineAssumption, Init, OwnerInv, QueueInv, ActiveInv,
       BusyInv, SvcIdle, Xfers
  <2>2. Truthful
    BY DEF Init, Truthful, NoXfer, Xfers
  <2> QED
    BY <2>1, <2>2 DEF SyncInv
<1> QED
  BY <1>1, SyncStepKeeps, LostStays, TypeCorrect, PTL DEF Spec

\* With blocking requests only, a transfer that xdma_xfer_submit() finds COMPLETED
\* was moved by the hardware, however timeouts, late interrupts, hardware errors
\* and resets fall, as long as no timeout failed to read the engine's status.
THEOREM CompletionIsTruthful ==
  ASSUME Async = {}
  PROVE  Spec => []CompletedTruthful
<1>1. lost \/ SyncInv => CompletedTruthful
  BY DEF SyncInv, CompletedTruthful
<1> QED
  BY <1>1, SyncInvariant, PTL

\* With blocking requests only, the hardware never works on a transfer that is not
\* the head of the list, so never on buffers that are already unmapped, as long as
\* no timeout failed to read the engine's status and so left the engine running.
THEOREM DmaIsOwned ==
  ASSUME Async = {}
  PROVE  Spec => []DmaOwned
<1>1. lost \/ SyncInv => DmaOwned
  BY DEF SyncInv, BusyInv, ActiveInv, DmaOwned
<1> QED
  BY <1>1, SyncInvariant, PTL

\* With blocking requests only, the list holds no aborted, completed or freed
\* transfer: a timeout that cannot read the engine's status is the only way a
\* freed transfer stays listed.
THEOREM QueueIsSubmitted ==
  ASSUME Async = {}
  PROVE  Spec => []QueueSubmitted
<1>1. lost \/ SyncInv => QueueSubmitted
  <2> SUFFICES ASSUME SyncInv PROVE QueueSubmitted
    BY DEF QueueSubmitted
  <2>1. CASE queue = <<>>
    BY <2>1 DEF QueueSubmitted
  <2>2. CASE queue # <<>>
    <3>1. queue = <<descLock>> /\ xfer[descLock].st = "SUBMITTED"
      BY <2>2 DEF SyncInv, QueueInv
    <3> QED
      BY <3>1 DEF QueueSubmitted
  <2> QED
    BY <2>1, <2>2
<1> QED
  BY <1>1, SyncInvariant, PTL
=============================================================================
