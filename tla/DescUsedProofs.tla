--------------------------- MODULE DescUsedProofs ---------------------------
(***************************************************************************)
(* engine->desc_used is exact: a proof about XdmaEngine for any number of  *)
(* requests of one kind, blocking or asynchronous, that are not reset.     *)
(*                                                                         *)
(* Both restrictions are needed.  A submission refused during a reset      *)
(* never gives its descriptors back, and the blocking caller updates the   *)
(* count without the engine lock, so that an asynchronous request between  *)
(* its load and its store is forgotten.                                    *)
(***************************************************************************)
EXTENDS XdmaEngineProofs, FiniteSetTheorems

OneKind == Sync = {} \/ Async = {}

\* No reset: no submission is ever refused.
Undisturbed == ~offline /\ "REQUEST" \notin shutdown

\* A listed asynchronous transfer is listed once and still counted.
CallbackDue ==
  /\ \A i \in DOMAIN queue : queue[i] \in Async => pc[queue[i]] = "wait"
  /\ \A i, j \in DOMAIN queue : queue[i] = queue[j] /\ queue[i] \in Async => i = j

\* A blocking request past desc_lock is its owner, and between the load and the
\* store of desc_used nobody else has written it.
OwnedCount ==
  \A s \in Sync :
    /\ pc[s] \notin {"idle", "mutex"} <=> descLock = s
    /\ pc[s] = "store" => tmp[s] = descUsed

CountInv ==
  /\ dpc = "online"
  /\ Undisturbed
  /\ CallbackDue
  /\ OwnedCount
  /\ IsFiniteSet(Held)
  /\ DescUsedExact

-----------------------------------------------------------------------------
(* The set that is counted.                                                *)

LEMMA SizeTypes ==
  ASSUME TypeOK
  PROVE  /\ xfer \in [Xfers -> XferType] /\ pc \in [Xfers -> Labels]
         /\ descUsed \in Int /\ MaxDesc \in Nat /\ queue \in Seq(Xfers)
         /\ \A t \in Xfers : xfer[t].num \in 0..MaxDesc
  BY EngineAssumption DEF EngineAssumption, TypeOK, EngineOK, CallersOK, XferType

\* The descriptors of one transfer.
LEMMA OneTransferCounted ==
  ASSUME NEW t, NEW n \in Nat
  PROVE  IsFiniteSet({t} \X (1..n)) /\ Cardinality({t} \X (1..n)) = n
<1>1. IsFiniteSet({t}) /\ Cardinality({t}) = 1
  BY FS_Singleton
<1>2. IsFiniteSet(1..n) /\ Cardinality(1..n) = n
  BY FS_Interval
<1> DEFINE A == {t}
           B == 1..n
<1> HIDE DEF A, B
<1>3. IsFiniteSet(A \X B) /\ Cardinality(A \X B) = Cardinality(A) * Cardinality(B)
  BY <1>1, <1>2, FS_Product DEF A, B
<1>4. Cardinality(A) * Cardinality(B) = n
  BY <1>1, <1>2 DEF A, B
<1> QED
  BY <1>3, <1>4 DEF A, B

LEMMA TakenFinite ==
  ASSUME TypeOK, IsFiniteSet(Held)
  PROVE  IsFiniteSet(Taken)
<1>1. IsFiniteSet(1..MaxDesc)
  BY SizeTypes, FS_Interval
<1>2. IsFiniteSet(Held \X (1..MaxDesc))
  BY <1>1, FS_Product
<1>3. Taken \in SUBSET (Held \X (1..MaxDesc))
  BY DEF Taken
<1> QED
  BY <1>2, <1>3, FS_Subset

\* A step that builds no transfer and gives none back.
LEMMA CountStays ==
  ASSUME Held' = Held, descUsed' = descUsed,
         \A t \in Held : xfer'[t].num = xfer[t].num,
         IsFiniteSet(Held), DescUsedExact
  PROVE  IsFiniteSet(Held)' /\ DescUsedExact'
<1>1. Taken' = Taken
  BY DEF Taken
<1> QED
  BY <1>1 DEF DescUsedExact

\* transfer_init() counts the descriptors it takes.
LEMMA CountGrows ==
  ASSUME TypeOK, TypeOK', IsFiniteSet(Held), DescUsedExact,
         NEW t \in Xfers, t \notin Held, Held' = Held \cup {t},
         \A u \in Held : xfer'[u].num = xfer[u].num,
         descUsed' = descUsed + xfer'[t].num
  PROVE  IsFiniteSet(Held)' /\ DescUsedExact'
<1> DEFINE n == xfer'[t].num
           New == {t} \X (1..n)
<1>1. n \in 0..MaxDesc /\ MaxDesc \in Nat
  BY EngineAssumption DEF TypeOK, EngineOK, XferType, EngineAssumption
<1> HIDE DEF n
<1>2. Taken' = Taken \cup New
  BY <1>1 DEF Taken, n
<1>3. Taken \cap New = {}
  BY DEF Taken
<1>4. IsFiniteSet(Taken) /\ Cardinality(Taken) = descUsed /\ Cardinality(Taken) \in Nat
  BY TakenFinite, FS_CardinalityType DEF DescUsedExact
<1>5. IsFiniteSet(New) /\ Cardinality(New) = n
  <2>1. n \in Nat
    BY <1>1
  <2> QED
    BY <2>1, OneTransferCounted
<1>6. Cardinality(Taken \cup New) = Cardinality(Taken) + Cardinality(New)
  <2> HIDE DEF New
  <2>1. Cardinality(Taken \cup New)
          = Cardinality(Taken) + Cardinality(New) - Cardinality({})
    BY <1>3, <1>4, <1>5, FS_Union
  <2> QED
    BY <1>1, <1>4, <1>5, <2>1, FS_EmptySet
<1>7. descUsed' = Cardinality(Taken')
  BY <1>2, <1>4, <1>5, <1>6 DEF n
<1>8. IsFiniteSet(Held)'
  BY FS_AddElement
<1> QED
  BY <1>7, <1>8 DEF DescUsedExact

\* Whoever gives a transfer back takes exactly its descriptors off the count.
LEMMA CountShrinks ==
  ASSUME TypeOK, IsFiniteSet(Held), DescUsedExact,
         NEW t \in Held, Held' = Held \ {t},
         \A u \in Held \ {t} : xfer'[u].num = xfer[u].num,
         descUsed' = descUsed - xfer[t].num
  PROVE  IsFiniteSet(Held)' /\ DescUsedExact'
<1> DEFINE n == xfer[t].num
           Old == {t} \X (1..n)
<1>1. n \in 0..MaxDesc /\ MaxDesc \in Nat
  BY SizeTypes DEF Held
<1> HIDE DEF n
<1>2. Taken' = Taken \ Old
  BY <1>1 DEF Taken, n
<1>3. Taken \cap Old = Old
  BY <1>1 DEF Taken, n
<1>4. IsFiniteSet(Taken) /\ Cardinality(Taken) = descUsed /\ Cardinality(Taken) \in Nat
  BY TakenFinite, FS_CardinalityType DEF DescUsedExact
<1>5. Cardinality(Old) = n
  <2>1. n \in Nat
    BY <1>1
  <2> QED
    BY <2>1, OneTransferCounted
<1>6. Cardinality(Taken \ Old) = Cardinality(Taken) - Cardinality(Old)
  <2> HIDE DEF Old
  <2> QED
    BY <1>3, <1>4, FS_Difference
<1>7. descUsed' = Cardinality(Taken')
  BY <1>2, <1>4, <1>5, <1>6 DEF n
<1>8. IsFiniteSet(Held)'
  BY FS_RemoveElement
<1> QED
  BY <1>7, <1>8 DEF DescUsedExact

-----------------------------------------------------------------------------
(* The steps.                                                              *)

\* Without a reset the device thread has nothing to do.
LEMMA NoDeviceStep ==
  ASSUME MaxResets = 0, TypeOK, CountInv
  PROVE  ~Device
  BY DEF CountInv, Device, OfflineFlag, OfflineEngine, OfflineIrq, OnlineEngine,
     OnlineIrq, OnlineFlag, TypeOK, DeviceOK

\* Nobody asks the engine to shut down.
LEMMA StaysUndisturbed ==
  ASSUME MaxResets = 0, TypeOK, CountInv, Next
  PROVE  dpc' = "online" /\ Undisturbed'
<1> USE DEF CountInv, Undisturbed
<1>1. UNCHANGED <<dpc, offline>>
  BY NoDeviceStep DEF Next, QueueStep, SyncStep, Service, Submit, transfer_init, QueueCheck,
     transfer_queue, LockDesc, WaitEnd, XferSwitch, DescUsedLoad, DescUsedStore,
     SubmitReturn, HwDesc, HwError, xdma_isr, ServiceStatus, ServiceCount,
     ServiceList, ServiceFinal, devVars
<1>2. ASSUME NEW q, NEW run, NEW d, engine_service_resume(q, run, d)
      PROVE  "REQUEST" \notin shutdown'
  BY <1>2 DEF engine_service_resume, engine_start, ShuttingDown
<1>3. CASE ServiceFinal
  BY <1>1, <1>2, <1>3 DEF ServiceFinal, Finish
<1>4. ASSUME NEW t \in Xfers, transfer_queue(t)
      PROVE  "REQUEST" \notin shutdown'
  BY <1>4 DEF transfer_queue, engine_start, ShuttingDown, Refuse
<1>5. ASSUME ~ServiceFinal, ~(\E t \in Xfers : transfer_queue(t))
      PROVE  shutdown' = shutdown
  BY <1>5, NoDeviceStep DEF Next, QueueStep, SyncStep, Service, Submit, transfer_init,
     QueueCheck, LockDesc, WaitEnd, XferSwitch, DescUsedLoad, DescUsedStore,
     SubmitReturn, HwDesc, HwError, xdma_isr, ServiceStatus, ServiceCount,
     ServiceList, engineVars, Refuse
<1> QED
  BY <1>1, <1>3, <1>4, <1>5

\* The first transfer leaves the list and no later one is called back.
LEMMA TailStaysDue ==
  ASSUME TypeOK, CallbackDue, queue # <<>>, queue' = Tail(queue),
         \A i \in DOMAIN queue : i # 1 /\ queue[i] \in Async => pc'[queue[i]] = pc[queue[i]]
  PROVE  CallbackDue'
<1>1. queue \in Seq(Xfers)
  BY SizeTypes
<1>2. \A i \in DOMAIN queue' : /\ i + 1 \in DOMAIN queue /\ queue'[i] = queue[i + 1]
                               /\ i \in Nat /\ i + 1 # 1
  BY <1>1
<1>3. \A i \in DOMAIN queue' : queue'[i] \in Async => pc'[queue'[i]] = "wait"
  BY <1>2 DEF CallbackDue
<1>4. ASSUME NEW i \in DOMAIN queue', NEW j \in DOMAIN queue',
             queue'[i] = queue'[j], queue'[i] \in Async
      PROVE  i = j
  <2>1. i + 1 = j + 1
    BY <1>2, <1>4 DEF CallbackDue
  <2> QED
    BY <1>2, <2>1
<1> QED
  BY <1>3, <1>4 DEF CallbackDue

\* The callers' steps before and after the transfer is counted.
LEMMA SubmitCounts ==
  ASSUME TypeOK, CountInv, NEW t \in Xfers,
         Submit(t) \/ (t \in Sync /\ (LockDesc(t) \/ SubmitReturn(t)))
  PROVE  CallbackDue' /\ OwnedCount' /\ IsFiniteSet(Held)' /\ DescUsedExact'
<1> USE DEF CountInv
<1>1. pc \in [Xfers -> Labels] /\ queue \in Seq(Xfers) /\ Sync \subseteq Xfers
      /\ xfer \in [Xfers -> XferType] /\ Sync \cap Async = {} /\ None \notin Sync
  BY SizeTypes, EngineAssumption DEF Xfers, EngineAssumption
<1>2. pc[t] \in {"idle", "mutex", "exit"} /\ t \notin Held
  BY DEF Submit, LockDesc, SubmitReturn, Held
<1>3. PICK l \in {"mutex", "init", "idle"} : pc' = [pc EXCEPT ![t] = l]
  BY DEF Submit, LockDesc, SubmitReturn, Goto
<1>4. Held' = Held
  BY <1>1, <1>2, <1>3 DEF Held
<1>5. UNCHANGED <<descUsed, queue, tmp>>
  BY DEF Submit, LockDesc, SubmitReturn, engineVars
<1>6. \A u \in Held : xfer'[u] = xfer[u]
  BY <1>1, <1>2 DEF Submit, LockDesc, SubmitReturn, engineVars, Held
<1>7. IsFiniteSet(Held)' /\ DescUsedExact'
  BY <1>4, <1>5, <1>6, CountStays
<1>8. CallbackDue'
  BY <1>1, <1>2, <1>3, <1>5 DEF CallbackDue
<1>9. OwnedCount'
  <2>1. CASE Submit(t)
    BY <1>1, <1>2, <1>5, <2>1 DEF OwnedCount, Submit, Goto
  <2>2. CASE t \in Sync /\ LockDesc(t)
    BY <1>1, <1>2, <1>5, <2>2 DEF OwnedCount, LockDesc, Goto
  <2>3. CASE t \in Sync /\ SubmitReturn(t)
    BY <1>1, <1>2, <1>5, <2>3 DEF OwnedCount, SubmitReturn, Goto
  <2> QED
    BY <2>1, <2>2, <2>3
<1> QED
  BY <1>7, <1>8, <1>9

\* transfer_init() finds no other caller between the load and the store.
LEMMA BuildCounts ==
  ASSUME OneKind, TypeOK, TypeOK', CountInv, NEW t \in Xfers, transfer_init(t)
  PROVE  CallbackDue' /\ OwnedCount' /\ IsFiniteSet(Held)' /\ DescUsedExact'
<1> USE DEF CountInv
<1>1. pc \in [Xfers -> Labels] /\ queue \in Seq(Xfers) /\ Xfers = Sync \cup Async
      /\ xfer \in [Xfers -> XferType]
  BY SizeTypes DEF Xfers
<1>2. pc[t] = "init" /\ pc' = [pc EXCEPT ![t] = "check"]
      /\ UNCHANGED <<queue, tmp, descLock>>
  BY DEF transfer_init, Goto
<1>3. PICK d \in 1..MaxDesc :
         /\ xfer' = [xfer EXCEPT ![t] = [NoXfer EXCEPT !.st = "NEW", !.num = d]]
         /\ descUsed' = descUsed + d
  BY DEF transfer_init
<1>4. t \notin Held /\ Held' = Held \cup {t}
  BY <1>1, <1>2 DEF Held
<1>5. xfer'[t].num = d /\ \A u \in Xfers \ {t} : xfer'[u] = xfer[u]
  BY <1>1, <1>3 DEF NoXfer
<1>6. IsFiniteSet(Held)' /\ DescUsedExact'
  <2>1. \A u \in Held : xfer'[u].num = xfer[u].num
    BY <1>4, <1>5 DEF Held
  <2> QED
    BY <1>3, <1>4, <1>5, <2>1, CountGrows
<1>7. CallbackDue'
  BY <1>1, <1>2 DEF CallbackDue
<1>8. OwnedCount'
  BY <1>1, <1>2 DEF OwnedCount, OneKind
<1> QED
  BY <1>6, <1>7, <1>8

\* The caller queues the transfer, waits for it and reads its outcome.
LEMMA CallerCounts ==
  ASSUME TypeOK, CountInv, NEW t \in Xfers,
         \/ QueueCheck(t) \/ transfer_queue(t)
         \/ t \in Sync /\ (WaitEnd(t) \/ XferSwitch(t) \/ DescUsedLoad(t))
  PROVE  CallbackDue' /\ OwnedCount' /\ IsFiniteSet(Held)' /\ DescUsedExact'
<1> USE DEF CountInv
<1>1. pc \in [Xfers -> Labels] /\ queue \in Seq(Xfers) /\ Xfers = Sync \cup Async
      /\ xfer \in [Xfers -> XferType] /\ Sync \cap Async = {}
  BY SizeTypes, EngineAssumption DEF Xfers, EngineAssumption
<1>2. PICK l \in {"queue", "wait", "switch", "load", "store"} :
         pc' = [pc EXCEPT ![t] = l]
  BY DEF QueueCheck, transfer_queue, WaitEnd, XferSwitch, DescUsedLoad, Goto,
     Undisturbed, ShuttingDown
<1>3. t \in Held
  BY DEF QueueCheck, transfer_queue, WaitEnd, XferSwitch, DescUsedLoad, Held
<1>4. Held' = Held
  BY <1>1, <1>2, <1>3 DEF Held
<1>5. UNCHANGED <<descUsed, descLock>>
  BY DEF QueueCheck, transfer_queue, WaitEnd, XferSwitch, DescUsedLoad, engineVars
<1>6. \A u \in Xfers : xfer'[u].num = xfer[u].num
  <2>1. xfer' = xfer \/ \E s \in States : xfer' = [xfer EXCEPT ![t].st = s]
    BY DEF QueueCheck, transfer_queue, WaitEnd, XferSwitch, DescUsedLoad, engineVars,
       Undisturbed, ShuttingDown, States
  <2>2. ASSUME NEW s, xfer' = [xfer EXCEPT ![t].st = s], NEW u \in Xfers
        PROVE  xfer'[u].num = xfer[u].num
    <3>1. xfer' = [xfer EXCEPT ![t] = [xfer[t] EXCEPT !.st = s]]
      BY <2>2
    <3>2. xfer[t] \in XferType
      BY <1>1
    <3>3. [xfer[t] EXCEPT !.st = s].num = xfer[t].num
      BY <3>2 DEF XferType
    <3> QED
      BY <1>1, <3>1, <3>3
  <2> QED
    BY <2>1, <2>2
<1>7. IsFiniteSet(Held)' /\ DescUsedExact'
  BY <1>4, <1>5, <1>6, CountStays DEF Held
<1>8. OwnedCount'
  <2>1. l = "store" => DescUsedLoad(t) /\ t \in Sync
    BY <1>1, <1>2 DEF QueueCheck, transfer_queue, WaitEnd, XferSwitch, DescUsedLoad, Goto,
       Undisturbed, ShuttingDown
  <2>2. pc[t] \notin {"idle", "mutex"}
    BY <1>3 DEF Held
  <2>3. tmp \in [Sync -> Int]
    BY DEF TypeOK, CallersOK
  <2>4. DescUsedLoad(t) \/ tmp' = tmp
    BY DEF QueueCheck, transfer_queue, WaitEnd, XferSwitch, DescUsedLoad
  <2>5. DescUsedLoad(t) => tmp' = [tmp EXCEPT ![t] = descUsed]
    BY DEF DescUsedLoad
  <2> QED
    BY <1>1, <1>2, <1>5, <2>1, <2>2, <2>3, <2>4, <2>5 DEF OwnedCount
<1>9. CallbackDue'
  <2>1. CASE transfer_queue(t)
    <3>1. queue' = Append(queue, t) /\ pc[t] = "queue" /\ pc' = [pc EXCEPT ![t] = "wait"]
      BY <2>1 DEF transfer_queue, Undisturbed, ShuttingDown, Goto
    <3>2. \A i \in DOMAIN queue' : \/ i \in DOMAIN queue /\ queue'[i] = queue[i]
                                   \/ i = Len(queue) + 1 /\ queue'[i] = t
      <4>1. Len(queue) \in Nat /\ DOMAIN queue = 1..Len(queue)
        BY <1>1
      <4>2. DOMAIN queue' = 1..(Len(queue) + 1) /\ queue'[Len(queue) + 1] = t
            /\ \A i \in 1..Len(queue) : queue'[i] = queue[i]
        BY <1>1, <3>1
      <4> QED
        BY <4>1, <4>2
    <3>3. \A i \in DOMAIN queue : queue[i] \in Xfers
      BY <1>1
    <3>4. \A i \in DOMAIN queue : queue[i] \in Async => queue[i] # t
      BY <3>1 DEF CallbackDue
    <3>5. \A i \in DOMAIN queue' : queue'[i] \in Async => pc'[queue'[i]] = "wait"
      BY <1>1, <3>1, <3>2, <3>3, <3>4 DEF CallbackDue
    <3>6. \A i, j \in DOMAIN queue' : queue'[i] = queue'[j] /\ queue'[i] \in Async => i = j
      BY <3>2, <3>4 DEF CallbackDue
    <3> QED
      BY <3>5, <3>6 DEF CallbackDue
  <2>2. CASE QueueCheck(t)
    BY <1>1, <2>2 DEF CallbackDue, QueueCheck, Undisturbed, Goto
  <2>3. ASSUME t \in Sync, WaitEnd(t) \/ DescUsedLoad(t) PROVE CallbackDue'
    BY <1>1, <2>3 DEF CallbackDue, WaitEnd, DescUsedLoad, engineVars, Goto
  <2>4. ASSUME t \in Sync, XferSwitch(t) PROVE CallbackDue'
    <3>1. pc' = [pc EXCEPT ![t] = "load"]
          /\ (queue' = queue \/ (queue # <<>> /\ queue' = Tail(queue)))
      <4>1. AbortedQueue(t) = queue \/ (queue # <<>> /\ AbortedQueue(t) = Tail(queue))
        BY DEF AbortedQueue
      <4> QED
        BY <2>4, <4>1 DEF XferSwitch, Goto
    <3>2. CASE queue' = queue
      BY <1>1, <2>4, <3>1, <3>2 DEF CallbackDue
    <3>3. CASE queue # <<>> /\ queue' = Tail(queue)
      <4>1. \A i \in DOMAIN queue : queue[i] \in Async => pc'[queue[i]] = pc[queue[i]]
        BY <1>1, <2>4, <3>1
      <4> QED
        BY <3>3, <4>1, TailStaysDue
    <3> QED
      BY <3>1, <3>2, <3>3
  <2> QED
    BY <2>1, <2>2, <2>3, <2>4
<1> QED
  BY <1>7, <1>8, <1>9

\* The store writes what was loaded, less the transfer: nobody wrote in between.
LEMMA StoreCounts ==
  ASSUME TypeOK, CountInv, NEW s \in Sync, DescUsedStore(s)
  PROVE  CallbackDue' /\ OwnedCount' /\ IsFiniteSet(Held)' /\ DescUsedExact'
<1> USE DEF CountInv
<1>1. pc \in [Xfers -> Labels] /\ queue \in Seq(Xfers) /\ Xfers = Sync \cup Async
      /\ Sync \cap Async = {} /\ tmp \in [Sync -> Int]
  BY SizeTypes, EngineAssumption DEF Xfers, EngineAssumption, TypeOK, CallersOK
<1>2. PICK l \in {"exit", "init"} : pc' = [pc EXCEPT ![s] = l]
  BY DEF DescUsedStore, Goto
<1>3. pc[s] = "store" /\ UNCHANGED <<queue, xfer, descLock>>
      /\ descUsed' = tmp[s] - xfer[s].num /\ tmp' = [tmp EXCEPT ![s] = 0]
  BY DEF DescUsedStore, GiveBack
<1>4. s \in Held /\ Held' = Held \ {s}
  BY <1>1, <1>2, <1>3 DEF Held
<1>5. tmp[s] = descUsed
  BY <1>3 DEF OwnedCount
<1>6. IsFiniteSet(Held)' /\ DescUsedExact'
  BY <1>3, <1>4, <1>5, CountShrinks
<1>7. CallbackDue'
  BY <1>1, <1>2, <1>3 DEF CallbackDue
<1>8. OwnedCount'
  BY <1>1, <1>2, <1>3 DEF OwnedCount
<1> QED
  BY <1>6, <1>7, <1>8

\* The hardware, the interrupt handler and the reads of engine_service().
LEMMA HardwareCounts ==
  ASSUME TypeOK, CountInv, HwDesc \/ HwError \/ xdma_isr \/ ServiceStatus \/ ServiceCount
  PROVE  CallbackDue' /\ OwnedCount' /\ IsFiniteSet(Held)' /\ DescUsedExact'
<1> USE DEF CountInv
<1>1. xfer \in [Xfers -> XferType]
  BY SizeTypes
<1>2. UNCHANGED <<queue, descUsed, callVars>>
  BY DEF HwDesc, HwError, xdma_isr, ServiceStatus, ServiceCount, engineVars
<1>3. UNCHANGED <<pc, descLock, tmp>> /\ Held' = Held
  BY <1>2 DEF callVars, Held
<1>4. ASSUME NEW t \in Xfers
      PROVE  xfer'[t].num = xfer[t].num
  <2>1. xfer' = xfer \/ (HwDesc /\ hw.cur # None
                         /\ xfer' = [xfer EXCEPT ![hw.cur].eop = hw.done + 1])
    BY DEF HwDesc, HwError, xdma_isr, ServiceStatus, ServiceCount, engineVars
  <2>2. CASE HwDesc /\ hw.cur # None /\ xfer' = [xfer EXCEPT ![hw.cur].eop = hw.done + 1]
    <3>1. hw.cur \in Xfers
      BY <2>2 DEF TypeOK, EngineOK, HwType
    <3>2. xfer' = [xfer EXCEPT ![hw.cur] = [xfer[hw.cur] EXCEPT !.eop = hw.done + 1]]
      BY <2>2
    <3>3. xfer[hw.cur] \in XferType
      BY <1>1, <3>1
    <3>4. [xfer[hw.cur] EXCEPT !.eop = hw.done + 1].num = xfer[hw.cur].num
      BY <3>3 DEF XferType
    <3> QED
      BY <1>1, <3>2, <3>4
  <2> QED
    BY <2>1, <2>2
<1>5. IsFiniteSet(Held)' /\ DescUsedExact'
  BY <1>2, <1>3, <1>4, CountStays DEF Held
<1>6. CallbackDue'
  BY <1>2, <1>3 DEF CallbackDue
<1>7. OwnedCount'
  BY <1>2, <1>3 DEF OwnedCount
<1> QED
  BY <1>5, <1>6, <1>7

\* engine_transfer_completion() for the first transfer, which leaves the list.
LEMMA CompletionCounts ==
  ASSUME OneKind, TypeOK, CountInv, queue # <<>>, queue' = Tail(queue),
         UNCHANGED <<descLock, tmp>>,
         NEW x, x.num = xfer[Head(queue)].num, Complete(Head(queue), x)
  PROVE  CallbackDue' /\ OwnedCount' /\ IsFiniteSet(Held)' /\ DescUsedExact'
<1> USE DEF CountInv
<1> DEFINE h == Head(queue)
<1>1. /\ pc \in [Xfers -> Labels] /\ queue \in Seq(Xfers) /\ Xfers = Sync \cup Async
      /\ xfer \in [Xfers -> XferType] /\ Sync \cap Async = {}
  BY SizeTypes, EngineAssumption DEF Xfers, EngineAssumption
<1>2. h \in Xfers /\ h = queue[1] /\ 1 \in DOMAIN queue
  BY <1>1
<1> HIDE DEF h
<1>3. CASE h \in Sync
  <2>1. xfer' = [xfer EXCEPT ![h] = x] /\ UNCHANGED <<descUsed, pc>>
    BY <1>1, <1>3 DEF Complete, h
  <2>2. Held' = Held /\ \A t \in Held : xfer'[t].num = xfer[t].num
    BY <1>1, <2>1 DEF Held, h
  <2>3. IsFiniteSet(Held)' /\ DescUsedExact'
    BY <2>1, <2>2, CountStays
  <2>4. CallbackDue'
    BY <2>1, TailStaysDue
  <2>5. OwnedCount'
    BY <2>1 DEF OwnedCount
  <2> QED
    BY <2>3, <2>4, <2>5
<1>4. CASE h \in Async
  <2>1. /\ xfer' = [xfer EXCEPT ![h] = NoXfer]
        /\ descUsed' = descUsed - xfer[h].num
        /\ pc' = [pc EXCEPT ![h] = "idle"]
    BY <1>1, <1>4 DEF Complete, Goto, GiveBack, h
  <2>2. pc[h] = "wait"
    BY <1>2, <1>4 DEF CallbackDue
  <2>3. h \in Held /\ Held' = Held \ {h}
    BY <1>1, <1>2, <2>1, <2>2 DEF Held
  <2>4. \A t \in Held \ {h} : xfer'[t].num = xfer[t].num
    BY <1>1, <2>1 DEF Held
  <2>5. IsFiniteSet(Held)' /\ DescUsedExact'
    BY <2>1, <2>3, <2>4, CountShrinks
  <2>6. \A i \in DOMAIN queue : i # 1 /\ queue[i] \in Async => pc'[queue[i]] = pc[queue[i]]
    <3>1. \A i \in DOMAIN queue : i # 1 => queue[i] # h
      BY <1>2, <1>4 DEF CallbackDue
    <3> QED
      BY <1>1, <2>1, <3>1
  <2>7. CallbackDue'
    BY <2>6, TailStaysDue
  <2>8. OwnedCount'
    BY <1>4 DEF OneKind, OwnedCount
  <2> QED
    BY <2>5, <2>7, <2>8
<1> QED
  BY <1>1, <1>2, <1>3, <1>4

\* engine_service_transfer_list() and engine_service_final_transfer().
LEMMA ServiceCounts ==
  ASSUME OneKind, TypeOK, CountInv, ServiceList \/ ServiceFinal
  PROVE  CallbackDue' /\ OwnedCount' /\ IsFiniteSet(Held)' /\ DescUsedExact'
<1> USE DEF CountInv
<1>1. xfer \in [Xfers -> XferType] /\ queue \in Seq(Xfers)
  BY SizeTypes
<1>2. UNCHANGED <<descLock, tmp>>
  BY DEF ServiceList, ServiceFinal
<1>3. ASSUME queue # <<>>, queue' = Tail(queue), NEW x,
             \/ \E st : x = [xfer[Head(queue)] EXCEPT !.st = st]
             \/ \E st, n : x = [xfer[Head(queue)] EXCEPT !.st = st, !.cmpl = n]
             \/ \E st, n, e : x = [xfer[Head(queue)] EXCEPT !.st = st, !.cmpl = n, !.rcved = e],
             Complete(Head(queue), x)
      PROVE  CallbackDue' /\ OwnedCount' /\ IsFiniteSet(Held)' /\ DescUsedExact'
  <2>1. xfer[Head(queue)] \in XferType
    <3>1. queue # <<>>
      BY <1>3
    <3>2. Head(queue) \in Xfers
      BY <1>1, <3>1
    <3> QED
      BY <1>1, <3>2
  <2>2. x.num = xfer[Head(queue)].num
    BY <1>3, <2>1 DEF XferType
  <2> QED
    BY <1>2, <1>3, <2>2, CompletionCounts
<1>4. CASE ServiceList
  BY <1>3, <1>4 DEF ServiceList
<1>5. CASE ServiceFinal
  <2> DEFINE X == xfer[Head(queue)]
             n == svc.cnt
  <2>1. CASE UNCHANGED <<queue, descUsed, pc>>
             /\ (xfer' = xfer
                 \/ (queue # <<>> /\ xfer' = [xfer EXCEPT ![Head(queue)].cmpl = n]))
    <3>1. Held' = Held
      BY <2>1 DEF Held
    <3>2. \A t \in Xfers : xfer'[t].num = xfer[t].num
      <4>1. CASE queue # <<>> /\ xfer' = [xfer EXCEPT ![Head(queue)].cmpl = n]
        <5>1. Head(queue) \in Xfers
          BY <1>1, <4>1
        <5>2. X \in XferType
          BY <1>1, <5>1
        <5>3. [X EXCEPT !.cmpl = n].num = X.num
          BY <5>2 DEF XferType
        <5>4. xfer' = [xfer EXCEPT ![Head(queue)] = [X EXCEPT !.cmpl = n]]
          BY <4>1
        <5> QED
          BY <1>1, <5>3, <5>4
      <4> QED
        BY <2>1, <4>1
    <3>3. IsFiniteSet(Held)' /\ DescUsedExact'
      BY <2>1, <3>1, <3>2, CountStays DEF Held
    <3> QED
      BY <1>2, <2>1, <3>3 DEF CallbackDue, OwnedCount
  <2>2. CASE queue # <<>> /\ queue' = Tail(queue)
             /\ \/ Complete(Head(queue), [X EXCEPT !.st = "FAILED"])
                \/ Complete(Head(queue), [X EXCEPT !.st = "COMPLETED", !.cmpl = n,
                                                   !.rcved = TRUE])
                \/ Complete(Head(queue), [X EXCEPT !.st = "FAILED", !.cmpl = n])
                \/ Complete(Head(queue), [X EXCEPT !.st = "COMPLETED", !.cmpl = n])
    BY <1>3, <2>2
  <2> QED
    BY <1>5, <2>1, <2>2 DEF ServiceFinal, Finish
<1> QED
  BY <1>4, <1>5

LEMMA CountStep ==
  ASSUME MaxResets = 0, OneKind, TypeOK, TypeOK', CountInv, [Next]_vars
  PROVE  CountInv'
<1>1. CASE Next
  <2>1. dpc' = "online" /\ Undisturbed'
    BY <1>1, StaysUndisturbed
  <2>2. CallbackDue' /\ OwnedCount' /\ IsFiniteSet(Held)' /\ DescUsedExact'
    <3>1. Sync \subseteq Xfers
      BY DEF Xfers
    <3> QED
      BY <1>1, <3>1, NoDeviceStep, SubmitCounts, BuildCounts, CallerCounts, StoreCounts,
         HardwareCounts, ServiceCounts DEF Next, QueueStep, SyncStep, Service
  <2> QED
    BY <2>1, <2>2 DEF CountInv
<1>2. CASE UNCHANGED vars
  BY <1>2 DEF vars, engineVars, callVars, devVars, CountInv, Undisturbed, CallbackDue,
     OwnedCount, DescUsedExact, Held, Taken
<1> QED
  BY <1>1, <1>2

LEMMA CountInit == Init => CountInv
<1> SUFFICES ASSUME Init PROVE CountInv
  OBVIOUS
<1>1. Held = {} /\ Taken = {}
  BY DEF Init, Held, Taken
<1>2. IsFiniteSet(Held) /\ DescUsedExact
  BY <1>1, FS_EmptySet DEF DescUsedExact, Init
<1>3. CallbackDue /\ Undisturbed /\ dpc = "online"
  BY DEF Init, CallbackDue, Undisturbed
<1>4. OwnedCount
  BY EngineAssumption DEF Init, OwnedCount, Xfers, EngineAssumption
<1> QED
  BY <1>2, <1>3, <1>4 DEF CountInv

\* With requests of one kind and no reset, desc_used is exactly the number of
\* descriptors of the transfers that were built and not given back, whatever
\* errors, timeouts and late interrupts do: the unlocked load and store of
\* xdma_xfer_submit() lose no update.
THEOREM DescUsedIsExact ==
  ASSUME MaxResets = 0, OneKind
  PROVE  Spec => []DescUsedExact
<1>1. TypeOK /\ TypeOK' /\ CountInv /\ [Next]_vars => CountInv'
  BY CountStep
<1>2. CountInv => DescUsedExact
  BY DEF CountInv
<1> QED
  BY <1>1, <1>2, CountInit, TypeCorrect, PTL DEF Spec
=============================================================================
