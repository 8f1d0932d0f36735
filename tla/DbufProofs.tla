----------------------------- MODULE DbufProofs -----------------------------
(***************************************************************************)
(* Proofs about Dbuf, for any number of blocks and of starts and any DMA   *)
(* addresses, with or without faults.  Types hold for any number of        *)
(* threads; the order of the stream for one thread at a time, because      *)
(* nothing in the code keeps two readers of one file apart.                *)
(***************************************************************************)
EXTENDS Dbuf, TLAPS, FiniteSetTheorems, SequenceTheorems

-----------------------------------------------------------------------------
(* The inductive invariant, for the one thread t.                          *)

\* What each point of a call knows of the session, and of the slot it is at.
ControlInv(t) ==
  /\ pc[t] \in {"first", "second", "stop", "wait", "copy", "submit", "toggle"} => active
  /\ pc[t] \in {"alloc", "free"} => ~active
  /\ pc[t] \in {"wait", "copy", "submit", "toggle"} => idx[t] = readIdx
  /\ active => buf[0] \in Bufs /\ buf[1] \in Bufs /\ buf[0] # buf[1]

\* The transfer of slot i.
Xfer(i, st) == [slot |-> i, buf |-> buf[i], st |-> st]

\* Slot r is to be read next and block e is due: the slots go round the engine and
\* the reader, and block counts what the engine has written since.
BothOut(r, e) ==
  /\ ~filled[r] /\ ~filled[1 - r]
  /\ \/ queue = <<Xfer(r, "queued"), Xfer(1 - r, "queued")>> /\ block = e
     \/ /\ queue = <<Xfer(r, "moved"), Xfer(1 - r, "queued")>>
        /\ block = Succ(e) /\ mem[buf[r]] = e

OneOut(r, e) ==
  /\ filled[r] /\ ~filled[1 - r] /\ mem[buf[r]] = e
  /\ \/ queue = <<Xfer(1 - r, "queued")>> /\ block = Succ(e)
     \/ /\ queue = <<Xfer(1 - r, "moved")>>
        /\ block = Succ(Succ(e)) /\ mem[buf[1 - r]] = Succ(e)

NoneOut(r, e) ==
  /\ filled[r] /\ filled[1 - r] /\ queue = <<>>
  /\ mem[buf[r]] = e /\ mem[buf[1 - r]] = Succ(e) /\ block = Succ(Succ(e))

Flow(r, e) == BothOut(r, e) \/ OneOut(r, e) \/ NoneOut(r, e)

\* Only slot 0 has been submitted yet.
FirstOut(e) ==
  \/ ~filled[0] /\ queue = <<Xfer(0, "queued")>> /\ block = e
  \/ ~filled[0] /\ queue = <<Xfer(0, "moved")>> /\ block = Succ(e) /\ mem[buf[0]] = e
  \/ filled[0] /\ queue = <<>> /\ block = Succ(e) /\ mem[buf[0]] = e

\* In "toggle" the slot that was read is back in the queue, but dbuf_read_idx and
\* the block that is due have not moved on yet.
StreamInv(t) ==
  active /\ clean =>
    /\ pc[t] = "first" => readIdx = 0 /\ queue = <<>> /\ block = expect
    /\ pc[t] = "second" => readIdx = 0 /\ FirstOut(expect)
    /\ pc[t] = "toggle" => Flow(1 - readIdx, Succ(expect)) /\ got[t] = expect
    /\ pc[t] \notin {"first", "second", "toggle"} => Flow(readIdx, expect)
    /\ pc[t] \in {"copy", "submit"} => filled[readIdx]
    /\ pc[t] = "submit" => got[t] = expect

DbufInv == \A t \in Threads : ControlInv(t) /\ StreamInv(t)

-----------------------------------------------------------------------------
(* Type correctness.                                                       *)

LEMMA SuccTyped ==
  ASSUME NEW n \in 0..(Period - 1)
  PROVE  Succ(n) \in 0..(Period - 1)
BY DbufAssumption DEF DbufAssumption, Succ

LEMMA Types ==
  ASSUME TypeOK
  PROVE  /\ Period \in Nat /\ Period > 2
         /\ queue \in Seq(Transfers) /\ Len(queue) \in Nat
         /\ DOMAIN queue = 1..Len(queue)
         /\ \A j \in 1..Len(queue) : queue[j] \in Transfers
         /\ Junk \in 0..Period /\ block \in 0..Period
<1>1. Period \in Nat /\ Period > 2
  BY DbufAssumption DEF DbufAssumption
<1>2. queue \in Seq(Transfers)
  BY DEF TypeOK
<1>3. \A j \in 1..Len(queue) : queue[j] \in Transfers
  BY <1>2, ElementOfSeq
<1>4. Len(queue) \in Nat /\ DOMAIN queue = 1..Len(queue)
  BY <1>2, LenProperties
<1> QED
  BY <1>1, <1>2, <1>3, <1>4 DEF TypeOK, Junk

\* A transfer keeps its type when its state changes.
LEMMA TransferUpdate ==
  ASSUME NEW x \in Transfers, NEW st \in {"queued", "moved", "failed", "stuck"}
  PROVE  [x EXCEPT !.st = st] \in Transfers
BY DEF Transfers

\* transfer_queue() on a stopped engine changes no transfer but the stuck ones.
LEMMA RestartedTyped ==
  ASSUME NEW q \in Seq(Transfers)
  PROVE  /\ Restarted(q) \in Seq(Transfers)
         /\ Len(Restarted(q)) = Len(q)
         /\ (\A j \in 1..Len(q) : q[j].st # "stuck") => Restarted(q) = q
<1> DEFINE e(j) == IF q[j].st = "stuck" THEN [q[j] EXCEPT !.st = "queued"] ELSE q[j]
           r == [j \in 1..Len(q) |-> e(j)]
<1>1. Len(q) \in Nat /\ DOMAIN q = 1..Len(q) /\ q \in [1..Len(q) -> Transfers]
  BY LenProperties
<1>2. Restarted(q) = r
  BY <1>1, Zenon DEF Restarted
<1>3. \A j \in 1..Len(q) : e(j) \in Transfers
  BY <1>1, TransferUpdate
<1> HIDE DEF e
<1>4. r \in [1..Len(q) -> Transfers]
  BY <1>3
<1>5. r \in Seq(Transfers)
  BY <1>1, <1>4, SeqDef
<1>6. Len(r) = Len(q)
  BY <1>1, <1>5, LenProperties
<1>7. (\A j \in 1..Len(q) : q[j].st # "stuck") => r = q
  <2>1. SUFFICES ASSUME \A j \in 1..Len(q) : q[j].st # "stuck"
                 PROVE  r = q
    OBVIOUS
  <2>2. \A j \in 1..Len(q) : r[j] = q[j]
    BY <2>1, Zenon DEF e
  <2> QED
    BY <1>1, <1>5, <1>6, <2>2, SeqEqual
<1> QED
  BY <1>2, <1>5, <1>6, <1>7

\* The first transfer, and the queue without it or with its state changed.
LEMMA HeadTyped ==
  ASSUME NEW q \in Seq(Transfers), q # <<>>,
         NEW st \in {"queued", "moved", "failed", "stuck"}
  PROVE  /\ Head(q) \in Transfers /\ Tail(q) \in Seq(Transfers)
         /\ [q EXCEPT ![1].st = st] \in Seq(Transfers)
<1>1. Len(q) \in Nat \ {0}
  BY EmptySeq
<1>2. q[1] \in Transfers
  BY <1>1, ElementOfSeq
<1>3. [q[1] EXCEPT !.st = st] \in Transfers
  BY <1>2, TransferUpdate
<1>4. [q EXCEPT ![1] = [q[1] EXCEPT !.st = st]] \in Seq(Transfers)
  BY <1>1, <1>3, ExceptSeq
<1>5. [q EXCEPT ![1].st = st] = [q EXCEPT ![1] = [q[1] EXCEPT !.st = st]]
  BY Zenon
<1> QED
  BY <1>4, <1>5, HeadTailProperties
\* A slot given to the engine.
LEMMA SubmittedTyped ==
  ASSUME TypeOK, NEW i \in Slots, Submitted(i)
  PROVE  /\ queue' \in Seq(Transfers)
         /\ filled' \in [Slots -> BOOLEAN]
<1>1. buf[i] \in Bufs
  BY DEF Submitted, TypeOK
<1>2. [slot |-> i, buf |-> buf[i], st |-> "queued"] \in Transfers
  BY <1>1 DEF Transfers
<1>3. queue' \in Seq(Transfers)
  BY <1>2, Types, RestartedTyped, AppendProperties DEF Submitted
<1> QED
  BY <1>3 DEF Submitted, Unfill, TypeOK

LEMMA ControlTyped ==
  ASSUME TypeOK, NEW t \in Threads, Control(t)
  PROVE  TypeOK'
<1> USE DEF Goto, slotVars, hwVars, readVars, histVars
<1>1. CASE StartEnter(t)
  BY <1>1, DbufAssumption DEF StartEnter, TypeOK, Labels, DbufAssumption
<1>2. CASE StartAlloc(t)
  <2>1. readIdx' \in Slots /\ pc' \in [Threads -> Labels]
        /\ UNCHANGED <<opened, filled, queue, block, idx, got, sessions>>
    BY <1>2 DEF StartAlloc, TypeOK, Labels, Slots
  <2>2. active' \in BOOLEAN /\ clean' \in BOOLEAN /\ expect' \in 0..(Period - 1)
    BY <1>2 DEF StartAlloc, TypeOK
  <2>3. mem' \in [Bufs -> 0..Period]
    BY <1>2, Types DEF StartAlloc, FreeSlots
  <2>4. buf' \in [Slots -> Bufs \cup {NoBuf}]
    BY <1>2 DEF StartAlloc, FreeSlots
  <2> QED
    BY <2>1, <2>2, <2>3, <2>4 DEF TypeOK
<1>3. CASE StartSubmit(t)
  <2> DEFINE i == IF pc[t] = "first" THEN 0 ELSE 1
  <2>1. i \in Slots /\ AfterSlot(i) \in Labels
    BY DEF Slots, AfterSlot, Labels
  <2>2. /\ UNCHANGED <<opened, readIdx, buf, idx, got, sessions, expect, mem, block>>
        /\ active' \in {active, FALSE} /\ clean' \in {clean, FALSE}
        /\ pc' \in [Threads -> Labels]
    BY <1>3, <2>1 DEF StartSubmit, Submitted, SubmitFailed, TypeOK, Labels
  <2>3. Submitted(i) \/ (SubmitFailed(i) /\ UNCHANGED queue)
    BY <1>3 DEF StartSubmit, SubmitFailed
  <2>4. queue' \in Seq(Transfers) /\ filled' \in [Slots -> BOOLEAN]
    BY <2>1, <2>3, SubmittedTyped DEF SubmitFailed, Unfill, TypeOK
  <2> QED
    BY <2>2, <2>4 DEF TypeOK
<1>4. CASE StopEnter(t) \/ StopClear(t)
  BY <1>4 DEF StopEnter, StopClear, TypeOK, Labels
<1>5. CASE Free(t)
  BY <1>5, Types DEF Free, FreeSlots, TypeOK, Labels
<1> QED
  BY <1>1, <1>2, <1>3, <1>4, <1>5 DEF Control

LEMMA ReadTyped ==
  ASSUME TypeOK, NEW t \in Threads, Read(t)
  PROVE  TypeOK'
<1> USE DEF Goto, slotVars, hwVars, readVars, histVars
<1>1. CASE ReadEnter(t) \/ ReadWake(t) \/ ReadSignal(t)
  BY <1>1 DEF ReadEnter, ReadWake, ReadSignal, TypeOK, Labels
<1>2. CASE ReadCopy(t)
  <2>1. got' \in [Threads -> 0..Period]
    BY <1>2 DEF ReadCopy, TypeOK
  <2> QED
    BY <1>2, <2>1 DEF ReadCopy, TypeOK, Labels
<1>3. CASE ReadSubmit(t)
  <2>1. idx[t] \in Slots
    BY DEF TypeOK
  <2>2. /\ UNCHANGED <<opened, active, readIdx, buf, idx, got, sessions, expect, mem, block>>
        /\ clean' \in {clean, FALSE} /\ pc' \in [Threads -> Labels]
    BY <1>3 DEF ReadSubmit, Submitted, SubmitFailed, TypeOK, Labels
  <2>3. Submitted(idx[t]) \/ (SubmitFailed(idx[t]) /\ UNCHANGED queue)
    BY <1>3 DEF ReadSubmit, SubmitFailed
  <2>4. queue' \in Seq(Transfers) /\ filled' \in [Slots -> BOOLEAN]
    BY <2>1, <2>3, SubmittedTyped DEF SubmitFailed, Unfill, TypeOK
  <2> QED
    BY <2>2, <2>4 DEF TypeOK
<1>4. CASE ReadReturn(t)
  <2>1. NextSlot \in Slots /\ Succ(expect) \in 0..(Period - 1)
    BY SuccTyped DEF NextSlot, Slots, TypeOK
  <2>2. got' \in [Threads -> 0..Period]
    BY <1>4, Types DEF ReadReturn, TypeOK
  <2> QED
    BY <1>4, <2>1, <2>2 DEF ReadReturn, TypeOK, Labels
<1> QED
  BY <1>1, <1>2, <1>3, <1>4 DEF Read

LEMMA EngineTyped ==
  ASSUME TypeOK, HwBlock \/ HwError \/ dbuf_io_done
  PROVE  TypeOK'
<1> USE DEF slotVars, hwVars, readVars, histVars
<1>1. queue # <<>> /\ queue \in Seq(Transfers)
  BY Types DEF HwBlock, HwError, dbuf_io_done
<1>2. Head(queue).buf \in Bufs /\ Head(queue).slot \in Slots
  BY <1>1, HeadTyped DEF Transfers
<1>3. CASE HwBlock
  <2>1. queue' \in Seq(Transfers)
    BY <1>1, <1>3, HeadTyped DEF HwBlock
  <2>2. mem' \in [Bufs -> 0..Period]
    BY <1>2, <1>3, Types DEF HwBlock, TypeOK
  <2>3. block' \in 0..(Period - 1)
    BY <1>3, SuccTyped DEF HwBlock, TypeOK
  <2>4. UNCHANGED <<opened, active, readIdx, filled, buf, pc, idx, got, sessions, clean,
                    expect>>
    BY <1>3 DEF HwBlock
  <2> QED
    BY <2>1, <2>2, <2>3, <2>4 DEF TypeOK
<1>4. CASE HwError
  <2>1. queue' \in Seq(Transfers)
    BY <1>1, <1>4, HeadTyped DEF HwError
  <2>2. mem' \in [Bufs -> 0..Period]
    BY <1>2, <1>4, Types DEF HwError, TypeOK
  <2>3. /\ UNCHANGED <<opened, active, readIdx, filled, buf, pc, idx, got, sessions, block,
                       expect>>
        /\ clean' = FALSE
    BY <1>4 DEF HwError
  <2> QED
    BY <2>1, <2>2, <2>3 DEF TypeOK
<1>5. CASE dbuf_io_done
  <2>1. queue' \in Seq(Transfers)
    BY <1>1, <1>5, HeadTyped DEF dbuf_io_done
  <2>2. filled' \in [Slots -> BOOLEAN]
    BY <1>2, <1>5 DEF dbuf_io_done, TypeOK
  <2>3. UNCHANGED <<opened, active, readIdx, buf, mem, block, pc, idx, got, sessions, clean,
                    expect>>
    BY <1>5 DEF dbuf_io_done
  <2> QED
    BY <2>1, <2>2, <2>3 DEF TypeOK
<1> QED
  BY <1>3, <1>4, <1>5

LEMMA StepTyped ==
  ASSUME TypeOK, [Next]_vars
  PROVE  TypeOK'
<1> USE DEF slotVars, hwVars, readVars, histVars
<1>1. CASE UNCHANGED vars
  BY <1>1 DEF vars, TypeOK
<1>2. CASE Open
  BY <1>2 DEF Open, TypeOK
<1>3. CASE Close
  <2>1. buf' \in [Slots -> Bufs \cup {NoBuf}] /\ mem' \in [Bufs -> 0..Period]
    BY <1>3, Types DEF Close, FreeSlots, TypeOK
  <2> QED
    BY <1>3, <2>1 DEF Close, TypeOK
<1> QED
  BY <1>1, <1>2, <1>3, ControlTyped, ReadTyped, EngineTyped DEF Next

\* The fields of the two slots, the engine's queue, the DMA memory and every
\* thread inside read() or an ioctl keep their types, for any number of threads
\* that start, stop and read at the same time.
THEOREM TypeCorrect == Spec => []TypeOK
<1>1. Init => TypeOK
  <2> SUFFICES ASSUME Init
               PROVE  TypeOK
    OBVIOUS
  <2>1. Period \in Nat /\ Period > 2 /\ MaxSessions \in Nat
    BY DbufAssumption DEF DbufAssumption
  <2>2. queue \in Seq(Transfers)
    BY EmptySeq DEF Init
  <2>3. mem \in [Bufs -> 0..Period] /\ got \in [Threads -> 0..Period]
    BY <2>1 DEF Init, Junk
  <2>4. buf \in [Slots -> Bufs \cup {NoBuf}] /\ filled \in [Slots -> BOOLEAN]
        /\ pc \in [Threads -> Labels] /\ idx \in [Threads -> Slots]
    BY DEF Init, Labels, Slots
  <2>5. block \in 0..(Period - 1) /\ expect \in 0..(Period - 1) /\ sessions \in 0..MaxSessions
        /\ opened \in BOOLEAN /\ active \in BOOLEAN /\ clean \in BOOLEAN /\ readIdx \in Slots
    BY <2>1 DEF Init, Slots
  <2> QED
    BY <2>2, <2>3, <2>4, <2>5 DEF TypeOK
<1>2. TypeOK /\ [Next]_vars => TypeOK'
  BY StepTyped
<1> QED
  BY <1>1, <1>2, PTL DEF Spec

-----------------------------------------------------------------------------
(* How the slots go round.                                                 *)

LEMMA Appends ==
  ASSUME NEW a, NEW b
  PROVE  Append(<<>>, a) = <<a>> /\ Append(<<a>>, b) = <<a, b>>
<1>1. <<a>> \in Seq({a, b}) /\ <<a, b>> \in Seq({a, b}) /\ Len(<<a>>) = 1
      /\ Len(<<a, b>>) = 2
  OBVIOUS
<1>2. Append(<<a>>, b) \in Seq({a, b}) /\ Len(Append(<<a>>, b)) = 2
      /\ Append(<<a>>, b)[1] = a /\ Append(<<a>>, b)[2] = b
  BY <1>1, AppendProperties
<1>3. \A i \in 1..Len(<<a, b>>) : Append(<<a>>, b)[i] = <<a, b>>[i]
  BY <1>1, <1>2
<1>4. Append(<<a>>, b) = <<a, b>>
  BY <1>1, <1>2, <1>3, SeqEqual
<1> QED
  BY <1>4

LEMMA Tuples ==
  ASSUME NEW a, NEW b, NEW st
  PROVE  /\ <<a>> # <<>> /\ Head(<<a>>) = a /\ Tail(<<a>>) = <<>>
         /\ <<a, b>> # <<>> /\ Head(<<a, b>>) = a /\ Tail(<<a, b>>) = <<b>>
         /\ [<<a>> EXCEPT ![1].st = st] = <<[a EXCEPT !.st = st]>>
         /\ [<<a, b>> EXCEPT ![1].st = st] = <<[a EXCEPT !.st = st], b>>
<1>1. /\ <<a>> # <<>> /\ Head(<<a>>) = a /\ Tail(<<a>>) = <<>>
      /\ <<a, b>> # <<>> /\ Head(<<a, b>>) = a /\ Tail(<<a, b>>) = <<b>>
  OBVIOUS
<1>2. [<<a>> EXCEPT ![1].st = st] = <<[a EXCEPT !.st = st]>>
  OBVIOUS
<1>3. [<<a, b>> EXCEPT ![1].st = st] = <<[a EXCEPT !.st = st], b>>
  OBVIOUS
<1> QED
  BY <1>1, <1>2, <1>3

LEMMA XferUpdate ==
  ASSUME NEW i, NEW x, NEW y
  PROVE  /\ [Xfer(i, x) EXCEPT !.st = y] = Xfer(i, y)
         /\ Xfer(i, x).st = x /\ Xfer(i, x).slot = i /\ Xfer(i, x).buf = buf[i]
BY DEF Xfer

\* What the lemmas below need of the slots: two different buffers.
TwoSlots ==
  /\ buf[0] \in Bufs /\ buf[1] \in Bufs /\ buf[0] # buf[1]
  /\ filled \in [Slots -> BOOLEAN] /\ mem \in [Bufs -> 0..Period]

\* Without a stuck transfer a submission only appends.
LEMMA Appended ==
  ASSUME TypeOK, NEW i \in Slots, Submitted(i),
         \A j \in 1..Len(queue) : queue[j].st # "stuck"
  PROVE  queue' = Append(queue, Xfer(i, "queued"))
BY Types, RestartedTyped DEF Submitted, Xfer

LEMMA FlowBlock ==
  ASSUME NEW r \in Slots, NEW e, TwoSlots, Flow(r, e), HwBlock
  PROVE  Flow(r, e)'
<1> DEFINE o == 1 - r
<1>1. /\ r # o /\ o \in Slots /\ buf[r] # buf[o] /\ buf[r] \in Bufs /\ buf[o] \in Bufs
  BY DEF TwoSlots, Slots
<1>2. /\ queue # <<>> /\ Head(queue).st = "queued"
      /\ queue' = [queue EXCEPT ![1].st = "moved"]
      /\ mem' = [mem EXCEPT ![Head(queue).buf] = block] /\ block' = Succ(block)
      /\ UNCHANGED <<filled, buf>>
  BY DEF HwBlock, slotVars
<1>3. \A i, st : Xfer(i, st)' = Xfer(i, st)
  BY <1>2 DEF Xfer
<1>4. CASE BothOut(r, e)
  <2>1. queue = <<Xfer(r, "queued"), Xfer(o, "queued")>> /\ block = e
    BY <1>2, <1>4, Tuples, XferUpdate DEF BothOut
  <2>2. queue' = <<Xfer(r, "moved"), Xfer(o, "queued")>> /\ Head(queue).buf = buf[r]
    BY <1>2, <2>1, Tuples, XferUpdate
  <2>3. mem'[buf[r]] = e
    BY <1>1, <1>2, <2>1, <2>2 DEF TwoSlots
  <2> QED
    BY <1>2, <1>3, <1>4, <2>1, <2>2, <2>3 DEF Flow, BothOut
<1>5. CASE OneOut(r, e)
  <2>1. queue = <<Xfer(o, "queued")>> /\ block = Succ(e) /\ mem[buf[r]] = e
    BY <1>2, <1>5, Tuples, XferUpdate DEF OneOut
  <2>2. queue' = <<Xfer(o, "moved")>> /\ Head(queue).buf = buf[o]
    BY <1>2, <2>1, Tuples, XferUpdate
  <2>3. mem'[buf[o]] = Succ(e) /\ mem'[buf[r]] = e
    BY <1>1, <1>2, <2>1, <2>2 DEF TwoSlots
  <2> QED
    BY <1>2, <1>3, <1>5, <2>1, <2>2, <2>3 DEF Flow, OneOut
<1> QED
  BY <1>2, <1>4, <1>5 DEF Flow, NoneOut

LEMMA FlowDone ==
  ASSUME NEW r \in Slots, NEW e, TwoSlots, Flow(r, e), active, dbuf_io_done
  PROVE  Flow(r, e)' /\ (filled[r] => filled'[r])
<1> DEFINE o == 1 - r
<1>1. r # o /\ o \in Slots
  BY DEF Slots
<1>2. /\ queue # <<>> /\ Head(queue).st # "queued" /\ queue' = Tail(queue)
      /\ filled' = [filled EXCEPT ![Head(queue).slot] = TRUE]
      /\ UNCHANGED <<mem, block, buf>>
  BY DEF dbuf_io_done
<1>3. \A i, st : Xfer(i, st)' = Xfer(i, st)
  BY <1>2 DEF Xfer
<1>4. CASE BothOut(r, e)
  <2>1. /\ queue = <<Xfer(r, "moved"), Xfer(o, "queued")>>
        /\ block = Succ(e) /\ mem[buf[r]] = e /\ ~filled[o]
    BY <1>2, <1>4, Tuples, XferUpdate DEF BothOut
  <2>2. queue' = <<Xfer(o, "queued")>> /\ Head(queue).slot = r
    BY <1>2, <2>1, Tuples, XferUpdate
  <2>3. filled'[r] /\ ~filled'[o]
    BY <1>1, <1>2, <2>1, <2>2 DEF TwoSlots
  <2> QED
    BY <1>2, <1>3, <2>1, <2>2, <2>3 DEF Flow, OneOut
<1>5. CASE OneOut(r, e)
  <2>1. /\ queue = <<Xfer(o, "moved")>> /\ block = Succ(Succ(e))
        /\ mem[buf[r]] = e /\ mem[buf[o]] = Succ(e) /\ filled[r]
    BY <1>2, <1>5, Tuples, XferUpdate DEF OneOut
  <2>2. queue' = <<>> /\ Head(queue).slot = o
    BY <1>2, <2>1, Tuples, XferUpdate
  <2>3. filled'[r] /\ filled'[o]
    BY <1>1, <1>2, <2>1, <2>2 DEF TwoSlots
  <2> QED
    BY <1>2, <1>3, <2>1, <2>2, <2>3 DEF Flow, NoneOut
<1> QED
  BY <1>2, <1>4, <1>5 DEF Flow, NoneOut

\* The slot that was read goes to the end of the queue, and the other one is next.
LEMMA FlowSubmit ==
  ASSUME TypeOK, NEW r \in Slots, NEW e, TwoSlots, Flow(r, e), filled[r],
         Submitted(r), UNCHANGED buf
  PROVE  Flow(1 - r, Succ(e))'
<1> DEFINE o == 1 - r
<1>1. r # o /\ o \in Slots /\ 1 - o = r
  BY DEF Slots
<1>2. filled'[o] = filled[o] /\ ~filled'[r] /\ UNCHANGED <<mem, block, buf>>
  BY <1>1 DEF Submitted, Unfill, TwoSlots
<1>3. \A i, st : Xfer(i, st)' = Xfer(i, st)
  BY <1>2 DEF Xfer
<1>4. \A j \in 1..Len(queue) : queue[j].st # "stuck"
  BY XferUpdate DEF Flow, BothOut, OneOut, NoneOut
<1>5. queue' = Append(queue, Xfer(r, "queued"))
  BY <1>4, Appended
<1>6. CASE OneOut(r, e)
  <2>2. CASE queue = <<Xfer(o, "queued")>> /\ block = Succ(e)
    <3>1. queue' = <<Xfer(o, "queued"), Xfer(r, "queued")>>
      BY <1>5, <2>2, Appends
    <3>2. BothOut(o, Succ(e))'
      BY <1>1, <1>2, <1>3, <1>6, <2>2, <3>1 DEF OneOut, BothOut
    <3> QED
      BY <3>2 DEF Flow
  <2>3. CASE queue = <<Xfer(o, "moved")>> /\ block = Succ(Succ(e)) /\ mem[buf[o]] = Succ(e)
    <3>1. queue' = <<Xfer(o, "moved"), Xfer(r, "queued")>>
      BY <1>5, <2>3, Appends
    <3>2. BothOut(o, Succ(e))'
      BY <1>1, <1>2, <1>3, <1>6, <2>3, <3>1 DEF OneOut, BothOut
    <3> QED
      BY <3>2 DEF Flow
  <2> QED
    BY <1>6, <2>2, <2>3 DEF OneOut
<1>7. CASE NoneOut(r, e)
  <2>1. queue' = <<Xfer(r, "queued")>>
    BY <1>5, <1>7, Appends DEF NoneOut
  <2>2. OneOut(o, Succ(e))'
    BY <1>1, <1>2, <1>3, <1>7, <2>1 DEF NoneOut, OneOut
  <2> QED
    BY <2>2 DEF Flow
<1> QED
  BY <1>6, <1>7 DEF Flow, BothOut

LEMMA FirstBlock ==
  ASSUME NEW e, TwoSlots, FirstOut(e), HwBlock
  PROVE  FirstOut(e)'
<1>1. /\ queue # <<>> /\ Head(queue).st = "queued"
      /\ queue' = [queue EXCEPT ![1].st = "moved"]
      /\ mem' = [mem EXCEPT ![Head(queue).buf] = block] /\ block' = Succ(block)
      /\ UNCHANGED <<filled, buf>>
  BY DEF HwBlock, slotVars
<1>2. Xfer(0, "moved")' = Xfer(0, "moved")
  BY <1>1 DEF Xfer
<1>3. queue = <<Xfer(0, "queued")>> /\ block = e /\ ~filled[0]
  BY <1>1, Tuples, XferUpdate DEF FirstOut
<1>4. queue' = <<Xfer(0, "moved")>> /\ Head(queue).buf = buf[0]
  BY <1>1, <1>3, Tuples, XferUpdate
<1>5. mem'[buf[0]] = e
  BY <1>1, <1>3, <1>4 DEF TwoSlots
<1> QED
  BY <1>1, <1>2, <1>3, <1>4, <1>5 DEF FirstOut

LEMMA FirstDone ==
  ASSUME NEW e, TwoSlots, FirstOut(e), active, dbuf_io_done
  PROVE  FirstOut(e)'
<1>1. /\ queue # <<>> /\ Head(queue).st # "queued" /\ queue' = Tail(queue)
      /\ filled' = [filled EXCEPT ![Head(queue).slot] = TRUE]
      /\ UNCHANGED <<mem, block, buf>>
  BY DEF dbuf_io_done
<1>2. queue = <<Xfer(0, "moved")>> /\ block = Succ(e) /\ mem[buf[0]] = e
  BY <1>1, Tuples, XferUpdate DEF FirstOut
<1>3. queue' = <<>> /\ Head(queue).slot = 0
  BY <1>1, <1>2, Tuples, XferUpdate
<1>4. filled'[0]
  BY <1>1, <1>3 DEF TwoSlots, Slots
<1> QED
  BY <1>1, <1>2, <1>3, <1>4 DEF FirstOut

\* The second slot joins: from here on the two go round.
LEMMA FirstSubmit ==
  ASSUME TypeOK, NEW e, TwoSlots, FirstOut(e), Submitted(1), UNCHANGED buf
  PROVE  Flow(0, e)'
<1>1. filled'[0] = filled[0] /\ ~filled'[1] /\ UNCHANGED <<mem, block, buf>>
  BY DEF Submitted, Unfill, TwoSlots, Slots
<1>2. \A i, st : Xfer(i, st)' = Xfer(i, st)
  BY <1>1 DEF Xfer
<1>3. \A j \in 1..Len(queue) : queue[j].st # "stuck"
  BY XferUpdate DEF FirstOut
<1>4. queue' = Append(queue, Xfer(1, "queued"))
  BY <1>3, Appended DEF Slots
<1>5. CASE ~filled[0] /\ queue = <<Xfer(0, "queued")>> /\ block = e
  <2>1. queue' = <<Xfer(0, "queued"), Xfer(1, "queued")>>
    BY <1>4, <1>5, Appends
  <2> QED
    BY <1>1, <1>2, <1>5, <2>1 DEF Flow, BothOut
<1>6. CASE ~filled[0] /\ queue = <<Xfer(0, "moved")>> /\ block = Succ(e) /\ mem[buf[0]] = e
  <2>1. queue' = <<Xfer(0, "moved"), Xfer(1, "queued")>>
    BY <1>4, <1>6, Appends
  <2> QED
    BY <1>1, <1>2, <1>6, <2>1 DEF Flow, BothOut
<1>7. CASE filled[0] /\ queue = <<>> /\ block = Succ(e) /\ mem[buf[0]] = e
  <2>1. queue' = <<Xfer(1, "queued")>>
    BY <1>4, <1>7, Appends
  <2> QED
    BY <1>1, <1>2, <1>7, <2>1 DEF Flow, OneOut
<1> QED
  BY <1>5, <1>6, <1>7 DEF FirstOut

\* Steps that leave the slots, the queue and the memory alone.
LEMMA FlowFrame ==
  ASSUME NEW r, NEW e, UNCHANGED <<filled, queue, block, mem, buf>>
  PROVE  (Flow(r, e)' <=> Flow(r, e)) /\ (FirstOut(e)' <=> FirstOut(e))
<1>1. \A i, st : Xfer(i, st)' = Xfer(i, st)
  BY DEF Xfer
<1> QED
  BY <1>1 DEF Flow, BothOut, OneOut, NoneOut, FirstOut

-----------------------------------------------------------------------------
(* The invariant is inductive.                                             *)

LEMMA EngineKeeps ==
  ASSUME TypeOK, NEW t \in Threads, ControlInv(t), StreamInv(t),
         HwBlock \/ HwError \/ dbuf_io_done
  PROVE  ControlInv(t)' /\ StreamInv(t)'
<1>1. UNCHANGED <<active, readIdx, buf, pc, idx, got, expect>>
  BY DEF HwBlock, HwError, dbuf_io_done, slotVars, readVars, histVars
<1>2. ControlInv(t)'
  BY <1>1 DEF ControlInv
<1>3. CASE ~(active /\ clean) \/ HwError
  <2>1. ~(active' /\ clean')
    BY <1>1, <1>3 DEF StreamInv, HwError, HwBlock, dbuf_io_done, histVars
  <2> QED
    BY <1>2, <2>1 DEF StreamInv
<1>4. CASE active /\ clean /\ ~HwError
  <2>0. TwoSlots
    BY <1>4 DEF ControlInv, TwoSlots, TypeOK
  <2>1. PICK r \in Slots : r = readIdx
    BY DEF TypeOK
  <2>2. PICK e : e = expect
    OBVIOUS
  <2>3. 1 - r \in Slots
    BY DEF Slots
  <2>4. queue # <<>>
    BY DEF HwBlock, HwError, dbuf_io_done
  <2>5. pc[t] = "second" => FirstOut(e)'
    BY <1>4, <2>0, <2>2, FirstBlock, FirstDone DEF StreamInv
  <2>6. pc[t] = "toggle" => Flow(1 - r, Succ(e))'
    BY <1>4, <2>0, <2>1, <2>2, <2>3, FlowBlock, FlowDone DEF StreamInv
  <2>7. pc[t] \notin {"first", "second", "toggle"} => Flow(r, e)'
    BY <1>4, <2>0, <2>1, <2>2, FlowBlock, FlowDone DEF StreamInv
  <2>8. pc[t] \in {"copy", "submit"} => filled'[r]
    <3>1. CASE HwBlock
      BY <1>4, <2>1, <3>1 DEF HwBlock, slotVars, StreamInv
    <3>2. CASE dbuf_io_done
      BY <1>4, <2>0, <2>1, <2>2, <3>2, FlowDone DEF StreamInv
    <3> QED
      BY <1>4, <3>1, <3>2
  <2> QED
    BY <1>1, <1>2, <1>4, <2>1, <2>2, <2>4, <2>5, <2>6, <2>7, <2>8 DEF StreamInv
<1> QED
  BY <1>3, <1>4

LEMMA ReadKeeps ==
  ASSUME TypeOK, NEW t \in Threads, ControlInv(t), StreamInv(t), Read(t)
  PROVE  ControlInv(t)' /\ StreamInv(t)'
<1> USE DEF Goto, slotVars, hwVars, readVars, histVars
<1>0. PICK r \in Slots : r = readIdx
  BY DEF TypeOK
<1>1. PICK e : e = expect
  OBVIOUS
<1>2. CASE ReadEnter(t) \/ ReadWake(t) \/ ReadSignal(t)
  <2>1. /\ UNCHANGED <<active, readIdx, filled, buf, queue, mem, block, clean, expect>>
        /\ pc[t] \in {"idle", "wait"} /\ pc'[t] \in {"wait", "copy", "idle"}
    BY <1>2 DEF ReadEnter, ReadWake, ReadSignal, TypeOK
  <2>2. /\ pc'[t] # "idle" => active /\ idx'[t] = readIdx
        /\ pc'[t] = "copy" => filled[readIdx]
    BY <1>2 DEF ReadEnter, ReadWake, ReadSignal, TypeOK, ControlInv
  <2>3. ControlInv(t)'
    BY <2>1, <2>2 DEF ControlInv
  <2>4. active /\ clean => Flow(r, e)'
    BY <1>0, <1>1, <2>1, FlowFrame DEF StreamInv
  <2>5. StreamInv(t)'
    BY <1>0, <1>1, <2>1, <2>2, <2>4 DEF StreamInv
  <2> QED
    BY <2>3, <2>5
<1>3. CASE ReadCopy(t)
  <2>1. /\ UNCHANGED <<active, readIdx, filled, buf, queue, mem, block, clean, expect, idx>>
        /\ pc[t] = "copy" /\ pc'[t] \in {"submit", "idle"}
        /\ pc'[t] = "submit" => got'[t] = mem[buf[idx[t]]]
    BY <1>3 DEF ReadCopy, TypeOK
  <2>2. ControlInv(t)'
    BY <2>1 DEF ControlInv
  <2>3. active /\ clean => Flow(r, e)' /\ filled[r] /\ mem[buf[r]] = e
    BY <1>0, <1>1, <2>1, FlowFrame DEF StreamInv, Flow, BothOut, OneOut, NoneOut
  <2>4. idx[t] = r
    BY <1>0, <2>1 DEF ControlInv
  <2>5. StreamInv(t)'
    BY <1>0, <1>1, <2>1, <2>3, <2>4 DEF StreamInv
  <2> QED
    BY <2>2, <2>5
<1>4. CASE ReadSubmit(t)
  <2>1. /\ UNCHANGED <<active, readIdx, buf, expect, idx, got>>
        /\ pc[t] = "submit" /\ pc'[t] \in {"toggle", "idle"}
    BY <1>4 DEF ReadSubmit, TypeOK
  <2>2. ControlInv(t)'
    BY <2>1 DEF ControlInv
  <2>3. idx[t] = r
    BY <1>0, <2>1 DEF ControlInv
  <2>4. CASE SubmitFailed(r)
    BY <2>2, <2>4 DEF SubmitFailed, StreamInv
  <2>5. CASE Submitted(r) /\ pc'[t] = "toggle"
    <3>1. clean' = clean
      BY <2>5 DEF Submitted
    <3>2. active /\ clean => Flow(1 - r, Succ(e))'
      <4>1. SUFFICES ASSUME active, clean
                     PROVE  Flow(1 - r, Succ(e))'
        OBVIOUS
      <4>2. TwoSlots /\ Flow(r, e) /\ filled[r]
        BY <1>0, <1>1, <2>1, <4>1 DEF StreamInv, ControlInv, TwoSlots, TypeOK
      <4> QED
        BY <2>1, <2>5, <4>2, FlowSubmit
    <3> QED
      BY <1>0, <1>1, <2>1, <2>2, <2>5, <3>1, <3>2 DEF StreamInv
  <2> QED
    BY <1>4, <2>3, <2>4, <2>5 DEF ReadSubmit, TypeOK
<1>5. CASE ReadReturn(t)
  <2>1. /\ UNCHANGED <<active, filled, buf, queue, mem, block, clean>>
        /\ pc[t] = "toggle" /\ pc'[t] = "idle"
        /\ readIdx' = 1 - r /\ expect' = Succ(e)
    BY <1>0, <1>1, <1>5 DEF ReadReturn, NextSlot, TypeOK
  <2>2. ControlInv(t)'
    BY <2>1 DEF ControlInv
  <2>3. active /\ clean => Flow(1 - r, Succ(e))'
    BY <1>0, <1>1, <2>1, FlowFrame DEF StreamInv
  <2> QED
    BY <2>1, <2>2, <2>3 DEF StreamInv
<1> QED
  BY <1>2, <1>3, <1>4, <1>5 DEF Read

LEMMA ControlKeeps ==
  ASSUME TypeOK, NEW t \in Threads, ControlInv(t), StreamInv(t), Control(t)
  PROVE  ControlInv(t)' /\ StreamInv(t)'
<1> USE DEF Goto, slotVars, hwVars, readVars, histVars
<1>0. PICK r \in Slots : r = readIdx
  BY DEF TypeOK
<1>1. PICK e : e = expect
  OBVIOUS
<1>2. CASE StartEnter(t)
  <2>1. ~active' /\ pc'[t] = "alloc"
    BY <1>2 DEF StartEnter, TypeOK
  <2> QED
    BY <2>1 DEF ControlInv, StreamInv
<1>3. CASE StartAlloc(t)
  <2>1. CASE pc'[t] = "idle"
    <3>1. ~active'
      BY <1>3, <2>1 DEF StartAlloc, ControlInv, TypeOK
    <3> QED
      BY <2>1, <3>1 DEF ControlInv, StreamInv
  <2>2. CASE pc'[t] = "first"
    <3>1. /\ active' /\ clean' = (queue = <<>>) /\ expect' = block /\ readIdx' = 0
          /\ UNCHANGED <<queue, block, filled>>
      BY <1>3, <2>2 DEF StartAlloc, TypeOK
    <3>2. PICK f \in [Slots -> Bufs \ {buf[0], buf[1]}] : f[0] # f[1] /\ buf' = f
      BY <1>3, <2>2 DEF StartAlloc, TypeOK
    <3>3. f[0] \in Bufs /\ f[1] \in Bufs
      BY DEF Slots
    <3>4. ControlInv(t)'
      BY <2>2, <3>1, <3>2, <3>3 DEF ControlInv
    <3>5. StreamInv(t)'
      BY <2>2, <3>1 DEF StreamInv
    <3> QED
      BY <3>4, <3>5
  <2> QED
    BY <1>3, <2>1, <2>2 DEF StartAlloc, TypeOK
<1>4. CASE StartSubmit(t)
  <2>1. pc[t] \in {"first", "second"} /\ UNCHANGED <<readIdx, buf, expect>>
    BY <1>4 DEF StartSubmit
  <2>2. CASE pc'[t] = "free"
    <3>1. ~active'
      BY <1>4, <2>2 DEF StartSubmit, AfterSlot, TypeOK
    <3> QED
      BY <2>2, <3>1 DEF ControlInv, StreamInv
  <2>3. CASE pc[t] = "first" /\ Submitted(0) /\ pc'[t] = "second" /\ UNCHANGED active
    <3>1. ControlInv(t)'
      BY <2>1, <2>3 DEF ControlInv
    <3>2. clean' = clean /\ block' = block /\ ~filled'[0]
      BY <2>3 DEF Submitted, Unfill, TypeOK, Slots
    <3>3. active /\ clean => FirstOut(e)' /\ readIdx = 0
      <4>1. SUFFICES ASSUME active, clean
                     PROVE  FirstOut(e)' /\ readIdx = 0
        OBVIOUS
      <4>2. queue = <<>> /\ block = e /\ readIdx = 0
        BY <1>1, <2>3, <4>1 DEF StreamInv
      <4>3. queue' = Append(queue, Xfer(0, "queued"))
        BY <2>3, <4>2, Appended DEF Slots
      <4>4. queue' = <<Xfer(0, "queued")>> /\ Xfer(0, "queued")' = Xfer(0, "queued")
        BY <2>1, <4>2, <4>3, Appends DEF Xfer
      <4> QED
        BY <3>2, <4>2, <4>4 DEF FirstOut
    <3>4. StreamInv(t)'
      BY <1>1, <2>1, <2>3, <3>2, <3>3 DEF StreamInv
    <3> QED
      BY <3>1, <3>4
  <2>4. CASE pc[t] = "second" /\ Submitted(1) /\ pc'[t] = "idle" /\ UNCHANGED active
    <3>1. ControlInv(t)'
      BY <2>1, <2>4 DEF ControlInv
    <3>2. clean' = clean
      BY <2>4 DEF Submitted
    <3>3. active /\ clean => Flow(0, e)' /\ readIdx = 0
      <4>1. SUFFICES ASSUME active, clean
                     PROVE  Flow(0, e)' /\ readIdx = 0
        OBVIOUS
      <4>2. TwoSlots /\ FirstOut(e) /\ readIdx = 0
        BY <1>1, <2>4, <4>1 DEF StreamInv, ControlInv, TwoSlots, TypeOK
      <4> QED
        BY <2>1, <2>4, <4>2, FirstSubmit
    <3>4. StreamInv(t)'
      BY <1>1, <2>1, <2>4, <3>2, <3>3 DEF StreamInv
    <3> QED
      BY <3>1, <3>4
  <2> QED
    BY <1>4, <2>1, <2>2, <2>3, <2>4 DEF StartSubmit, AfterSlot, TypeOK
<1>5. CASE StopEnter(t)
  <2>1. /\ UNCHANGED <<active, readIdx, filled, buf, queue, mem, block, clean, expect>>
        /\ pc[t] = "idle" /\ pc'[t] = "stop" /\ active
    BY <1>5 DEF StopEnter, TypeOK
  <2>2. active /\ clean => Flow(r, e)'
    BY <1>0, <1>1, <2>1, FlowFrame DEF StreamInv
  <2> QED
    BY <1>0, <1>1, <2>1, <2>2 DEF ControlInv, StreamInv
<1>6. CASE StopClear(t) \/ Free(t)
  <2>1. ~active' /\ pc'[t] \in {"free", "idle"}
    BY <1>6 DEF StopClear, Free, ControlInv, TypeOK
  <2> QED
    BY <2>1 DEF ControlInv, StreamInv
<1> QED
  BY <1>2, <1>3, <1>4, <1>5, <1>6 DEF Control

\* One thread at a time uses the file.
OneThread == \E t : Threads = {t}

LEMMA StepKeeps ==
  ASSUME OneThread, TypeOK, DbufInv, [Next]_vars
  PROVE  DbufInv'
<1> USE DEF slotVars, hwVars, readVars, histVars
<1>0. PICK t : Threads = {t}
  BY DEF OneThread
<1>1. t \in Threads /\ ControlInv(t) /\ StreamInv(t)
  BY <1>0 DEF DbufInv
<1>2. PICK r \in Slots : r = readIdx
  BY DEF TypeOK
<1>3. PICK e : e = expect
  OBVIOUS
<1>4. CASE UNCHANGED vars \/ Open
  <2>1. UNCHANGED <<active, readIdx, filled, buf, queue, mem, block, clean, expect, pc, idx, got>>
    BY <1>4 DEF vars, Open
  <2>2. ControlInv(t)'
    BY <1>1, <2>1 DEF ControlInv
  <2>3. /\ Flow(r, e)' <=> Flow(r, e)
        /\ Flow(1 - r, Succ(e))' <=> Flow(1 - r, Succ(e))
        /\ FirstOut(e)' <=> FirstOut(e)
    BY <2>1, FlowFrame
  <2>4. StreamInv(t)'
    BY <1>1, <1>2, <1>3, <2>1, <2>3 DEF StreamInv
  <2> QED
    BY <1>0, <2>2, <2>4 DEF DbufInv
<1>5. CASE Close
  <2>1. ~active' /\ pc'[t] = "idle"
    BY <1>1, <1>5 DEF Close
  <2>2. ControlInv(t)' /\ StreamInv(t)'
    BY <2>1 DEF ControlInv, StreamInv
  <2> QED
    BY <1>0, <2>2 DEF DbufInv
<1>6. CASE \E s \in Threads : Read(s) \/ Control(s)
  <2>1. Read(t) \/ Control(t)
    BY <1>0, <1>6
  <2>2. ControlInv(t)' /\ StreamInv(t)'
    BY <1>1, <2>1, ReadKeeps, ControlKeeps
  <2> QED
    BY <1>0, <2>2 DEF DbufInv
<1>7. CASE HwBlock \/ HwError \/ dbuf_io_done
  <2>1. ControlInv(t)' /\ StreamInv(t)'
    BY <1>1, <1>7, EngineKeeps
  <2> QED
    BY <1>0, <2>1 DEF DbufInv
<1> QED
  BY <1>4, <1>5, <1>6, <1>7 DEF Next

LEMMA StreamSafe ==
  ASSUME OneThread
  PROVE  Spec => [](TypeOK /\ DbufInv)
<1>1. Init => DbufInv
  BY DEF Init, DbufInv, ControlInv, StreamInv
<1>2. TypeOK /\ DbufInv /\ [Next]_vars => DbufInv'
  BY StepKeeps
<1> QED
  BY <1>1, <1>2, TypeCorrect, PTL DEF Spec

-----------------------------------------------------------------------------
(* What a reader is promised, while one thread at a time uses the file.    *)

\* The k-th successful char_sgdma_read() of a session in which nothing failed
\* returns the k-th block the engine has received since the start, for any stream
\* length and any interleaving of the reader with the engine and its callback.
THEOREM StreamInOrder == ASSUME OneThread PROVE Spec => []InOrder
<1>1. DbufInv => InOrder
  BY DEF DbufInv, ControlInv, StreamInv, InOrder
<1> QED
  BY <1>1, StreamSafe, PTL

\* The engine never writes into the memory that char_sgdma_read() is copying.
THEOREM CopyIsWhole == ASSUME OneThread PROVE Spec => []NoTornCopy
<1>1. TypeOK /\ DbufInv => NoTornCopy
  <2>1. SUFFICES ASSUME TypeOK, DbufInv, NEW t \in Threads, pc[t] = "copy", clean
                 PROVE  /\ buf[idx[t]] # NoBuf
                        /\ \A j \in DOMAIN queue : queue[j].buf # buf[idx[t]]
    BY DEF NoTornCopy
  <2>2. PICK r \in Slots : r = readIdx
    BY <2>1 DEF TypeOK
  <2>3. active /\ idx[t] = r
    BY <2>1, <2>2 DEF DbufInv, ControlInv
  <2>4. Flow(r, expect) /\ filled[r]
    BY <2>1, <2>2, <2>3 DEF DbufInv, StreamInv
  <2>5. buf[r] \in Bufs /\ buf[r] # buf[1 - r]
    BY <2>1, <2>3 DEF DbufInv, ControlInv, Slots
  <2>6. buf[r] # NoBuf
    BY <2>5, DbufAssumption DEF DbufAssumption
  <2>7. queue = <<>> \/ \E st : queue = <<Xfer(1 - r, st)>>
    BY <2>4 DEF Flow, BothOut, OneOut, NoneOut
  <2>8. \A j \in DOMAIN queue : queue[j].buf = buf[1 - r]
    BY <2>7, XferUpdate
  <2> QED
    BY <2>3, <2>5, <2>6, <2>8
<1> QED
  BY <1>1, StreamSafe, PTL

\* After a start each slot is either filled or in the engine's queue, once: none
\* is lost between the callback and the read, and none is queued twice.
THEOREM SlotIsOnce == ASSUME OneThread PROVE Spec => []OnePlace
<1>1. TypeOK /\ DbufInv => OnePlace
  <2>1. SUFFICES ASSUME OneThread, TypeOK, DbufInv, active, clean,
                        \A t \in Threads : pc[t] \notin {"first", "second"},
                        NEW i \in Slots
                 PROVE  Cardinality({j \in DOMAIN queue : queue[j].slot = i})
                          = IF filled[i] THEN 0 ELSE 1
    BY DEF OnePlace
  <2> DEFINE at == {j \in DOMAIN queue : queue[j].slot = i}
  <2>2. PICK r \in Slots : \E e : Flow(r, e)
    <3>1. PICK t : Threads = {t}
      BY <2>1 DEF OneThread
    <3>2. readIdx \in Slots /\ 1 - readIdx \in Slots
      BY <2>1 DEF TypeOK, Slots
    <3> QED
      BY <2>1, <3>1, <3>2 DEF DbufInv, StreamInv
  <2>3. 1 - r \in Slots /\ r # 1 - r /\ (i = r \/ i = 1 - r)
    BY DEF Slots
  <2>4. filled[i] => at = {}
    BY <2>2, <2>3, XferUpdate DEF Flow, BothOut, OneOut, NoneOut
  <2>5. ~filled[i] => \E j : at = {j}
    <3>1. SUFFICES ASSUME ~filled[i]
                   PROVE  \E j : at = {j}
      OBVIOUS
    <3>2. CASE \E x, y : queue = <<Xfer(r, x), Xfer(1 - r, y)>>
      <4>1. PICK x, y : queue = <<Xfer(r, x), Xfer(1 - r, y)>>
        BY <3>2
      <4>2. DOMAIN queue = {1, 2} /\ queue[1].slot = r /\ queue[2].slot = 1 - r
        BY <4>1, XferUpdate
      <4>3. at = {1} \/ at = {2}
        BY <2>3, <4>2
      <4> QED
        BY <4>3
    <3>3. CASE i = 1 - r /\ \E x : queue = <<Xfer(1 - r, x)>>
      <4>1. DOMAIN queue = {1} /\ queue[1].slot = i
        BY <3>3, XferUpdate
      <4>2. at = {1}
        BY <4>1
      <4> QED
        BY <4>2
    <3> QED
      BY <2>2, <2>3, <3>1, <3>2, <3>3 DEF Flow, BothOut, OneOut, NoneOut
  <2>6. \A x : Cardinality({x}) = 1
    BY FS_Singleton
  <2>7. Cardinality({}) = 0
    BY FS_EmptySet
  <2> HIDE DEF at
  <2>8. Cardinality(at) = IF filled[i] THEN 0 ELSE 1
    BY <2>4, <2>5, <2>6, <2>7
  <2> QED
    BY <2>8 DEF at
<1> QED
  BY <1>1, StreamSafe, PTL
=============================================================================
