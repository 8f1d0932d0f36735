----------------------------- MODULE AioProofs ------------------------------
(***************************************************************************)
(* Proofs about Aio, for any number of asynchronous calls on an engine and *)
(* any number of segments: the books that the submitting thread and the    *)
(* callbacks keep together, without a common lock, are never wrong.        *)
(***************************************************************************)
EXTENDS Aio, TLAPS, FiniteSetTheorems, SequenceTheorems

-----------------------------------------------------------------------------
(* The inductive invariant.                                                *)

\* The segments of c that were mapped so far.
Mapped(c) ==
  CASE pc[c] = "idle"                        -> 0
    [] pc[c] \in {"align", "map", "error"}   -> seg[c] - 1
    [] pc[c] = "submit"                      -> seg[c]
    [] pc[c] = "queued"                      -> num[c]

\* The last segment of c that can be in the engine's list.
Last(c) == IF pc[c] = "submit" THEN seg[c] - 1 ELSE Mapped(c)

\* Where the submitting thread is.
CallInv(c) ==
  /\ pc[c] \notin {"idle", "queued"} => seg[c] <= num[c]
  /\ pc[c] = "idle" => iocb[c] = "free" /\ seg[c] = 1 /\ pinned[c] = {} /\ good[c] = {}
  /\ pc[c] = "queued" => seg[c] = num[c] \/ (num[c] = 0 /\ seg[c] = 1)
  /\ pc[c] = "submit" => seg[c] \in pinned[c]
  /\ pc[c] = "error" => iocb[c] = "completed"

\* A segment stays pinned until its callback has counted it: together the pinned
\* and the counted ones are at most those mapped.  Those whose data was moved
\* were counted.
BooksInv(c) ==
  /\ pinned[c] \subseteq 1..Mapped(c) /\ good[c] \subseteq 1..Mapped(c)
  /\ pc[c] # "idle" => caio[c].cmpl + Cardinality(pinned[c]) <= Mapped(c)
  /\ caio[c].res <= caio[c].cmpl
  /\ pc[c] \notin {"idle", "error"} =>
       good[c] \cap pinned[c] = {} /\ Cardinality(good[c]) = caio[c].res

\* Before an error the memory of a call is there until everything was counted.
MemoryInv(c) ==
  pc[c] \in {"align", "map", "submit", "queued"} =>
    \/ caio[c].alive /\ iocb[c] = "live"
    \/ pc[c] = "queued" /\ iocb[c] = "completed" /\ caio[c].cmpl = num[c] /\ num[c] > 0

\* The list holds every submitted segment at most once, and each is pinned.
ListInv ==
  /\ \A k \in 1..Len(list) :
       list[k][2] \in pinned[list[k][1]] /\ list[k][2] <= Last(list[k][1])
  /\ \A j, k \in 1..Len(list) : list[j] = list[k] => j = k

TouchedInv(c) == c \in touched => pc[c] = "error" /\ seg[c] > 1

CallSafe(c) == CallInv(c) /\ BooksInv(c) /\ MemoryInv(c) /\ TouchedInv(c)

AioInv == (\A c \in Calls : CallSafe(c)) /\ ListInv

-----------------------------------------------------------------------------
(* Type correctness.                                                       *)

Segs == 1..MaxSegs
CaioType == [alive: BOOLEAN, cmpl: 0..MaxSegs, res: 0..MaxSegs]
Labels == {"idle", "align", "map", "submit", "queued", "error"}

LEMMA Types ==
  ASSUME TypeOK
  PROVE  /\ MaxSegs \in Nat \ {0}
         /\ pc \in [Calls -> Labels] /\ num \in [Calls -> 0..MaxSegs]
         /\ seg \in [Calls -> Segs] /\ caio \in [Calls -> CaioType]
         /\ iocb \in [Calls -> {"free", "live", "completed"}]
         /\ pinned \in [Calls -> SUBSET Segs] /\ good \in [Calls -> SUBSET Segs]
         /\ refused \in [Calls -> BOOLEAN] /\ touched \subseteq Calls /\ stuck \in BOOLEAN
BY AioAssumption DEF AioAssumption, TypeOK, Labels, Segs, CaioType

LEMMA ListTyped ==
  ASSUME TypeOK
  PROVE  /\ list \in Seq(Calls \X Segs) /\ Len(list) \in Nat
         /\ \A k \in 1..Len(list) : list[k] \in Calls \X Segs
         /\ \A k \in 1..Len(list) : list[k][1] \in Calls /\ list[k][2] \in Segs
         /\ DOMAIN list = 1..Len(list)
<1>1. list \in Seq(Calls \X Segs)
  BY DEF TypeOK, Segs
<1>2. Len(list) \in Nat /\ DOMAIN list = 1..Len(list)
  BY <1>1, LenProperties
<1>3. \A k \in 1..Len(list) : list[k] \in Calls \X Segs
  BY <1>1, ElementOfSeq
<1> QED
  BY <1>1, <1>2, <1>3

\* A set of segments is finite, and a segment counts once.
LEMMA CountSegs ==
  ASSUME TypeOK, NEW S \in SUBSET Segs, NEW i
  PROVE  /\ IsFiniteSet(S) /\ Cardinality(S) \in Nat
         /\ i \in S => Cardinality(S \ {i}) = Cardinality(S) - 1 /\ Cardinality(S) >= 1
         /\ i \notin S => Cardinality(S \cup {i}) = Cardinality(S) + 1
<1>1. IsFiniteSet(Segs)
  BY Types, FS_Interval DEF Segs
<1>2. IsFiniteSet(S)
  BY <1>1, FS_Subset
<1>3. Cardinality(S) \in Nat
  BY <1>2, FS_CardinalityType
<1>4. i \in S => Cardinality(S \ {i}) = Cardinality(S) - 1
  BY <1>2, FS_RemoveElement
<1>5. i \in S => Cardinality(S) # 0
  BY <1>2, FS_EmptySet
<1>6. i \notin S => Cardinality(S \cup {i}) = Cardinality(S) + 1
  BY <1>2, FS_AddElement
<1> QED
  BY <1>2, <1>3, <1>4, <1>5, <1>6

\* The numbers of one call.
LEMMA CallTypes ==
  ASSUME TypeOK, NEW c \in Calls
  PROVE  /\ pc[c] \in Labels /\ num[c] \in 0..MaxSegs /\ seg[c] \in 1..MaxSegs
         /\ caio[c].cmpl \in 0..MaxSegs /\ caio[c].res \in 0..MaxSegs
         /\ caio[c] \in CaioType
         /\ pinned[c] \in SUBSET Segs /\ good[c] \in SUBSET Segs
         /\ Cardinality(pinned[c]) \in Nat /\ Cardinality(good[c]) \in Nat
         /\ Mapped(c) \in 0..MaxSegs /\ Last(c) \in 0..MaxSegs
<1>1. /\ pc[c] \in Labels /\ num[c] \in 0..MaxSegs /\ seg[c] \in 1..MaxSegs
      /\ caio[c] \in CaioType
      /\ pinned[c] \in SUBSET Segs /\ good[c] \in SUBSET Segs /\ MaxSegs \in Nat \ {0}
  BY Types DEF Segs
<1>2. caio[c].cmpl \in 0..MaxSegs /\ caio[c].res \in 0..MaxSegs
  BY <1>1 DEF CaioType
<1>3. Cardinality(pinned[c]) \in Nat /\ Cardinality(good[c]) \in Nat
  BY <1>1, CountSegs
<1>4. Mapped(c) \in 0..MaxSegs
  BY <1>1 DEF Mapped, Labels
<1>5. Last(c) \in 0..MaxSegs
  BY <1>1, <1>4 DEF Last
<1> QED
  BY <1>1, <1>2, <1>3, <1>4, <1>5

LEMMA SubmitterTyped ==
  ASSUME TypeOK, AioInv, NEW c \in Calls, Begin(c) \/ Submitter(c) \/ Reap(c)
  PROVE  TypeOK'
<1> USE Types DEF Goto, callVars
<1>1. seg[c] \in Segs /\ num[c] \in 0..MaxSegs /\ caio[c] \in CaioType
  BY CallTypes DEF Segs
<1>2. CASE Begin(c)
  <2>1. FreshCaio(c) \in CaioType
    BY DEF FreshCaio, CaioType
  <2>2. caio' \in [Calls -> CaioType] /\ num' \in [Calls -> 0..MaxSegs]
    BY <1>2, <2>1 DEF Begin
  <2>3. pc' \in [Calls -> Labels] /\ iocb' \in [Calls -> {"free", "live", "completed"}]
        /\ UNCHANGED <<seg, list, stuck, pinned, refused, good, touched>>
    BY <1>2 DEF Begin, Labels
  <2> QED
    BY <2>2, <2>3 DEF TypeOK, CaioType, Labels
<1>3. CASE Align(c)
  <2>1. [caio[c] EXCEPT !.alive = FALSE] \in CaioType
    BY <1>1 DEF CaioType
  <2>2. caio' \in [Calls -> CaioType]
    BY <1>3, <2>1 DEF Align
  <2>3. pc' \in [Calls -> Labels] /\ iocb' \in [Calls -> {"free", "live", "completed"}]
        /\ UNCHANGED <<num, seg, list, stuck, pinned, refused, good, touched>>
    BY <1>3 DEF Align, Fail, Labels
  <2> QED
    BY <2>2, <2>3 DEF TypeOK, CaioType, Labels
<1>4. CASE MapBuf(c)
  <2>1. pinned' \in [Calls -> SUBSET Segs]
    BY <1>1, <1>4 DEF MapBuf
  <2>2. pc' \in [Calls -> Labels] /\ iocb' \in [Calls -> {"free", "live", "completed"}]
        /\ UNCHANGED <<num, seg, caio, list, stuck, refused, good, touched>>
    BY <1>4 DEF MapBuf, Fail, Labels
  <2> QED
    BY <2>1, <2>2 DEF TypeOK, Segs, Labels
<1>5. CASE xdma_xfer_submit_nowait(c)
  <2>1. list' \in Seq(Calls \X Segs)
    <3>1. <<c, seg[c]>> \in Calls \X Segs
      BY <1>1
    <3>2. Append(list, <<c, seg[c]>>) \in Seq(Calls \X Segs)
      BY <3>1, ListTyped, AppendProperties
    <3> QED
      BY <1>5, <3>2, ListTyped DEF xdma_xfer_submit_nowait
  <2>2. seg' \in [Calls -> Segs]
    <3>1. pc[c] = "submit"
      BY <1>5 DEF xdma_xfer_submit_nowait
    <3>2. seg[c] <= num[c]
      BY <3>1 DEF AioInv, CallSafe, CallInv
    <3>3. seg[c] # num[c] => seg[c] + 1 \in Segs
      BY <1>1, <3>2 DEF Segs
    <3> QED
      BY <1>5, <3>3 DEF xdma_xfer_submit_nowait
  <2>3. pc' \in [Calls -> Labels] /\ refused' \in [Calls -> BOOLEAN] /\ stuck' \in BOOLEAN
        /\ UNCHANGED <<num, caio, iocb, pinned, good, touched>>
    BY <1>5 DEF xdma_xfer_submit_nowait, Labels
  <2> QED
    BY <2>1, <2>2, <2>3 DEF TypeOK, Segs, Labels
<1>6. CASE Reap(c)
  <2>1. [caio[c] EXCEPT !.alive = FALSE] \in CaioType
    BY <1>1 DEF CaioType
  <2>2. caio' \in [Calls -> CaioType]
    BY <1>6, <2>1 DEF Reap
  <2>4. 1 \in Segs
    BY DEF Segs
  <2>5. seg' \in [Calls -> Segs]
    BY <1>6, <2>4 DEF Reap
  <2>3. /\ pc' \in [Calls -> Labels] /\ iocb' \in [Calls -> {"free", "live", "completed"}]
        /\ num' \in [Calls -> 0..MaxSegs] /\ pinned' \in [Calls -> SUBSET Segs]
        /\ good' \in [Calls -> SUBSET Segs] /\ refused' \in [Calls -> BOOLEAN]
        /\ touched' \subseteq Calls /\ UNCHANGED <<list, stuck>>
    BY <1>6 DEF Reap, Labels
  <2> QED
    BY <2>2, <2>3, <2>5 DEF TypeOK, CaioType, Segs, Labels
<1> QED
  BY <1>2, <1>3, <1>4, <1>5, <1>6 DEF Submitter

\* The transfer at the head of the list is of a call that is under way, its
\* segment is pinned and not yet counted.
LEMMA HeadFacts ==
  ASSUME TypeOK, AioInv, list # <<>>, NEW c, NEW i, c = Head(list)[1], i = Head(list)[2]
  PROVE  /\ c \in Calls /\ i \in Segs /\ i \in pinned[c] /\ i <= Last(c)
         /\ pc[c] # "idle" /\ Head(list) = list[1] /\ 1 \in 1..Len(list)
         /\ caio[c].cmpl + 1 <= Mapped(c)
         /\ Cardinality(pinned[c] \ {i}) = Cardinality(pinned[c]) - 1
<1>1. Head(list) = list[1] /\ Len(list) >= 1
  BY ListTyped, HeadTailProperties, EmptySeq
<1>2. 1 \in 1..Len(list)
  BY <1>1, ListTyped
<1>3. c \in Calls /\ i \in Segs
  BY <1>1, <1>2, ListTyped
<1>4. i \in pinned[c] /\ i <= Last(c)
  BY <1>1, <1>2 DEF AioInv, ListInv
<1>5. pc[c] # "idle" /\ caio[c].cmpl + Cardinality(pinned[c]) <= Mapped(c)
  BY <1>3, <1>4 DEF AioInv, CallSafe, CallInv, BooksInv
<1>6. pinned[c] \in SUBSET Segs
  BY <1>3, CallTypes
<1>7. Cardinality(pinned[c]) >= 1 /\ Cardinality(pinned[c] \ {i}) = Cardinality(pinned[c]) - 1
  BY <1>4, <1>6, CountSegs
<1>8. caio[c].cmpl + 1 <= Mapped(c)
  <2> HIDE DEF Mapped
  <2> QED BY <1>3, <1>5, <1>7, CallTypes
<1> QED
  BY <1>1, <1>2, <1>3, <1>4, <1>5, <1>7, <1>8

LEMMA ServiceTyped ==
  ASSUME TypeOK, AioInv, Service
  PROVE  TypeOK'
<1> USE Types
<1> DEFINE c == Head(list)[1]
           i == Head(list)[2]
<1>0. PICK ok \in BOOLEAN :
         /\ list # <<>> /\ list' = Tail(list)
         /\ good' = [good EXCEPT ![c] = IF ok THEN @ \cup {i} ELSE @]
         /\ touched' \subseteq touched \cup {c}
         /\ async_io_handler(c, i, ok) \/ UNCHANGED <<caio, iocb, pinned>>
         /\ UNCHANGED <<callVars, stuck, refused>>
  BY DEF Service
<1>1. c \in Calls /\ i \in Segs /\ caio[c].cmpl + 1 <= Mapped(c)
  BY <1>0, HeadFacts
<1>2. list' \in Seq(Calls \X Segs)
  BY <1>0, ListTyped, HeadTailProperties
<1>3. good' \in [Calls -> SUBSET Segs] /\ touched' \subseteq Calls
  BY <1>0, <1>1
<1>4. caio' \in [Calls -> CaioType] /\ iocb' \in [Calls -> {"free", "live", "completed"}]
      /\ pinned' \in [Calls -> SUBSET Segs]
  <2>1. CASE async_io_handler(c, i, ok)
    <3>1. caio[c].cmpl + 1 \in 0..MaxSegs
      BY <1>1, CallTypes
    <3>2. caio[c].res <= caio[c].cmpl
      BY <1>1 DEF AioInv, CallSafe, BooksInv
    <3>3. caio[c].res + xdma_xfer_completion(ok) \in 0..MaxSegs
      BY <1>1, <3>1, <3>2, CallTypes DEF xdma_xfer_completion
    <3>4. \A b \in BOOLEAN : [alive |-> b, cmpl |-> caio[c].cmpl + 1,
             res |-> caio[c].res + xdma_xfer_completion(ok)] \in CaioType
      BY <3>1, <3>3 DEF CaioType
    <3>5. PICK b \in BOOLEAN : caio' = [caio EXCEPT ![c] = [alive |-> b, cmpl |-> caio[c].cmpl + 1,
             res |-> caio[c].res + xdma_xfer_completion(ok)]]
      BY <2>1 DEF async_io_handler
    <3>6. caio' \in [Calls -> CaioType]
      BY <3>4, <3>5
    <3> QED
      BY <2>1, <3>6 DEF async_io_handler, Unmapped
  <2> QED
    BY <1>0, <2>1
<1>5. UNCHANGED <<pc, num, seg, stuck, refused>>
  BY <1>0 DEF callVars
<1> QED
  BY <1>2, <1>3, <1>4, <1>5 DEF TypeOK, CaioType, Segs, Labels

LEMMA StepTyped ==
  ASSUME TypeOK, AioInv, [Next]_vars
  PROVE  TypeOK'
<1>1. CASE Next
  <2>1. CASE EngineError
    BY <2>1 DEF EngineError, callVars, TypeOK
  <2> QED
    BY <1>1, <2>1, SubmitterTyped, ServiceTyped DEF Next
<1>2. CASE UNCHANGED vars
  BY <1>2 DEF vars, callVars, TypeOK
<1> QED
  BY <1>1, <1>2

-----------------------------------------------------------------------------
(* What a step does not touch.                                             *)

\* A call none of whose state changes stays as it was.
LEMMA Kept ==
  ASSUME NEW d, CallSafe(d), d \in touched' => d \in touched,
         pc'[d] = pc[d], num'[d] = num[d], seg'[d] = seg[d], caio'[d] = caio[d],
         iocb'[d] = iocb[d], pinned'[d] = pinned[d], good'[d] = good[d]
  PROVE  CallSafe(d)' /\ Mapped(d)' = Mapped(d) /\ Last(d)' = Last(d)
<1>1. Mapped(d)' = Mapped(d)
  BY DEF Mapped
<1>2. Last(d)' = Last(d)
  BY <1>1 DEF Last
<1>3. CallInv(d)' /\ MemoryInv(d)' /\ TouchedInv(d)'
  BY DEF CallSafe, CallInv, MemoryInv, TouchedInv
<1>4. BooksInv(d)'
  BY <1>1 DEF CallSafe, BooksInv
<1> QED
  BY <1>1, <1>2, <1>3, <1>4 DEF CallSafe

\* A step of one system call leaves the others alone.
LEMMA OthersKept ==
  ASSUME TypeOK, AioInv, NEW c \in Calls, Begin(c) \/ Submitter(c) \/ Reap(c),
         NEW d \in Calls, d # c
  PROVE  CallSafe(d)' /\ Last(d)' = Last(d) /\ pinned'[d] = pinned[d]
<1> USE Types DEF Goto, callVars
<1>1. pc'[d] = pc[d] /\ num'[d] = num[d] /\ seg'[d] = seg[d]
  BY DEF Begin, Submitter, Align, Fail, MapBuf, xdma_xfer_submit_nowait, Reap
<1>2. iocb'[d] = iocb[d] /\ pinned'[d] = pinned[d] /\ good'[d] = good[d]
  BY DEF Begin, Submitter, Align, Fail, MapBuf, xdma_xfer_submit_nowait, Reap
<1>3. caio'[d] = caio[d]
  BY DEF Begin, Submitter, Align, Fail, MapBuf, xdma_xfer_submit_nowait, Reap
<1>4. d \in touched' => d \in touched
  BY DEF Begin, Submitter, Align, Fail, MapBuf, xdma_xfer_submit_nowait, Reap
<1>5. CallSafe(d)
  BY DEF AioInv
<1> QED
  BY <1>1, <1>2, <1>3, <1>4, <1>5, Kept

\* The list stays good while no call loses a pinned segment.
LEMMA ListKept ==
  ASSUME TypeOK, ListInv, list' = list, NEW c \in Calls,
         \A d \in Calls : d # c => Last(d)' = Last(d) /\ pinned'[d] = pinned[d],
         \A k \in 1..Len(list) : list[k][1] = c => 
            list[k][2] \in pinned'[c] /\ list[k][2] <= Last(c)'
  PROVE  ListInv'
<1>1. ASSUME NEW k \in 1..Len(list)
      PROVE  list[k][2] \in pinned'[list[k][1]] /\ list[k][2] <= Last(list[k][1])'
  <2>1. list[k][1] \in Calls
    BY ListTyped
  <2>2. list[k][2] \in pinned[list[k][1]] /\ list[k][2] <= Last(list[k][1])
    BY DEF ListInv
  <2>3. CASE list[k][1] = c
    BY <2>3
  <2>4. CASE list[k][1] # c
    <3>1. PICK d \in Calls : d = list[k][1]
      BY <2>1
    <3>2. Last(d)' = Last(d) /\ pinned'[d] = pinned[d]
      BY <2>4, <3>1
    <3>3. list[k][2] <= Last(d)' /\ list[k][2] \in pinned'[d]
      BY <2>2, <3>1, <3>2
    <3>4. list'[k][1] = list[k][1]
      OBVIOUS
    <3> QED
      BY <3>1, <3>3, <3>4
  <2> QED
    BY <2>3, <2>4
<1> QED
  BY <1>1 DEF ListInv

\* A call for which nothing was pinned has no transfer in the list.
LEMMA NotListed ==
  ASSUME AioInv, NEW c \in Calls, pinned[c] = {}
  PROVE  \A k \in 1..Len(list) : list[k][1] # c
BY DEF AioInv, ListInv

-----------------------------------------------------------------------------
(* The steps of a system call.                                             *)

LEMMA BeginKeeps ==
  ASSUME TypeOK, AioInv, NEW c \in Calls, Begin(c)
  PROVE  AioInv'
<1>1. /\ pc[c] = "idle" /\ num'[c] \in 0..MaxSegs /\ seg'[c] = seg[c]
      /\ \/ num'[c] = 0 /\ pc'[c] = "queued"
         \/ num'[c] >= 1 /\ pc'[c] = "align"
      /\ pinned'[c] = pinned[c] /\ good'[c] = good[c] /\ iocb'[c] = "live"
      /\ touched' = touched /\ list' = list
  BY Types DEF Begin, Goto
<1>2. caio'[c].alive = TRUE /\ caio'[c].cmpl = 0 /\ caio'[c].res = 0
  BY Types DEF Begin, FreshCaio
<1>3. /\ seg[c] = 1 /\ pinned[c] = {} /\ good[c] = {} /\ TouchedInv(c)
  BY <1>1 DEF AioInv, CallSafe, CallInv
<1>4. Mapped(c)' = 0 /\ Last(c)' = 0
  BY <1>1, <1>3 DEF Mapped, Last
<1>5. CallInv(c)' /\ MemoryInv(c)' /\ TouchedInv(c)'
  BY <1>1, <1>2, <1>3, Types DEF CallInv, MemoryInv, TouchedInv
<1>6. BooksInv(c)'
  <2>1. Cardinality(pinned'[c]) = 0 /\ Cardinality(good'[c]) = 0
    BY <1>1, <1>3, FS_EmptySet
  <2> QED
    BY <1>1, <1>2, <1>3, <1>4, <2>1 DEF BooksInv
<1>7. \A d \in Calls : d # c => CallSafe(d)' /\ Last(d)' = Last(d) /\ pinned'[d] = pinned[d]
  BY OthersKept
<1>8. ListInv'
  BY <1>1, <1>3, <1>7, NotListed, ListKept DEF AioInv
<1> QED
  BY <1>5, <1>6, <1>7, <1>8 DEF AioInv, CallSafe

LEMMA AlignKeeps ==
  ASSUME TypeOK, AioInv, NEW c \in Calls, Align(c)
  PROVE  AioInv'
<1>1. /\ pc[c] = "align" /\ pc'[c] \in {"map", "error"} /\ num'[c] = num[c]
      /\ seg'[c] = seg[c] /\ pinned'[c] = pinned[c] /\ good'[c] = good[c]
      /\ touched' = touched /\ list' = list
      /\ pc'[c] = "map" => iocb'[c] = iocb[c] /\ caio'[c] = caio[c]
      /\ pc'[c] = "error" => iocb'[c] = "completed"
  BY Types DEF Align, Fail, Goto
<1>2. caio'[c].cmpl = caio[c].cmpl /\ caio'[c].res = caio[c].res
  <2>1. caio[c] \in CaioType
    BY CallTypes
  <2>2. caio'[c] = caio[c] \/ caio'[c] = [caio[c] EXCEPT !.alive = FALSE]
    BY Types DEF Align
  <2> QED
    BY <2>1, <2>2 DEF CaioType
<1>3. CallInv(c) /\ BooksInv(c) /\ MemoryInv(c) /\ TouchedInv(c)
  BY DEF AioInv, CallSafe
<1>4. Mapped(c)' = Mapped(c) /\ Last(c)' = Last(c)
  BY <1>1 DEF Mapped, Last
<1>5. CallInv(c)' /\ MemoryInv(c)' /\ TouchedInv(c)'
  BY <1>1, <1>3 DEF CallInv, MemoryInv, TouchedInv
<1>6. BooksInv(c)'
  BY <1>1, <1>2, <1>3, <1>4 DEF BooksInv
<1>7. \A d \in Calls : d # c => CallSafe(d)' /\ Last(d)' = Last(d) /\ pinned'[d] = pinned[d]
  BY OthersKept DEF Submitter
<1>8. ListInv'
  <2>1. \A k \in 1..Len(list) : list[k][1] = c =>
            list[k][2] \in pinned'[c] /\ list[k][2] <= Last(c)'
    BY <1>1, <1>4 DEF AioInv, ListInv
  <2>2. ListInv
    BY DEF AioInv
  <2> QED
    BY <1>1, <1>7, <2>1, <2>2, ListKept
<1> QED
  BY <1>5, <1>6, <1>7, <1>8 DEF AioInv, CallSafe

LEMMA MapBufKeeps ==
  ASSUME TypeOK, AioInv, NEW c \in Calls, MapBuf(c)
  PROVE  AioInv'
<1>1. /\ pc[c] = "map" /\ pc'[c] \in {"submit", "error"} /\ num'[c] = num[c]
      /\ seg'[c] = seg[c] /\ caio'[c] = caio[c] /\ good'[c] = good[c]
      /\ touched' = touched /\ list' = list
      /\ pc'[c] = "submit" => iocb'[c] = iocb[c] /\ pinned'[c] = pinned[c] \cup {seg[c]}
      /\ pc'[c] = "error" => iocb'[c] = "completed" /\ pinned'[c] = pinned[c]
  BY Types DEF MapBuf, Fail, Goto
<1>2. /\ seg[c] \in 1..MaxSegs /\ caio[c].cmpl \in Nat /\ caio[c].res \in Nat
      /\ pinned[c] \in SUBSET Segs /\ Cardinality(pinned[c]) \in Nat /\ MaxSegs \in Nat
  BY CallTypes, Types
<1>3. CallInv(c) /\ BooksInv(c) /\ MemoryInv(c) /\ TouchedInv(c)
  BY DEF AioInv, CallSafe
<1>4. Mapped(c) = seg[c] - 1 /\ Last(c) = seg[c] - 1 /\ Last(c)' = seg[c] - 1
      /\ Mapped(c)' = IF pc'[c] = "submit" THEN seg[c] ELSE seg[c] - 1
  BY <1>1 DEF Mapped, Last
<1>5. CallInv(c)' /\ MemoryInv(c)' /\ TouchedInv(c)'
  BY <1>1, <1>3 DEF CallInv, MemoryInv, TouchedInv
<1>6. BooksInv(c)'
  <2>1. seg[c] \notin pinned[c] /\ seg[c] \notin good[c]
    BY <1>2, <1>3, <1>4 DEF BooksInv
  <2>2. pinned'[c] \subseteq 1..Mapped(c)' /\ good'[c] \subseteq 1..Mapped(c)'
    BY <1>1, <1>2, <1>3, <1>4 DEF BooksInv
  <2>3. Cardinality(pinned[c] \cup {seg[c]}) = Cardinality(pinned[c]) + 1
    BY <1>2, <2>1, CountSegs
  <2>6. caio[c].cmpl + Cardinality(pinned[c]) <= seg[c] - 1
    BY <1>1, <1>3, <1>4 DEF BooksInv
  <2>4. caio[c].cmpl + Cardinality(pinned'[c]) <= Mapped(c)'
    <3>1. CASE pc'[c] = "submit"
      <4>1. Cardinality(pinned'[c]) = Cardinality(pinned[c]) + 1
        BY <1>1, <2>3, <3>1
      <4>2. Mapped(c)' = seg[c]
        BY <1>4, <3>1
      <4> QED
        BY <1>2, <2>6, <4>1, <4>2
    <3>2. CASE pc'[c] = "error"
      BY <1>1, <1>4, <2>6, <3>2
    <3> QED
      BY <1>1, <3>1, <3>2
  <2>5. good'[c] \cap pinned'[c] = {}
    BY <1>1, <1>3, <2>1 DEF BooksInv
  <2> QED
    BY <1>1, <1>3, <2>2, <2>4, <2>5 DEF BooksInv
<1>7. \A d \in Calls : d # c => CallSafe(d)' /\ Last(d)' = Last(d) /\ pinned'[d] = pinned[d]
  BY OthersKept DEF Submitter
<1>8. ListInv'
  <2>1. \A k \in 1..Len(list) : list[k][1] = c =>
            list[k][2] \in pinned'[c] /\ list[k][2] <= Last(c)'
    BY <1>1, <1>4 DEF AioInv, ListInv
  <2>2. ListInv
    BY DEF AioInv
  <2> QED
    BY <1>1, <1>7, <2>1, <2>2, ListKept
<1> QED
  BY <1>5, <1>6, <1>7, <1>8 DEF AioInv, CallSafe

LEMMA ReapKeeps ==
  ASSUME TypeOK, AioInv, NEW c \in Calls, Reap(c)
  PROVE  AioInv'
<1>1. /\ pc'[c] = "idle" /\ num'[c] = 0 /\ seg'[c] = 1 /\ pinned'[c] = {} /\ good'[c] = {}
      /\ iocb'[c] = "free" /\ c \notin touched' /\ list' = list
      /\ \A k \in DOMAIN list : list[k][1] # c
  BY Types DEF Reap, Goto
<1>2. caio'[c].cmpl = caio[c].cmpl /\ caio'[c].res = caio[c].res
  <2>1. caio[c] \in CaioType
    BY CallTypes
  <2>2. caio'[c] = [caio[c] EXCEPT !.alive = FALSE]
    BY Types DEF Reap
  <2> QED
    BY <2>1, <2>2 DEF CaioType
<1>3. caio[c].res <= caio[c].cmpl
  BY DEF AioInv, CallSafe, BooksInv
<1>5. CallInv(c)' /\ MemoryInv(c)' /\ TouchedInv(c)' /\ BooksInv(c)'
  BY <1>1, <1>2, <1>3 DEF CallInv, MemoryInv, TouchedInv, BooksInv
<1>7. \A d \in Calls : d # c => CallSafe(d)' /\ Last(d)' = Last(d) /\ pinned'[d] = pinned[d]
  BY OthersKept
<1>8. ListInv'
  <2>1. \A k \in 1..Len(list) : list[k][1] # c
    BY <1>1, ListTyped
  <2>2. ListInv
    BY DEF AioInv
  <2> QED
    BY <1>1, <1>7, <2>1, <2>2, ListKept
<1> QED
  BY <1>5, <1>7, <1>8 DEF AioInv, CallSafe

LEMMA SubmitKeeps ==
  ASSUME TypeOK, AioInv, NEW c \in Calls, xdma_xfer_submit_nowait(c)
  PROVE  AioInv'
<1>1. /\ pc[c] = "submit" /\ pc'[c] \in {"queued", "align"} /\ num'[c] = num[c]
      /\ pinned'[c] = pinned[c] /\ caio'[c] = caio[c] /\ good'[c] = good[c]
      /\ iocb'[c] = iocb[c] /\ touched' = touched
      /\ list' = list \/ list' = Append(list, <<c, seg[c]>>)
      /\ pc'[c] = "queued" => seg[c] = num[c] /\ seg'[c] = seg[c]
      /\ pc'[c] = "align" => seg[c] # num[c] /\ seg'[c] = seg[c] + 1
  BY Types DEF xdma_xfer_submit_nowait, Goto
<1>2. seg[c] \in Nat /\ num[c] \in Nat
  BY CallTypes, Types
<1>3. CallInv(c) /\ BooksInv(c) /\ MemoryInv(c) /\ TouchedInv(c)
  BY DEF AioInv, CallSafe
<1>4. Mapped(c) = seg[c] /\ Last(c) = seg[c] - 1 /\ Last(c)' = seg[c] /\ Mapped(c)' = seg[c]
  <2>1. Mapped(c) = seg[c] /\ Last(c) = seg[c] - 1
    BY <1>1 DEF Mapped, Last
  <2>2. Mapped(c)' = seg[c]
    BY <1>1, <1>2 DEF Mapped
  <2>3. Last(c)' = Mapped(c)'
    BY <1>1 DEF Last
  <2> QED
    BY <2>1, <2>2, <2>3
<1>5. CallInv(c)' /\ MemoryInv(c)' /\ TouchedInv(c)'
  <2>1. CallInv(c)'
    BY <1>1, <1>2, <1>3 DEF CallInv
  <2>2. MemoryInv(c)' /\ TouchedInv(c)'
    BY <1>1, <1>3 DEF MemoryInv, TouchedInv
  <2> QED
    BY <2>1, <2>2
<1>6. BooksInv(c)'
  BY <1>1, <1>3, <1>4 DEF BooksInv
<1>7. \A d \in Calls : d # c => CallSafe(d)' /\ Last(d)' = Last(d) /\ pinned'[d] = pinned[d]
  BY OthersKept DEF Submitter
<1>8. ListInv'
  <2>1. \A k \in 1..Len(list) : list[k][1] = c =>
            list[k][2] \in pinned'[c] /\ list[k][2] <= Last(c)' /\ list[k][2] <= seg[c] - 1
    <3> SUFFICES ASSUME NEW k \in 1..Len(list), list[k][1] = c
                 PROVE  list[k][2] \in pinned'[c] /\ list[k][2] <= Last(c)'
                        /\ list[k][2] <= seg[c] - 1
      OBVIOUS
    <3>1. list[k][2] \in pinned[c] /\ list[k][2] <= Last(c)
      BY DEF AioInv, ListInv
    <3>2. list[k][2] \in Nat
      BY ListTyped, Types DEF Segs
    <3>3. list[k][2] <= seg[c] - 1
      BY <1>4, <3>1
    <3>4. list[k][2] <= Last(c)'
      BY <1>2, <1>4, <3>2, <3>3
    <3> QED
      BY <1>1, <3>1, <3>3, <3>4
  <2>2. ListInv
    BY DEF AioInv
  <2>3. CASE list' = list
    BY <1>7, <2>1, <2>2, <2>3, ListKept
  <2>4. CASE list' = Append(list, <<c, seg[c]>>)
    <3>1. /\ Len(list') = Len(list) + 1 /\ list'[Len(list) + 1] = <<c, seg[c]>>
          /\ \A k \in 1..Len(list) : list'[k] = list[k]
      <4>1. <<c, seg[c]>> \in Calls \X Segs
        BY CallTypes DEF Segs
      <4> QED
        BY <2>4, <4>1, ListTyped, AppendProperties
    <3>2. Len(list) \in Nat
      BY ListTyped
    <3>3. ASSUME NEW k \in 1..Len(list')
          PROVE  (list[k][2] \in pinned[list[k][1]] /\ list[k][2] <= Last(list[k][1]))'
      <4>1. CASE k = Len(list) + 1
        <5>1. list'[k][1] = c /\ list'[k][2] = seg[c]
          BY <3>1, <4>1
        <5>2. seg[c] \in pinned'[c] /\ seg[c] <= Last(c)'
          BY <1>1, <1>2, <1>3, <1>4 DEF CallInv
        <5> QED
          BY <5>1, <5>2
      <4>2. CASE k \in 1..Len(list)
        <5>1. list'[k] = list[k] /\ list[k][1] \in Calls
          BY <3>1, <4>2, ListTyped
        <5>2. PICK d \in Calls : d = list[k][1]
          BY <5>1
        <5>3. list[k][2] \in pinned[d] /\ list[k][2] <= Last(d)
          BY <2>2, <4>2, <5>2 DEF ListInv
        <5>4. list[k][2] \in pinned'[d] /\ list[k][2] <= Last(d)'
          BY <1>7, <2>1, <4>2, <5>2, <5>3
        <5> QED
          BY <5>1, <5>2, <5>4
      <4> QED
        BY <3>1, <3>2, <4>1, <4>2
    <3>4. \A k \in 1..Len(list) : list[k] # <<c, seg[c]>>
      BY <1>2, <2>1
    <3>5. ASSUME NEW j \in 1..Len(list'), NEW k \in 1..Len(list'), list'[j] = list'[k]
          PROVE  j = k
      <4>1. j \in 1..Len(list) \/ j = Len(list) + 1
        BY <3>1, <3>2
      <4>2. k \in 1..Len(list) \/ k = Len(list) + 1
        BY <3>1, <3>2
      <4>3. CASE j \in 1..Len(list) /\ k \in 1..Len(list)
        BY <2>2, <3>1, <3>5, <4>3 DEF ListInv
      <4>4. CASE j = Len(list) + 1 /\ k \in 1..Len(list)
        <5>1. list[k] = <<c, seg[c]>>
          BY <3>1, <3>5, <4>4
        <5> QED
          BY <3>4, <4>4, <5>1
      <4>5. CASE j \in 1..Len(list) /\ k = Len(list) + 1
        <5>1. list[j] = <<c, seg[c]>>
          BY <3>1, <3>5, <4>5
        <5> QED
          BY <3>4, <4>5, <5>1
      <4> QED
        BY <4>1, <4>2, <4>3, <4>4, <4>5
    <3> QED
      BY <3>3, <3>5 DEF ListInv
  <2> QED
    BY <1>1, <2>3, <2>4
<1> QED
  BY <1>5, <1>6, <1>7, <1>8 DEF AioInv, CallSafe

-----------------------------------------------------------------------------
(* The callbacks.                                                          *)

\* What the callback of segment i of c finds and leaves.
LEMMA ServiceStep ==
  ASSUME TypeOK, AioInv, Service, NEW c, NEW i, c = Head(list)[1], i = Head(list)[2]
  PROVE  /\ list' = Tail(list) /\ UNCHANGED <<pc, num, seg>>
         /\ \A d \in Calls : d # c =>
              /\ caio'[d] = caio[d] /\ iocb'[d] = iocb[d] /\ pinned'[d] = pinned[d]
              /\ good'[d] = good[d] /\ (d \in touched' => d \in touched)
         /\ \E ok \in BOOLEAN, stale \in BOOLEAN :
              /\ good'[c] = IF ok THEN good[c] \cup {i} ELSE good[c]
              /\ stale <=> ~caio[c].alive \/ iocb[c] # "live"
              /\ ~stale => touched' = touched
              /\ \/ /\ pinned'[c] = pinned[c] \ {i}
                    /\ caio'[c].cmpl = caio[c].cmpl + 1
                    /\ caio'[c].res = caio[c].res + (IF ok THEN 1 ELSE 0)
                    /\ \/ caio[c].cmpl + 1 = num[c] /\ iocb'[c] = "completed"
                       \/ caio[c].cmpl + 1 # num[c] /\ caio'[c].alive /\ iocb'[c] = iocb[c]
                 \/ stale /\ caio'[c] = caio[c] /\ iocb'[c] = iocb[c] /\ pinned'[c] = pinned[c]
<1> USE Types
<1>1. list # <<>>
  BY DEF Service
<1>2. c \in Calls
  BY <1>1, HeadFacts
<1>3. PICK ok \in BOOLEAN :
        LET st == ~caio[c].alive \/ iocb[c] # "live" IN
         /\ good' = [good EXCEPT ![c] = IF ok THEN @ \cup {i} ELSE @]
         /\ touched' = touched \cup (IF st THEN {c} ELSE {})
         /\ async_io_handler(c, i, ok) \/ (st /\ UNCHANGED <<caio, iocb, pinned>>)
  BY DEF Service
<1>4. PICK stale \in BOOLEAN : stale <=> ~caio[c].alive \/ iocb[c] # "live"
  OBVIOUS
<1>5. list' = Tail(list) /\ UNCHANGED <<pc, num, seg>>
  BY DEF Service, callVars
<1>6. good'[c] = (IF ok THEN good[c] \cup {i} ELSE good[c]) /\ (~stale => touched' = touched)
  BY <1>2, <1>3, <1>4
<1>7. ASSUME NEW d \in Calls, d # c
      PROVE  /\ caio'[d] = caio[d] /\ iocb'[d] = iocb[d] /\ pinned'[d] = pinned[d]
             /\ good'[d] = good[d] /\ (d \in touched' => d \in touched)
  <2>1. good'[d] = good[d] /\ (d \in touched' => d \in touched)
    BY <1>2, <1>3, <1>7
  <2>2. caio'[d] = caio[d] /\ iocb'[d] = iocb[d] /\ pinned'[d] = pinned[d]
    BY <1>2, <1>3, <1>7 DEF async_io_handler, Unmapped
  <2> QED
    BY <2>1, <2>2
<1>8. CASE async_io_handler(c, i, ok)
  <2> DEFINE r == caio[c].res + (IF ok THEN 1 ELSE 0)
             n == caio[c].cmpl + 1
  <2>1. pinned'[c] = pinned[c] \ {i}
    BY <1>2, <1>8 DEF async_io_handler, Unmapped
  <2>2. \/ /\ n = num[c] /\ iocb'[c] = "completed"
           /\ caio'[c] = [alive |-> FALSE, cmpl |-> n, res |-> r]
        \/ /\ n # num[c] /\ iocb'[c] = iocb[c]
           /\ caio'[c] = [alive |-> TRUE, cmpl |-> n, res |-> r]
    BY <1>2, <1>8 DEF async_io_handler, req_cnt, xdma_xfer_completion
  <2>3. caio'[c].cmpl = n /\ caio'[c].res = r
    BY <2>2
  <2>4. \/ n = num[c] /\ iocb'[c] = "completed"
        \/ n # num[c] /\ caio'[c].alive /\ iocb'[c] = iocb[c]
    BY <2>2
  <2> HIDE DEF r, n
  <2>5. \/ /\ pinned'[c] = pinned[c] \ {i}
           /\ caio'[c].cmpl = n /\ caio'[c].res = r
           /\ \/ n = num[c] /\ iocb'[c] = "completed"
              \/ n # num[c] /\ caio'[c].alive /\ iocb'[c] = iocb[c]
        \/ stale /\ caio'[c] = caio[c] /\ iocb'[c] = iocb[c] /\ pinned'[c] = pinned[c]
    BY <2>1, <2>3, <2>4
  <2> USE DEF r, n
  <2> QED
    BY <1>4, <1>5, <1>6, <1>7, <2>5
<1>9. CASE stale /\ UNCHANGED <<caio, iocb, pinned>>
  BY <1>4, <1>5, <1>6, <1>7, <1>9
<1> QED
  BY <1>3, <1>4, <1>8, <1>9

\* The call whose segment was served.
LEMMA ServedSafe ==
  ASSUME TypeOK, AioInv, Service, NEW c, NEW i, c = Head(list)[1], i = Head(list)[2]
  PROVE  CallSafe(c)'
<1>1. list # <<>>
  BY DEF Service
<1>2. /\ c \in Calls /\ i \in Segs /\ i \in pinned[c] /\ i <= Last(c) /\ pc[c] # "idle"
      /\ caio[c].cmpl + 1 <= Mapped(c)
      /\ Cardinality(pinned[c] \ {i}) = Cardinality(pinned[c]) - 1
  BY <1>1, HeadFacts
<1>3. UNCHANGED <<pc, num, seg>>
  BY ServiceStep
<1>4. PICK ok \in BOOLEAN, stale \in BOOLEAN :
              /\ good'[c] = IF ok THEN good[c] \cup {i} ELSE good[c]
              /\ stale <=> ~caio[c].alive \/ iocb[c] # "live"
              /\ ~stale => touched' = touched
              /\ \/ /\ pinned'[c] = pinned[c] \ {i}
                    /\ caio'[c].cmpl = caio[c].cmpl + 1
                    /\ caio'[c].res = caio[c].res + (IF ok THEN 1 ELSE 0)
                    /\ \/ caio[c].cmpl + 1 = num[c] /\ iocb'[c] = "completed"
                       \/ caio[c].cmpl + 1 # num[c] /\ caio'[c].alive /\ iocb'[c] = iocb[c]
                 \/ stale /\ caio'[c] = caio[c] /\ iocb'[c] = iocb[c] /\ pinned'[c] = pinned[c]
  BY ServiceStep
<1>5. CallInv(c) /\ BooksInv(c) /\ MemoryInv(c) /\ TouchedInv(c)
  BY <1>2 DEF AioInv, CallSafe
<1>6. /\ seg[c] \in Nat /\ num[c] \in Nat /\ caio[c].cmpl \in Nat /\ caio[c].res \in Nat
      /\ Cardinality(pinned[c]) \in Nat /\ Cardinality(good[c]) \in Nat /\ i \in Nat /\ i >= 1
      /\ pc[c] \in Labels /\ good[c] \in SUBSET Segs /\ Mapped(c) \in Nat
  BY <1>2, CallTypes, Types DEF Segs
<1>7. Mapped(c)' = Mapped(c)
  BY <1>3 DEF Mapped
<1>8. i \in 1..Mapped(c)
  BY <1>2, <1>5 DEF BooksInv
<1>9. pc[c] \in {"submit", "align", "map", "error"} => i <= seg[c] - 1
  BY <1>2, <1>6 DEF Last, Mapped, Labels
<1>10. CASE pc[c] = "error"
  <2>1. iocb'[c] = "completed" /\ seg[c] > 1
    BY <1>4, <1>5, <1>6, <1>9, <1>10 DEF CallInv
  <2>2. pinned'[c] \subseteq 1..Mapped(c) /\ good'[c] \subseteq 1..Mapped(c)
    BY <1>4, <1>5, <1>8 DEF BooksInv
  <2>3. caio[c].cmpl + Cardinality(pinned[c]) <= Mapped(c) /\ caio[c].res <= caio[c].cmpl
    BY <1>5, <1>10 DEF BooksInv
  <2>4. caio'[c].cmpl + Cardinality(pinned'[c]) <= Mapped(c) /\ caio'[c].res <= caio'[c].cmpl
    <3>1. CASE pinned'[c] = pinned[c] /\ caio'[c] = caio[c]
      BY <2>3, <3>1
    <3>2. CASE /\ pinned'[c] = pinned[c] \ {i} /\ caio'[c].cmpl = caio[c].cmpl + 1
               /\ caio'[c].res = caio[c].res + (IF ok THEN 1 ELSE 0)
      <4>1. Cardinality(pinned'[c]) = Cardinality(pinned[c]) - 1
        BY <1>2, <3>2
      <4> QED
        BY <1>6, <2>3, <3>2, <4>1
    <3> QED
      BY <1>4, <3>1, <3>2
  <2>5. CallInv(c)' /\ MemoryInv(c)' /\ TouchedInv(c)'
    BY <1>3, <1>5, <1>10, <2>1 DEF CallInv, MemoryInv, TouchedInv
  <2>6. BooksInv(c)'
    BY <1>3, <1>7, <1>10, <2>2, <2>4 DEF BooksInv
  <2> QED
    BY <2>5, <2>6 DEF CallSafe
<1>11. CASE pc[c] # "error"
  <2>1. pc[c] \in {"align", "map", "submit", "queued"}
    BY <1>2, <1>6, <1>11 DEF Labels
  <2>2. Mapped(c) <= num[c]
        /\ (pc[c] # "queued" => Mapped(c) <= seg[c] /\ seg[c] <= num[c])
        /\ (pc[c] \in {"align", "map"} => Mapped(c) = seg[c] - 1)
        /\ (pc[c] = "submit" => Mapped(c) = seg[c])
    BY <1>2, <1>5, <1>6, <2>1 DEF Mapped, CallInv
  <2>3. caio[c].cmpl # num[c]
    BY <1>2, <1>6, <2>2
  <2>4. ~stale /\ caio[c].alive /\ iocb[c] = "live"
    BY <1>4, <1>5, <2>1, <2>3 DEF MemoryInv
  <2>5. /\ pinned'[c] = pinned[c] \ {i} /\ caio'[c].cmpl = caio[c].cmpl + 1
        /\ caio'[c].res = caio[c].res + (IF ok THEN 1 ELSE 0) /\ touched' = touched
        /\ \/ caio[c].cmpl + 1 = num[c] /\ iocb'[c] = "completed"
           \/ caio[c].cmpl + 1 # num[c] /\ caio'[c].alive /\ iocb'[c] = "live"
    BY <1>4, <2>4
  <2>6. /\ caio[c].cmpl + Cardinality(pinned[c]) <= Mapped(c) /\ caio[c].res <= caio[c].cmpl
        /\ good[c] \cap pinned[c] = {} /\ Cardinality(good[c]) = caio[c].res
    BY <1>2, <1>5, <1>11 DEF BooksInv
  <2>7. Cardinality(pinned'[c]) = Cardinality(pinned[c]) - 1
    BY <1>2, <2>5
  <2>8. pc[c] = "submit" => seg[c] \in pinned'[c] /\ Cardinality(pinned'[c]) >= 1
    <3>1. pc[c] = "submit" => seg[c] \in pinned'[c]
      BY <1>5, <1>6, <1>9, <2>5 DEF CallInv
    <3>2. pinned'[c] \in SUBSET Segs
      BY <1>2, <2>5, CallTypes
    <3> QED
      BY <3>1, <3>2, CountSegs
  <2>9. caio[c].cmpl + 1 = num[c] => pc[c] = "queued"
    <3>1. CASE pc[c] \in {"align", "map"}
      BY <1>2, <1>6, <2>2, <3>1
    <3>2. CASE pc[c] = "submit"
      BY <1>2, <1>6, <2>2, <2>6, <2>7, <2>8, <3>2
    <3> QED
      BY <2>1, <3>1, <3>2
  <2>10. MemoryInv(c)'
    BY <1>3, <1>6, <2>5, <2>9 DEF MemoryInv
  <2>11. CallInv(c)' /\ TouchedInv(c)'
    BY <1>3, <1>5, <2>1, <2>5, <2>8 DEF CallInv, TouchedInv
  <2>12. /\ good'[c] \cap pinned'[c] = {}
         /\ pinned'[c] \subseteq 1..Mapped(c) /\ good'[c] \subseteq 1..Mapped(c)
    BY <1>4, <1>5, <1>8, <2>5, <2>6 DEF BooksInv
  <2>13. caio'[c].cmpl + Cardinality(pinned'[c]) <= Mapped(c) /\ caio'[c].res <= caio'[c].cmpl
    BY <1>6, <2>5, <2>6, <2>7
  <2>14. Cardinality(good'[c]) = caio'[c].res
    <3>1. i \notin good[c]
      BY <1>2, <2>6
    <3>2. Cardinality(good[c] \cup {i}) = Cardinality(good[c]) + 1
      BY <1>6, <3>1, CountSegs
    <3>3. CASE ok
      BY <1>4, <2>5, <2>6, <3>2, <3>3
    <3>4. CASE ~ok
      BY <1>4, <1>6, <2>5, <2>6, <3>4
    <3> QED
      BY <3>3, <3>4
  <2>15. BooksInv(c)'
    BY <1>3, <1>7, <2>12, <2>13, <2>14 DEF BooksInv
  <2> QED
    BY <2>10, <2>11, <2>15 DEF CallSafe
<1> QED
  BY <1>10, <1>11

LEMMA PairsDiffer ==
  ASSUME NEW S, NEW T, NEW x \in S \X T, NEW y \in S \X T, x[1] = y[1], x # y
  PROVE  x[2] # y[2]
OBVIOUS

LEMMA ServiceKeeps ==
  ASSUME TypeOK, AioInv, Service
  PROVE  AioInv'
<1>1. PICK c, i : c = Head(list)[1] /\ i = Head(list)[2]
  OBVIOUS
<1>2. list # <<>>
  BY DEF Service
<1>3. c \in Calls /\ Head(list) = list[1] /\ 1 \in 1..Len(list)
  BY <1>1, <1>2, HeadFacts
<1>4. CallSafe(c)'
  BY <1>1, ServedSafe
<1>5. /\ list' = Tail(list) /\ UNCHANGED <<pc, num, seg>>
      /\ \A d \in Calls : d # c =>
              /\ caio'[d] = caio[d] /\ iocb'[d] = iocb[d] /\ pinned'[d] = pinned[d]
              /\ good'[d] = good[d] /\ (d \in touched' => d \in touched)
  BY <1>1, ServiceStep
<1>6. pinned[c] \ {i} \subseteq pinned'[c]
  <2>1. pinned'[c] = pinned[c] \ {i} \/ pinned'[c] = pinned[c]
    BY <1>1, ServiceStep
  <2> QED
    BY <2>1
<1>7. ASSUME NEW d \in Calls, d # c
      PROVE  CallSafe(d)'
  BY <1>5, <1>7, Kept DEF AioInv
<1>8. \A d : Last(d)' = Last(d)
  BY <1>5 DEF Last, Mapped
<1>9. /\ Len(list') = Len(list) - 1 /\ Len(list) \in Nat
      /\ \A k \in 1..Len(list') : list'[k] = list[k + 1]
  BY <1>2, <1>5, ListTyped, HeadTailProperties
<1>10. ListInv
  BY DEF AioInv
<1>11. ASSUME NEW k \in 1..Len(list')
       PROVE  (list[k][2] \in pinned[list[k][1]] /\ list[k][2] <= Last(list[k][1]))'
  <2>1. k + 1 \in 1..Len(list) /\ k + 1 # 1 /\ list'[k] = list[k + 1]
    BY <1>9
  <2>2. list[k + 1] \in Calls \X Segs
    BY <2>1, ListTyped
  <2>3. PICK d \in Calls : d = list[k + 1][1]
    BY <2>2
  <2>4. list[k + 1][2] \in pinned[d] /\ list[k + 1][2] <= Last(d)
    BY <1>10, <2>1, <2>3 DEF ListInv
  <2>5. list[k + 1] # list[1]
    BY <1>3, <1>10, <2>1 DEF ListInv
  <2>6. list[1] \in Calls \X Segs
    BY <1>3, ListTyped
  <2>7. d = c => list[k + 1][2] # i
    <3>1. d = c => list[k + 1][1] = list[1][1]
      BY <1>1, <1>3, <2>3
    <3>2. d = c => list[k + 1][2] # list[1][2]
      BY <2>2, <2>5, <2>6, <3>1, PairsDiffer
    <3> QED
      BY <1>1, <1>3, <3>2
  <2>8. list[k + 1][2] \in pinned'[d]
    BY <1>5, <1>6, <2>3, <2>4, <2>7
  <2>9. list[k + 1][2] <= Last(d)'
    BY <1>8, <2>4
  <2> QED
    BY <2>1, <2>3, <2>8, <2>9
<1>12. ASSUME NEW j \in 1..Len(list'), NEW k \in 1..Len(list'), list'[j] = list'[k]
       PROVE  j = k
  <2>1. j + 1 \in 1..Len(list) /\ k + 1 \in 1..Len(list) /\ list[j + 1] = list[k + 1]
    BY <1>9, <1>12
  <2>2. j + 1 = k + 1
    BY <1>10, <2>1 DEF ListInv
  <2> QED
    BY <1>9, <2>2
<1> QED
  BY <1>4, <1>7, <1>11, <1>12 DEF AioInv, ListInv

-----------------------------------------------------------------------------
(* The theorems.                                                           *)

LEMMA InitSafe ==
  ASSUME Init
  PROVE  TypeOK /\ AioInv
<1>1. TypeOK
  <2>1. NoCaio \in CaioType /\ 1 \in Segs
    BY AioAssumption DEF AioAssumption, NoCaio, CaioType, Segs
  <2>2. caio \in [Calls -> CaioType] /\ seg \in [Calls -> Segs]
    BY <2>1 DEF Init
  <2>3. list \in Seq(Calls \X Segs)
    BY EmptySeq DEF Init
  <2>4. num \in [Calls -> 0..MaxSegs]
    BY AioAssumption DEF Init, AioAssumption
  <2> QED
    BY <2>2, <2>3, <2>4 DEF Init, TypeOK, CaioType, Segs
<1>2. ASSUME NEW c \in Calls
      PROVE  CallSafe(c)
  <2>1. caio[c].cmpl = 0 /\ caio[c].res = 0
    BY DEF Init, NoCaio
  <2>2. /\ pc[c] = "idle" /\ seg[c] = 1 /\ iocb[c] = "free" /\ pinned[c] = {} /\ good[c] = {}
        /\ touched = {}
    BY DEF Init
  <2> QED
    BY <2>1, <2>2 DEF CallSafe, CallInv, BooksInv, MemoryInv, TouchedInv
<1>3. ListInv
  <2>1. Len(list) = 0
    BY EmptySeq DEF Init
  <2> QED
    BY <2>1 DEF ListInv
<1> QED
  BY <1>1, <1>2, <1>3 DEF AioInv

LEMMA StepSafe ==
  ASSUME TypeOK, AioInv, [Next]_vars
  PROVE  AioInv'
<1>1. CASE Next /\ ~EngineError
  BY <1>1, BeginKeeps, AlignKeeps, MapBufKeeps, SubmitKeeps, ReapKeeps, ServiceKeeps
  DEF Next, Submitter
<1>2. CASE UNCHANGED vars \/ EngineError
  <2>1. \A c \in Calls : CallSafe(c)'
    BY <1>2, Kept DEF AioInv, EngineError, vars, callVars
  <2>2. ListInv'
    BY <1>2 DEF EngineError, AioInv, ListInv, Last, Mapped, vars, callVars
  <2> QED
    BY <2>1, <2>2 DEF AioInv
<1> QED
  BY <1>1, <1>2

LEMMA BooksKept == Spec => [](TypeOK /\ AioInv)
<1>1. Init => TypeOK /\ AioInv
  BY InitSafe
<1>2. TypeOK /\ AioInv /\ [Next]_vars => (TypeOK /\ AioInv)'
  BY StepTyped, StepSafe
<1> QED
  BY <1>1, <1>2, PTL DEF Spec

\* Every variable of the asynchronous calls keeps its type: in particular
\* cmpl_cnt never passes the number of segments.
THEOREM TypeCorrect == Spec => []TypeOK
BY BooksKept, PTL

\* When the iocb of an accepted vector is completed, every segment has been
\* served and unpinned and the result is the number of segments moved, for any
\* interleaving of the callbacks with the submission.
THEOREM AnswerFinal == Spec => []AnswerIsFinal
<1>1. TypeOK /\ AioInv => AnswerIsFinal
  <2> SUFFICES ASSUME TypeOK, AioInv, NEW c \in Calls, iocb[c] = "completed", pc[c] # "error"
               PROVE  /\ pc[c] = "queued" /\ seg[c] = num[c]
                      /\ \A k \in DOMAIN list : list[k][1] # c
                      /\ pinned[c] = {}
                      /\ caio[c].res = Cardinality(good[c])
    BY DEF AnswerIsFinal
  <2>1. CallInv(c) /\ BooksInv(c) /\ MemoryInv(c)
    BY DEF AioInv, CallSafe
  <2>2. pc[c] # "idle"
    BY <2>1 DEF CallInv
  <2>3. pc[c] = "queued" /\ caio[c].cmpl = num[c] /\ num[c] > 0
    BY <2>1, <2>2, CallTypes DEF MemoryInv, Labels
  <2>4. seg[c] = num[c]
    BY <2>1, <2>3 DEF CallInv
  <2>5. caio[c].cmpl + Cardinality(pinned[c]) <= num[c]
    BY <2>1, <2>3 DEF BooksInv, Mapped
  <2>6. Cardinality(pinned[c]) = 0
    <3>1. seg[c] \in Nat /\ Cardinality(pinned[c]) \in Nat
      BY CallTypes
    <3> QED
      BY <2>3, <2>4, <2>5, <3>1
  <2>7. IsFiniteSet(pinned[c])
    BY CallTypes, CountSegs
  <2>8. pinned[c] = {}
    BY <2>6, <2>7, FS_EmptySet
  <2>9. \A k \in DOMAIN list : list[k][1] # c
    BY <2>8, NotListed, ListTyped
  <2>10. caio[c].res = Cardinality(good[c])
    BY <2>1, <2>3 DEF BooksInv
  <2> QED
    BY <2>3, <2>4, <2>8, <2>9, <2>10
<1> QED
  BY <1>1, BooksKept, PTL

\* A callback finds its memory freed only after a later segment of the vector
\* was misaligned or could not be mapped.
THEOREM FreedByErrorOnly == Spec => []FreedOnlyByLateError
<1>1. TypeOK /\ AioInv => FreedOnlyByLateError
  BY Types DEF AioInv, CallSafe, TouchedInv, FreedOnlyByLateError
<1> QED
  BY <1>1, BooksKept, PTL
=============================================================================
