-------------------------------- MODULE Aio ---------------------------------
(***************************************************************************)
(* Asynchronous file I/O on a DMA node: cdev_aio_write() and               *)
(* cdev_aio_read() submit every segment of a vector as a request of its    *)
(* own, and async_io_handler(), the callback of a request, completes the   *)
(* kernel's iocb after the last one.  The submitting thread and the        *)
(* callbacks, which engine_service() runs one at a time, share struct      *)
(* cdev_async_io without a common lock.                                    *)
(*                                                                         *)
(* The engine serves its queue in order.  A device reset shows here only   *)
(* as a refused submission; what it does to queued transfers is in         *)
(* XdmaEngine.  When the system call returns an error the kernel completes *)
(* and frees the iocb itself.  A segment counts as one unit of data.       *)
(***************************************************************************)
EXTENDS Naturals, Sequences, FiniteSets

CONSTANTS
  Calls,   \* asynchronous system calls (iocbs) on one engine
  MaxSegs  \* bound: segments of a vector

ASSUME AioAssumption == MaxSegs \in Nat \ {0}

VARIABLES
  pc,      \* control of each system call
  num,     \* count, the segments of the vector
  seg,     \* i, the segment at hand
  caio,    \* struct cdev_async_io: allocated, cmpl_cnt, res
  iocb,    \* the kernel's iocb: free, live, or completed
  list,    \* transfer_list of the engine, of <<call, segment>>
  stuck,   \* the engine has stopped on an error and left the list alone
  pinned,  \* segments whose user pages are pinned and mapped
  refused, \* history: a submission of the call was refused
  good,    \* history: segments whose data the hardware has moved
  touched  \* history: calls whose freed memory a callback has used

callVars == <<pc, num, seg>>
vars == <<callVars, caio, iocb, list, stuck, pinned, refused, good, touched>>

NoCaio == [alive |-> FALSE, cmpl |-> 0, res |-> 0]

TypeOK ==
  /\ pc \in [Calls -> {"idle", "align", "map", "submit", "queued", "error"}]
  /\ num \in [Calls -> 0..MaxSegs]
  /\ seg \in [Calls -> 1..MaxSegs]
  /\ caio \in [Calls -> [alive: BOOLEAN, cmpl: 0..MaxSegs, res: 0..MaxSegs]]
  /\ iocb \in [Calls -> {"free", "live", "completed"}]
  /\ list \in Seq(Calls \X (1..MaxSegs))
  /\ stuck \in BOOLEAN
  /\ pinned \in [Calls -> SUBSET (1..MaxSegs)]
  /\ refused \in [Calls -> BOOLEAN]
  /\ good \in [Calls -> SUBSET (1..MaxSegs)]
  /\ touched \subseteq Calls

Init ==
  /\ pc = [c \in Calls |-> "idle"]
  /\ num = [c \in Calls |-> 0]
  /\ seg = [c \in Calls |-> 1]
  /\ caio = [c \in Calls |-> NoCaio]
  /\ iocb = [c \in Calls |-> "free"]
  /\ list = <<>> /\ stuck = FALSE
  /\ pinned = [c \in Calls |-> {}]
  /\ refused = [c \in Calls |-> FALSE]
  /\ good = [c \in Calls |-> {}]
  /\ touched = {}

Goto(c, label) == pc' = [pc EXCEPT ![c] = label]

-----------------------------------------------------------------------------
(* cdev_aio_write() and cdev_aio_read().                                   *)

\* kmem_cache_alloc() and memset().
Mut_NoMemset(c) == [caio[c] EXCEPT !.alive = TRUE]
FreshCaio(c) == [alive |-> TRUE, cmpl |-> 0, res |-> 0]

\* The structure is allocated; req_cnt is the number of segments from the start.
\* Without a segment -EIOCBQUEUED is returned with nothing submitted.
Begin(c) ==
  /\ pc[c] = "idle"
  /\ iocb[c] = "free"
  /\ \E n \in 0..MaxSegs :
        /\ num' = [num EXCEPT ![c] = n]
        /\ Goto(c, IF n = 0 THEN "queued" ELSE "align")
  /\ caio' = [caio EXCEPT ![c] = FreshCaio(c)]
  /\ iocb' = [iocb EXCEPT ![c] = "live"]
  /\ UNCHANGED <<seg, list, stuck, pinned, refused, good, touched>>

\* return rv: the kernel completes the iocb with the error and frees it.
Fail(c) == Goto(c, "error") /\ iocb' = [iocb EXCEPT ![c] = "completed"]

\* check_transfer_align(): on failure the structure is freed at once.
Align(c) ==
  /\ pc[c] = "align"
  /\ \/ Goto(c, "map") /\ UNCHANGED <<caio, iocb>>
     \/ Fail(c) /\ caio' = [caio EXCEPT ![c].alive = FALSE]
  /\ UNCHANGED <<num, seg, list, stuck, pinned, refused, good, touched>>

\* char_sgdma_map_user_buf_to_sgl(): on failure the structure is left behind.
MapBuf(c) ==
  /\ pc[c] = "map"
  /\ \/ /\ Goto(c, "submit")
        /\ pinned' = [pinned EXCEPT ![c] = @ \cup {seg[c]}]
        /\ UNCHANGED iocb
     \/ Fail(c) /\ UNCHANGED pinned
  /\ UNCHANGED <<num, seg, caio, list, stuck, refused, good, touched>>

\* xdma_xfer_submit_nowait(), whose result is ignored; transfer_queue() starts an
\* engine that has stopped.  Then the next segment or -EIOCBQUEUED.
xdma_xfer_submit_nowait(c) ==
  /\ pc[c] = "submit"
  /\ \/ list' = Append(list, <<c, seg[c]>>) /\ stuck' = FALSE /\ UNCHANGED refused
     \/ refused' = [refused EXCEPT ![c] = TRUE] /\ UNCHANGED <<list, stuck>>
  /\ \/ seg[c] = num[c] /\ Goto(c, "queued") /\ UNCHANGED seg
     \/ seg[c] # num[c] /\ Goto(c, "align") /\ seg' = [seg EXCEPT ![c] = @ + 1]
  /\ UNCHANGED <<num, caio, iocb, pinned, good, touched>>

-----------------------------------------------------------------------------
(* The engine and the callback.                                            *)

\* The segments cmpl_cnt is compared with.
Mut_SoFar(c) == IF pc[c] = "queued" THEN num[c] ELSE seg[c] - 1
Mut_OneMore(c) == num[c] + 1
req_cnt(c) == num[c]

\* The segment's length if its transfer is COMPLETED, nothing if it FAILED; the
\* callback is told no error either way.
Mut_AlwaysLength(ok) == 1
xdma_xfer_completion(ok) == IF ok THEN 1 ELSE 0

\* async_io_handler(): nobody else takes the structure's lock and nobody sets
\* cancel, so the callback always goes on.
Unmapped(c, i) == [pinned EXCEPT ![c] = @ \ {i}]

async_io_handler(c, i, ok) ==
  LET n == caio[c].cmpl + 1
      r == caio[c].res + xdma_xfer_completion(ok)
  IN /\ pinned' = Unmapped(c, i)
     /\ \/ /\ n = req_cnt(c)             \* ki_complete(), kmem_cache_free()
           /\ iocb' = [iocb EXCEPT ![c] = "completed"]
           /\ caio' = [caio EXCEPT ![c] = [alive |-> FALSE, cmpl |-> n, res |-> r]]
        \/ /\ n # req_cnt(c)
           /\ caio' = [caio EXCEPT ![c] = [alive |-> TRUE, cmpl |-> n, res |-> r]]
           /\ UNCHANGED iocb

\* engine_service() ends the first transfer, COMPLETED or FAILED, and runs its
\* callback.  What a callback does with freed memory is left open: it may go
\* on as if nothing had happened or end there.
Service ==
  /\ list # <<>>
  /\ ~stuck
  /\ list' = Tail(list)
  /\ \E ok \in BOOLEAN :
       LET c == Head(list)[1]
           i == Head(list)[2]
           stale == ~caio[c].alive \/ iocb[c] # "live"
       IN /\ good' = [good EXCEPT ![c] = IF ok THEN @ \cup {i} ELSE @]
          /\ touched' = touched \cup (IF stale THEN {c} ELSE {})
          /\ \/ async_io_handler(c, i, ok)
             \/ stale /\ UNCHANGED <<caio, iocb, pinned>>
  /\ UNCHANGED <<callVars, stuck, refused>>

\* An error before the first descriptor of a run: engine_service() finds a count
\* of 0 and neither ends the transfer nor starts the engine again.
EngineError ==
  /\ list # <<>>
  /\ ~stuck
  /\ stuck' = TRUE
  /\ UNCHANGED <<callVars, caio, iocb, list, pinned, refused, good, touched>>

\* The user has seen the result; the iocb and what is left of the call are gone.
Reap(c) ==
  /\ pc[c] \in {"queued", "error"}
  /\ iocb[c] = "completed"
  /\ \A k \in DOMAIN list : list[k][1] # c
  /\ Goto(c, "idle")
  /\ num' = [num EXCEPT ![c] = 0]
  /\ seg' = [seg EXCEPT ![c] = 1]
  /\ caio' = [caio EXCEPT ![c].alive = FALSE]
  /\ iocb' = [iocb EXCEPT ![c] = "free"]
  /\ pinned' = [pinned EXCEPT ![c] = {}]
  /\ refused' = [refused EXCEPT ![c] = FALSE]
  /\ good' = [good EXCEPT ![c] = {}]
  /\ touched' = touched \ {c}
  /\ UNCHANGED <<list, stuck>>

-----------------------------------------------------------------------------

Submitter(c) == Align(c) \/ MapBuf(c) \/ xdma_xfer_submit_nowait(c)

Next ==
  \/ \E c \in Calls : Begin(c) \/ Submitter(c) \/ Reap(c)
  \/ Service \/ EngineError

Spec == Init /\ [][Next]_vars

\* The submitting thread runs, and an engine that is not stuck gets on with the
\* first transfer: the hardware raises an interrupt, whose work item runs.
FairSpec ==
  /\ Spec
  /\ \A c \in Calls : WF_vars(Submitter(c))
  /\ WF_vars(Service)

-----------------------------------------------------------------------------
(* Properties.                                                             *)

\* When the iocb of an accepted vector is completed, the engine has ended every
\* segment, no page of it is pinned any more, and the result counts exactly the
\* segments whose data was moved: however the callbacks of the first segments
\* interleave with the submission of the later ones.
AnswerIsFinal ==
  \A c \in Calls : iocb[c] = "completed" /\ pc[c] # "error" =>
    /\ pc[c] = "queued" /\ seg[c] = num[c]
    /\ \A k \in DOMAIN list : list[k][1] # c
    /\ pinned[c] = {}
    /\ caio[c].res = Cardinality(good[c])

\* A callback finds the call's memory freed only if a segment after the first one
\* was misaligned or could not be mapped: neither an early callback nor a
\* refused submission lets it be freed while others are still to come.
FreedOnlyByLateError ==
  \A c \in touched : pc[c] = "error" /\ seg[c] > 1

\* A vector with segments, all of them accepted, is completed, unless the engine
\* stops on an error with no descriptor done: what is listed then waits until
\* somebody submits again.
Completes ==
  \A c \in Calls :
    pc[c] = "queued" /\ num[c] > 0 /\ ~refused[c] ~> iocb[c] # "live" \/ stuck
=============================================================================
