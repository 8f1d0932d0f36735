-------------------------------- MODULE Ring --------------------------------
(***************************************************************************)
(* The descriptor ring of one engine and the requests that are cut into    *)
(* chains in it: xdma_init_request() cuts a scatter list into software     *)
(* descriptors, transfer_init() copies as many as fit before the end of    *)
(* the ring into a chain, xdma_xfer_aperture() fills the ring from the     *)
(* list directly.  Blocking callers hold desc_lock and reuse tfer[0] when  *)
(* the wait is over; asynchronous ones queue all their transfers and give  *)
(* the entries back in xdma_xfer_completion() after the last one.          *)
(*                                                                         *)
(* The device stays online and every transfer completes, in queue order:   *)
(* errors, timeouts and refusals, and the count desc_used, are the subject *)
(* of XdmaEngine.  A stream engine may meet the end of a packet before the *)
(* end of a chain.  The address mode does not change.  Lengths are in the  *)
(* smallest unit of a transfer, addresses relative to the start of a list  *)
(* entry, of the ring, and of the window in the FPGA.                      *)
(***************************************************************************)
EXTENDS Integers, Sequences, FiniteSets

CONSTANTS
  Reqs,    \* requests
  Kinds,   \* what they may be: "sync", "async", "aperture"
  Lists,   \* scatter lists (sequences of lengths) a plain request may have
  Wide,    \* scatter lists an aperture request may have
  Size,    \* engine->desc_max, entries of the ring
  Block,   \* XDMA_MAX_ADJ_BLOCK_SIZE
  Blen,    \* desc_blen_max, largest length of a descriptor
  Aperture,\* the aperture of aperture requests, as the ioctl passes it
  Modes,   \* engines: "incr", "fixed" (non_incr_addr), "stream" (AXI stream C2H)
  None     \* nobody, no entry

Entries == 0..(Size - 1)

\* A ring entry; its piece says which part of the host list it moves where.
Desc(pieces) == [own: Reqs, piece: pieces, next: Entries \cup {None},
                 adj: 0..(Block - 1), stop: BOOLEAN]

ASSUME RingAssumption ==
  /\ Kinds \subseteq {"sync", "async", "aperture"}
  /\ Modes \subseteq {"incr", "fixed", "stream"}
  /\ Lists \cup Wide \subseteq Seq(Nat \ {0}) \ {<<>>}
  /\ {Size, Block, Blen, Aperture} \subseteq Nat \ {0}
  /\ None \notin Reqs \cup Desc([sg: Int, off: Int, len: Int, at: Int, ep: Int])

VARIABLES
  descIdx,  \* engine->desc_idx
  ring,     \* engine->desc: the descriptors
  list,     \* engine->transfer_list, of <<request, index of its transfer>>
  req,      \* the struct xdma_request_cb of each request and its caller's control
  descLock, \* engine->desc_lock
  fill,     \* xdma_xfer_aperture() filling the ring under engine->lock
  over,     \* history: an entry was taken that a live transfer still had
  mode      \* what the engine is: a member of Modes

vars == <<descIdx, ring, list, req, descLock, fill, over, mode>>

Least(a, b) == IF a <= b THEN a ELSE b

\* The sums of the first 0, 1, ... elements of a sequence, and of all.
Sums(s) == LET sum[i \in 0..Len(s)] == IF i = 0 THEN 0 ELSE sum[i - 1] + s[i] IN sum
Total(s) == Sums(s)[Len(s)]

\* Bit by bit: in each round the lowest bit of both numbers, then their halves;
\* m rounds are enough for m.
And(n, m) ==
  LET and[i \in Nat] ==
        [p \in Int \X Nat |->
           IF i = 0 THEN 0
           ELSE 2 * and[i - 1][<<p[1] \div 2, p[2] \div 2>>]
                + IF p[1] % 2 = 1 /\ p[2] % 2 = 1 THEN 1 ELSE 0]
  IN and[m][<<n, m>>]

NoReq == [pc |-> "idle", kind |-> "sync", sgl |-> <<>>, idx |-> 0, at |-> 0,
          sgIdx |-> 0, sgOff |-> 0, astray |-> FALSE, eop |-> FALSE,
          tfer |-> <<>>]
NoFill == [own |-> None, i |-> 0, sg |-> 0, off |-> 0, tlen |-> 0, ep |-> 0,
           cnt |-> 0]

-----------------------------------------------------------------------------
(* Pure helpers.                                                           *)

\* How many descriptors follow the next one in its fetch block.
Mut_NoAlign(remaining, next) ==
  IF remaining <= 1 THEN 0 ELSE Least(Block - 1, remaining - 1)
xdma_get_next_adj(remaining, next) ==
  IF remaining <= 1 THEN 0
  ELSE Least(Block - (next % Block) - 1, remaining - 1)

\* The loop that cuts a list into software descriptors is at unit o of list entry
\* sg, n units into the list: what the next descriptor moves (at counts the units
\* before it), and where the loop is after it.
Piece(sgl, c) ==
  [sg |-> c.sg, off |-> c.o, len |-> Least(sgl[c.sg] - c.o, Blen), at |-> c.n,
   ep |-> c.n]
Advance(sgl, c) ==
  IF c.sg > Len(sgl) THEN c
  ELSE IF sgl[c.sg] - c.o > Blen
       THEN [sg |-> c.sg, o |-> c.o + Blen, n |-> c.n + Blen]
       ELSE [sg |-> c.sg + 1, o |-> 0, n |-> c.n + sgl[c.sg] - c.o]
Cuts(sgl) ==
  LET cut[j \in Nat] == IF j = 0 THEN [sg |-> 1, o |-> 0, n |-> 0]
                        ELSE Advance(sgl, cut[j - 1])
  IN cut

\* The software descriptors of a list.  Each moves at least one unit.
xdma_init_request(sgl) ==
  LET cut == Cuts(sgl)
      cnt == CHOOSE j \in 0..Total(sgl) :
               cut[j].sg > Len(sgl) /\ \A k \in 0..(j - 1) : cut[k].sg <= Len(sgl)
  IN [j \in 1..cnt |-> Piece(sgl, cut[j - 1])]

\* The room xdma_init_request() allocates before it cuts the list.
SdescRoom(sgl) ==
  Len(sgl) + Total([i \in 1..Len(sgl) |->
    IF sgl[i] > Blen THEN (sgl[i] + Blen - 1) \div Blen ELSE 0])

\* The descriptors of a chain of n pieces p[1..n] that starts at ring entry s:
\* linked in order, the last one with no next and with STOPPED.
Chain(r, p, s, n) ==
  [k \in s..(s + n - 1) |->
     [own   |-> r,
      piece |-> p[k - s + 1],
      next  |-> IF k < s + n - 1 THEN k + 1 ELSE None,
      adj   |-> xdma_get_next_adj(s + n - k - 1, k + 1),
      stop  |-> k = s + n - 1]]

-----------------------------------------------------------------------------

PieceType == [sg: Nat, off: Nat, len: Nat, at: Nat, ep: Nat]
TferType == [start: Entries, num: 1..Size, done: BOOLEAN, last: BOOLEAN,
             age: 1..(Size + 1)]

TypeOK ==
  /\ descIdx \in Entries
  /\ \A k \in Entries : ring[k] = None \/ ring[k] \in Desc(PieceType)
  /\ list \in Seq(Reqs \X Nat)
  /\ \A r \in Reqs :
       /\ req[r].pc \in {"idle", "mutex", "init", "queue", "wait", "queued"}
       /\ req[r].tfer \in Seq(TferType)
       /\ req[r].at \in Nat
       /\ req[r].idx <= Len(xdma_init_request(req[r].sgl))
  /\ descLock \in Reqs \cup {None}
  /\ fill.own \in Reqs \cup {None}
  /\ over \in BOOLEAN
  /\ mode \in Modes

Init ==
  /\ descIdx = 0
  /\ ring = [k \in Entries |-> None]
  /\ list = <<>>
  /\ req = [r \in Reqs |-> NoReq]
  /\ descLock = None
  /\ fill = NoFill
  /\ over = FALSE
  /\ mode \in Modes

Set(r, new) == req' = [req EXCEPT ![r] = new]
LockFree == fill.own = None

\* A new transfer of n entries: every live transfer gets older by n.
Grown(t, n) == [t EXCEPT !.age = Least(@ + n, Size + 1)]
Aged(n) ==
  [r \in Reqs |-> [req[r] EXCEPT !.tfer = [k \in DOMAIN @ |-> Grown(@[k], n)]]]

\* The next n entries reach those of a transfer that is not yet given back.
Overrun(n) ==
  \E r \in Reqs : \E k \in DOMAIN req[r].tfer : req[r].tfer[k].age + n > Size

\* desc_idx and the new transfer of request r, whose record is else q.
Take(r, q, n, last) ==
  LET t == [start |-> descIdx, num |-> n, done |-> FALSE, last |-> last,
            age |-> n]
      aged == Aged(n)
  IN /\ req' = [aged EXCEPT ![r] = [q EXCEPT !.tfer = Append(aged[r].tfer, t)]]
     /\ over' = (over \/ Overrun(n))
     /\ descIdx' = (descIdx + n) % Size

-----------------------------------------------------------------------------
(* Submission.                                                             *)

\* Entry of xdma_xfer_submit(), xdma_xfer_submit_nowait(), xdma_xfer_aperture().
Begin(r) ==
  /\ req[r].pc = "idle"
  /\ \E kind \in IF mode = "stream" THEN Kinds \ {"aperture"} ELSE Kinds :
     \E sgl \in IF kind = "aperture" THEN Wide ELSE Lists :
        Set(r, [NoReq EXCEPT !.kind = kind, !.sgl = sgl,
                             !.pc = IF kind = "async" THEN "init" ELSE "mutex"])
  /\ UNCHANGED <<descIdx, ring, list, descLock, fill, over, mode>>

LockDesc(r) ==
  /\ req[r].pc = "mutex"
  /\ descLock = None
  /\ descLock' = r
  /\ Set(r, [req[r] EXCEPT !.pc = "init"])
  /\ UNCHANGED <<descIdx, ring, list, fill, over, mode>>

\* The FPGA's address in the descriptor in ring entry k, at units into its request.
\* A stream has none: its descriptors carry the place of their result instead.
Address(at, k) ==
  IF mode = "stream" THEN k ELSE IF mode = "fixed" THEN 0 ELSE at

\* How many of the left descriptors go into the next transfer.
Mut_NoCut(left) == Least(left, Size)
ChainLength(left) ==
  LET n == Least(left, Size)
  IN IF descIdx + n >= Size THEN Size - descIdx ELSE n

\* transfer_init(), transfer_build(), and the caller's last_in_request.
transfer_init(r) ==
  /\ req[r].pc = "init"
  /\ req[r].kind # "aperture"
  /\ LockFree
  /\ LET p == xdma_init_request(req[r].sgl)
         i == req[r].idx
         n == ChainLength(Len(p) - i)
         b == [j \in 1..n |->
                 [p[i + j] EXCEPT !.ep = Address(p[i + j].at, descIdx + j - 1)]]
         c == Chain(r, b, descIdx, n)
     IN /\ ring' = [k \in Entries |-> IF k \in DOMAIN c THEN c[k] ELSE ring[k]]
        /\ Take(r, [req[r] EXCEPT !.pc = "queue", !.idx = i + n,
                                  !.at = p[i + n].at + p[i + n].len],
                n, i + n = Len(p))
  /\ UNCHANGED <<list, descLock, fill, mode>>

transfer_queue(r) ==
  /\ req[r].pc = "queue"
  /\ LockFree
  /\ list' = Append(list, <<r, Len(req[r].tfer)>>)
  /\ LET last == req[r].tfer[Len(req[r].tfer)].last
     IN Set(r, [req[r] EXCEPT !.pc =
          IF req[r].kind # "async" THEN "wait"
          ELSE IF last THEN "queued" ELSE "init"])
  /\ UNCHANGED <<descIdx, ring, descLock, fill, over, mode>>

-----------------------------------------------------------------------------
(* xdma_xfer_aperture(): one pass fills entries up to the end of the ring. *)

\* The pass starts in list entry sg_idx at sg_offset, but the pointer to the
\* list entry starts from the first one again.
ApertureStart(r) ==
  /\ req[r].pc = "init"
  /\ req[r].kind = "aperture"
  /\ LockFree
  /\ LET q == req[r]
     IN /\ fill' = [own |-> r, i |-> q.sgIdx, sg |-> 1, off |-> q.sgOff,
                    tlen |-> q.sgl[1] - q.sgOff, ep |-> And(q.at, Aperture - 1),
                    cnt |-> 0]
        /\ Set(r, [q EXCEPT !.astray = @ \/ q.sgIdx # 0])
  /\ UNCHANGED <<descIdx, ring, list, descLock, over, mode>>

FillDone == fill.i = Len(req[fill.own].sgl) \/ descIdx + fill.cnt = Size

\* ep_addr wraps at the end of the aperture, and so does the descriptor.
Mut_NoWrapEp(ep) == ep
WrapEp(ep) == IF ep > Aperture - 1 THEN 0 ELSE ep

ApertureDesc ==
  /\ fill.own # None
  /\ ~FillDone
  /\ LET r == fill.own
         q == req[r]
         ep == WrapEp(fill.ep)
         want == Least(fill.tlen, Least(Aperture, Blen))
         len == IF ep + want > Aperture - 1 THEN Aperture - ep ELSE want
         p == [sg |-> fill.sg, off |-> fill.off, len |-> len, at |-> q.at,
               ep |-> ep]
         all == fill.tlen = len
     IN /\ ring' = [ring EXCEPT ![descIdx + fill.cnt] =
              [own |-> r, piece |-> p, next |-> None, adj |-> 0, stop |-> FALSE]]
        /\ Set(r, [q EXCEPT !.at = @ + len])
        /\ fill' = [own |-> r, ep |-> ep + len, cnt |-> fill.cnt + 1,
                    i   |-> IF all THEN fill.i + 1 ELSE fill.i,
                    sg  |-> IF all THEN fill.sg + 1 ELSE fill.sg,
                    off |-> IF all THEN 0 ELSE fill.off + len,
                    tlen |-> IF ~all THEN fill.tlen - len
                             ELSE IF fill.sg < Len(q.sgl) THEN q.sgl[fill.sg + 1]
                             ELSE 0]
  /\ over' = (over \/ Overrun(fill.cnt + 1))
  /\ UNCHANGED <<descIdx, list, descLock, mode>>

\* The entries are linked; desc_idx moves on and the engine lock is released.
ApertureEnd ==
  /\ fill.own # None
  /\ FillDone
  /\ LET r == fill.own
         n == fill.cnt
         p == [j \in 1..n |-> ring[descIdx + j - 1].piece]
         c == Chain(r, p, descIdx, n)
     IN /\ ring' = [k \in Entries |-> IF k \in DOMAIN c THEN c[k] ELSE ring[k]]
        /\ Take(r, [req[r] EXCEPT !.pc = "queue", !.sgIdx = fill.i,
                                  !.sgOff = fill.off],
                n, req[r].at = Total(req[r].sgl))
  /\ fill' = NoFill
  /\ UNCHANGED <<list, descLock, mode>>

-----------------------------------------------------------------------------
(* Completion.                                                             *)

\* xdma_desc_done() clears the entries of the transfers in ts.
Mut_ClearOneMore(ts) ==
  [k \in Entries |->
     IF \E t \in ts : k \in t.start..(t.start + t.num) THEN None ELSE ring[k]]
Cleared(ts) ==
  [k \in Entries |->
     IF \E t \in ts : k \in t.start..(t.start + t.num - 1)
     THEN None ELSE ring[k]]

\* The engine executes the first transfer of the list and engine_service() marks
\* it completed.  A stream's chain of several descriptors may end early, with the
\* packet, which a blocking caller will see.  The last transfer of an asynchronous
\* request runs the callback, in which xdma_xfer_completion() frees the request.
PacketEnds(q, t) ==
  IF mode = "stream" /\ q.kind # "async" /\ t.num > 1 THEN BOOLEAN ELSE {FALSE}
Service ==
  /\ list # <<>>
  /\ LockFree
  /\ list' = Tail(list)
  /\ LET r == Head(list)[1]
         k == Head(list)[2]
         ts == req[r].tfer
     IN \/ /\ req[r].kind = "async" /\ ts[k].last
           /\ ring' = Cleared({ts[j] : j \in DOMAIN ts})
           /\ Set(r, NoReq)
        \/ /\ ~(req[r].kind = "async" /\ ts[k].last)
           /\ \E eop \in PacketEnds(req[r], ts[k]) :
                Set(r, [req[r] EXCEPT !.tfer[k].done = TRUE, !.eop = eop])
           /\ UNCHANGED ring
  /\ UNCHANGED <<descIdx, descLock, fill, over, mode>>

\* The blocking caller after its wait: transfer_destroy(), the loop, the unlock.
Mut_StopEarly(q) == q.tfer[1].done
RequestDone(q) ==
  IF q.kind = "aperture" THEN q.at >= Total(q.sgl)
  ELSE q.eop \/ q.idx = Len(xdma_init_request(q.sgl))

Collect(r) ==
  /\ req[r].pc = "wait"
  /\ req[r].tfer[1].done
  /\ ring' = Cleared({req[r].tfer[1]})
  /\ \/ /\ RequestDone(req[r])
        /\ Set(r, NoReq)
        /\ descLock' = None
     \/ /\ ~RequestDone(req[r])
        /\ Set(r, [req[r] EXCEPT !.pc = "init", !.tfer = <<>>])
        /\ UNCHANGED descLock
  /\ UNCHANGED <<descIdx, list, fill, over, mode>>

-----------------------------------------------------------------------------

Next ==
  \/ \E r \in Reqs :
       \/ Begin(r) \/ LockDesc(r) \/ transfer_init(r) \/ transfer_queue(r)
       \/ ApertureStart(r) \/ Collect(r)
  \/ ApertureDesc \/ ApertureEnd
  \/ Service

Spec == Init /\ [][Next]_vars

-----------------------------------------------------------------------------
(* Properties.                                                             *)

\* The transfers the hardware has not executed yet, as <<request, index>>.
Waiting ==
  {w \in Reqs \X (1..(2 * Size)) :
     w[2] \in DOMAIN req[w[1]].tfer /\ ~req[w[1]].tfer[w[2]].done}

\* Unless more entries were taken than the ring has, the chain of every transfer
\* the hardware has yet to execute is whole: its entries belong to its request,
\* each links to the next one, and it stops at its own last entry and nowhere
\* before, whatever other callers took, wrapped around or cleared meanwhile.
ChainIntact ==
  ~over => \A w \in Waiting :
    LET r == w[1]
        t == req[r].tfer[w[2]]
    IN \A k \in t.start..(t.start + t.num - 1) :
         /\ k \in Entries /\ ring[k] # None
         /\ ring[k].own = r
         /\ LET last == k = t.start + t.num - 1
            IN /\ ring[k].next = IF last THEN None ELSE k + 1
               /\ ring[k].stop = last

\* The block of descriptors the hardware prefetches after each descriptor, and
\* after the start of a chain, stays in the chain and within one aligned block.
BlockInChain ==
  ~over => \A w \in Waiting :
    LET t == req[w[1]].tfer[w[2]]
        end == t.start + t.num - 1
        Fits(next, adj) == /\ next + adj <= end
                           /\ next \div Block = (next + adj) \div Block
    IN /\ Fits(t.start, xdma_get_next_adj(t.num, t.start))
       /\ \A k \in t.start..end : k < end => Fits(k + 1, ring[k].adj)

\* Position of unit off of list entry sg in the whole request.
HostPos(sgl, sg, off) == Sums(sgl)[sg - 1] + off

PowerOfTwo(n) ==
  LET pow[k \in Nat] == IF k = 0 THEN 1 ELSE 2 * pow[k - 1]
  IN \E k \in 0..n : pow[k] = n

\* However a request is cut by the descriptor length, the end of the ring and the
\* aperture, every descriptor moves the right host data, stays within its list
\* entry, the descriptor length and the aperture, and has the right address: on in
\* the FPGA, the same one with non_incr_addr, the result of its own ring entry on a
\* stream, and for an aperture the place in the aperture, provided its size is a
\* power of two (the code masks with size - 1 and does not check it).  The cut list
\* fits the software descriptors that were allocated for it.  An aperture request
\* that goes on in a later list entry is excluded: it starts from the first entry
\* again.
DataInPlace ==
  ~over => \A w \in Waiting :
    LET q == req[w[1]]
        t == q.tfer[w[2]]
    IN ~q.astray => \A k \in t.start..(t.start + t.num - 1) :
         LET p == ring[k].piece
         IN /\ \/ q.kind = "aperture"
               \/ Len(xdma_init_request(q.sgl)) <= SdescRoom(q.sgl)
            /\ HostPos(q.sgl, p.sg, p.off) = p.at
            /\ p.len \in 1..Blen
            /\ p.off + p.len <= q.sgl[p.sg]
            /\ \/ /\ q.kind # "aperture"
                  /\ p.ep = CASE mode = "incr" -> p.at [] mode = "fixed" -> 0
                              [] mode = "stream" -> k
               \/ /\ q.kind = "aperture"
                  /\ PowerOfTwo(Aperture) => p.ep = p.at % Aperture
                  /\ p.ep + p.len <= Aperture

\* No request ends before all of its data was in a chain, except a blocking one on
\* a stream that has seen the end of a packet within its last chain.
EndsWhole ==
  [][\A r \in Reqs :
       req[r].pc # "idle" /\ req'[r].pc = "idle" /\ ~req[r].astray =>
         \/ req[r].at = Total(req[r].sgl)
         \/ mode = "stream" /\ req[r].kind = "sync" /\ req[r].eop]_vars

\* tfer[] has two entries: "Use two transfers in case single request needs to be
\* split".
TwoTransfers == \A r \in Reqs : Len(req[r].tfer) <= 2
=============================================================================
