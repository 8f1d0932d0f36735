----------------------------- MODULE RingProofs -----------------------------
(***************************************************************************)
(* Proofs about Ring, for any number of requests of every kind, any lists, *)
(* ring, fetch block, descriptor length, aperture and kind of engine.      *)
(*                                                                         *)
(* The argument: the age of a transfer is how far desc_idx has moved since *)
(* it was taken, so a transfer starts age entries behind desc_idx and the  *)
(* transfers in order of age follow each other around the ring.  As long   *)
(* as no age exceeds the ring they are disjoint, and a step that takes or  *)
(* clears entries touches those of one transfer only.                      *)
(***************************************************************************)
EXTENDS Ring, TLAPS, SequenceTheorems, WellFoundedInduction

-----------------------------------------------------------------------------
(* The inductive invariant.                                                *)

AnyPiece == [sg: Int, off: Int, len: Int, at: Int, ep: Int]
AnyTfer == [start: Entries, num: 0..Size, done: BOOLEAN, last: BOOLEAN,
            age: 0..(Size + 1)]
ReqType == [pc: {"idle", "mutex", "init", "queue", "wait", "queued"},
            kind: {"sync", "async", "aperture"}, sgl: Seq(Nat \ {0}), idx: Nat,
            at: Int, sgIdx: Nat, sgOff: Int, astray: BOOLEAN, eop: BOOLEAN,
            tfer: Seq(AnyTfer)]
FillType == [own: Reqs \cup {None}, i: Nat, sg: Nat, off: Int, tlen: Int,
             ep: Int, cnt: Nat]

BaseOK ==
  /\ descIdx \in Entries
  /\ list \in Seq(Reqs \X (Nat \ {0}))
  /\ req \in [Reqs -> ReqType]
  /\ descLock \in Reqs \cup {None}
  /\ fill \in FillType
  /\ over \in BOOLEAN
  /\ ring \in [Entries -> Desc(AnyPiece) \cup {None}]

\* The software descriptors of a request.
Sdesc(q) == xdma_init_request(q.sgl)

\* The fields of a request other than its transfers.
Rest(q) == <<q.pc, q.kind, q.sgl, q.idx, q.at, q.sgIdx, q.sgOff, q.astray>>

\* Where a request is, and what its caller knows of its transfers.
ControlInv(q) ==
  /\ q.pc # "idle" => q.sgl \in IF q.kind = "aperture" THEN Wide ELSE Lists
  /\ q.pc = "idle" => Rest(q) = Rest(NoReq) /\ q.tfer = <<>>
  /\ q.kind = "async" => q.pc \notin {"mutex", "wait"}
  /\ q.kind # "async" => /\ q.pc # "queued"
                         /\ q.pc \in {"mutex", "init"} => q.tfer = <<>>
                         /\ q.pc \in {"queue", "wait"} => Len(q.tfer) = 1
  /\ q.pc \in {"queue", "queued"} => q.tfer # <<>>
  /\ q.pc = "queue" => ~q.tfer[Len(q.tfer)].done
  /\ \A k \in 1..Len(q.tfer) : q.tfer[k].last => k = Len(q.tfer) /\ q.pc # "init"

\* What is left of a request that is not an aperture request.
IdxInv(q) ==
  /\ q.kind = "aperture" => q.idx = 0
  /\ q.kind # "aperture" /\ q.pc # "idle" =>
       /\ q.pc \in {"mutex", "init"} => q.idx < Len(Sdesc(q))
       /\ q.idx <= Len(Sdesc(q))
       /\ q.pc \in {"queue", "queued"} => (q.tfer[Len(q.tfer)].last <=> q.idx = Len(Sdesc(q)))
       /\ q.at = Cuts(q.sgl)[q.idx].n

\* The transfers of a request: none is empty, unless the request was led astray.
NumInv(q) ==
  /\ q.kind # "aperture" => ~q.astray
  /\ \A k \in 1..Len(q.tfer) :
       /\ q.tfer[k].num <= q.tfer[k].age
       /\ q.tfer[k].start + q.tfer[k].num <= Size
       /\ ~q.astray => q.tfer[k].num > 0

\* The blocking caller that is filling or using the ring has the mutex.
LockInv(r) ==
  req[r].kind # "async" /\ req[r].pc \in {"init", "queue", "wait"} => descLock = r

\* The list holds transfers that were queued and not executed, each once and those
\* of a request in their order.
ListInv ==
  /\ \A i \in 1..Len(list) :
       LET q == req[list[i][1]] IN
         /\ list[i][2] \in 1..Len(q.tfer)
         /\ ~q.tfer[list[i][2]].done
         /\ q.pc = "queue" => list[i][2] < Len(q.tfer)
  /\ \A i, j \in 1..Len(list) :
       i < j /\ list[i][1] = list[j][1] => list[i][2] < list[j][2]

\* A descriptor of request q moves the right data.
Right(q, p) ==
  /\ p \in PieceType
  /\ p.sg \in 1..Len(q.sgl)
  /\ Sums(q.sgl)[p.sg - 1] + p.off = p.at
  /\ p.len \in 1..Blen
  /\ p.off + p.len <= q.sgl[p.sg]
  /\ q.kind = "aperture" => /\ PowerOfTwo(Aperture) => p.ep = p.at % Aperture
                            /\ p.ep + p.len <= Aperture

\* The entries that are being filled are those of the filling request.
FillInv ==
  /\ fill.own = None => fill = NoFill
  /\ fill.own # None =>
       /\ req[fill.own].pc = "init" /\ req[fill.own].kind = "aperture"
       /\ descIdx + fill.cnt <= Size
       /\ \A e \in descIdx..(descIdx + fill.cnt - 1) :
            /\ ring[e] # None
            /\ ~req[fill.own].astray => Right(req[fill.own], ring[e].piece)

\* Unit o of list entry i + 1 is unit n of the list.
At(sgl, i, o, n) ==
  /\ i \in 0..Len(sgl)
  /\ o \in Nat
  /\ i < Len(sgl) => o < sgl[i + 1]
  /\ i = Len(sgl) => o = 0
  /\ n = Sums(sgl)[i] + o

\* An aperture request that was not led astray goes through its list.
WalkInv(r) ==
  LET q == req[r] IN
    q.kind = "aperture" /\ q.pc # "idle" /\ ~q.astray =>
      /\ fill.own # r => At(q.sgl, q.sgIdx, q.sgOff, q.at)
      /\ fill.own = r =>
           /\ At(q.sgl, fill.i, fill.off, q.at)
           /\ fill.sg = fill.i + 1
           /\ fill.i < Len(q.sgl) => fill.tlen = q.sgl[fill.sg] - fill.off
           /\ fill.ep \in 0..Aperture
           /\ PowerOfTwo(Aperture) => WrapEp(fill.ep) = q.at % Aperture
           /\ fill.cnt = 0 => fill.i < Len(q.sgl)
      /\ q.pc \in {"mutex", "init"} /\ fill.own # r => q.at < Total(q.sgl)

\* With lists of one entry no aperture request is led astray.
OneEntry == \A l \in Wide : Len(l) = 1
OneInv ==
  OneEntry => /\ \A r \in Reqs : ~req[r].astray
              /\ \A k \in Entries : ring[k] # None => ring[k].piece \in PieceType

FlowInv ==
  /\ \A r \in Reqs : /\ ControlInv(req[r]) /\ IdxInv(req[r]) /\ NumInv(req[r])
                     /\ LockInv(r) /\ WalkInv(r)
  /\ ListInv
  /\ FillInv
  /\ OneInv

\* The entries of a live transfer start age behind desc_idx, so as long as no age
\* exceeds the ring, no two transfers overlap.
Behind(t) == t.start + t.age = descIdx \/ t.start + t.age = descIdx + Size
Older(t, u) == t.age >= u.age + t.num
AgeInv ==
  /\ \A r \in Reqs : \A k \in 1..Len(req[r].tfer) :
       LET t == req[r].tfer[k] IN t.age + fill.cnt <= Size /\ Behind(t)
  /\ \A r, s \in Reqs : \A k \in 1..Len(req[r].tfer), m \in 1..Len(req[s].tfer) :
       r # s \/ k # m => \/ Older(req[r].tfer[k], req[s].tfer[m])
                         \/ Older(req[s].tfer[m], req[r].tfer[k])

\* A descriptor of a plain request in entry e has its address.
Placed(q, p, e) == q.kind # "aperture" => p.ep = Address(p.at, e)

\* The entry e of transfer t of request r.
Link(r, t, e) ==
  /\ ring[e] # None
  /\ ring[e].own = r
  /\ ring[e].next = IF e = t.start + t.num - 1 THEN None ELSE e + 1
  /\ ring[e].stop = (e = t.start + t.num - 1)
  /\ ring[e].adj = xdma_get_next_adj(t.start + t.num - e - 1, e + 1)
  /\ ~req[r].astray => Right(req[r], ring[e].piece)
  /\ Placed(req[r], ring[e].piece, e)
ChainInv ==
  \A r \in Reqs : \A k \in 1..Len(req[r].tfer) :
    LET t == req[r].tfer[k]
    IN \A e \in t.start..(t.start + t.num - 1) : Link(r, t, e)

RingInv == FlowInv /\ (~over => AgeInv /\ ChainInv)

-----------------------------------------------------------------------------
(* Recursion over the natural numbers.                                     *)

\* Every nonempty set of numbers has a least element.
LEMMA LeastOf ==
  ASSUME NEW T \in SUBSET Nat, T # {}
  PROVE  \E x \in T : \A y \in T : x <= y
<1>1. PICK x \in T : \A y \in T : ~(<<y, x>> \in OpToRel(<, Nat))
  BY NatLessThanWellFounded, WFMin
<1>2. \A y \in T : ~(y < x)
  BY <1>1 DEF OpToRel
<1> QED
  BY <1>2

\* A set that contains 0 and the successors of its elements contains every number.
LEMMA Inductive ==
  ASSUME NEW T, 0 \in T, \A n \in Nat : n \in T => n + 1 \in T
  PROVE  \A n \in Nat : n \in T
<1> DEFINE U == {n \in Nat : n \notin T}
<1>1. SUFFICES ASSUME U # {} PROVE FALSE
  OBVIOUS
<1>2. U \in SUBSET Nat
  OBVIOUS
<1> HIDE DEF U
<1>3. PICK n \in U : \A m \in U : n <= m
  BY <1>1, <1>2, LeastOf
<1>4. n \in Nat /\ n \notin T /\ n # 0
  BY <1>3 DEF U
<1>5. n - 1 \in Nat /\ n - 1 \notin U /\ (n - 1) + 1 = n
  BY <1>3, <1>4
<1> QED
  BY <1>4, <1>5 DEF U

Upto(V, a, g, n, h) ==
  /\ h \in [0..n -> V]
  /\ h[0] = a
  /\ \A m \in 0..(n - 1) : h[m + 1] = g[<<m, h[m]>>]

\* A function given by its first value and its step exists up to any n...
LEMMA UptoExists ==
  ASSUME NEW V, NEW a \in V, NEW g \in [Nat \X V -> V]
  PROVE  \A n \in Nat : \E h : Upto(V, a, g, n, h)
<1> DEFINE T == {n \in Nat : \E h : Upto(V, a, g, n, h)}
<1>1. 0 \in T
  <2>1. Upto(V, a, g, 0, [k \in 0..0 |-> a])
    BY DEF Upto
  <2> QED
    BY <2>1
<1>2. ASSUME NEW n \in Nat, n \in T
      PROVE  n + 1 \in T
  <2>1. PICK h : Upto(V, a, g, n, h)
    BY <1>2
  <2> DEFINE x == g[<<n, h[n]>>]
             k == [m \in 0..(n + 1) |-> IF m = n + 1 THEN x ELSE h[m]]
  <2>2. h[n] \in V /\ x \in V
    BY <2>1 DEF Upto
  <2>3. \A m \in 0..n : h[m] \in V
    BY <2>1 DEF Upto
  <2> HIDE DEF x
  <2>4. k \in [0..(n + 1) -> V]
    <3>1. \A m \in 0..(n + 1) : m = n + 1 \/ m \in 0..n
      OBVIOUS
    <3> QED
      BY <2>2, <2>3, <3>1
  <2>5. k[0] = a
    BY <2>1 DEF Upto
  <2>6. ASSUME NEW m \in 0..n
        PROVE  k[m + 1] = g[<<m, k[m]>>]
    <3>1. k[m] = h[m]
      OBVIOUS
    <3>2. CASE m = n
      <4>1. k[n + 1] = x
        OBVIOUS
      <4> QED
        BY <3>1, <3>2, <4>1 DEF x
    <3>3. CASE m # n
      <4>1. m \in 0..(n - 1) /\ m + 1 \in 0..(n + 1) /\ m + 1 # n + 1
        BY <3>3
      <4> QED
        BY <2>1, <3>1, <4>1 DEF Upto
    <3> QED
      BY <3>2, <3>3
  <2>7. (n + 1) - 1 = n
    OBVIOUS
  <2>8. Upto(V, a, g, n + 1, k)
    <3> HIDE DEF k
    <3> QED
      BY <2>4, <2>5, <2>6, <2>7 DEF Upto
  <2> QED
    BY <2>8
<1> HIDE DEF T
<1>3. \A n \in Nat : n \in T
  BY <1>1, <1>2, Inductive
<1> QED
  BY <1>3 DEF T

\* ... and is the same wherever two of them are defined.
LEMMA UptoAgree ==
  ASSUME NEW V, NEW a, NEW g, NEW n \in Nat, NEW m \in Nat, n <= m,
         NEW h, Upto(V, a, g, n, h), NEW k, Upto(V, a, g, m, k)
  PROVE  h[n] = k[n]
<1> DEFINE T == {i \in Nat : i <= n => h[i] = k[i]}
<1>1. 0 \in T
  BY DEF Upto
<1>2. ASSUME NEW i \in Nat, i \in T
      PROVE  i + 1 \in T
  <2>1. SUFFICES ASSUME i + 1 <= n PROVE h[i + 1] = k[i + 1]
    OBVIOUS
  <2>2. i \in 0..(n - 1) /\ i \in 0..(m - 1) /\ h[i] = k[i]
    BY <1>2, <2>1
  <2> QED
    BY <2>2 DEF Upto
<1> HIDE DEF T
<1>3. n \in T
  BY <1>1, <1>2, Inductive
<1> QED
  BY <1>3 DEF T

Steps(V) == [Nat \X V -> V]
ByStep(V, a, g, f) ==
  f \in [Nat -> V] /\ f[0] = a /\ \A n \in Nat : f[n + 1] = g[<<n, f[n]>>]

\* A function that is defined step by step exists.
LEMMA Recursion ==
  ASSUME NEW V, NEW a \in V, NEW g \in Steps(V)
  PROVE  \E f : ByStep(V, a, g, f)
<1> DEFINE H(n) == CHOOSE h : Upto(V, a, g, n, h)
           f == [n \in Nat |-> H(n)[n]]
<1>1. ASSUME NEW n \in Nat PROVE Upto(V, a, g, n, H(n))
  BY UptoExists DEF Steps
<1> HIDE DEF H
<1>2. ASSUME NEW n \in Nat PROVE H(n)[n] \in V
  BY <1>1 DEF Upto
<1>3. f \in [Nat -> V]
  BY <1>2
<1>4. f[0] = a
  BY <1>1 DEF Upto
<1>5. ASSUME NEW n \in Nat
      PROVE  f[n + 1] = g[<<n, f[n]>>]
  <2>1. Upto(V, a, g, n, H(n)) /\ Upto(V, a, g, n + 1, H(n + 1))
    BY <1>1
  <2>2. H(n)[n] = H(n + 1)[n]
    BY <2>1, UptoAgree
  <2>3. n \in 0..((n + 1) - 1)
    OBVIOUS
  <2>4. H(n + 1)[n + 1] = g[<<n, H(n + 1)[n]>>]
    BY <2>1, <2>3 DEF Upto
  <2> QED
    BY <2>2, <2>4
<1> HIDE DEF f
<1> QED
  BY <1>3, <1>4, <1>5 DEF ByStep

-----------------------------------------------------------------------------
(* Sums.                                                                   *)

\* Sums() is what its recursive definition says.
LEMMA SumsDef ==
  ASSUME NEW s \in Seq(Nat)
  PROVE  /\ Sums(s) \in [0..Len(s) -> Nat]
         /\ Sums(s)[0] = 0
         /\ \A i \in 1..Len(s) : Sums(s)[i] = Sums(s)[i - 1] + s[i]
<1> DEFINE Step(f) == [i \in 0..Len(s) |-> IF i = 0 THEN 0 ELSE f[i - 1] + s[i]]
<1>0. Len(s) \in Nat /\ \A i \in 1..Len(s) : s[i] \in Nat
  OBVIOUS
<1>1. \E f : f = Step(f)
  <2> DEFINE g == [p \in Nat \X Nat |->
                     p[2] + (IF p[1] + 1 \in 1..Len(s) THEN s[p[1] + 1] ELSE 0)]
  <2>1. g \in [Nat \X Nat -> Nat]
    BY <1>0
  <2>2. \A n, x \in Nat : n + 1 \in 1..Len(s) => g[<<n, x>>] = x + s[n + 1]
    OBVIOUS
  <2> HIDE DEF g
  <2>a. g \in Steps(Nat)
    BY <2>1 DEF Steps
  <2>b. PICK f : ByStep(Nat, 0, g, f)
    BY <2>a, Recursion
  <2>3. f \in [Nat -> Nat] /\ f[0] = 0 /\ \A n \in Nat : f[n + 1] = g[<<n, f[n]>>]
    BY <2>b DEF ByStep
  <2> DEFINE h == [i \in 0..Len(s) |-> f[i]]
  <2>4. ASSUME NEW i \in 0..Len(s)
        PROVE  f[i] = IF i = 0 THEN 0 ELSE h[i - 1] + s[i]
    <3>1. CASE i = 0
      BY <2>3, <3>1
    <3>2. CASE i # 0
      <4>1. i - 1 \in Nat /\ (i - 1) + 1 = i /\ i - 1 \in 0..Len(s) /\ i \in 1..Len(s)
        BY <1>0, <3>2
      <4>2. f[i] = f[i - 1] + s[i] /\ f[i - 1] = h[i - 1]
        BY <2>2, <2>3, <4>1
      <4> QED
        BY <3>2, <4>2
    <3> QED
      BY <3>1, <3>2
  <2>5. h = Step(h)
    BY <2>4
  <2> QED
    BY <2>5
<1>2. Sums(s) = CHOOSE f : f = Step(f)
  BY DEF Sums
<1> HIDE DEF Step
<1>3. Sums(s) = Step(Sums(s))
  BY <1>1, <1>2
<1>4. Sums(s)[0] = 0 /\ \A i \in 1..Len(s) : Sums(s)[i] = Sums(s)[i - 1] + s[i]
  BY <1>0, <1>3 DEF Step
<1>5. Sums(s) \in [0..Len(s) -> Nat]
  <2> DEFINE T == {i \in Nat : i <= Len(s) => Sums(s)[i] \in Nat}
  <2>1. 0 \in T
    BY <1>4
  <2>2. ASSUME NEW i \in Nat, i \in T PROVE i + 1 \in T
    <3>1. SUFFICES ASSUME i + 1 <= Len(s) PROVE Sums(s)[i + 1] \in Nat
      OBVIOUS
    <3>2. i + 1 \in 1..Len(s) /\ (i + 1) - 1 = i /\ i <= Len(s)
      BY <1>0, <3>1
    <3>3. Sums(s)[i + 1] = Sums(s)[i] + s[i + 1] /\ s[i + 1] \in Nat /\ Sums(s)[i] \in Nat
      BY <1>0, <1>4, <2>2, <3>2
    <3> QED
      BY <3>3
  <2> HIDE DEF T
  <2>3. \A i \in Nat : i \in T
    BY <2>1, <2>2, Inductive
  <2>4. \A i \in 0..Len(s) : Sums(s)[i] \in Nat
    BY <1>0, <2>3 DEF T
  <2>5. \E f : Sums(s) = [i \in 0..Len(s) |-> f[i]]
    <3>1. Step(Sums(s)) = [i \in 0..Len(s) |-> Step(Sums(s))[i]]
      BY DEF Step
    <3> QED
      BY <1>3, <3>1
  <2> QED
    BY <2>4, <2>5
<1> QED
  BY <1>4, <1>5

\* No partial sum exceeds the total.
LEMMA SumsGrow ==
  ASSUME NEW s \in Seq(Nat), NEW i \in 0..Len(s)
  PROVE  Sums(s)[i] <= Total(s)
<1>0. Len(s) \in Nat /\ Sums(s) \in [0..Len(s) -> Nat]
      /\ \A j \in 1..Len(s) : s[j] \in Nat /\ Sums(s)[j] = Sums(s)[j - 1] + s[j]
  BY SumsDef
<1> DEFINE T == {d \in Nat : d <= Len(s) => Sums(s)[Len(s) - d] <= Sums(s)[Len(s)]}
<1>1. 0 \in T
  BY <1>0
<1>2. ASSUME NEW d \in Nat, d \in T PROVE d + 1 \in T
  <2>1. SUFFICES ASSUME d + 1 <= Len(s)
                 PROVE  Sums(s)[Len(s) - (d + 1)] <= Sums(s)[Len(s)]
    OBVIOUS
  <2>2. Len(s) - d \in 1..Len(s) /\ (Len(s) - d) - 1 = Len(s) - (d + 1)
        /\ Len(s) - d \in 0..Len(s) /\ Len(s) - (d + 1) \in 0..Len(s) /\ Len(s) \in 0..Len(s)
    BY <1>0, <2>1
  <2>3. Sums(s)[Len(s) - d] = Sums(s)[Len(s) - (d + 1)] + s[Len(s) - d]
    BY <1>0, <2>2
  <2>4. Sums(s)[Len(s) - d] <= Sums(s)[Len(s)]
    BY <1>0, <1>2, <2>1
  <2>5. /\ Sums(s)[Len(s) - (d + 1)] \in Nat /\ s[Len(s) - d] \in Nat
        /\ Sums(s)[Len(s)] \in Nat
    BY <1>0, <2>2
  <2> QED
    BY <2>3, <2>4, <2>5
<1> HIDE DEF T
<1>3. Len(s) - i \in T
  <2>1. \A d \in Nat : d \in T
    BY <1>1, <1>2, Inductive
  <2> QED
    BY <1>0, <2>1
<1>4. Len(s) - i <= Len(s) /\ Len(s) - (Len(s) - i) = i
  BY <1>0
<1> QED
  BY <1>3, <1>4 DEF T, Total

-----------------------------------------------------------------------------
(* Arithmetic of the ring, the fetch blocks and the aperture.              *)

\* Division with remainder.
LEMMA DivMod ==
  ASSUME NEW a \in Int, a >= 0, NEW b \in Int, b > 0
  PROVE  /\ a \div b \in Nat
         /\ a % b \in 0..(b - 1)
         /\ a = b * (a \div b) + (a % b)
<1>1. a \div b \in Int /\ a % b \in 0..(b - 1)
  OBVIOUS
<1>2. a = b * (a \div b) + (a % b)
  BY ONLY a \in Int, b \in Int, b > 0
<1>3. ~(a \div b <= -1)
  <2>1. SUFFICES ASSUME a \div b <= -1 PROVE FALSE
    OBVIOUS
  <2>2. b * (a \div b) <= -b
    BY <1>1, <2>1
  <2> QED
    BY <1>1, <1>2, <2>2
<1> QED
  BY <1>1, <1>2, <1>3

\* Quotient and remainder are unique.
LEMMA DivUnique ==
  ASSUME NEW b \in Nat \ {0}, NEW q \in Int, NEW p \in Int, NEW r \in Nat, NEW s \in Nat,
         r < b, s < b, b * q + r = b * p + s
  PROVE  q = p /\ r = s
<1>1. b * (q - p) = s - r
  OBVIOUS
<1>2. CASE q - p >= 1
  <2>1. b * (q - p) >= b
    BY <1>2
  <2> QED
    BY <1>1, <2>1
<1>3. CASE q - p <= -1
  <2>1. b * (q - p) <= -b
    BY <1>3
  <2> QED
    BY <1>1, <2>1
<1> QED
  BY <1>1, <1>2, <1>3

\* Adding less than what is left to the next multiple stays in the block.
LEMMA ModAdd ==
  ASSUME NEW b \in Nat \ {0}, NEW a \in Nat, NEW d \in Nat, (a % b) + d < b
  PROVE  (a + d) % b = (a % b) + d /\ (a + d) \div b = a \div b
<1>1. b \in Int /\ b > 0 /\ a \in Int /\ a >= 0 /\ a + d \in Int /\ a + d >= 0
  OBVIOUS
<1>2. a + d = b * (a \div b) + ((a % b) + d) /\ a \div b \in Nat /\ a % b \in Nat
  BY <1>1, DivMod
<1>3. /\ a + d = b * ((a + d) \div b) + ((a + d) % b)
      /\ (a + d) \div b \in Nat
      /\ (a + d) % b \in 0..(b - 1)
  BY <1>1, DivMod
<1> QED
  BY <1>2, <1>3, DivUnique

\* Adding exactly what is left starts the next block.
LEMMA ModWrap ==
  ASSUME NEW b \in Nat \ {0}, NEW a \in Nat, NEW d \in Nat, (a % b) + d = b
  PROVE  (a + d) % b = 0
<1>1. b \in Int /\ b > 0 /\ a \in Int /\ a >= 0 /\ a + d \in Int /\ a + d >= 0
  OBVIOUS
<1> DEFINE p == (a \div b) + 1
           q == (a + d) \div b
           r == (a + d) % b
           z == 0
<1>2. a + d = b * p + z /\ p \in Int
  <2>1. a = b * (a \div b) + (a % b) /\ a \div b \in Nat /\ a % b \in Nat
    BY <1>1, DivMod
  <2>2. b * (a \div b) + b = b * ((a \div b) + 1)
    BY <2>1
  <2> QED
    BY <2>1, <2>2
<1>3. a + d = b * q + r /\ q \in Int /\ r \in Nat /\ r < b
  BY <1>1, DivMod
<1>4. z < b /\ z \in Nat
  BY <1>1
<1> HIDE DEF p, q, r, z
<1>5. b * q + r = b * p + z
  BY <1>2, <1>3
<1>6. q \in Int /\ p \in Int /\ r \in Nat /\ z \in Nat /\ r < b /\ z < b
  BY <1>2, <1>3, <1>4
<1>7. b * (q - p) = z - r
  BY <1>5, <1>6
<1>8. CASE q - p >= 1
  <2>1. b * (q - p) >= b
    BY <1>6, <1>8
  <2> QED
    BY <1>6, <1>7, <2>1
<1>9. CASE q - p <= -1
  <2>1. b * (q - p) <= -b
    BY <1>6, <1>9
  <2> QED
    BY <1>6, <1>7, <2>1
<1>10. CASE q = p
  <2>1. r = z
    BY <1>5, <1>6, <1>10
  <2> QED
    BY <2>1 DEF r, z
<1>11. q - p >= 1 \/ q - p <= -1 \/ q = p
  BY <1>6
<1> QED
  BY <1>8, <1>9, <1>10, <1>11

\* A number below the modulus is its own remainder.
LEMMA ModSmall ==
  ASSUME NEW b \in Nat \ {0}, NEW a \in Nat
  PROVE  (a < b => a % b = a) /\ b % b = 0
OBVIOUS

\* A chain that ends at the end of the ring leaves desc_idx at 0.
LEMMA RingMod ==
  ASSUME NEW i \in Entries, NEW n \in Nat, i + n <= Size
  PROVE  /\ (i + n) % Size \in Entries
         /\ (i + n) % Size = i + n \/ (i + n) % Size = i + n - Size
<1>1. Size \in Nat \ {0} /\ i \in Nat /\ i + n \in Nat
  BY RingAssumption DEF Entries
<1>2. CASE i + n < Size
  BY <1>1, <1>2, ModSmall DEF Entries
<1>3. CASE i + n = Size
  BY <1>1, <1>3, ModSmall DEF Entries
<1> QED
  BY <1>1, <1>2, <1>3

-----------------------------------------------------------------------------
(* The mask of the aperture.                                               *)

\* The rounds of And().
Bit(x, y) == IF x % 2 = 1 /\ y % 2 = 1 THEN 1 ELSE 0
Masks == [Int \X Nat -> Nat]
Halves(f) == [p \in Int \X Nat |-> 2 * f[<<p[1] \div 2, p[2] \div 2>>] + Bit(p[1], p[2])]
Rounds(f) ==
  [i \in Nat |-> [p \in Int \X Nat |->
     IF i = 0 THEN 0
     ELSE 2 * f[i - 1][<<p[1] \div 2, p[2] \div 2>>]
          + IF p[1] % 2 = 1 /\ p[2] % 2 = 1 THEN 1 ELSE 0]]
Mask == CHOOSE f : f = Rounds(f)

\* A round keeps the type.
LEMMA HalvesType ==
  ASSUME NEW f \in Masks
  PROVE  Halves(f) \in Masks
<1>1. ASSUME NEW x \in Int, NEW y \in Nat
      PROVE  x \div 2 \in Int /\ y \div 2 \in Nat /\ Bit(x, y) \in {0, 1}
  BY DEF Bit
<1>2. ASSUME NEW x \in Int, NEW y \in Nat
      PROVE  2 * f[<<x \div 2, y \div 2>>] + Bit(x, y) \in Nat
  <2> DEFINE a == x \div 2
             b == y \div 2
             c == Bit(x, y)
  <2>1. a \in Int /\ b \in Nat /\ c \in Nat
    BY <1>1
  <2> HIDE DEF a, b, c
  <2>2. f[<<a, b>>] \in Nat
    BY <2>1 DEF Masks
  <2>3. 2 * f[<<a, b>>] + c \in Nat
    BY <2>1, <2>2
  <2> QED
    BY <2>3 DEF a, b, c
<1>3. ASSUME NEW p \in Int \X Nat
      PROVE  2 * f[<<p[1] \div 2, p[2] \div 2>>] + Bit(p[1], p[2]) \in Nat
  BY <1>2
<1> QED
  BY <1>3 DEF Halves, Masks

\* And() is what its recursive definition says.
LEMMA MaskDef ==
  /\ Mask \in [Nat -> Masks]
  /\ \A x \in Int : \A y \in Nat : Mask[0][<<x, y>>] = 0
  /\ \A i \in Nat : Mask[i + 1] = Halves(Mask[i])
<1> DEFINE z == [p \in Int \X Nat |-> 0]
           g == [p \in Nat \X Masks |-> Halves(p[2])]
<1>1. z \in Masks
  BY DEF Masks
<1>2. g \in Steps(Masks)
  BY HalvesType DEF Steps
<1>3. \A n \in Nat : \A f \in Masks : g[<<n, f>>] = Halves(f)
  OBVIOUS
<1> HIDE DEF g
<1>4. \A h : Rounds(h) = [i \in Nat |-> IF i = 0 THEN z ELSE Halves(h[i - 1])]
  <2>1. ASSUME NEW h, NEW i \in Nat
        PROVE  Rounds(h)[i] = IF i = 0 THEN z ELSE Halves(h[i - 1])
    BY DEF Rounds, Halves, Bit
  <2> QED
    BY <2>1 DEF Rounds
<1> HIDE DEF z
<1>5. PICK f : ByStep(Masks, z, g, f)
  BY <1>1, <1>2, Recursion
<1>6. f \in [Nat -> Masks] /\ f[0] = z /\ \A n \in Nat : f[n + 1] = Halves(f[n])
  BY <1>3, <1>5 DEF ByStep
<1>7. f = Rounds(f)
  <2>1. ASSUME NEW j \in Nat
        PROVE  f[j] = IF j = 0 THEN z ELSE Halves(f[j - 1])
    <3>1. j # 0 => j - 1 \in Nat /\ (j - 1) + 1 = j
      OBVIOUS
    <3> QED
      BY <1>6, <3>1
  <2> QED
    BY <1>4, <1>6, <2>1
<1>8. Mask = Rounds(Mask)
  BY <1>7 DEF Mask
<1>9. Mask = [i \in Nat |-> IF i = 0 THEN z ELSE Halves(Mask[i - 1])]
  BY <1>4, <1>8
<1>10. Mask[0] = z
  BY <1>9
<1>11. ASSUME NEW j \in Nat PROVE Mask[j + 1] = Halves(Mask[j])
  <2>1. j + 1 \in Nat /\ j + 1 # 0 /\ (j + 1) - 1 = j
    OBVIOUS
  <2> QED
    BY <1>9, <2>1
<1>12. \A j \in Nat : Mask[j] \in Masks
  <2> DEFINE T == {j \in Nat : Mask[j] \in Masks}
  <2>1. 0 \in T
    BY <1>1, <1>10
  <2>2. ASSUME NEW j \in Nat, j \in T PROVE j + 1 \in T
    BY <1>11, <2>2, HalvesType
  <2> HIDE DEF T
  <2>3. \A j \in Nat : j \in T
    BY <2>1, <2>2, Inductive
  <2> QED
    BY <2>3 DEF T
<1>13. Mask \in [Nat -> Masks]
  <2>1. Mask = [j \in Nat |-> Mask[j]]
    BY <1>9
  <2> QED
    BY <1>12, <2>1
<1> QED
  BY <1>10, <1>11, <1>13 DEF z

\* One more round.
LEMMA MaskStep ==
  ASSUME NEW i \in Nat, NEW x \in Int, NEW y \in Nat
  PROVE  /\ x \div 2 \in Int /\ y \div 2 \in Nat
         /\ Mask[i][<<x \div 2, y \div 2>>] \in Nat
         /\ Mask[i + 1][<<x, y>>] = 2 * Mask[i][<<x \div 2, y \div 2>>] + Bit(x, y)
<1>1. x \div 2 \in Int /\ y \div 2 \in Nat
  OBVIOUS
<1>2. Mask[i] \in Masks /\ Mask[i + 1] = Halves(Mask[i])
  BY MaskDef
<1>3. Mask[i][<<x \div 2, y \div 2>>] \in Nat
  <2> DEFINE a == x \div 2
             b == y \div 2
  <2>1. a \in Int /\ b \in Nat
    BY <1>1
  <2> HIDE DEF a, b
  <2>2. Mask[i][<<a, b>>] \in Nat
    BY <1>2, <2>1 DEF Masks
  <2> QED
    BY <2>2 DEF a, b
<1>4. Halves(Mask[i])[<<x, y>>] = 2 * Mask[i][<<x \div 2, y \div 2>>] + Bit(x, y)
  BY DEF Halves
<1> QED
  BY <1>1, <1>2, <1>3, <1>4

\* The mask bounds the result...
LEMMA MaskBound ==
  \A i \in Nat : \A x \in Int : \A y \in Nat : Mask[i][<<x, y>>] \in 0..y
<1> DEFINE T == {i \in Nat : \A x \in Int : \A y \in Nat : Mask[i][<<x, y>>] \in 0..y}
<1>1. 0 \in T
  BY MaskDef
<1>2. ASSUME NEW i \in Nat, i \in T PROVE i + 1 \in T
  <2>1. ASSUME NEW x \in Int, NEW y \in Nat PROVE Mask[i + 1][<<x, y>>] \in 0..y
    <3> DEFINE m == Mask[i][<<x \div 2, y \div 2>>]
    <3>1. m \in 0..(y \div 2) /\ Mask[i + 1][<<x, y>>] = 2 * m + Bit(x, y)
      BY <1>2, MaskStep
    <3>2. Bit(x, y) \in 0..(y % 2)
      BY DEF Bit
    <3>3. y = 2 * (y \div 2) + (y % 2) /\ y \div 2 \in Nat /\ y % 2 \in Nat
      OBVIOUS
    <3> HIDE DEF m
    <3> QED
      BY <3>1, <3>2, <3>3
  <2> QED
    BY <2>1
<1> HIDE DEF T
<1>3. \A i \in Nat : i \in T
  BY <1>1, <1>2, Inductive
<1> QED
  BY <1>3 DEF T

LEMMA AndBound ==
  ASSUME NEW n \in Int, NEW m \in Nat
  PROVE  And(n, m) \in 0..m
<1>1. And(n, m) = Mask[m][<<n, m>>]
  BY DEF And, Mask, Rounds
<1> QED
  BY <1>1, MaskBound

\* The powers of two.
Powers == CHOOSE f : f = [k \in Nat |-> IF k = 0 THEN 1 ELSE 2 * f[k - 1]]

LEMMA PowersDef ==
  /\ Powers[0] = 1
  /\ \A k \in Nat : Powers[k] \in Nat \ {0} /\ Powers[k + 1] = 2 * Powers[k] /\ k < Powers[k]
<1> DEFINE V == Nat \ {0}
           Step(h) == [k \in Nat |-> IF k = 0 THEN 1 ELSE 2 * h[k - 1]]
           g == [p \in Nat \X V |-> 2 * p[2]]
<1>1. 1 \in V
  OBVIOUS
<1>2. g \in Steps(V)
  BY DEF Steps
<1>3. \A n \in Nat : \A x \in V : g[<<n, x>>] = 2 * x
  OBVIOUS
<1> HIDE DEF g, V
<1>5. PICK f : ByStep(V, 1, g, f)
  BY <1>1, <1>2, Recursion
<1>6. f \in [Nat -> V] /\ f[0] = 1 /\ \A n \in Nat : f[n + 1] = 2 * f[n]
  BY <1>3, <1>5 DEF ByStep
<1>7. f = Step(f)
  <2>1. ASSUME NEW j \in Nat
        PROVE  f[j] = IF j = 0 THEN 1 ELSE 2 * f[j - 1]
    <3>1. j # 0 => j - 1 \in Nat /\ (j - 1) + 1 = j
      OBVIOUS
    <3> QED
      BY <1>6, <3>1
  <2> QED
    BY <1>6, <2>1
<1>8. Powers = Step(Powers)
  BY <1>7 DEF Powers
<1>9. Powers[0] = 1 /\ \A j \in Nat : Powers[j + 1] = 2 * Powers[j]
  <2>1. \A j \in Nat : j + 1 \in Nat /\ j + 1 # 0 /\ (j + 1) - 1 = j
    OBVIOUS
  <2> QED
    BY <1>8, <2>1
<1> DEFINE T == {k \in Nat : Powers[k] \in Nat \ {0} /\ k < Powers[k]}
<1>10. 0 \in T
  BY <1>9
<1>11. ASSUME NEW k \in Nat, k \in T PROVE k + 1 \in T
  BY <1>9, <1>11
<1> HIDE DEF T
<1>12. \A k \in Nat : k \in T
  BY <1>10, <1>11, Inductive
<1> QED
  BY <1>9, <1>12 DEF T

\* Halving both sides of a division.
LEMMA ModHalves ==
  ASSUME NEW x \in Nat, NEW b \in Nat \ {0}
  PROVE  x % (2 * b) = 2 * ((x \div 2) % b) + (x % 2)
<1> DEFINE h == x \div 2
           l == x % 2
           q == h \div b
           r == h % b
           c == 2 * b
           u == x \div c
           v == x % c
           w == 2 * r + l
<1>1. x = 2 * h + l /\ h \in Nat /\ l \in 0..1
  OBVIOUS
<1>2. c \in Nat \ {0} /\ c = 2 * b
  OBVIOUS
<1>3. h = b * q + r /\ q \in Nat /\ r \in 0..(b - 1)
  <2>1. h \in Int /\ h >= 0 /\ b \in Int /\ b > 0
    BY <1>1
  <2> HIDE DEF h
  <2> QED
    BY <2>1, DivMod
<1>4. x = c * u + v /\ u \in Nat /\ v \in 0..(c - 1)
  <2>1. c \in Int /\ c > 0 /\ x \in Int /\ x >= 0
    BY <1>2
  <2> HIDE DEF c
  <2> QED
    BY <2>1, DivMod
<1> HIDE DEF h, l, q, r, c, u, v
<1>5. w \in Nat /\ w < c
  BY <1>1, <1>2, <1>3
<1>6. x = c * q + w
  <2>1. 2 * (b * q) = c * q
    BY <1>2, <1>3
  <2>2. b * q \in Nat
    BY <1>3
  <2> DEFINE y == b * q
             e == c * q
  <2>3. y \in Nat /\ h = y + r /\ e = 2 * y
    BY <1>3, <2>1, <2>2
  <2> HIDE DEF y, e
  <2>4. x = e + w
    BY <1>1, <1>3, <2>3
  <2> QED
    BY <2>4 DEF e
<1> HIDE DEF w
<1>7. v = w
  <2>1. c \in Nat \ {0} /\ u \in Int /\ q \in Int /\ v \in Nat /\ w \in Nat /\ v < c /\ w < c
    BY <1>2, <1>3, <1>4, <1>5
  <2>2. c * u + v = c * q + w
    BY <1>4, <1>6
  <2> QED
    BY <2>1, <2>2, DivUnique
<1> QED
  BY <1>7 DEF v, w, c, r, h, l

\* ... and with one less than a power of two it is the remainder.
LEMMA AndPower ==
  ASSUME NEW n \in Nat, NEW a \in Nat \ {0}, PowerOfTwo(a)
  PROVE  And(n, a - 1) = n % a
<1>0. \E k \in 0..a : Powers[k] = a
  BY Zenon DEF PowerOfTwo, Powers
<1>1. PICK k \in Nat : Powers[k] = a
  BY <1>0
<1> DEFINE T == {j \in Nat : \A i \in Nat : \A x \in Nat :
                   j <= i => Mask[i][<<x, Powers[j] - 1>>] = x % Powers[j]}
<1>2. 0 \in T
  <2>1. ASSUME NEW i \in Nat, NEW x \in Nat PROVE Mask[i][<<x, 0>>] = 0
    BY MaskBound
  <2>2. Powers[0] - 1 = 0 /\ \A x \in Nat : x % Powers[0] = 0
    BY PowersDef
  <2> QED
    BY <2>1, <2>2
<1>3. ASSUME NEW j \in Nat, j \in T PROVE j + 1 \in T
  <2>1. SUFFICES ASSUME NEW i \in Nat, NEW x \in Nat, j + 1 <= i
                 PROVE  Mask[i][<<x, Powers[j + 1] - 1>>] = x % Powers[j + 1]
    OBVIOUS
  <2> DEFINE b == Powers[j]
             y == Powers[j + 1] - 1
             m == i - 1
  <2>2. b \in Nat \ {0} /\ Powers[j + 1] = 2 * b /\ y = 2 * b - 1 /\ y \in Nat
    BY PowersDef
  <2>3. m \in Nat /\ m + 1 = i /\ j <= m
    BY <2>1
  <2> HIDE DEF b, y, m
  <2>4. y \div 2 = b - 1 /\ y % 2 = 1
    BY <2>2
  <2>5. Mask[i][<<x, y>>] = 2 * Mask[m][<<x \div 2, y \div 2>>] + Bit(x, y)
    BY <2>2, <2>3, MaskStep
  <2>6. x \div 2 \in Nat /\ Bit(x, y) = x % 2
    BY <2>4 DEF Bit
  <2>7. Mask[m][<<x \div 2, b - 1>>] = (x \div 2) % b
    BY <1>3, <2>3, <2>6 DEF b
  <2>8. Mask[i][<<x, y>>] = 2 * ((x \div 2) % b) + (x % 2)
    BY <2>4, <2>5, <2>6, <2>7
  <2>9. Mask[i][<<x, y>>] = x % (2 * b)
    BY <2>2, <2>8, ModHalves
  <2> QED
    BY <2>2, <2>9 DEF y
<1> HIDE DEF T
<1>4. k \in T
  BY <1>2, <1>3, Inductive
<1>5. a - 1 \in Nat /\ k <= a - 1
  BY <1>1, PowersDef
<1>6. And(n, a - 1) = Mask[a - 1][<<n, a - 1>>]
  BY DEF And, Mask, Rounds
<1>7. Mask[a - 1][<<n, Powers[k] - 1>>] = n % Powers[k]
  BY <1>4, <1>5 DEF T
<1> QED
  BY <1>1, <1>6, <1>7

-----------------------------------------------------------------------------
(* Cutting a list into software descriptors.                               *)

Sgl == Seq(Nat \ {0})
CutType == [sg: Nat \ {0}, o: Int, n: Int]

\* A scatter list, its entries and their sums.
LEMMA SglFacts ==
  ASSUME NEW sgl \in Sgl
  PROVE  /\ sgl \in Seq(Nat)
         /\ Len(sgl) \in Nat
         /\ \A i \in 1..Len(sgl) : sgl[i] \in Nat /\ sgl[i] > 0
         /\ Sums(sgl) \in [0..Len(sgl) -> Nat]
         /\ Sums(sgl)[0] = 0
         /\ \A i \in 1..Len(sgl) : Sums(sgl)[i] = Sums(sgl)[i - 1] + sgl[i]
         /\ \A i \in 0..Len(sgl) : Sums(sgl)[i] <= Total(sgl)
         /\ Total(sgl) \in Nat
<1>1. sgl \in Seq(Nat) /\ Len(sgl) \in Nat /\ \A i \in 1..Len(sgl) : sgl[i] \in Nat /\ sgl[i] > 0
  BY DEF Sgl
<1>2. /\ Sums(sgl) \in [0..Len(sgl) -> Nat]
      /\ Sums(sgl)[0] = 0
      /\ \A i \in 1..Len(sgl) : Sums(sgl)[i] = Sums(sgl)[i - 1] + sgl[i]
  BY <1>1, SumsDef
<1>3. \A i \in 0..Len(sgl) : Sums(sgl)[i] <= Total(sgl)
  BY <1>1, SumsGrow
<1>4. Total(sgl) \in Nat
  BY <1>1, <1>2 DEF Total
<1> QED
  BY <1>1, <1>2, <1>3, <1>4

\* One round of the cutting loop keeps the type of its state.
LEMMA AdvanceType ==
  ASSUME NEW sgl \in Sgl, NEW c \in CutType
  PROVE  Advance(sgl, c) \in CutType
<1>1. CASE c.sg > Len(sgl)
  BY <1>1 DEF Advance
<1>2. CASE ~(c.sg > Len(sgl))
  <2>1. c.sg \in 1..Len(sgl) /\ sgl[c.sg] \in Nat /\ Blen \in Nat
    <3>1. Len(sgl) \in Nat /\ \A i \in 1..Len(sgl) : sgl[i] \in Nat
      BY SglFacts
    <3>2. c.sg \in Nat \ {0}
      BY DEF CutType
    <3>3. Blen \in Nat
      BY RingAssumption
    <3>4. c.sg \in 1..Len(sgl)
      BY <1>2, <3>1, <3>2
    <3> QED
      BY <3>1, <3>3, <3>4
  <2> QED
    BY <1>2, <2>1 DEF Advance, CutType
<1> QED
  BY <1>1, <1>2

\* Cuts() is what its recursive definition says.
LEMMA CutsDef ==
  ASSUME NEW sgl \in Sgl
  PROVE  /\ Cuts(sgl) \in [Nat -> CutType]
         /\ Cuts(sgl)[0] = [sg |-> 1, o |-> 0, n |-> 0]
         /\ \A j \in Nat : Cuts(sgl)[j + 1] = Advance(sgl, Cuts(sgl)[j])
<1> DEFINE z == [sg |-> 1, o |-> 0, n |-> 0]
           Step(f) == [j \in Nat |-> IF j = 0 THEN z ELSE Advance(sgl, f[j - 1])]
           g == [p \in Nat \X CutType |-> Advance(sgl, p[2])]
<1>1. z \in CutType
  BY DEF CutType
<1>2. g \in Steps(CutType)
  BY AdvanceType DEF Steps
<1>3. \A n \in Nat : \A x \in CutType : g[<<n, x>>] = Advance(sgl, x)
  OBVIOUS
<1> HIDE DEF g
<1>4. Cuts(sgl) = CHOOSE f : f = Step(f)
  BY DEF Cuts
<1> HIDE DEF z
<1>5. PICK f : ByStep(CutType, z, g, f)
  BY <1>1, <1>2, Recursion
<1>6. f \in [Nat -> CutType] /\ f[0] = z /\ \A n \in Nat : f[n + 1] = Advance(sgl, f[n])
  BY <1>3, <1>5 DEF ByStep
<1>7. f = Step(f)
  <2>1. ASSUME NEW j \in Nat
        PROVE  f[j] = IF j = 0 THEN z ELSE Advance(sgl, f[j - 1])
    <3>1. j # 0 => j - 1 \in Nat /\ (j - 1) + 1 = j
      OBVIOUS
    <3> QED
      BY <1>6, <3>1
  <2> QED
    BY <1>6, <2>1
<1> HIDE DEF Step
<1>8. Cuts(sgl) = Step(Cuts(sgl))
  BY <1>4, <1>7
<1>9. Cuts(sgl)[0] = z
  BY <1>8 DEF Step
<1>10. ASSUME NEW j \in Nat
       PROVE  Cuts(sgl)[j + 1] = Advance(sgl, Cuts(sgl)[j])
  <2>1. j + 1 \in Nat /\ j + 1 # 0 /\ (j + 1) - 1 = j
    OBVIOUS
  <2>2. Step(Cuts(sgl))[j + 1] = Advance(sgl, Cuts(sgl)[(j + 1) - 1])
    BY <2>1 DEF Step
  <2> QED
    BY <1>8, <2>1, <2>2
<1>11. \A j \in Nat : Cuts(sgl)[j] \in CutType
  <2> DEFINE T == {j \in Nat : Cuts(sgl)[j] \in CutType}
  <2>1. 0 \in T
    BY <1>1, <1>9
  <2>2. ASSUME NEW j \in Nat, j \in T PROVE j + 1 \in T
    BY <1>10, <2>2, AdvanceType
  <2> HIDE DEF T
  <2>3. \A j \in Nat : j \in T
    BY <2>1, <2>2, Inductive
  <2> QED
    BY <2>3 DEF T
<1>12. Cuts(sgl) \in [Nat -> CutType]
  <2>1. Cuts(sgl) = [j \in Nat |-> Cuts(sgl)[j]]
    <3>1. Step(Cuts(sgl)) = [j \in Nat |-> Step(Cuts(sgl))[j]]
      BY DEF Step
    <3> QED
      BY <1>8, <3>1
  <2> QED
    BY <1>11, <2>1
<1> QED
  BY <1>9, <1>10, <1>12 DEF z

\* The sizes are positive.
LEMMA Consts ==
  /\ Size \in Nat /\ Size > 0
  /\ Block \in Nat /\ Block > 0
  /\ Blen \in Nat /\ Blen > 0
  /\ Aperture \in Nat /\ Aperture > 0
BY RingAssumption

\* The end of a list is where its total is reached.
LEMMA AtTotal ==
  ASSUME NEW sgl \in Sgl, NEW i, NEW o, NEW n, At(sgl, i, o, n)
  PROVE  n \in Nat /\ n <= Total(sgl) /\ (n = Total(sgl) <=> i = Len(sgl))
<1>1. i \in 0..Len(sgl) /\ i \in Nat /\ o \in Nat /\ Len(sgl) \in Nat /\ Total(sgl) \in Nat
      /\ Sums(sgl)[i] \in Nat /\ n = Sums(sgl)[i] + o
  BY SglFacts DEF At
<1>2. CASE i = Len(sgl)
  BY <1>1, <1>2 DEF At, Total
<1>3. CASE i < Len(sgl)
  <2>1. i + 1 \in 1..Len(sgl) /\ (i + 1) - 1 = i /\ i + 1 \in 0..Len(sgl)
    BY <1>1, <1>3
  <2>2. /\ Sums(sgl)[i + 1] = Sums(sgl)[i] + sgl[i + 1]
        /\ Sums(sgl)[i + 1] <= Total(sgl)
        /\ sgl[i + 1] \in Nat
    BY <2>1, SglFacts
  <2>3. o < sgl[i + 1]
    BY <1>3 DEF At
  <2> QED
    BY <1>1, <1>3, <2>2, <2>3
<1> QED
  BY <1>1, <1>2, <1>3

\* One round moves on by what the descriptor it cut moves, and keeps the place.
LEMMA AdvancePlace ==
  ASSUME NEW sgl \in Sgl, NEW c \in CutType, c.sg <= Len(sgl),
         At(sgl, c.sg - 1, c.o, c.n)
  PROVE  /\ Piece(sgl, c) \in PieceType
         /\ Piece(sgl, c).len \in 1..Blen
         /\ c.o + Piece(sgl, c).len <= sgl[c.sg]
         /\ Advance(sgl, c).n = c.n + Piece(sgl, c).len
         /\ At(sgl, Advance(sgl, c).sg - 1, Advance(sgl, c).o, Advance(sgl, c).n)
<1>1. /\ c.sg \in 1..Len(sgl) /\ c.sg \in Nat /\ c.o \in Nat /\ c.n \in Nat
      /\ sgl[c.sg] \in Nat /\ c.o < sgl[c.sg] /\ Blen \in Nat /\ Blen > 0
      /\ c.n = Sums(sgl)[c.sg - 1] + c.o /\ Len(sgl) \in Nat
      /\ Sums(sgl)[c.sg - 1] \in Nat
  <2>1. c.sg \in 1..Len(sgl) /\ Len(sgl) \in Nat /\ c.sg - 1 \in 0..Len(sgl)
        /\ (c.sg - 1) + 1 = c.sg /\ c.sg - 1 < Len(sgl)
    BY SglFacts DEF CutType
  <2>2. c.o \in Nat /\ c.o < sgl[c.sg] /\ c.n = Sums(sgl)[c.sg - 1] + c.o
    BY <2>1 DEF At
  <2>3. sgl[c.sg] \in Nat /\ Sums(sgl)[c.sg - 1] \in Nat
    BY <2>1, SglFacts
  <2> QED
    BY <2>1, <2>2, <2>3, Consts
<1> DEFINE len == Least(sgl[c.sg] - c.o, Blen)
<1>2. len \in 1..Blen /\ c.o + len <= sgl[c.sg]
  BY <1>1 DEF Least
<1>3. Piece(sgl, c).len = len /\ Piece(sgl, c) \in PieceType
  BY <1>1, <1>2 DEF Piece, PieceType
<1>4. CASE sgl[c.sg] - c.o > Blen
  <2>1. Advance(sgl, c) = [sg |-> c.sg, o |-> c.o + Blen, n |-> c.n + Blen] /\ len = Blen
    BY <1>1, <1>4 DEF Advance, Least
  <2>2. At(sgl, c.sg - 1, c.o + Blen, c.n + Blen)
    <3>1. (c.sg - 1) + 1 = c.sg /\ c.sg - 1 \in 0..Len(sgl) /\ c.sg - 1 # Len(sgl)
      BY <1>1
    <3>2. c.o + Blen \in Nat /\ c.o + Blen < sgl[c.sg]
      BY <1>1, <1>4
    <3>3. c.n + Blen = Sums(sgl)[c.sg - 1] + (c.o + Blen)
      BY <1>1
    <3> QED
      BY <3>1, <3>2, <3>3 DEF At
  <2> QED
    BY <1>2, <1>3, <2>1, <2>2
<1>5. CASE ~(sgl[c.sg] - c.o > Blen)
  <2>1. /\ Advance(sgl, c) = [sg |-> c.sg + 1, o |-> 0, n |-> c.n + sgl[c.sg] - c.o]
        /\ len = sgl[c.sg] - c.o
    BY <1>1, <1>5 DEF Advance, Least
  <2>2. At(sgl, c.sg, 0, c.n + sgl[c.sg] - c.o)
    <3>1. Sums(sgl)[c.sg] = Sums(sgl)[c.sg - 1] + sgl[c.sg]
      BY <1>1, SglFacts
    <3>2. c.n + sgl[c.sg] - c.o = Sums(sgl)[c.sg] + 0
      BY <1>1, <3>1
    <3>3. c.sg < Len(sgl) => 0 < sgl[c.sg + 1]
      <4>1. c.sg < Len(sgl) => c.sg + 1 \in 1..Len(sgl)
        BY <1>1
      <4> QED
        BY <4>1, SglFacts
    <3> QED
      BY <1>1, <3>2, <3>3 DEF At
  <2>3. (c.sg + 1) - 1 = c.sg
    BY <1>1
  <2>4. Advance(sgl, c).n = c.n + len
    BY <1>1, <2>1
  <2> QED
    BY <1>2, <1>3, <2>1, <2>2, <2>3, <2>4
<1> QED
  BY <1>4, <1>5

\* The loop always knows its place in the list.
LEMMA CutsPlace ==
  ASSUME NEW sgl \in Sgl, sgl # <<>>, NEW j \in Nat
  PROVE  At(sgl, Cuts(sgl)[j].sg - 1, Cuts(sgl)[j].o, Cuts(sgl)[j].n)
<1> DEFINE A(c) == At(sgl, c.sg - 1, c.o, c.n)
           T == {i \in Nat : A(Cuts(sgl)[i])}
<1>1. 0 \in T
  <2>1. At(sgl, 0, 0, 0)
    <3>1. Len(sgl) \in Nat /\ 0 \in 0..Len(sgl) /\ Len(sgl) # 0
      BY EmptySeq DEF Sgl
    <3>2. 0 + 1 \in 1..Len(sgl)
      BY <3>1
    <3>3. 0 < sgl[0 + 1]
      BY <3>2, SglFacts
    <3>4. Sums(sgl)[0] = 0
      BY SglFacts
    <3> QED
      BY <3>1, <3>3, <3>4 DEF At
  <2>2. Cuts(sgl)[0].sg - 1 = 0 /\ Cuts(sgl)[0].o = 0 /\ Cuts(sgl)[0].n = 0
    BY CutsDef
  <2> QED
    BY <2>1, <2>2
<1>2. ASSUME NEW i \in Nat, i \in T PROVE i + 1 \in T
  <2>1. Cuts(sgl)[i] \in CutType /\ Cuts(sgl)[i + 1] = Advance(sgl, Cuts(sgl)[i])
    BY CutsDef
  <2>2. CASE Cuts(sgl)[i].sg > Len(sgl)
    <3>1. Cuts(sgl)[i + 1] = Cuts(sgl)[i]
      BY <2>1, <2>2 DEF Advance
    <3> QED
      BY <1>2, <3>1
  <2>3. CASE ~(Cuts(sgl)[i].sg > Len(sgl))
    <3>1. Cuts(sgl)[i].sg <= Len(sgl)
      BY <2>1, <2>3, SglFacts DEF CutType
    <3>2. A(Advance(sgl, Cuts(sgl)[i]))
      BY <1>2, <2>1, <3>1, AdvancePlace
    <3> QED
      BY <2>1, <3>2
  <2> QED
    BY <2>2, <2>3
<1> HIDE DEF T
<1>3. j \in T
  BY <1>1, <1>2, Inductive
<1> QED
  BY <1>3 DEF T

\* Every descriptor moves at least one unit, so the loop ends.
LEMMA CutsEnd ==
  ASSUME NEW sgl \in Sgl, sgl # <<>>
  PROVE  \E j \in 0..Total(sgl) :
           Cuts(sgl)[j].sg > Len(sgl) /\ \A k \in 0..(j - 1) : Cuts(sgl)[k].sg <= Len(sgl)
<1> DEFINE cut == Cuts(sgl)
           In(j) == \A k \in 0..(j - 1) : cut[k].sg <= Len(sgl)
           P == {j \in Nat : In(j) => cut[j].n >= j}
           T == {j \in Nat : cut[j].sg > Len(sgl)}
<1>0. Len(sgl) \in Nat /\ Total(sgl) \in Nat
  BY SglFacts
<1>1. \A j \in Nat : cut[j] \in CutType /\ cut[j].sg \in Nat /\ cut[j].n \in Int
  BY CutsDef DEF CutType
<1>2. 0 \in P
  BY CutsDef
<1>3. ASSUME NEW j \in Nat, j \in P PROVE j + 1 \in P
  <2>1. SUFFICES ASSUME In(j + 1) PROVE cut[j + 1].n >= j + 1
    OBVIOUS
  <2>2. (j + 1) - 1 = j /\ 0..(j - 1) \subseteq 0..j /\ j \in 0..j
    OBVIOUS
  <2>3. In(j) /\ cut[j].sg <= Len(sgl)
    BY <2>1, <2>2
  <2>4. cut[j].n >= j
    BY <1>3, <2>3
  <2>5. cut[j + 1].n = cut[j].n + Piece(sgl, cut[j]).len /\ Piece(sgl, cut[j]).len \in 1..Blen
    BY <1>1, <2>3, AdvancePlace, CutsPlace, CutsDef
  <2>6. cut[j].n \in Int /\ Blen \in Nat
    BY <1>1, Consts
  <2> QED
    BY <2>4, <2>5, <2>6
<1> HIDE DEF P
<1>4. \A j \in Nat : j \in P
  BY <1>2, <1>3, Inductive
<1> DEFINE N == Total(sgl) + 1
<1>5. N \in Nat /\ N - 1 = Total(sgl)
  BY <1>0
<1>6. ~In(N)
  <2>1. SUFFICES ASSUME In(N) PROVE FALSE
    OBVIOUS
  <2>2. cut[N].n >= N
    BY <1>4, <1>5, <2>1 DEF P
  <2>3. At(sgl, cut[N].sg - 1, cut[N].o, cut[N].n)
    BY <1>5, CutsPlace
  <2>4. cut[N].n \in Nat /\ cut[N].n <= Total(sgl)
    BY <2>3, AtTotal
  <2> QED
    BY <1>0, <2>2, <2>4
<1>7. PICK i \in 0..Total(sgl) : cut[i].sg > Len(sgl)
  BY <1>0, <1>1, <1>5, <1>6
<1>8. T \in SUBSET Nat /\ T # {} /\ i \in T
  BY <1>0, <1>7
<1>9. PICK j \in T : \A y \in T : j <= y
  BY <1>8, LeastOf
<1>10. j \in 0..Total(sgl) /\ cut[j].sg > Len(sgl)
  BY <1>0, <1>7, <1>8, <1>9
<1>11. ASSUME NEW k \in 0..(j - 1) PROVE cut[k].sg <= Len(sgl)
  BY <1>0, <1>1, <1>9, <1>10
<1> QED
  BY <1>10, <1>11

\* Room for the count, once it is named.
Ended(sgl, j) ==
  Cuts(sgl)[j].sg > Len(sgl) /\ \A k \in 0..(j - 1) : Cuts(sgl)[k].sg <= Len(sgl)
Count(sgl) == CHOOSE j \in 0..Total(sgl) : Ended(sgl, j)

\* What is known of the software descriptors.
LEMMA InitRequest ==
  ASSUME NEW sgl \in Sgl, sgl # <<>>
  PROVE  /\ xdma_init_request(sgl) \in Seq(PieceType)
         /\ Len(xdma_init_request(sgl)) \in Nat \ {0}
         /\ \A j \in 1..Len(xdma_init_request(sgl)) :
              /\ xdma_init_request(sgl)[j] = Piece(sgl, Cuts(sgl)[j - 1])
              /\ Cuts(sgl)[j - 1] \in CutType
              /\ Cuts(sgl)[j - 1].sg <= Len(sgl)
              /\ At(sgl, Cuts(sgl)[j - 1].sg - 1, Cuts(sgl)[j - 1].o, Cuts(sgl)[j - 1].n)
              /\ xdma_init_request(sgl)[j].at + xdma_init_request(sgl)[j].len = Cuts(sgl)[j].n
         /\ Cuts(sgl)[Len(xdma_init_request(sgl))].n = Total(sgl)
         /\ Ended(sgl, Len(xdma_init_request(sgl)))
<1> DEFINE cut == Cuts(sgl)
           cnt == Count(sgl)
           p == xdma_init_request(sgl)
<1>1. cnt \in 0..Total(sgl) /\ Ended(sgl, cnt)
  BY CutsEnd DEF Count, Ended
<1>2. p = [j \in 1..cnt |-> Piece(sgl, cut[j - 1])]
  BY DEF xdma_init_request, Count, Ended
<1>3. Len(sgl) \in Nat /\ Total(sgl) \in Nat /\ cnt \in Nat /\ Len(sgl) # 0
  <2>1. Len(sgl) # 0
    BY EmptySeq DEF Sgl
  <2> QED
    BY <1>1, <2>1, SglFacts
<1>4. cnt # 0
  <2>1. cut[0].sg = 1
    BY CutsDef
  <2>2. cut[cnt].sg > Len(sgl)
    BY <1>1 DEF Ended
  <2> HIDE DEF cnt
  <2> QED
    BY <1>3, <2>1, <2>2
<1>5. ASSUME NEW j \in 1..cnt
      PROVE  /\ cut[j - 1] \in CutType
             /\ cut[j - 1].sg <= Len(sgl)
             /\ At(sgl, cut[j - 1].sg - 1, cut[j - 1].o, cut[j - 1].n)
             /\ cut[j] = Advance(sgl, cut[j - 1])
  <2>1. j - 1 \in Nat /\ j - 1 \in 0..(cnt - 1) /\ (j - 1) + 1 = j
    BY <1>3
  <2> QED
    BY <1>1, <2>1, CutsDef, CutsPlace DEF Ended
<1>6. ASSUME NEW j \in 1..cnt
      PROVE  /\ Piece(sgl, cut[j - 1]) \in PieceType
             /\ Piece(sgl, cut[j - 1]).at + Piece(sgl, cut[j - 1]).len = cut[j].n
  <2>1. /\ Piece(sgl, cut[j - 1]) \in PieceType
        /\ cut[j].n = cut[j - 1].n + Piece(sgl, cut[j - 1]).len
    BY <1>5, AdvancePlace
  <2>2. Piece(sgl, cut[j - 1]).at = cut[j - 1].n
    BY DEF Piece
  <2> QED
    BY <2>1, <2>2
<1>7. p \in Seq(PieceType) /\ Len(p) = cnt
  <2>1. p \in [1..cnt -> PieceType]
    BY <1>2, <1>6
  <2> QED
    BY <1>3, <2>1
<1>8. cut[cnt].n = Total(sgl)
  <2>1. At(sgl, cut[cnt].sg - 1, cut[cnt].o, cut[cnt].n)
    BY <1>3, CutsPlace
  <2>2. cut[cnt].sg - 1 \in 0..Len(sgl) /\ cut[cnt].sg > Len(sgl) /\ cut[cnt].sg \in Nat
    BY <1>1, <1>3, <2>1, CutsDef DEF Ended, At, CutType
  <2>3. cut[cnt].sg - 1 = Len(sgl)
    BY <1>3, <2>2
  <2> QED
    BY <2>1, <2>3, AtTotal
<1>9. \A j \in 1..cnt : p[j] = Piece(sgl, cut[j - 1])
  BY <1>2
<1> HIDE DEF p, cnt
<1>10. \A j \in 1..Len(p) : p[j] = Piece(sgl, cut[j - 1]) /\ p[j].at + p[j].len = cut[j].n
  BY <1>6, <1>7, <1>9
<1> QED
  BY <1>1, <1>3, <1>4, <1>5, <1>7, <1>8, <1>10 DEF p

\* The descriptors that a list entry longer than a descriptor adds to the room.
Extra(sgl) ==
  [i \in 1..Len(sgl) |-> IF sgl[i] > Blen THEN (sgl[i] + Blen - 1) \div Blen ELSE 0]

\* Descriptor k + 1 of list entry i is the last one at most when Extra is reached.
LEMMA ExtraEnough ==
  ASSUME NEW L \in Nat, NEW k \in Nat, k * Blen < L
  PROVE  k <= IF L > Blen THEN (L + Blen - 1) \div Blen ELSE 0
<1>0. Blen \in Nat /\ Blen > 0
  BY Consts
<1>1. CASE k = 0
  <2>1. L > Blen => (L + Blen - 1) \div Blen \in Nat
    <3>1. L + Blen - 1 \in Int /\ L + Blen - 1 >= 0 /\ Blen \in Int
      BY <1>0
    <3> QED
      BY <1>0, <3>1, DivMod
  <2> QED
    BY <1>1, <2>1
<1>2. CASE k >= 1
  <2>1. k * Blen >= Blen /\ k * Blen \in Nat
    BY <1>0, <1>2
  <2>2. L > Blen
    BY <1>0, <2>1
  <2> DEFINE x == L + Blen - 1
             e == x \div Blen
             m == x % Blen
  <2>3. e \in Nat /\ m \in 0..(Blen - 1) /\ x = Blen * e + m
    <3>1. x \in Int /\ x >= 0 /\ Blen \in Int
      BY <1>0
    <3> HIDE DEF x
    <3> QED
      BY <1>0, <3>1, DivMod
  <2> HIDE DEF e, m
  <2>4. L <= Blen * e /\ Blen * e \in Nat
    BY <1>0, <2>3
  <2>5. k < e
    <3>1. SUFFICES ASSUME k >= e PROVE FALSE
      BY <2>3
    <3>2. k * Blen >= Blen * e
      BY <1>0, <2>3, <3>1
    <3> QED
      BY <1>0, <2>1, <2>4, <3>2
  <2> QED
    BY <2>2, <2>3, <2>5 DEF e
<1> QED
  BY <1>1, <1>2

\* The software descriptors of a request fit the room that was allocated.
LEMMA RoomEnough ==
  ASSUME NEW sgl \in Sgl, sgl # <<>>
  PROVE  Len(xdma_init_request(sgl)) <= SdescRoom(sgl)
<1> DEFINE cut == Cuts(sgl)
           cnt == Len(xdma_init_request(sgl))
           ext == Extra(sgl)
           E == Sums(ext)
           R(c, j) == \E k \in Nat : c.o = k * Blen /\ j <= (c.sg - 1) + E[c.sg - 1] + k
           P == {j \in Nat : j <= cnt => R(cut[j], j)}
<1>0. /\ Blen \in Nat /\ Blen > 0 /\ Len(sgl) \in Nat /\ cnt \in Nat
      /\ Ended(sgl, cnt)
  BY Consts, SglFacts, InitRequest
<1>1. ext \in Seq(Nat) /\ Len(ext) = Len(sgl)
  <2>1. ASSUME NEW i \in 1..Len(sgl)
        PROVE  (IF sgl[i] > Blen THEN (sgl[i] + Blen - 1) \div Blen ELSE 0) \in Nat
    <3>1. sgl[i] + Blen - 1 \in Int /\ sgl[i] + Blen - 1 >= 0 /\ Blen \in Int
      BY <1>0, SglFacts
    <3> QED
      BY <1>0, <3>1, DivMod
  <2>2. ext \in [1..Len(sgl) -> Nat]
    BY <2>1 DEF Extra
  <2> QED
    BY <1>0, <2>2
<1>2. /\ E \in [0..Len(sgl) -> Nat] /\ E[0] = 0
      /\ \A i \in 1..Len(sgl) : E[i] = E[i - 1] + ext[i]
  BY <1>1, SumsDef
<1>3. \A i \in 1..Len(sgl) :
        ext[i] = (IF sgl[i] > Blen THEN (sgl[i] + Blen - 1) \div Blen ELSE 0) /\ ext[i] \in Nat
  BY <1>0, <1>1 DEF Extra
<1>4. SdescRoom(sgl) = Len(sgl) + E[Len(sgl)]
  BY <1>1 DEF SdescRoom, Total, Extra
<1> HIDE DEF ext, E, cnt
<1>5. 0 \in P
  <2>1. cut[0].o = 0 /\ cut[0].sg - 1 = 0
    BY CutsDef
  <2>2. 0 = 0 * Blen /\ 0 <= 0 + E[0] + 0
    BY <1>0, <1>2
  <2> QED
    BY <2>1, <2>2
<1>6. ASSUME NEW j \in Nat, j \in P PROVE j + 1 \in P
  <2>1. SUFFICES ASSUME j + 1 <= cnt PROVE R(cut[j + 1], j + 1)
    OBVIOUS
  <2>2. PICK k \in Nat : cut[j].o = k * Blen /\ j <= (cut[j].sg - 1) + E[cut[j].sg - 1] + k
    BY <1>0, <1>6, <2>1
  <2> DEFINE c == cut[j]
             d == cut[j + 1]
  <2>3. c \in CutType /\ d = Advance(sgl, c)
    BY CutsDef
  <2>4. c.sg <= Len(sgl)
    <3>1. j \in 0..(cnt - 1)
      BY <1>0, <2>1
    <3> QED
      BY <1>0, <3>1 DEF Ended
  <2>5. At(sgl, c.sg - 1, c.o, c.n)
    BY CutsPlace
  <2> HIDE DEF c, d
  <2>6. /\ c.sg \in 1..Len(sgl) /\ c.o \in Nat /\ c.o < sgl[c.sg] /\ sgl[c.sg] \in Nat
        /\ c.sg - 1 \in 0..Len(sgl)
    <3>1. c.sg \in 1..Len(sgl) /\ (c.sg - 1) + 1 = c.sg /\ c.sg - 1 < Len(sgl)
          /\ c.sg - 1 \in 0..Len(sgl)
      BY <1>0, <2>3, <2>4 DEF CutType
    <3> QED
      BY <2>5, <3>1, SglFacts DEF At
  <2>7. c.o = k * Blen /\ j <= (c.sg - 1) + E[c.sg - 1] + k /\ E[c.sg - 1] \in Nat
    BY <1>2, <2>2, <2>6 DEF c
  <2>8. CASE sgl[c.sg] - c.o > Blen
    <3>1. d.sg = c.sg /\ d.o = c.o + Blen
      BY <1>0, <2>3, <2>4, <2>6, <2>8 DEF Advance
    <3>2. c.o + Blen = (k + 1) * Blen /\ k + 1 \in Nat
      BY <1>0, <2>7
    <3>3. j + 1 <= (d.sg - 1) + E[d.sg - 1] + (k + 1)
      <4> DEFINE x == c.sg
                 y == E[c.sg - 1]
      <4>1. x \in Nat /\ y \in Nat /\ j <= (x - 1) + y + k
        BY <1>0, <2>6, <2>7
      <4> HIDE DEF x, y
      <4>2. j + 1 <= (x - 1) + y + (k + 1)
        BY <4>1
      <4> QED
        BY <3>1, <4>2 DEF x, y
    <3> QED
      BY <3>1, <3>2, <3>3 DEF d
  <2>9. CASE ~(sgl[c.sg] - c.o > Blen)
    <3>1. d.sg = c.sg + 1 /\ d.o = 0 /\ d.sg - 1 = c.sg
      BY <1>0, <2>3, <2>4, <2>6, <2>9 DEF Advance
    <3>2. k <= ext[c.sg]
      BY <1>3, <2>6, <2>7, ExtraEnough
    <3>3. E[c.sg] = E[c.sg - 1] + ext[c.sg] /\ ext[c.sg] \in Nat
      BY <1>2, <1>3, <2>6
    <3>4. 0 = 0 * Blen
      BY <1>0
    <3>5. j + 1 <= c.sg + E[c.sg] + 0
      <4> DEFINE x == c.sg
                 y == E[c.sg - 1]
                 z == ext[c.sg]
      <4>1. x \in Nat /\ y \in Nat /\ z \in Nat /\ j <= (x - 1) + y + k /\ k <= z
        BY <1>0, <2>6, <2>7, <3>2, <3>3
      <4>2. E[c.sg] = y + z
        BY <3>3
      <4> HIDE DEF x, y, z
      <4>3. j + 1 <= x + (y + z) + 0
        BY <4>1
      <4> QED
        BY <4>2, <4>3 DEF x
    <3> QED
      BY <3>1, <3>4, <3>5 DEF d
  <2> QED
    BY <2>8, <2>9
<1> HIDE DEF P
<1>7. \A j \in Nat : j \in P
  BY <1>5, <1>6, Inductive
<1>8. PICK k \in Nat : cut[cnt].o = k * Blen /\ cnt <= (cut[cnt].sg - 1) + E[cut[cnt].sg - 1] + k
  BY <1>0, <1>7 DEF P
<1>9. cut[cnt].sg - 1 = Len(sgl) /\ cut[cnt].o = 0
  <2>1. At(sgl, cut[cnt].sg - 1, cut[cnt].o, cut[cnt].n)
    BY <1>0, CutsPlace
  <2>2. cut[cnt].sg - 1 \in 0..Len(sgl) /\ cut[cnt].sg > Len(sgl) /\ cut[cnt].sg \in Nat
    BY <1>0, <2>1, CutsDef DEF Ended, At, CutType
  <2>3. cut[cnt].sg - 1 = Len(sgl)
    BY <1>0, <2>2
  <2> QED
    BY <2>1, <2>3 DEF At
<1>10. k = 0
  <2>1. k * Blen = 0
    BY <1>8, <1>9
  <2> QED
    BY <1>0, <2>1
<1>11. cnt <= Len(sgl) + E[Len(sgl)] + 0
  BY <1>8, <1>9, <1>10
<1>12. E[Len(sgl)] \in Nat
  BY <1>0, <1>2
<1> QED
  BY <1>0, <1>4, <1>11, <1>12 DEF cnt

-----------------------------------------------------------------------------
(* Types.                                                                  *)

\* None is neither a request nor a descriptor, and no list is empty.
LEMMA Names ==
  /\ None \notin Reqs
  /\ None \notin Desc(AnyPiece)
  /\ \A l \in Lists \cup Wide : l \in Sgl /\ l # <<>>
BY RingAssumption DEF Sgl, AnyPiece

\* The prefetch count ends in the block of the next descriptor and in the chain.
LEMMA AdjBounds ==
  ASSUME NEW m \in Int, NEW next \in Nat
  PROVE  /\ xdma_get_next_adj(m, next) \in 0..(Block - 1)
         /\ (next % Block) + xdma_get_next_adj(m, next) < Block
         /\ m > 0 => xdma_get_next_adj(m, next) <= m - 1
<1> DEFINE x == next % Block
<1>1. x \in 0..(Block - 1) /\ Block \in Nat /\ Block > 0
  <2>1. next \in Int /\ next >= 0 /\ Block \in Int /\ Block > 0
    BY Consts
  <2> QED
    BY <2>1, DivMod
<1>2. xdma_get_next_adj(m, next) = IF m <= 1 THEN 0 ELSE Least(Block - x - 1, m - 1)
  BY DEF xdma_get_next_adj
<1> HIDE DEF x
<1>3. /\ xdma_get_next_adj(m, next) \in 0..(Block - 1)
      /\ x + xdma_get_next_adj(m, next) < Block
      /\ m > 0 => xdma_get_next_adj(m, next) <= m - 1
  BY <1>1, <1>2 DEF Least
<1> QED
  BY <1>3 DEF x

\* A chain that is laid over the ring.
Laid(c) == [k \in Entries |-> IF k \in DOMAIN c THEN c[k] ELSE ring[k]]

\* The entries of a chain and the ring it is laid into.
LEMMA ChainType ==
  ASSUME BaseOK, NEW r \in Reqs, NEW p, NEW s \in Entries, NEW n \in Nat, s + n <= Size,
         \A j \in 1..n : p[j] \in AnyPiece
  PROVE  /\ DOMAIN Chain(r, p, s, n) = s..(s + n - 1)
         /\ \A k \in s..(s + n - 1) :
              /\ k \in Entries
              /\ Chain(r, p, s, n)[k] =
                   [own |-> r, piece |-> p[k - s + 1],
                    next |-> IF k = s + n - 1 THEN None ELSE k + 1,
                    adj |-> xdma_get_next_adj(s + n - k - 1, k + 1),
                    stop |-> k = s + n - 1]
              /\ Chain(r, p, s, n)[k] \in Desc(AnyPiece)
         /\ Laid(Chain(r, p, s, n)) \in [Entries -> Desc(AnyPiece) \cup {None}]
<1>0. Size \in Nat /\ s \in Nat
  BY Consts DEF Entries
<1>1. DOMAIN Chain(r, p, s, n) = s..(s + n - 1)
  BY DEF Chain
<1>2. ASSUME NEW k \in s..(s + n - 1)
      PROVE  /\ k \in Entries
             /\ Chain(r, p, s, n)[k] =
                   [own |-> r, piece |-> p[k - s + 1],
                    next |-> IF k = s + n - 1 THEN None ELSE k + 1,
                    adj |-> xdma_get_next_adj(s + n - k - 1, k + 1),
                    stop |-> k = s + n - 1]
             /\ Chain(r, p, s, n)[k] \in Desc(AnyPiece)
  <2>1. k \in Entries /\ k - s + 1 \in 1..n
    BY <1>0 DEF Entries
  <2> DEFINE nx == IF k = s + n - 1 THEN None ELSE k + 1
             ad == xdma_get_next_adj(s + n - k - 1, k + 1)
             st == (k = s + n - 1)
  <2>2. (IF k < s + n - 1 THEN k + 1 ELSE None) = nx
    BY <1>0
  <2>3. Chain(r, p, s, n)[k] = [own |-> r, piece |-> p[k - s + 1], next |-> nx,
                                adj |-> ad, stop |-> st]
    BY <2>2 DEF Chain
  <2>4. nx \in Entries \cup {None}
    BY <1>0 DEF Entries
  <2>5. ad \in 0..(Block - 1)
    <3>1. s + n - k - 1 \in Int /\ k + 1 \in Nat
      BY <1>0
    <3> QED
      BY <3>1, AdjBounds
  <2>6. st \in BOOLEAN /\ p[k - s + 1] \in AnyPiece
    BY <2>1
  <2> HIDE DEF nx, ad, st
  <2>7. Chain(r, p, s, n)[k] \in Desc(AnyPiece)
    BY <2>3, <2>4, <2>5, <2>6 DEF Desc
  <2> QED
    BY <2>1, <2>3, <2>7 DEF nx, ad, st
<1>3. Laid(Chain(r, p, s, n)) \in [Entries -> Desc(AnyPiece) \cup {None}]
  BY <1>1, <1>2 DEF Laid, BaseOK
<1> QED
  BY <1>1, <1>2, <1>3

\* The record of a request and its transfers.
LEMMA ReqTypes ==
  ASSUME BaseOK, NEW r \in Reqs
  PROVE  /\ req[r] \in ReqType
         /\ req[r].tfer \in Seq(AnyTfer)
         /\ Len(req[r].tfer) \in Nat
         /\ DOMAIN req[r].tfer = 1..Len(req[r].tfer)
         /\ \A k \in 1..Len(req[r].tfer) :
              /\ req[r].tfer[k] \in AnyTfer
              /\ req[r].tfer[k].start \in Nat
              /\ req[r].tfer[k].start < Size
              /\ req[r].tfer[k].num \in 0..Size
              /\ req[r].tfer[k].age \in 0..(Size + 1)
<1>1. req[r] \in ReqType
  BY DEF BaseOK
<1>2. req[r].tfer \in Seq(AnyTfer)
  BY <1>1 DEF ReqType
<1>3. Len(req[r].tfer) \in Nat /\ DOMAIN req[r].tfer = 1..Len(req[r].tfer)
      /\ \A k \in 1..Len(req[r].tfer) : req[r].tfer[k] \in AnyTfer
  BY <1>2
<1>4. Size \in Nat
  BY Consts
<1>5. ASSUME NEW t \in AnyTfer
      PROVE  t.start \in Nat /\ t.start < Size /\ t.num \in 0..Size /\ t.age \in 0..(Size + 1)
  BY <1>4 DEF AnyTfer, Entries
<1> QED
  BY <1>1, <1>2, <1>3, <1>5

\* A transfer that got older is otherwise the same.
LEMMA GrownType ==
  ASSUME NEW t \in AnyTfer, NEW n \in Nat
  PROVE  /\ Grown(t, n) \in AnyTfer
         /\ Grown(t, n).start = t.start /\ Grown(t, n).num = t.num
         /\ Grown(t, n).done = t.done /\ Grown(t, n).last = t.last
         /\ Grown(t, n).age = Least(t.age + n, Size + 1)
<1>1. Least(t.age + n, Size + 1) \in 0..(Size + 1)
  BY Consts DEF AnyTfer, Least
<1> QED
  BY <1>1 DEF AnyTfer, Grown

\* Requests whose transfers got older are otherwise the same.
LEMMA AgedType ==
  ASSUME BaseOK, NEW n \in Nat, NEW r \in Reqs
  PROVE  /\ Aged(n)[r] \in ReqType
         /\ Rest(Aged(n)[r]) = Rest(req[r])
         /\ Len(Aged(n)[r].tfer) = Len(req[r].tfer)
         /\ \A k \in 1..Len(req[r].tfer) : Aged(n)[r].tfer[k] = Grown(req[r].tfer[k], n)
<1> DEFINE ts == req[r].tfer
           us == [k \in DOMAIN ts |-> Grown(ts[k], n)]
<1>1. Aged(n)[r] = [req[r] EXCEPT !.tfer = us]
  BY DEF Aged
<1>2. ts \in Seq(AnyTfer) /\ Len(ts) \in Nat /\ DOMAIN ts = 1..Len(ts) /\ req[r] \in ReqType
      /\ \A k \in 1..Len(ts) : ts[k] \in AnyTfer
  BY ReqTypes
<1>3. us \in [1..Len(ts) -> AnyTfer] /\ \A k \in 1..Len(ts) : us[k] = Grown(ts[k], n)
  BY <1>2, GrownType
<1> HIDE DEF us
<1>4. us \in Seq(AnyTfer) /\ Len(us) = Len(ts)
  BY <1>2, <1>3
<1>5. Aged(n)[r] \in ReqType /\ Rest(Aged(n)[r]) = Rest(req[r]) /\ Aged(n)[r].tfer = us
  BY <1>1, <1>2, <1>4 DEF ReqType, Rest
<1> QED
  BY <1>3, <1>4, <1>5

NewTfer(n, last) ==
  [start |-> descIdx, num |-> n, done |-> FALSE, last |-> last, age |-> n]

\* What taking n entries does to every request, desc_idx and the history.
LEMMA TakeStep ==
  ASSUME BaseOK, NEW r \in Reqs, NEW q \in ReqType, q.tfer = req[r].tfer,
         NEW n \in Nat, descIdx + n <= Size, NEW last \in BOOLEAN, Take(r, q, n, last)
  PROVE  /\ req' \in [Reqs -> ReqType]
         /\ descIdx' \in Entries
         /\ descIdx' = descIdx + n \/ descIdx' = descIdx + n - Size
         /\ over' \in BOOLEAN
         /\ ~over' => ~over /\ ~Overrun(n)
         /\ \A s \in Reqs : s # r => /\ Rest(req'[s]) = Rest(req[s])
                                     /\ Len(req'[s].tfer) = Len(req[s].tfer)
         /\ Rest(req'[r]) = Rest(q)
         /\ Len(req'[r].tfer) = Len(req[r].tfer) + 1
         /\ \A s \in Reqs : \A k \in 1..Len(req[s].tfer) :
              req'[s].tfer[k] = Grown(req[s].tfer[k], n)
         /\ req'[r].tfer[Len(req[r].tfer) + 1] = NewTfer(n, last)
<1> DEFINE t == NewTfer(n, last)
           aged == Aged(n)
           us == Append(aged[r].tfer, t)
<1>0. Size \in Nat /\ descIdx \in Entries /\ descIdx \in Nat
  BY Consts DEF BaseOK, Entries
<1>1. t \in AnyTfer
  BY <1>0 DEF NewTfer, AnyTfer, Entries
<1>2. req' = [aged EXCEPT ![r] = [q EXCEPT !.tfer = us]]
  BY DEF Take, NewTfer
<1>3. DOMAIN aged = Reqs /\ aged = [s \in Reqs |-> aged[s]]
  BY DEF Aged
<1>4. ASSUME NEW s \in Reqs
      PROVE  /\ aged[s] \in ReqType
             /\ Rest(aged[s]) = Rest(req[s])
             /\ Len(aged[s].tfer) = Len(req[s].tfer)
             /\ \A k \in 1..Len(req[s].tfer) : aged[s].tfer[k] = Grown(req[s].tfer[k], n)
  BY AgedType
<1> HIDE DEF aged
<1>5. aged[r].tfer \in Seq(AnyTfer) /\ Len(req[r].tfer) \in Nat
  BY <1>4, ReqTypes DEF ReqType
<1> HIDE DEF t
<1>6. /\ us \in Seq(AnyTfer) /\ Len(us) = Len(req[r].tfer) + 1
      /\ us[Len(req[r].tfer) + 1] = t
      /\ \A k \in 1..Len(req[r].tfer) : us[k] = aged[r].tfer[k]
  <2>1. \A a \in Seq(AnyTfer) :
          /\ Append(a, t) \in Seq(AnyTfer) /\ Len(Append(a, t)) = Len(a) + 1
          /\ Append(a, t)[Len(a) + 1] = t
          /\ \A k \in 1..Len(a) : Append(a, t)[k] = a[k]
    BY <1>1, AppendProperties
  <2>2. Len(aged[r].tfer) = Len(req[r].tfer)
    BY <1>4
  <2> QED
    BY <1>5, <2>1, <2>2
<1> HIDE DEF us
<1>7. [q EXCEPT !.tfer = us] \in ReqType /\ Rest([q EXCEPT !.tfer = us]) = Rest(q)
      /\ [q EXCEPT !.tfer = us].tfer = us
  BY <1>6 DEF ReqType, Rest
<1>8. req'[r] = [q EXCEPT !.tfer = us] /\ \A s \in Reqs : s # r => req'[s] = aged[s]
  BY <1>2, <1>3
<1>9. req' \in [Reqs -> ReqType]
  <2>1. DOMAIN req' = Reqs /\ req' = [s \in Reqs |-> req'[s]]
    BY <1>2, <1>3
  <2> QED
    BY <1>4, <1>7, <1>8, <2>1
<1>10. descIdx' \in Entries /\ (descIdx' = descIdx + n \/ descIdx' = descIdx + n - Size)
  <2>1. descIdx' = (descIdx + n) % Size
    BY DEF Take
  <2> QED
    BY <1>0, <2>1, RingMod
<1>11. over' \in BOOLEAN /\ (~over' => ~over /\ ~Overrun(n))
  <2>1. over' = (over \/ Overrun(n))
    BY DEF Take
  <2> QED
    BY <2>1
<1>12. ASSUME NEW s \in Reqs, NEW k \in 1..Len(req[s].tfer)
       PROVE  req'[s].tfer[k] = Grown(req[s].tfer[k], n)
  <2>1. CASE s = r
    BY <1>4, <1>6, <1>7, <1>8, <2>1
  <2>2. CASE s # r
    BY <1>4, <1>8, <2>2
  <2> QED
    BY <2>1, <2>2
<1> QED
  BY <1>4, <1>6, <1>7, <1>8, <1>9, <1>10, <1>11, <1>12 DEF t

\* The number of descriptors of the next transfer of a request.
LEMMA ChainLengthFacts ==
  ASSUME BaseOK, NEW left \in Nat \ {0}
  PROVE  /\ ChainLength(left) \in 1..left
         /\ descIdx + ChainLength(left) <= Size
BY Consts DEF BaseOK, Entries, ChainLength, Least

\* Setting the record of one request.
LEMMA SetType ==
  ASSUME BaseOK, NEW r \in Reqs, NEW new \in ReqType, Set(r, new)
  PROVE  /\ req' \in [Reqs -> ReqType]
         /\ req'[r] = new
         /\ \A s \in Reqs : s # r => req'[s] = req[s]
BY DEF BaseOK, Set

\* The software descriptors of a request that is not idle.
LEMMA SdescFacts ==
  ASSUME BaseOK, NEW r \in Reqs, ControlInv(req[r]), req[r].pc # "idle"
  PROVE  /\ req[r].sgl \in Sgl /\ req[r].sgl # <<>>
         /\ req[r].sgl \in Lists \cup Wide
         /\ Sdesc(req[r]) \in Seq(PieceType)
         /\ Len(Sdesc(req[r])) \in Nat \ {0}
         /\ Total(req[r].sgl) \in Nat
<1>1. req[r].sgl \in Lists \cup Wide
  BY DEF ControlInv
<1>2. req[r].sgl \in Sgl /\ req[r].sgl # <<>>
  BY <1>1, Names
<1> QED
  BY <1>1, <1>2, InitRequest, SglFacts DEF Sdesc

\* What transfer_init() takes from the software descriptors.
Taking(r) == ChainLength(Len(Sdesc(req[r])) - req[r].idx)
Slice(r) ==
  [j \in 1..Taking(r) |->
     [Sdesc(req[r])[req[r].idx + j] EXCEPT
        !.ep = Address(Sdesc(req[r])[req[r].idx + j].at, descIdx + j - 1)]]
Going(r) == [req[r] EXCEPT !.pc = "queue", !.idx = req[r].idx + Taking(r),
               !.at = Sdesc(req[r])[req[r].idx + Taking(r)].at
                      + Sdesc(req[r])[req[r].idx + Taking(r)].len]

\* What transfer_init() does.
LEMMA TransferInitStep ==
  ASSUME BaseOK, NEW r \in Reqs, ControlInv(req[r]), IdxInv(req[r]), transfer_init(r)
  PROVE  /\ Taking(r) \in Nat \ {0} /\ descIdx + Taking(r) <= Size
         /\ req[r].idx + Taking(r) <= Len(Sdesc(req[r]))
         /\ \A j \in 1..Taking(r) :
              /\ Slice(r)[j] = [Sdesc(req[r])[req[r].idx + j] EXCEPT
                   !.ep = Address(Sdesc(req[r])[req[r].idx + j].at, descIdx + j - 1)]
              /\ Slice(r)[j] \in PieceType
              /\ req[r].idx + j \in 1..Len(Sdesc(req[r]))
              /\ Sdesc(req[r])[req[r].idx + j] \in PieceType
         /\ ring' = Laid(Chain(r, Slice(r), descIdx, Taking(r)))
         /\ Going(r) \in ReqType
         /\ Going(r).tfer = req[r].tfer
         /\ Rest(Going(r)) = <<"queue", req[r].kind, req[r].sgl, req[r].idx + Taking(r),
                               Cuts(req[r].sgl)[req[r].idx + Taking(r)].n, req[r].sgIdx,
                               req[r].sgOff, req[r].astray>>
         /\ Take(r, Going(r), Taking(r), req[r].idx + Taking(r) = Len(Sdesc(req[r])))
         /\ req[r].pc = "init" /\ req[r].kind # "aperture" /\ fill.own = None
         /\ UNCHANGED <<list, descLock, fill>>
<1> DEFINE p == Sdesc(req[r])
           i == req[r].idx
           n == Taking(r)
<1>1. req[r].pc = "init" /\ req[r].kind # "aperture" /\ fill.own = None
      /\ UNCHANGED <<list, descLock, fill>>
  BY DEF transfer_init, LockFree
<1>2. p \in Seq(PieceType) /\ Len(p) \in Nat \ {0} /\ req[r].sgl \in Sgl /\ req[r].sgl # <<>>
  BY <1>1, SdescFacts
<1>3. i \in Nat /\ i < Len(p)
  <2>1. i \in Nat
    BY ReqTypes DEF ReqType
  <2>2. i < Len(p)
    BY <1>1 DEF IdxInv
  <2> QED
    BY <2>1, <2>2
<1>4. n \in 1..(Len(p) - i) /\ descIdx + n <= Size
  <2>1. Len(p) - i \in Nat \ {0}
    BY <1>2, <1>3
  <2> QED
    BY <2>1, ChainLengthFacts DEF Taking
<1>5. ring' = Laid(Chain(r, Slice(r), descIdx, n)) /\ Take(r, Going(r), n, i + n = Len(p))
  BY DEF transfer_init, Taking, Slice, Going, Laid, Sdesc
<1> HIDE DEF p, n
<1>6. n \in Nat \ {0} /\ i + n <= Len(p) /\ i + n \in 1..Len(p)
  BY <1>2, <1>3, <1>4
<1>7. ASSUME NEW j \in 1..n
      PROVE  /\ Slice(r)[j] = [p[i + j] EXCEPT !.ep = Address(p[i + j].at, descIdx + j - 1)]
             /\ Slice(r)[j] \in PieceType
             /\ i + j \in 1..Len(p)
             /\ p[i + j] \in PieceType
  <2> DEFINE x == Address(p[i + j].at, descIdx + j - 1)
             y == p[i + j]
  <2>1. Slice(r)[j] = [y EXCEPT !.ep = x]
    BY DEF Slice, p, n
  <2>2. i + j \in 1..Len(p)
    <3> HIDE DEF i
    <3> QED
      BY <1>2, <1>3, <1>6
  <2>3. y \in PieceType
    BY <1>2, <2>2, ElementOfSeq
  <2>4. descIdx + j - 1 \in Nat
    <3>1. descIdx \in Nat /\ n \in Nat
      BY <1>6 DEF BaseOK, Entries
    <3> QED
      BY <3>1
  <2>5. x \in Nat
    <3>1. y.at \in Nat
      BY <2>3 DEF PieceType
    <3> QED
      BY <2>4, <3>1 DEF Address
  <2> HIDE DEF x, y
  <2>6. [y EXCEPT !.ep = x] \in PieceType
    BY <2>3, <2>5 DEF PieceType
  <2>7. Slice(r)[j] \in PieceType
    BY <2>1, <2>6
  <2> QED
    BY <2>1, <2>2, <2>3, <2>7 DEF x, y
<1>8. p[i + n].at + p[i + n].len = Cuts(req[r].sgl)[i + n].n /\ p[i + n] \in PieceType
  BY <1>2, <1>6, InitRequest DEF p, Sdesc
<1>9. p[i + n].at + p[i + n].len \in Int
  BY <1>8 DEF PieceType
<1> DEFINE q == Going(r)
<1>10. q = [req[r] EXCEPT !.pc = "queue", !.idx = i + n, !.at = p[i + n].at + p[i + n].len]
  BY DEF Going, p, n
<1>11. i + n \in Nat /\ req[r] \in ReqType
  BY <1>3, <1>6, ReqTypes
<1>12. /\ q \in ReqType /\ q.tfer = req[r].tfer
       /\ Rest(q) = <<"queue", req[r].kind, req[r].sgl, i + n, p[i + n].at + p[i + n].len,
                      req[r].sgIdx, req[r].sgOff, req[r].astray>>
  <2> HIDE DEF i
  <2> QED
    BY <1>9, <1>10, <1>11 DEF ReqType, Rest
<1> QED
  BY <1>1, <1>4, <1>5, <1>6, <1>7, <1>8, <1>12 DEF p, n

\* What the end of a pass of xdma_xfer_aperture() queues.
Filled == [j \in 1..fill.cnt |-> ring[descIdx + j - 1].piece]
Ending == [req[fill.own] EXCEPT !.pc = "queue", !.sgIdx = fill.i, !.sgOff = fill.off]

\* The state of the aperture pass.
LEMMA FillTypes ==
  ASSUME BaseOK
  PROVE  /\ fill.own \in Reqs \cup {None} /\ fill.i \in Nat /\ fill.sg \in Nat
         /\ fill.off \in Int /\ fill.tlen \in Int /\ fill.ep \in Int /\ fill.cnt \in Nat
         /\ fill.own # None => fill.own \in Reqs
         /\ descIdx \in Nat /\ descIdx < Size /\ Size \in Nat
BY Consts DEF BaseOK, FillType, Entries

\* What the end of an aperture pass does.
LEMMA ApertureEndStep ==
  ASSUME BaseOK, FillInv, ApertureEnd
  PROVE  /\ fill.own \in Reqs /\ FillDone
         /\ fill.cnt \in Nat /\ descIdx + fill.cnt <= Size
         /\ \A j \in 1..fill.cnt : Filled[j] = ring[descIdx + j - 1].piece
                                   /\ Filled[j] \in AnyPiece
         /\ ring' = Laid(Chain(fill.own, Filled, descIdx, fill.cnt))
         /\ Ending \in ReqType
         /\ Ending.tfer = req[fill.own].tfer
         /\ Rest(Ending) = <<"queue", req[fill.own].kind, req[fill.own].sgl, req[fill.own].idx,
                             req[fill.own].at, fill.i, fill.off, req[fill.own].astray>>
         /\ Take(fill.own, Ending, fill.cnt, req[fill.own].at = Total(req[fill.own].sgl))
         /\ req[fill.own].pc = "init" /\ req[fill.own].kind = "aperture"
         /\ fill' = NoFill
         /\ UNCHANGED <<list, descLock>>
<1>1. fill.own \in Reqs /\ fill.cnt \in Nat /\ descIdx + fill.cnt <= Size /\ FillDone
      /\ req[fill.own].pc = "init" /\ req[fill.own].kind = "aperture"
  BY FillTypes DEF ApertureEnd, FillInv
<1>2. /\ ring' = Laid(Chain(fill.own, Filled, descIdx, fill.cnt))
      /\ Take(fill.own, Ending, fill.cnt, req[fill.own].at = Total(req[fill.own].sgl))
      /\ fill' = NoFill
      /\ UNCHANGED <<list, descLock>>
  BY DEF ApertureEnd, Laid, Filled, Ending
<1>3. ASSUME NEW j \in 1..fill.cnt
      PROVE  Filled[j] = ring[descIdx + j - 1].piece /\ Filled[j] \in AnyPiece
  <2> DEFINE e == descIdx + j - 1
  <2>1. e \in Entries /\ e \in descIdx..(descIdx + fill.cnt - 1)
    BY <1>1, FillTypes DEF Entries
  <2>2. ring[e] \in Desc(AnyPiece)
    <3> HIDE DEF e
    <3> QED
      BY <1>1, <2>1, Names DEF FillInv, BaseOK
  <2>3. ring[e].piece \in AnyPiece
    <3> HIDE DEF e
    <3> QED
      BY <2>2 DEF Desc
  <2> QED
    BY <2>3 DEF Filled
<1>4. /\ Ending \in ReqType /\ Ending.tfer = req[fill.own].tfer
      /\ Rest(Ending) = <<"queue", req[fill.own].kind, req[fill.own].sgl, req[fill.own].idx,
                          req[fill.own].at, fill.i, fill.off, req[fill.own].astray>>
  <2>1. req[fill.own] \in ReqType /\ fill.i \in Nat /\ fill.off \in Int
    BY <1>1, FillTypes, ReqTypes
  <2> QED
    BY <2>1 DEF Ending, ReqType, Rest
<1> QED
  BY <1>1, <1>2, <1>3, <1>4

\* The descriptor that xdma_xfer_aperture() writes next.
NextEp == WrapEp(fill.ep)
Wanted == Least(fill.tlen, Least(Aperture, Blen))
NextLen == IF NextEp + Wanted > Aperture - 1 THEN Aperture - NextEp ELSE Wanted
NextPiece == [sg |-> fill.sg, off |-> fill.off, len |-> NextLen, at |-> req[fill.own].at,
              ep |-> NextEp]
NextDesc == [own |-> fill.own, piece |-> NextPiece, next |-> None, adj |-> 0, stop |-> FALSE]

\* What one descriptor of an aperture pass does.
LEMMA ApertureDescStep ==
  ASSUME BaseOK, FillInv, ApertureDesc
  PROVE  /\ fill.own \in Reqs /\ ~FillDone
         /\ req[fill.own].pc = "init" /\ req[fill.own].kind = "aperture"
         /\ NextLen \in Int /\ NextEp \in Int /\ NextPiece \in AnyPiece
         /\ NextDesc \in Desc(AnyPiece)
         /\ descIdx + fill.cnt < Size /\ descIdx + fill.cnt \in Entries
         /\ ring' = [ring EXCEPT ![descIdx + fill.cnt] = NextDesc]
         /\ req' \in [Reqs -> ReqType]
         /\ req'[fill.own] = [req[fill.own] EXCEPT !.at = @ + NextLen]
         /\ \A s \in Reqs : s # fill.own => req'[s] = req[s]
         /\ fill' \in FillType
         /\ fill'.own = fill.own /\ fill'.ep = NextEp + NextLen /\ fill'.cnt = fill.cnt + 1
         /\ fill.tlen = NextLen =>
              /\ fill'.i = fill.i + 1 /\ fill'.sg = fill.sg + 1 /\ fill'.off = 0
              /\ fill.sg < Len(req[fill.own].sgl) => fill'.tlen = req[fill.own].sgl[fill.sg + 1]
         /\ fill.tlen # NextLen =>
              /\ fill'.i = fill.i /\ fill'.sg = fill.sg /\ fill'.off = fill.off + NextLen
              /\ fill'.tlen = fill.tlen - NextLen
         /\ over' = (over \/ Overrun(fill.cnt + 1))
         /\ UNCHANGED <<descIdx, list, descLock>>
<1> DEFINE r == fill.own
           q == req[r]
<1>1. r \in Reqs /\ q.pc = "init" /\ q.kind = "aperture" /\ ~FillDone
      /\ descIdx + fill.cnt <= Size
  BY FillTypes DEF ApertureDesc, FillInv
<1>2. descIdx + fill.cnt < Size /\ descIdx + fill.cnt \in Entries
  BY <1>1, FillTypes DEF FillDone, Entries
<1>3. NextLen \in Int /\ NextEp \in Int
  BY FillTypes, Consts DEF NextLen, NextEp, Wanted, WrapEp, Least
<1>4. q \in ReqType /\ q.at \in Int /\ q.sgl \in Seq(Nat \ {0})
  BY <1>1, ReqTypes DEF ReqType
<1>5. NextPiece \in AnyPiece
  BY <1>3, <1>4, FillTypes DEF NextPiece, AnyPiece
<1>6. NextDesc \in Desc(AnyPiece)
  <2>1. 0 \in 0..(Block - 1)
    BY Consts
  <2> QED
    BY <1>1, <1>5, <2>1 DEF NextDesc, Desc
<1> DEFINE all == fill.tlen = NextLen
           rest == IF ~all THEN fill.tlen - NextLen
                   ELSE IF fill.sg < Len(q.sgl) THEN q.sgl[fill.sg + 1] ELSE 0
           new == [q EXCEPT !.at = @ + NextLen]
<1>7. /\ ring' = [ring EXCEPT ![descIdx + fill.cnt] = NextDesc]
      /\ Set(r, new)
      /\ fill' = [own |-> r, ep |-> NextEp + NextLen, cnt |-> fill.cnt + 1,
                  i |-> IF all THEN fill.i + 1 ELSE fill.i,
                  sg |-> IF all THEN fill.sg + 1 ELSE fill.sg,
                  off |-> IF all THEN 0 ELSE fill.off + NextLen,
                  tlen |-> rest]
      /\ over' = (over \/ Overrun(fill.cnt + 1))
      /\ UNCHANGED <<descIdx, list, descLock>>
  BY DEF ApertureDesc, NextDesc, NextPiece, NextLen, NextEp, Wanted
<1>8. rest \in Int
  <2>1. fill.sg < Len(q.sgl) => q.sgl[fill.sg + 1] \in Int
    <3>1. fill.sg < Len(q.sgl) => fill.sg + 1 \in 1..Len(q.sgl)
      BY <1>4, FillTypes
    <3> QED
      BY <1>4, <3>1
  <2> QED
    BY <1>3, <2>1, FillTypes
<1>9. new \in ReqType
  <2> DEFINE x == q.at + NextLen
  <2>1. x \in Int /\ new = [q EXCEPT !.at = x]
    BY <1>3, <1>4
  <2> HIDE DEF q, x, new
  <2> QED
    BY <1>4, <2>1 DEF ReqType
<1>10. req' \in [Reqs -> ReqType] /\ req'[r] = new /\ \A s \in Reqs : s # r => req'[s] = req[s]
  <2> HIDE DEF new
  <2> QED
    BY <1>1, <1>7, <1>9, SetType
<1>11. fill' \in FillType
  <2> HIDE DEF rest
  <2> QED
    BY <1>1, <1>3, <1>7, <1>8, FillTypes DEF FillType
<1> QED
  BY <1>1, <1>2, <1>3, <1>5, <1>6, <1>7, <1>10, <1>11

\* xdma_desc_done() only clears entries of the transfers it is given.
LEMMA ClearedType ==
  ASSUME BaseOK, NEW ts
  PROVE  /\ Cleared(ts) \in [Entries -> Desc(AnyPiece) \cup {None}]
         /\ \A e \in Entries : Cleared(ts)[e] = ring[e] \/ Cleared(ts)[e] = None
         /\ \A e \in Entries : ~(\E t \in ts : e \in t.start..(t.start + t.num - 1))
                                 => Cleared(ts)[e] = ring[e]
BY DEF Cleared, BaseOK

\* The record of a request that is not in use.
LEMMA NoReqType ==
  /\ NoReq \in ReqType
  /\ NoReq.tfer = <<>> /\ Len(NoReq.tfer) = 0
  /\ NoReq.pc = "idle" /\ NoReq.kind = "sync" /\ NoReq.astray = FALSE /\ NoReq.eop = FALSE
  /\ NoReq.idx = 0 /\ NoReq.at = 0 /\ NoReq.sgl = <<>>
BY DEF NoReq, ReqType

\* The transfer that Service completes.
SvcReq == Head(list)[1]
SvcIdx == Head(list)[2]

\* What the service of the first transfer does.
LEMMA ServiceStep ==
  ASSUME BaseOK, ListInv, Service
  PROVE  /\ SvcReq \in Reqs /\ SvcIdx \in 1..Len(req[SvcReq].tfer)
         /\ Len(list) \in Nat /\ Len(list) > 0
         /\ list[1][1] = SvcReq /\ list[1][2] = SvcIdx
         /\ list' \in Seq(Reqs \X (Nat \ {0}))
         /\ Len(list') = Len(list) - 1
         /\ \A i \in 1..Len(list') : i + 1 \in 1..Len(list) /\ list'[i] = list[i + 1]
         /\ fill.own = None
         /\ req' \in [Reqs -> ReqType]
         /\ \A s \in Reqs : s # SvcReq => req'[s] = req[s]
         /\ \/ /\ req[SvcReq].kind = "async" /\ req[SvcReq].tfer[SvcIdx].last
               /\ req'[SvcReq] = NoReq
               /\ ring' = Cleared({req[SvcReq].tfer[j] : j \in DOMAIN req[SvcReq].tfer})
            \/ /\ Rest(req'[SvcReq]) = Rest(req[SvcReq])
               /\ Len(req'[SvcReq].tfer) = Len(req[SvcReq].tfer)
               /\ \A j \in 1..Len(req[SvcReq].tfer) :
                    j # SvcIdx => req'[SvcReq].tfer[j] = req[SvcReq].tfer[j]
               /\ req'[SvcReq].tfer[SvcIdx] = [req[SvcReq].tfer[SvcIdx] EXCEPT !.done = TRUE]
               /\ ring' = ring
         /\ req'[SvcReq].eop => mode = "stream"
         /\ UNCHANGED <<descIdx, descLock, fill, over>>
<1> DEFINE r == SvcReq
           k == SvcIdx
           ts == req[r].tfer
<1>1. list # <<>> /\ fill.own = None /\ list' = Tail(list) /\ UNCHANGED <<descIdx, descLock, fill, over>>
  BY DEF Service, LockFree
<1>2. list \in Seq(Reqs \X (Nat \ {0}))
  BY DEF BaseOK
<1>3. /\ Len(list) \in Nat /\ Len(list) > 0 /\ Head(list) = list[1]
      /\ list[1] \in Reqs \X (Nat \ {0})
  <2>1. Len(list) \in Nat /\ Len(list) # 0
    BY <1>1, <1>2, EmptySeq
  <2> QED
    BY <1>2, <2>1, ElementOfSeq
<1>4. r \in Reqs /\ list[1][1] = r /\ list[1][2] = k
  BY <1>3 DEF SvcReq, SvcIdx
<1>5. k \in 1..Len(ts)
  <2>1. 1 \in 1..Len(list)
    BY <1>3
  <2> QED
    BY <1>4, <2>1 DEF ListInv
<1>6. /\ list' \in Seq(Reqs \X (Nat \ {0})) /\ Len(list') = Len(list) - 1
      /\ \A i \in 1..Len(list') : i + 1 \in 1..Len(list) /\ list'[i] = list[i + 1]
  <2>1. /\ Tail(list) \in Seq(Reqs \X (Nat \ {0})) /\ Len(Tail(list)) = Len(list) - 1
        /\ \A i \in 1..Len(Tail(list)) : Tail(list)[i] = list[i + 1]
    BY <1>1, <1>2, HeadTailProperties
  <2>2. \A i \in 1..(Len(list) - 1) : i + 1 \in 1..Len(list)
    BY <1>3
  <2> QED
    BY <1>1, <2>1, <2>2
<1>7. CASE /\ req[r].kind = "async" /\ ts[k].last
           /\ ring' = Cleared({ts[j] : j \in DOMAIN ts})
           /\ Set(r, NoReq)
  <2>1. req' \in [Reqs -> ReqType] /\ req'[r] = NoReq /\ \A s \in Reqs : s # r => req'[s] = req[s]
    BY <1>4, <1>7, NoReqType, SetType
  <2>2. req'[r].eop = FALSE
    BY <2>1, NoReqType
  <2> QED
    BY <1>1, <1>3, <1>4, <1>5, <1>6, <1>7, <2>1, <2>2
<1>8. CASE /\ \E eop \in PacketEnds(req[r], ts[k]) :
                Set(r, [req[r] EXCEPT !.tfer[k].done = TRUE, !.eop = eop])
           /\ UNCHANGED ring
  <2>0. PICK eop \in PacketEnds(req[r], ts[k]) :
          Set(r, [req[r] EXCEPT !.tfer[k].done = TRUE, !.eop = eop])
    BY <1>8
  <2>a. eop \in BOOLEAN /\ (eop => mode = "stream")
    BY DEF PacketEnds
  <2> DEFINE t == [ts[k] EXCEPT !.done = TRUE]
             us == [ts EXCEPT ![k] = t]
             new == [req[r] EXCEPT !.tfer = us, !.eop = eop]
  <2>1. Set(r, new)
    BY <2>0
  <2>2. ts \in Seq(AnyTfer) /\ Len(ts) \in Nat /\ DOMAIN ts = 1..Len(ts) /\ ts[k] \in AnyTfer
        /\ req[r] \in ReqType
    BY <1>4, <1>5, ReqTypes
  <2>3. t \in AnyTfer
    BY <2>2 DEF AnyTfer
  <2> HIDE DEF t
  <2>4. /\ us \in Seq(AnyTfer) /\ Len(us) = Len(ts) /\ us[k] = t
        /\ \A j \in 1..Len(ts) : j # k => us[j] = ts[j]
    <3>1. ts \in [1..Len(ts) -> AnyTfer]
      BY <2>2
    <3>2. us \in [1..Len(ts) -> AnyTfer] /\ us[k] = t
          /\ \A j \in 1..Len(ts) : j # k => us[j] = ts[j]
      BY <1>5, <2>3, <3>1
    <3> HIDE DEF us
    <3> QED
      BY <2>2, <3>2
  <2> HIDE DEF us
  <2>5. new \in ReqType /\ Rest(new) = Rest(req[r]) /\ new.tfer = us /\ new.eop = eop
    BY <2>2, <2>4, <2>a DEF ReqType, Rest
  <2> HIDE DEF new
  <2>6. req' \in [Reqs -> ReqType] /\ req'[r] = new /\ \A s \in Reqs : s # r => req'[s] = req[s]
    BY <1>4, <2>1, <2>5, SetType
  <2>7. /\ Rest(req'[r]) = Rest(req[r]) /\ Len(req'[r].tfer) = Len(ts)
        /\ \A j \in 1..Len(ts) : j # k => req'[r].tfer[j] = ts[j]
        /\ req'[r].tfer[k] = [ts[k] EXCEPT !.done = TRUE]
        /\ req'[r].eop => mode = "stream"
    BY <2>4, <2>5, <2>6, <2>a DEF t
  <2> QED
    BY <1>1, <1>3, <1>4, <1>5, <1>6, <1>8, <2>6, <2>7
<1> QED
  BY <1>7, <1>8 DEF Service, SvcReq, SvcIdx

\* What the blocking caller does after its wait.
LEMMA CollectStep ==
  ASSUME BaseOK, NEW r \in Reqs, Collect(r)
  PROVE  /\ req[r].pc = "wait" /\ req[r].tfer[1].done
         /\ ring' = Cleared({req[r].tfer[1]})
         /\ req' \in [Reqs -> ReqType]
         /\ \A s \in Reqs : s # r => req'[s] = req[s]
         /\ req'[r].tfer = <<>>
         /\ req'[r].eop => req[r].eop
         /\ \/ RequestDone(req[r]) /\ req'[r] = NoReq /\ descLock' = None
            \/ /\ ~RequestDone(req[r]) /\ descLock' = descLock
               /\ Rest(req'[r]) = <<"init", req[r].kind, req[r].sgl, req[r].idx, req[r].at,
                                    req[r].sgIdx, req[r].sgOff, req[r].astray>>
         /\ UNCHANGED <<descIdx, list, fill, over>>
<1> DEFINE new == [req[r] EXCEPT !.pc = "init", !.tfer = <<>>]
<1>1. new \in ReqType /\ new.tfer = <<>> /\ new.eop = req[r].eop
      /\ Rest(new) = <<"init", req[r].kind, req[r].sgl, req[r].idx, req[r].at,
                       req[r].sgIdx, req[r].sgOff, req[r].astray>>
  <2>1. req[r] \in ReqType /\ <<>> \in Seq(AnyTfer)
    BY ReqTypes
  <2> QED
    BY <2>1 DEF ReqType, Rest
<1>2. CASE RequestDone(req[r]) /\ Set(r, NoReq) /\ descLock' = None
  <2>1. req' \in [Reqs -> ReqType] /\ req'[r] = NoReq /\ \A s \in Reqs : s # r => req'[s] = req[s]
    BY <1>2, NoReqType, SetType
  <2> QED
    BY <1>2, <2>1, NoReqType DEF Collect
<1>3. CASE ~RequestDone(req[r]) /\ Set(r, new) /\ UNCHANGED descLock
  <2> HIDE DEF new
  <2>1. req' \in [Reqs -> ReqType] /\ req'[r] = new /\ \A s \in Reqs : s # r => req'[s] = req[s]
    BY <1>1, <1>3, SetType
  <2> QED
    BY <1>1, <1>3, <2>1 DEF Collect
<1> QED
  BY <1>2, <1>3 DEF Collect

\* What the start of a request does.
LEMMA BeginStep ==
  ASSUME BaseOK, NEW r \in Reqs, Begin(r)
  PROVE  /\ req[r].pc = "idle"
         /\ req' \in [Reqs -> ReqType]
         /\ \A s \in Reqs : s # r => req'[s] = req[s]
         /\ req'[r].tfer = <<>>
         /\ req'[r].kind \in Kinds
         /\ req'[r].sgl \in IF req'[r].kind = "aperture" THEN Wide ELSE Lists
         /\ req'[r].pc = IF req'[r].kind = "async" THEN "init" ELSE "mutex"
         /\ req'[r].idx = 0 /\ req'[r].at = 0 /\ req'[r].sgIdx = 0 /\ req'[r].sgOff = 0
         /\ req'[r].astray = FALSE /\ req'[r].eop = FALSE
         /\ UNCHANGED <<descIdx, ring, list, descLock, fill, over>>
<1>0. PICK kind \in IF mode = "stream" THEN Kinds \ {"aperture"} ELSE Kinds :
        \E sgl \in IF kind = "aperture" THEN Wide ELSE Lists :
          Set(r, [NoReq EXCEPT !.kind = kind, !.sgl = sgl,
                               !.pc = IF kind = "async" THEN "init" ELSE "mutex"])
  BY DEF Begin
<1>1. PICK sgl \in IF kind = "aperture" THEN Wide ELSE Lists :
        Set(r, [NoReq EXCEPT !.kind = kind, !.sgl = sgl,
                             !.pc = IF kind = "async" THEN "init" ELSE "mutex"])
  BY <1>0
<1> DEFINE new == [NoReq EXCEPT !.kind = kind, !.sgl = sgl,
                                !.pc = IF kind = "async" THEN "init" ELSE "mutex"]
<1>2. kind \in {"sync", "async", "aperture"} /\ sgl \in Seq(Nat \ {0})
  BY RingAssumption
<1>3. /\ new \in ReqType /\ new.tfer = <<>> /\ new.kind = kind /\ new.sgl = sgl
      /\ new.pc = (IF kind = "async" THEN "init" ELSE "mutex")
      /\ new.idx = 0 /\ new.at = 0 /\ new.sgIdx = 0 /\ new.sgOff = 0 /\ new.astray = FALSE
      /\ new.eop = FALSE
  <2> DEFINE pc == IF kind = "async" THEN "init" ELSE "mutex"
  <2>1. pc \in {"init", "mutex"} /\ new = [NoReq EXCEPT !.kind = kind, !.sgl = sgl, !.pc = pc]
    OBVIOUS
  <2> HIDE DEF pc, new
  <2>2. <<>> \in Seq(AnyTfer)
    OBVIOUS
  <2>3. new = [pc |-> pc, kind |-> kind, sgl |-> sgl, idx |-> 0, at |-> 0, sgIdx |-> 0,
               sgOff |-> 0, astray |-> FALSE, eop |-> FALSE, tfer |-> <<>>]
    BY <2>1 DEF NoReq
  <2>4. new \in ReqType
    <3>1. pc \in {"idle", "mutex", "init", "queue", "wait", "queued"}
      BY <2>1
    <3> QED
      BY ONLY <1>2, <2>2, <2>3, <3>1 DEF ReqType
  <2> QED
    BY <2>3, <2>4 DEF pc
<1> HIDE DEF new
<1>4. req' \in [Reqs -> ReqType] /\ req'[r] = new /\ \A s \in Reqs : s # r => req'[s] = req[s]
  BY <1>1, <1>3, SetType DEF new
<1> QED
  BY <1>3, <1>4 DEF Begin

\* What taking desc_lock does.
LEMMA LockDescStep ==
  ASSUME BaseOK, NEW r \in Reqs, LockDesc(r)
  PROVE  /\ req[r].pc = "mutex" /\ descLock = None /\ descLock' = r
         /\ req' \in [Reqs -> ReqType]
         /\ \A s \in Reqs : s # r => req'[s] = req[s]
         /\ req'[r] = [req[r] EXCEPT !.pc = "init"]
         /\ UNCHANGED <<descIdx, ring, list, fill, over>>
<1>1. [req[r] EXCEPT !.pc = "init"] \in ReqType
  BY ReqTypes DEF ReqType
<1>2. Set(r, [req[r] EXCEPT !.pc = "init"])
  BY DEF LockDesc
<1> QED
  BY <1>1, <1>2, SetType DEF LockDesc

\* The state of a request after it queued a transfer.
Queued(q) == IF q.kind # "async" THEN "wait"
             ELSE IF q.tfer[Len(q.tfer)].last THEN "queued" ELSE "init"

\* What transfer_queue() does.
LEMMA QueueStep ==
  ASSUME BaseOK, NEW r \in Reqs, ControlInv(req[r]), transfer_queue(r)
  PROVE  /\ req[r].pc = "queue" /\ fill.own = None
         /\ Len(req[r].tfer) \in Nat \ {0}
         /\ list' \in Seq(Reqs \X (Nat \ {0}))
         /\ Len(list) \in Nat /\ Len(list') = Len(list) + 1
         /\ \A i \in 1..Len(list) : list'[i] = list[i]
         /\ list'[Len(list) + 1][1] = r /\ list'[Len(list) + 1][2] = Len(req[r].tfer)
         /\ req' \in [Reqs -> ReqType]
         /\ \A s \in Reqs : s # r => req'[s] = req[s]
         /\ req'[r] = [req[r] EXCEPT !.pc = Queued(req[r])]
         /\ UNCHANGED <<descIdx, ring, descLock, fill, over>>
<1>1. req[r].pc = "queue" /\ fill.own = None
      /\ UNCHANGED <<descIdx, ring, descLock, fill, over>>
  BY DEF transfer_queue, LockFree
<1>2. Set(r, [req[r] EXCEPT !.pc = Queued(req[r])])
  BY DEF transfer_queue, Queued
<1>3. Queued(req[r]) \in {"wait", "queued", "init"}
  BY DEF Queued
<1>4. [req[r] EXCEPT !.pc = Queued(req[r])] \in ReqType
  BY <1>3, ReqTypes DEF ReqType
<1>5. Len(req[r].tfer) \in Nat \ {0}
  <2>1. req[r].tfer \in Seq(AnyTfer) /\ req[r].tfer # <<>>
    BY <1>1, ReqTypes DEF ControlInv
  <2> QED
    BY <2>1, EmptySeq
<1> DEFINE x == <<r, Len(req[r].tfer)>>
<1>6. x \in Reqs \X (Nat \ {0}) /\ x[1] = r /\ x[2] = Len(req[r].tfer)
  BY <1>5
<1>7. list' = Append(list, x) /\ list \in Seq(Reqs \X (Nat \ {0}))
  BY DEF transfer_queue, BaseOK
<1> HIDE DEF x
<1>8. /\ list' \in Seq(Reqs \X (Nat \ {0})) /\ Len(list) \in Nat /\ Len(list') = Len(list) + 1
      /\ \A i \in 1..Len(list) : list'[i] = list[i]
      /\ list'[Len(list) + 1] = x
  BY <1>6, <1>7, AppendProperties
<1> QED
  BY <1>1, <1>2, <1>4, <1>5, <1>6, <1>8, SetType

\* What the start of an aperture pass does.
LEMMA ApertureStartStep ==
  ASSUME BaseOK, NEW r \in Reqs, ControlInv(req[r]), ApertureStart(r)
  PROVE  /\ req[r].pc = "init" /\ req[r].kind = "aperture" /\ fill.own = None
         /\ req[r].sgl \in Sgl /\ req[r].sgl # <<>> /\ req[r].sgl \in Wide
         /\ req' \in [Reqs -> ReqType]
         /\ \A s \in Reqs : s # r => req'[s] = req[s]
         /\ req'[r] = [req[r] EXCEPT !.astray = req[r].astray \/ req[r].sgIdx # 0]
         /\ fill' \in FillType
         /\ fill' = [own |-> r, i |-> req[r].sgIdx, sg |-> 1, off |-> req[r].sgOff,
                     tlen |-> req[r].sgl[1] - req[r].sgOff, ep |-> And(req[r].at, Aperture - 1),
                     cnt |-> 0]
         /\ UNCHANGED <<descIdx, ring, list, descLock, over>>
<1> DEFINE q == req[r]
           new == [q EXCEPT !.astray = q.astray \/ q.sgIdx # 0]
           f == [own |-> r, i |-> q.sgIdx, sg |-> 1, off |-> q.sgOff,
                 tlen |-> q.sgl[1] - q.sgOff, ep |-> And(q.at, Aperture - 1), cnt |-> 0]
<1>1. /\ q.pc = "init" /\ q.kind = "aperture" /\ fill.own = None /\ Set(r, new) /\ fill' = f
      /\ UNCHANGED <<descIdx, ring, list, descLock, over>>
  BY DEF ApertureStart, LockFree
<1>2. q \in ReqType
  BY ReqTypes
<1>3. new \in ReqType
  BY <1>2 DEF ReqType
<1>4. q.sgl \in Sgl /\ q.sgl # <<>> /\ q.sgl \in Wide
  BY <1>1, SdescFacts DEF ControlInv
<1>5. f \in FillType
  <2>1. q.sgl[1] \in Nat
    <3>1. Len(q.sgl) \in Nat /\ Len(q.sgl) # 0
      BY <1>4, EmptySeq DEF Sgl
    <3>2. 1 \in 1..Len(q.sgl)
      BY <3>1
    <3> QED
      BY <1>4, <3>2, SglFacts
  <2>2. q.sgIdx \in Nat /\ q.sgOff \in Int /\ q.at \in Int
    BY <1>2 DEF ReqType
  <2>3. And(q.at, Aperture - 1) \in Int
    <3> DEFINE a == q.at
               m == Aperture - 1
    <3>1. m \in Nat /\ a \in Int
      BY <2>2, Consts
    <3> HIDE DEF a, m
    <3>2. And(a, m) \in 0..m
      BY <3>1, AndBound
    <3>3. And(a, m) \in Int
      BY <3>1, <3>2
    <3> QED
      BY <3>3 DEF a, m
  <2>4. q.sgl[1] - q.sgOff \in Int
    BY <2>1, <2>2
  <2> HIDE DEF q
  <2> QED
    BY <2>2, <2>3, <2>4 DEF FillType
<1>6. req' \in [Reqs -> ReqType] /\ req'[r] = new /\ \A s \in Reqs : s # r => req'[s] = req[s]
  <2> HIDE DEF new
  <2> QED
    BY <1>1, <1>3, SetType
<1> QED
  BY <1>1, <1>4, <1>5, <1>6

\* The types hold at first...
LEMMA BaseInit ==
  Init => BaseOK
<1>1. NoFill \in FillType
  BY DEF NoFill, FillType
<1>2. 0 \in Entries
  BY Consts DEF Entries
<1>3. <<>> \in Seq(Reqs \X (Nat \ {0}))
  OBVIOUS
<1>4. ASSUME Init PROVE req \in [Reqs -> ReqType] /\ ring \in [Entries -> Desc(AnyPiece) \cup {None}]
  BY <1>4, NoReqType DEF Init
<1> QED
  BY <1>1, <1>2, <1>3, <1>4 DEF Init, BaseOK

\* ... and after every step.
LEMMA BaseNext ==
  ASSUME BaseOK, FlowInv, [Next]_vars
  PROVE  BaseOK'
<1>0. /\ FillInv /\ ListInv
      /\ \A r \in Reqs : ControlInv(req[r]) /\ IdxInv(req[r])
  BY DEF FlowInv
<1>1. ASSUME NEW r \in Reqs, Begin(r) PROVE BaseOK'
  BY <1>1, BeginStep DEF BaseOK
<1>2. ASSUME NEW r \in Reqs, LockDesc(r) PROVE BaseOK'
  BY <1>2, LockDescStep DEF BaseOK
<1>3. ASSUME NEW r \in Reqs, transfer_init(r) PROVE BaseOK'
  <2> DEFINE n == Taking(r)
             last == req[r].idx + Taking(r) = Len(Sdesc(req[r]))
             c == Chain(r, Slice(r), descIdx, n)
  <2>1. /\ n \in Nat \ {0} /\ descIdx + n <= Size /\ ring' = Laid(c) /\ Going(r) \in ReqType
        /\ Going(r).tfer = req[r].tfer /\ Take(r, Going(r), n, last)
        /\ UNCHANGED <<list, descLock, fill>>
        /\ \A j \in 1..n : Slice(r)[j] \in PieceType
    BY <1>0, <1>3, TransferInitStep
  <2>2. \A j \in 1..n : Slice(r)[j] \in AnyPiece
    BY <2>1 DEF PieceType, AnyPiece
  <2>3. last \in BOOLEAN /\ descIdx \in Entries /\ n \in Nat
    BY <2>1 DEF BaseOK
  <2> HIDE DEF n, last
  <2>4. ring' \in [Entries -> Desc(AnyPiece) \cup {None}]
    BY <2>1, <2>2, <2>3, ChainType
  <2>5. req' \in [Reqs -> ReqType] /\ descIdx' \in Entries /\ over' \in BOOLEAN
    BY <2>1, <2>3, TakeStep
  <2> QED
    BY <2>1, <2>4, <2>5 DEF BaseOK
<1>4. ASSUME NEW r \in Reqs, transfer_queue(r) PROVE BaseOK'
  BY <1>0, <1>4, QueueStep DEF BaseOK
<1>5. ASSUME NEW r \in Reqs, ApertureStart(r) PROVE BaseOK'
  BY <1>0, <1>5, ApertureStartStep DEF BaseOK
<1>6. ASSUME NEW r \in Reqs, Collect(r) PROVE BaseOK'
  <2>1. /\ ring' = Cleared({req[r].tfer[1]}) /\ req' \in [Reqs -> ReqType]
        /\ descLock' = None \/ descLock' = descLock
        /\ UNCHANGED <<descIdx, list, fill, over>>
    BY <1>6, CollectStep
  <2>2. ring' \in [Entries -> Desc(AnyPiece) \cup {None}]
    BY <2>1, ClearedType
  <2> QED
    BY <2>1, <2>2 DEF BaseOK
<1>7. ASSUME ApertureDesc PROVE BaseOK'
  <2>1. ring' \in [Entries -> Desc(AnyPiece) \cup {None}]
    BY <1>0, <1>7, ApertureDescStep DEF BaseOK
  <2>2. over' \in BOOLEAN
    BY <1>0, <1>7, ApertureDescStep
  <2> QED
    BY <1>0, <1>7, <2>1, <2>2, ApertureDescStep DEF BaseOK
<1>8. ASSUME ApertureEnd PROVE BaseOK'
  <2> DEFINE n == fill.cnt
             last == req[fill.own].at = Total(req[fill.own].sgl)
             c == Chain(fill.own, Filled, descIdx, n)
  <2>1. /\ fill.own \in Reqs /\ n \in Nat /\ descIdx + n <= Size /\ ring' = Laid(c)
        /\ Ending \in ReqType /\ Ending.tfer = req[fill.own].tfer
        /\ Take(fill.own, Ending, n, last) /\ fill' = NoFill
        /\ UNCHANGED <<list, descLock>>
        /\ \A j \in 1..n : Filled[j] \in AnyPiece
    BY <1>0, <1>8, ApertureEndStep
  <2>2. last \in BOOLEAN /\ descIdx \in Entries /\ NoFill \in FillType
    BY DEF BaseOK, NoFill, FillType
  <2> HIDE DEF n, last
  <2>3. ring' \in [Entries -> Desc(AnyPiece) \cup {None}]
    BY <2>1, <2>2, ChainType
  <2>4. req' \in [Reqs -> ReqType] /\ descIdx' \in Entries /\ over' \in BOOLEAN
    BY <2>1, <2>2, TakeStep
  <2> QED
    BY <2>1, <2>2, <2>3, <2>4 DEF BaseOK
<1>9. ASSUME Service PROVE BaseOK'
  BY <1>0, <1>9, ServiceStep, ClearedType DEF BaseOK
<1>10. CASE UNCHANGED vars
  BY <1>10 DEF vars, BaseOK
<1> QED
  BY <1>1, <1>2, <1>3, <1>4, <1>5, <1>6, <1>7, <1>8, <1>9, <1>10 DEF Next

-----------------------------------------------------------------------------
(* Each request by itself.                                                 *)

Local(q) == ControlInv(q) /\ IdxInv(q) /\ NumInv(q)

\* The fields of two requests that agree but for their transfers.
LEMMA RestFields ==
  ASSUME NEW q, NEW p, Rest(p) = Rest(q)
  PROVE  /\ p.pc = q.pc /\ p.kind = q.kind /\ p.sgl = q.sgl /\ p.idx = q.idx /\ p.at = q.at
         /\ p.sgIdx = q.sgIdx /\ p.sgOff = q.sgOff /\ p.astray = q.astray
BY DEF Rest

\* A request whose transfers grow older or are completed.
LEMMA LocalKept ==
  ASSUME NEW q \in ReqType, NEW p \in ReqType, Local(q), Rest(p) = Rest(q),
         Len(p.tfer) = Len(q.tfer),
         \A k \in 1..Len(q.tfer) :
           /\ p.tfer[k].start = q.tfer[k].start
           /\ p.tfer[k].num = q.tfer[k].num
           /\ p.tfer[k].last = q.tfer[k].last
           /\ p.tfer[k].num <= p.tfer[k].age,
         q.pc = "queue" => p.tfer[Len(q.tfer)].done = q.tfer[Len(q.tfer)].done
  PROVE  Local(p)
<1>0. /\ p.pc = q.pc /\ p.kind = q.kind /\ p.sgl = q.sgl /\ p.idx = q.idx /\ p.at = q.at
      /\ p.sgIdx = q.sgIdx /\ p.sgOff = q.sgOff /\ p.astray = q.astray
  BY RestFields
<1>1. p.tfer \in Seq(AnyTfer) /\ q.tfer \in Seq(AnyTfer) /\ Len(q.tfer) \in Nat
  BY DEF ReqType
<1>2. p.tfer = <<>> <=> q.tfer = <<>>
  BY <1>1, EmptySeq
<1>3. p.tfer # <<>> => Len(q.tfer) \in 1..Len(q.tfer)
  BY <1>1, <1>2, EmptySeq
<1>4. ControlInv(p)
  BY <1>0, <1>1, <1>2 DEF Local, ControlInv
<1>5. IdxInv(p)
  <2>1. q.pc \in {"queue", "queued"} => Len(q.tfer) \in 1..Len(q.tfer)
    BY <1>2, <1>3 DEF Local, ControlInv
  <2> QED
    BY <1>0, <2>1 DEF Local, IdxInv, Sdesc
<1>6. NumInv(p)
  BY <1>0 DEF Local, NumInv
<1> QED
  BY <1>4, <1>5, <1>6 DEF Local

\* Getting older keeps what holds of a request by itself.
LEMMA LocalGrown ==
  ASSUME BaseOK, NEW s \in Reqs, Local(req[s]), NEW n \in Nat, NEW p \in ReqType,
         Rest(p) = Rest(req[s]), Len(p.tfer) = Len(req[s].tfer),
         \A k \in 1..Len(req[s].tfer) : p.tfer[k] = Grown(req[s].tfer[k], n)
  PROVE  Local(p)
<1> DEFINE q == req[s]
<1>1. q \in ReqType /\ Len(q.tfer) \in Nat /\ \A k \in 1..Len(q.tfer) : q.tfer[k] \in AnyTfer
  BY ReqTypes
<1>2. ASSUME NEW k \in 1..Len(q.tfer)
      PROVE  /\ p.tfer[k].start = q.tfer[k].start
             /\ p.tfer[k].num = q.tfer[k].num
             /\ p.tfer[k].last = q.tfer[k].last
             /\ p.tfer[k].done = q.tfer[k].done
             /\ p.tfer[k].num <= p.tfer[k].age
  <2>1. q.tfer[k] \in AnyTfer /\ p.tfer[k] = Grown(q.tfer[k], n)
    BY <1>1
  <2>2. /\ p.tfer[k].start = q.tfer[k].start /\ p.tfer[k].num = q.tfer[k].num
        /\ p.tfer[k].last = q.tfer[k].last /\ p.tfer[k].done = q.tfer[k].done
        /\ p.tfer[k].age = Least(q.tfer[k].age + n, Size + 1)
    <3> DEFINE t == q.tfer[k]
    <3>1. t \in AnyTfer /\ p.tfer[k] = Grown(t, n)
      BY <2>1
    <3> HIDE DEF t
    <3>2. /\ Grown(t, n).start = t.start /\ Grown(t, n).num = t.num
          /\ Grown(t, n).done = t.done /\ Grown(t, n).last = t.last
          /\ Grown(t, n).age = Least(t.age + n, Size + 1)
      BY <3>1, GrownType
    <3> QED
      BY <3>1, <3>2 DEF t
  <2>3. q.tfer[k].num <= q.tfer[k].age /\ q.tfer[k].num \in 0..Size
        /\ q.tfer[k].age \in Nat /\ Size \in Nat
    BY <2>1, Consts DEF Local, NumInv, AnyTfer
  <2>4. q.tfer[k].num <= Least(q.tfer[k].age + n, Size + 1)
    <3> DEFINE x == q.tfer[k].num
               y == q.tfer[k].age
    <3>1. x <= y /\ x \in 0..Size /\ y \in Nat /\ Size \in Nat
      BY <2>3
    <3> HIDE DEF x, y
    <3>2. x <= Least(y + n, Size + 1)
      BY <3>1 DEF Least
    <3> QED
      BY <3>2 DEF x, y
  <2> QED
    BY <2>2, <2>4
<1>3. q.pc = "queue" => p.tfer[Len(q.tfer)].done = q.tfer[Len(q.tfer)].done
  <2>1. q.pc = "queue" => Len(q.tfer) # 0
    BY <1>1, EmptySeq DEF Local, ControlInv, ReqType
  <2>2. q.pc = "queue" => Len(q.tfer) \in 1..Len(q.tfer)
    BY <1>1, <2>1
  <2> QED
    BY <1>2, <2>2
<1> QED
  <2> HIDE DEF q
  <2>1. Local(q) /\ Rest(p) = Rest(q) /\ Len(p.tfer) = Len(q.tfer)
    BY DEF q
  <2> QED
    BY <1>1, <1>2, <1>3, <2>1, LocalKept

\* It holds of a request that is not in use.
LEMMA LocalNoReq ==
  Local(NoReq)
<1>1. \A k \in 1..0 : FALSE
  OBVIOUS
<1> QED
  BY <1>1, NoReqType DEF Local, ControlInv, IdxInv, NumInv

\* A request that got a new transfer.
LEMMA LocalTaken ==
  ASSUME BaseOK, NEW r \in Reqs, Local(req[r]), req[r].pc = "init",
         NEW n \in Nat, descIdx + n <= Size, NEW last \in BOOLEAN, NEW p \in ReqType,
         p.pc = "queue", p.kind = req[r].kind, p.sgl = req[r].sgl, p.astray = req[r].astray,
         Len(p.tfer) = Len(req[r].tfer) + 1,
         \A k \in 1..Len(req[r].tfer) : p.tfer[k] = Grown(req[r].tfer[k], n),
         p.tfer[Len(req[r].tfer) + 1] = NewTfer(n, last),
         p.astray \/ n > 0,
         p.kind = "aperture" => p.idx = 0,
         p.kind # "aperture" => /\ p.idx <= Len(Sdesc(p))
                                /\ last <=> p.idx = Len(Sdesc(p))
                                /\ p.at = Cuts(p.sgl)[p.idx].n
  PROVE  Local(p)
<1> DEFINE q == req[r]
           m == Len(q.tfer)
<1>1. q \in ReqType /\ m \in Nat /\ \A k \in 1..m : q.tfer[k] \in AnyTfer
  BY ReqTypes
<1>2. Size \in Nat /\ descIdx \in Nat /\ n <= Size
  BY FillTypes
<1>3. p.tfer[m + 1].last = last /\ ~p.tfer[m + 1].done /\ p.tfer[m + 1].num = n
      /\ p.tfer[m + 1].age = n /\ p.tfer[m + 1].start = descIdx
  BY DEF NewTfer
<1>4. ASSUME NEW k \in 1..m
      PROVE  /\ p.tfer[k].num <= p.tfer[k].age
             /\ p.tfer[k].start + p.tfer[k].num <= Size
             /\ p.tfer[k].num = q.tfer[k].num
             /\ ~p.tfer[k].last
  <2> DEFINE t == q.tfer[k]
             u == p.tfer[k]
  <2>1. t \in AnyTfer /\ u = Grown(t, n)
    BY <1>1
  <2>2. t.num <= t.age /\ t.start + t.num <= Size /\ ~t.last
    BY DEF Local, NumInv, ControlInv
  <2> HIDE DEF t, u
  <2>3. u.start = t.start /\ u.num = t.num /\ u.last = t.last
        /\ u.age = Least(t.age + n, Size + 1)
    BY <2>1, GrownType
  <2>4. t.num \in 0..Size /\ t.age \in Nat /\ t.start \in Nat
    BY <1>2, <2>1 DEF AnyTfer, Entries
  <2>5. t.num <= Least(t.age + n, Size + 1)
    BY <1>2, <2>2, <2>4 DEF Least
  <2> QED
    BY <2>2, <2>3, <2>5 DEF t, u
<1>5. ASSUME NEW k \in 1..(m + 1), k # m + 1 PROVE k \in 1..m
  BY <1>1, <1>5
<1> HIDE DEF m
<1>6. p.tfer # <<>> /\ Len(p.tfer) = m + 1 /\ m + 1 # 0
  <2>1. Len(p.tfer) = m + 1 /\ m + 1 # 0
    BY <1>1 DEF m
  <2>2. p.tfer \in Seq(AnyTfer)
    BY DEF ReqType
  <2> QED
    BY <2>1, <2>2, EmptySeq
<1>7. ControlInv(p)
  <2>1. p.sgl \in IF p.kind = "aperture" THEN Wide ELSE Lists
    BY DEF Local, ControlInv
  <2>2. p.kind # "async" => Len(p.tfer) = 1
    <3>1. p.kind # "async" => q.tfer = <<>>
      BY DEF Local, ControlInv
    <3> QED
      BY <1>6, <3>1, EmptySeq DEF m
  <2>3. \A k \in 1..Len(p.tfer) : p.tfer[k].last => k = Len(p.tfer)
    BY <1>4, <1>5, <1>6
  <2> QED
    BY <1>3, <1>6, <2>1, <2>2, <2>3 DEF ControlInv
<1>8. IdxInv(p)
  BY <1>3, <1>6 DEF IdxInv
<1>9. NumInv(p)
  <2>1. p.kind # "aperture" => ~p.astray
    BY DEF Local, NumInv
  <2>2. ASSUME NEW k \in 1..m, ~p.astray PROVE p.tfer[k].num > 0
    <3>1. q.tfer[k].num > 0
      BY <2>2 DEF Local, NumInv, m
    <3> QED
      BY <1>4, <3>1
  <2> QED
    BY <1>2, <1>3, <1>4, <1>5, <1>6, <2>1, <2>2 DEF NumInv
<1> QED
  BY <1>7, <1>8, <1>9 DEF Local

\* A new request.
LEMMA LocalBegin ==
  ASSUME BaseOK, NEW r \in Reqs, Begin(r)
  PROVE  Local(req'[r])
<1> DEFINE p == req'[r]
<1>1. /\ p \in ReqType /\ p.tfer = <<>> /\ p.kind \in Kinds
      /\ p.sgl \in IF p.kind = "aperture" THEN Wide ELSE Lists
      /\ p.pc = IF p.kind = "async" THEN "init" ELSE "mutex"
      /\ p.idx = 0 /\ p.at = 0 /\ p.sgIdx = 0 /\ p.sgOff = 0 /\ p.astray = FALSE
  BY BeginStep
<1> HIDE DEF p
<1>2. Len(p.tfer) = 0
  BY <1>1, EmptySeq
<1>3. p.sgl \in Sgl /\ p.sgl # <<>>
  BY <1>1, Names
<1>4. Len(Sdesc(p)) \in Nat \ {0} /\ Cuts(p.sgl)[0].n = 0
  BY <1>3, InitRequest, CutsDef DEF Sdesc
<1>5. ControlInv(p)
  BY <1>1, <1>2 DEF ControlInv
<1>6. IdxInv(p)
  BY <1>1, <1>4 DEF IdxInv
<1>7. NumInv(p)
  BY <1>1, <1>2 DEF NumInv
<1> QED
  BY <1>5, <1>6, <1>7 DEF Local, p

\* A blocking request that got desc_lock.
LEMMA LocalLock ==
  ASSUME BaseOK, NEW r \in Reqs, Local(req[r]), LockDesc(r)
  PROVE  Local(req'[r])
<1> DEFINE q == req[r]
           p == req'[r]
<1>1. q.pc = "mutex" /\ p = [q EXCEPT !.pc = "init"] /\ q \in ReqType
  BY LockDescStep, ReqTypes
<1>2. Local(q)
  OBVIOUS
<1> HIDE DEF p, q
<1>3. /\ p.pc = "init" /\ p.kind = q.kind /\ p.sgl = q.sgl /\ p.idx = q.idx /\ p.at = q.at
      /\ p.astray = q.astray /\ p.tfer = q.tfer
  BY <1>1 DEF ReqType
<1>4. q.kind # "async" /\ q.tfer = <<>>
  BY <1>1, <1>2 DEF Local, ControlInv
<1>5. Len(p.tfer) = 0
  BY <1>3, <1>4, EmptySeq
<1>6. ControlInv(p)
  BY <1>1, <1>2, <1>3, <1>4, <1>5 DEF Local, ControlInv
<1>7. IdxInv(p)
  BY <1>1, <1>2, <1>3 DEF Local, IdxInv, Sdesc
<1>8. NumInv(p)
  BY <1>2, <1>3 DEF Local, NumInv
<1> QED
  BY <1>6, <1>7, <1>8 DEF Local, p

\* A request that queued a transfer.
LEMMA LocalQueue ==
  ASSUME BaseOK, NEW r \in Reqs, Local(req[r]), transfer_queue(r)
  PROVE  Local(req'[r])
<1> DEFINE q == req[r]
           p == req'[r]
<1>1. q.pc = "queue" /\ p = [q EXCEPT !.pc = Queued(q)] /\ q \in ReqType
      /\ Len(q.tfer) \in Nat \ {0}
  BY QueueStep, ReqTypes DEF Local
<1>2. Local(q)
  OBVIOUS
<1> HIDE DEF p, q
<1>3. /\ p.pc = Queued(q) /\ p.kind = q.kind /\ p.sgl = q.sgl /\ p.idx = q.idx /\ p.at = q.at
      /\ p.astray = q.astray /\ p.tfer = q.tfer
  BY <1>1 DEF ReqType
<1>4. ControlInv(p)
  BY <1>1, <1>2, <1>3 DEF Local, ControlInv, Queued
<1>5. IdxInv(p)
  <2>1. CASE q.kind = "aperture"
    BY <1>2, <1>3, <2>1 DEF Local, IdxInv
  <2>2. CASE q.kind # "aperture"
    <3>1. q.idx <= Len(Sdesc(q)) /\ q.at = Cuts(q.sgl)[q.idx].n
          /\ (q.tfer[Len(q.tfer)].last <=> q.idx = Len(Sdesc(q)))
      BY <1>1, <1>2, <2>2 DEF Local, IdxInv
    <3>2. q.idx \in Nat /\ Len(Sdesc(q)) \in Nat
      <4>1. q.sgl \in Sgl /\ q.sgl # <<>>
        BY <1>1, <1>2, <2>2, Names DEF Local, ControlInv
      <4> QED
        BY <1>1, <4>1, InitRequest DEF ReqType, Sdesc
    <3>3. p.pc \in {"mutex", "init"} => q.idx < Len(Sdesc(q))
      BY <1>3, <3>1, <3>2 DEF Queued
    <3>4. Sdesc(p) = Sdesc(q)
      BY <1>3 DEF Sdesc
    <3> QED
      BY <1>3, <2>2, <3>1, <3>3, <3>4 DEF IdxInv
  <2> QED
    BY <2>1, <2>2
<1>6. NumInv(p)
  BY <1>2, <1>3 DEF Local, NumInv
<1> QED
  BY <1>4, <1>5, <1>6 DEF Local, p

\* An aperture request that starts a pass.
LEMMA LocalStart ==
  ASSUME BaseOK, NEW r \in Reqs, Local(req[r]), ApertureStart(r)
  PROVE  Local(req'[r])
<1> DEFINE q == req[r]
           p == req'[r]
<1>1. q.pc = "init" /\ q.kind = "aperture" /\ q \in ReqType
      /\ p = [q EXCEPT !.astray = q.astray \/ q.sgIdx # 0]
  BY ApertureStartStep, ReqTypes DEF Local
<1>2. Local(q)
  OBVIOUS
<1> HIDE DEF p, q
<1>3. /\ p.pc = q.pc /\ p.kind = q.kind /\ p.sgl = q.sgl /\ p.idx = q.idx /\ p.at = q.at
      /\ p.tfer = q.tfer
  BY <1>1 DEF ReqType
<1>4. q.tfer = <<>> /\ Len(q.tfer) = 0
  BY <1>1, <1>2, EmptySeq DEF Local, ControlInv
<1>5. ControlInv(p)
  BY <1>1, <1>2, <1>3, <1>4 DEF Local, ControlInv
<1>6. IdxInv(p) /\ NumInv(p)
  BY <1>1, <1>2, <1>3, <1>4 DEF Local, IdxInv, NumInv
<1> QED
  BY <1>5, <1>6 DEF Local, p

\* A blocking request after its wait.
LEMMA LocalCollect ==
  ASSUME BaseOK, NEW r \in Reqs, Local(req[r]), Collect(r)
  PROVE  Local(req'[r])
<1> DEFINE q == req[r]
           p == req'[r]
<1>1. CASE p = NoReq
  BY <1>1, LocalNoReq
<1>2. CASE /\ ~RequestDone(q)
           /\ Rest(p) = <<"init", q.kind, q.sgl, q.idx, q.at, q.sgIdx, q.sgOff, q.astray>>
  <2>1. q.pc = "wait" /\ p.tfer = <<>> /\ q \in ReqType /\ Local(q)
    BY CollectStep, ReqTypes
  <2>2. q.sgl \in Sgl /\ q.sgl # <<>> /\ Len(Sdesc(q)) \in Nat
    BY <2>1, SdescFacts DEF Local
  <2> HIDE DEF p, q
  <2>3. /\ p.pc = "init" /\ p.kind = q.kind /\ p.sgl = q.sgl /\ p.idx = q.idx /\ p.at = q.at
        /\ p.astray = q.astray
    BY <1>2 DEF Rest
  <2>4. Len(p.tfer) = 0
    BY <2>1, EmptySeq
  <2>5. ControlInv(p)
    BY <2>1, <2>3, <2>4 DEF Local, ControlInv
  <2>6. IdxInv(p)
    <3>1. Sdesc(p) = Sdesc(q)
      BY <2>3 DEF Sdesc
    <3>2. q.kind # "aperture" => q.idx < Len(Sdesc(q))
      <4>1. q.kind # "aperture" => q.idx # Len(Sdesc(q)) /\ q.idx <= Len(Sdesc(q))
        BY <1>2, <2>1 DEF RequestDone, Local, IdxInv, Sdesc
      <4>2. q.idx \in Nat
        BY <2>1 DEF ReqType
      <4> QED
        BY <2>2, <4>1, <4>2
    <3> QED
      BY <2>1, <2>3, <3>1, <3>2 DEF Local, IdxInv
  <2>7. NumInv(p)
    BY <2>1, <2>3, <2>4 DEF Local, NumInv
  <2> QED
    BY <2>5, <2>6, <2>7 DEF Local, p
<1> QED
  BY <1>1, <1>2, CollectStep

\* A request whose transfer was executed.
LEMMA LocalService ==
  ASSUME BaseOK, ListInv, Local(req[SvcReq]), Service
  PROVE  Local(req'[SvcReq])
<1> DEFINE q == req[SvcReq]
           p == req'[SvcReq]
           k == SvcIdx
<1>1. CASE p = NoReq
  BY <1>1, LocalNoReq
<1>2. CASE /\ Rest(p) = Rest(q) /\ Len(p.tfer) = Len(q.tfer)
           /\ \A j \in 1..Len(q.tfer) : j # k => p.tfer[j] = q.tfer[j]
           /\ p.tfer[k] = [q.tfer[k] EXCEPT !.done = TRUE]
  <2>1. /\ SvcReq \in Reqs /\ k \in 1..Len(q.tfer) /\ p \in ReqType
        /\ Len(list) \in Nat /\ Len(list) > 0 /\ list[1][1] = SvcReq /\ list[1][2] = k
    BY ServiceStep
  <2>2. q \in ReqType /\ Len(q.tfer) \in Nat /\ q.tfer[k] \in AnyTfer /\ Local(q)
    BY <2>1, ReqTypes
  <2>3. q.pc = "queue" => k < Len(q.tfer)
    <3>1. 1 \in 1..Len(list)
      BY <2>1
    <3> QED
      BY <2>1, <3>1 DEF ListInv
  <2> HIDE DEF p, q, k
  <2>4. /\ p.tfer[k].start = q.tfer[k].start /\ p.tfer[k].num = q.tfer[k].num
        /\ p.tfer[k].last = q.tfer[k].last /\ p.tfer[k].age = q.tfer[k].age
    BY <1>2, <2>2 DEF AnyTfer
  <2>5. \A j \in 1..Len(q.tfer) :
           /\ p.tfer[j].start = q.tfer[j].start
           /\ p.tfer[j].num = q.tfer[j].num
           /\ p.tfer[j].last = q.tfer[j].last
           /\ p.tfer[j].num <= p.tfer[j].age
    BY <1>2, <2>2, <2>4 DEF Local, NumInv
  <2>6. q.pc = "queue" => p.tfer[Len(q.tfer)].done = q.tfer[Len(q.tfer)].done
    <3>1. q.pc = "queue" => Len(q.tfer) # k /\ Len(q.tfer) \in 1..Len(q.tfer)
      BY <2>1, <2>2, <2>3
    <3> QED
      BY <1>2, <3>1
  <2>7. Local(p)
    BY <1>2, <2>1, <2>2, <2>5, <2>6, LocalKept
  <2> QED
    BY <2>7 DEF p
<1> QED
  BY <1>1, <1>2, ServiceStep

\* All requests when transfer_init() takes entries for one.
LEMMA LocalInit ==
  ASSUME BaseOK, NEW r \in Reqs, Local(req[r]), transfer_init(r)
  PROVE  \A s \in Reqs : Local(req[s]) => Local(req'[s])
<1> DEFINE n == Taking(r)
           last == req[r].idx + n = Len(Sdesc(req[r]))
           g == Going(r)
<1>1. /\ n \in Nat \ {0} /\ descIdx + n <= Size
      /\ req[r].idx + n <= Len(Sdesc(req[r]))
      /\ g \in ReqType /\ g.tfer = req[r].tfer
      /\ Rest(g) = <<"queue", req[r].kind, req[r].sgl, req[r].idx + n,
                     Cuts(req[r].sgl)[req[r].idx + n].n, req[r].sgIdx, req[r].sgOff, req[r].astray>>
      /\ Take(r, g, n, last)
      /\ req[r].pc = "init" /\ req[r].kind # "aperture"
  BY TransferInitStep DEF Local
<1>2. n \in Nat /\ n > 0 /\ last \in BOOLEAN
  BY <1>1
<1> HIDE DEF n, g
<1>3. /\ req' \in [Reqs -> ReqType]
      /\ \A s \in Reqs : s # r => /\ Rest(req'[s]) = Rest(req[s])
                                  /\ Len(req'[s].tfer) = Len(req[s].tfer)
      /\ Rest(req'[r]) = Rest(g)
      /\ Len(req'[r].tfer) = Len(req[r].tfer) + 1
      /\ \A s \in Reqs : \A k \in 1..Len(req[s].tfer) :
            req'[s].tfer[k] = Grown(req[s].tfer[k], n)
      /\ req'[r].tfer[Len(req[r].tfer) + 1] = NewTfer(n, last)
  <2> HIDE DEF last
  <2>1. /\ g \in ReqType /\ g.tfer = req[r].tfer /\ n \in Nat /\ descIdx + n <= Size
        /\ last \in BOOLEAN /\ Take(r, g, n, last)
    BY <1>1, <1>2
  <2> QED
    BY <2>1, TakeStep
<1>4. ASSUME NEW s \in Reqs, s # r, Local(req[s]) PROVE Local(req'[s])
  <2> DEFINE p == req'[s]
  <2>1. p \in ReqType /\ Rest(p) = Rest(req[s]) /\ Len(p.tfer) = Len(req[s].tfer)
        /\ \A k \in 1..Len(req[s].tfer) : p.tfer[k] = Grown(req[s].tfer[k], n)
    BY <1>3, <1>4
  <2> HIDE DEF p
  <2>2. Local(p)
    BY <1>2, <1>4, <2>1, LocalGrown
  <2> QED
    BY <2>2 DEF p
<1>5. Local(req'[r])
  <2> DEFINE p == req'[r]
  <2>1. /\ p \in ReqType /\ p.pc = "queue" /\ p.kind = req[r].kind /\ p.sgl = req[r].sgl
        /\ p.astray = req[r].astray /\ p.idx = req[r].idx + n
        /\ p.at = Cuts(req[r].sgl)[req[r].idx + n].n
    BY <1>1, <1>3 DEF Rest
  <2>2. /\ Len(p.tfer) = Len(req[r].tfer) + 1
        /\ \A k \in 1..Len(req[r].tfer) : p.tfer[k] = Grown(req[r].tfer[k], n)
        /\ p.tfer[Len(req[r].tfer) + 1] = NewTfer(n, last)
    BY <1>3
  <2> HIDE DEF p
  <2>3. Sdesc(p) = Sdesc(req[r]) /\ (last <=> p.idx = Len(Sdesc(p)))
        /\ p.idx <= Len(Sdesc(p)) /\ p.at = Cuts(p.sgl)[p.idx].n
    BY <1>1, <2>1 DEF Sdesc
  <2> HIDE DEF last
  <2>4. Local(p)
    BY <1>1, <1>2, <2>1, <2>2, <2>3, LocalTaken
  <2> QED
    BY <2>4 DEF p
<1> QED
  BY <1>4, <1>5

\* All requests when an aperture pass takes its entries.
LEMMA LocalEnd ==
  ASSUME BaseOK, FillInv, fill.own \in Reqs, Local(req[fill.own]), WalkInv(fill.own), ApertureEnd
  PROVE  \A s \in Reqs : Local(req[s]) => Local(req'[s])
<1> DEFINE r == fill.own
           n == fill.cnt
           last == req[r].at = Total(req[r].sgl)
           g == Ending
<1>1. /\ r \in Reqs /\ n \in Nat /\ descIdx + n <= Size /\ FillDone
      /\ g \in ReqType /\ g.tfer = req[r].tfer
      /\ Rest(g) = <<"queue", req[r].kind, req[r].sgl, req[r].idx, req[r].at,
                     fill.i, fill.off, req[r].astray>>
      /\ Take(r, g, n, last)
      /\ req[r].pc = "init" /\ req[r].kind = "aperture"
  BY ApertureEndStep
<1>2. last \in BOOLEAN
  OBVIOUS
<1>3. req[r].astray \/ n > 0
  <2>1. SUFFICES ASSUME ~req[r].astray, n = 0 PROVE FALSE
    BY <1>1
  <2>2. fill.i < Len(req[r].sgl)
    BY <1>1, <2>1 DEF WalkInv
  <2>3. Len(req[r].sgl) \in Nat
    BY <1>1, SdescFacts, SglFacts DEF Local
  <2> QED
    BY <1>1, <2>1, <2>2, <2>3, FillTypes DEF FillDone
<1>4. Local(req[r]) /\ r \in Reqs
  BY <1>1
<1> HIDE DEF r, n, g, last
<1>5. /\ req' \in [Reqs -> ReqType]
      /\ \A s \in Reqs : s # r => /\ Rest(req'[s]) = Rest(req[s])
                                  /\ Len(req'[s].tfer) = Len(req[s].tfer)
      /\ Rest(req'[r]) = Rest(g)
      /\ Len(req'[r].tfer) = Len(req[r].tfer) + 1
      /\ \A s \in Reqs : \A k \in 1..Len(req[s].tfer) :
            req'[s].tfer[k] = Grown(req[s].tfer[k], n)
      /\ req'[r].tfer[Len(req[r].tfer) + 1] = NewTfer(n, last)
  BY <1>1, <1>2, TakeStep
<1>6. ASSUME NEW s \in Reqs, s # r, Local(req[s]) PROVE Local(req'[s])
  <2> DEFINE p == req'[s]
  <2>1. p \in ReqType /\ Rest(p) = Rest(req[s]) /\ Len(p.tfer) = Len(req[s].tfer)
        /\ \A k \in 1..Len(req[s].tfer) : p.tfer[k] = Grown(req[s].tfer[k], n)
    BY <1>5, <1>6
  <2> HIDE DEF p
  <2>2. Local(p)
    BY <1>1, <1>6, <2>1, LocalGrown
  <2> QED
    BY <2>2 DEF p
<1>7. Local(req'[r])
  <2> DEFINE p == req'[r]
  <2>1. /\ p \in ReqType /\ p.pc = "queue" /\ p.kind = req[r].kind /\ p.sgl = req[r].sgl
        /\ p.astray = req[r].astray /\ p.idx = req[r].idx
    BY <1>1, <1>4, <1>5 DEF Rest
  <2>2. /\ Len(p.tfer) = Len(req[r].tfer) + 1
        /\ \A k \in 1..Len(req[r].tfer) : p.tfer[k] = Grown(req[r].tfer[k], n)
        /\ p.tfer[Len(req[r].tfer) + 1] = NewTfer(n, last)
    BY <1>4, <1>5
  <2> HIDE DEF p
  <2>3. p.idx = 0 /\ p.kind = "aperture" /\ (p.astray \/ n > 0)
    BY <1>1, <1>3, <1>4, <2>1 DEF Local, IdxInv
  <2>4. Local(p)
    BY <1>1, <1>2, <1>4, <2>1, <2>2, <2>3, LocalTaken
  <2> QED
    BY <2>4 DEF p
<1> QED
  BY <1>6, <1>7

\* An aperture request that filled an entry.
LEMMA LocalDesc ==
  ASSUME BaseOK, FillInv, fill.own \in Reqs, Local(req[fill.own]), ApertureDesc
  PROVE  Local(req'[fill.own])
<1> DEFINE q == req[fill.own]
           p == req'[fill.own]
<1>1. q.pc = "init" /\ q.kind = "aperture" /\ q \in ReqType /\ p = [q EXCEPT !.at = @ + NextLen]
      /\ Local(q)
  BY ApertureDescStep, ReqTypes
<1> HIDE DEF p, q
<1>2. /\ p.pc = q.pc /\ p.kind = q.kind /\ p.sgl = q.sgl /\ p.idx = q.idx /\ p.astray = q.astray
      /\ p.tfer = q.tfer
  BY <1>1 DEF ReqType
<1>3. ControlInv(p)
  BY <1>1, <1>2 DEF Local, ControlInv
<1>4. IdxInv(p) /\ NumInv(p)
  BY <1>1, <1>2 DEF Local, IdxInv, NumInv
<1> QED
  BY <1>3, <1>4 DEF Local, p

\* Every step keeps what holds of each request by itself.
LEMMA LocalNext ==
  ASSUME BaseOK, FlowInv, [Next]_vars
  PROVE  \A s \in Reqs : Local(req'[s])
<1>0. /\ FillInv /\ ListInv
      /\ \A s \in Reqs : Local(req[s]) /\ WalkInv(s)
  BY DEF FlowInv, Local
<1>1. ASSUME NEW r \in Reqs, Begin(r) PROVE \A s \in Reqs : Local(req'[s])
  BY <1>0, <1>1, BeginStep, LocalBegin
<1>2. ASSUME NEW r \in Reqs, LockDesc(r) PROVE \A s \in Reqs : Local(req'[s])
  BY <1>0, <1>2, LockDescStep, LocalLock
<1>3. ASSUME NEW r \in Reqs, transfer_init(r) PROVE \A s \in Reqs : Local(req'[s])
  BY <1>0, <1>3, LocalInit
<1>4. ASSUME NEW r \in Reqs, transfer_queue(r) PROVE \A s \in Reqs : Local(req'[s])
  <2>1. \A s \in Reqs : s # r => req'[s] = req[s]
    BY <1>0, <1>4, QueueStep DEF Local
  <2> QED
    BY <1>0, <1>4, <2>1, LocalQueue
<1>5. ASSUME NEW r \in Reqs, ApertureStart(r) PROVE \A s \in Reqs : Local(req'[s])
  <2>1. \A s \in Reqs : s # r => req'[s] = req[s]
    BY <1>0, <1>5, ApertureStartStep DEF Local
  <2> QED
    BY <1>0, <1>5, <2>1, LocalStart
<1>6. ASSUME NEW r \in Reqs, Collect(r) PROVE \A s \in Reqs : Local(req'[s])
  BY <1>0, <1>6, CollectStep, LocalCollect
<1>7. ASSUME ApertureDesc PROVE \A s \in Reqs : Local(req'[s])
  <2>1. fill.own \in Reqs /\ \A s \in Reqs : s # fill.own => req'[s] = req[s]
    BY <1>0, <1>7, ApertureDescStep
  <2> QED
    BY <1>0, <1>7, <2>1, LocalDesc
<1>8. ASSUME ApertureEnd PROVE \A s \in Reqs : Local(req'[s])
  <2>1. fill.own \in Reqs
    BY <1>0, <1>8, ApertureEndStep
  <2> QED
    BY <1>0, <1>8, <2>1, LocalEnd
<1>9. ASSUME Service PROVE \A s \in Reqs : Local(req'[s])
  <2>1. SvcReq \in Reqs /\ \A s \in Reqs : s # SvcReq => req'[s] = req[s]
    BY <1>0, <1>9, ServiceStep
  <2> QED
    BY <1>0, <1>9, <2>1, LocalService
<1>10. CASE UNCHANGED vars
  BY <1>0, <1>10 DEF vars
<1> QED
  BY <1>1, <1>2, <1>3, <1>4, <1>5, <1>6, <1>7, <1>8, <1>9, <1>10 DEF Next

-----------------------------------------------------------------------------
(* The mutex, the list, and the pass that fills the ring.                  *)

\* What a step that takes entries does to the requests.
TakeEffect(r, n, q, last) ==
  /\ \A s \in Reqs : s # r => /\ Rest(req'[s]) = Rest(req[s])
                              /\ Len(req'[s].tfer) = Len(req[s].tfer)
  /\ Rest(req'[r]) = Rest(q)
  /\ Len(req'[r].tfer) = Len(req[r].tfer) + 1
  /\ \A s \in Reqs : \A k \in 1..Len(req[s].tfer) :
        req'[s].tfer[k] = Grown(req[s].tfer[k], n)
  /\ req'[r].tfer[Len(req[r].tfer) + 1] = NewTfer(n, last)
  /\ descIdx' = descIdx + n \/ descIdx' = descIdx + n - Size
  /\ descIdx' \in Entries
  /\ ~over' => ~over /\ ~Overrun(n)

\* transfer_init() takes entries.
LEMMA InitEffect ==
  ASSUME BaseOK, NEW r \in Reqs, Local(req[r]), transfer_init(r)
  PROVE  TakeEffect(r, Taking(r), Going(r), req[r].idx + Taking(r) = Len(Sdesc(req[r])))
<1> DEFINE n == Taking(r)
           last == req[r].idx + n = Len(Sdesc(req[r]))
           g == Going(r)
<1>1. n \in Nat /\ descIdx + n <= Size /\ g \in ReqType /\ g.tfer = req[r].tfer
      /\ Take(r, g, n, last) /\ last \in BOOLEAN
  BY TransferInitStep DEF Local
<1> HIDE DEF n, last, g
<1>3. TakeEffect(r, n, g, last)
  BY <1>1, TakeStep DEF TakeEffect
<1> QED
  BY <1>3 DEF n, last, g

\* The end of an aperture pass takes entries.
LEMMA EndEffect ==
  ASSUME BaseOK, FillInv, ApertureEnd
  PROVE  TakeEffect(fill.own, fill.cnt, Ending, req[fill.own].at = Total(req[fill.own].sgl))
<1> DEFINE r == fill.own
           n == fill.cnt
           last == req[r].at = Total(req[r].sgl)
           g == Ending
<1>1. n \in Nat /\ descIdx + n <= Size /\ g \in ReqType /\ g.tfer = req[r].tfer
      /\ Take(r, g, n, last) /\ last \in BOOLEAN /\ r \in Reqs
  BY ApertureEndStep
<1> HIDE DEF r, n, last, g
<1>3. TakeEffect(r, n, g, last)
  BY <1>1, TakeStep DEF TakeEffect
<1> QED
  BY <1>3 DEF r, n, last, g

\* Every step leaves desc_lock with the blocking caller that uses the ring.
LEMMA LockNext ==
  ASSUME BaseOK, FlowInv, [Next]_vars
  PROVE  \A s \in Reqs : LockInv(s)'
<1>0. /\ FillInv /\ ListInv
      /\ \A s \in Reqs : Local(req[s]) /\ LockInv(s)
  BY DEF FlowInv, Local
<1>1. ASSUME NEW r \in Reqs, Begin(r), NEW s \in Reqs PROVE LockInv(s)'
  <2>1. CASE s = r
    BY <1>1, <2>1, BeginStep DEF LockInv
  <2>2. CASE s # r
    BY <1>0, <1>1, <2>2, BeginStep DEF LockInv
  <2> QED
    BY <2>1, <2>2
<1>2. ASSUME NEW r \in Reqs, LockDesc(r), NEW s \in Reqs PROVE LockInv(s)'
  <2>1. CASE s = r
    BY <1>2, <2>1, LockDescStep DEF LockInv
  <2>2. CASE s # r
    BY <1>0, <1>2, <2>2, LockDescStep, Names DEF LockInv
  <2> QED
    BY <2>1, <2>2
<1>3. ASSUME NEW r \in Reqs, transfer_init(r), NEW s \in Reqs PROVE LockInv(s)'
  <2>1. Rest(Going(r)) = <<"queue", req[r].kind, req[r].sgl, req[r].idx + Taking(r),
                           Cuts(req[r].sgl)[req[r].idx + Taking(r)].n, req[r].sgIdx,
                           req[r].sgOff, req[r].astray>>
        /\ req[r].pc = "init" /\ descLock' = descLock
    BY <1>0, <1>3, TransferInitStep DEF Local
  <2>2. req'[s].kind = req[s].kind /\ (s # r => req'[s].pc = req[s].pc)
    BY <1>0, <1>3, <2>1, InitEffect DEF TakeEffect, Rest
  <2> QED
    BY <1>0, <2>1, <2>2 DEF LockInv
<1>4. ASSUME NEW r \in Reqs, transfer_queue(r), NEW s \in Reqs PROVE LockInv(s)'
  <2>1. /\ req[r].pc = "queue" /\ req'[r] = [req[r] EXCEPT !.pc = Queued(req[r])]
        /\ \A x \in Reqs : x # r => req'[x] = req[x]
        /\ descLock' = descLock
    BY <1>0, <1>4, QueueStep DEF Local
  <2>2. req'[r].kind = req[r].kind
    BY <2>1, ReqTypes DEF ReqType
  <2> QED
    BY <1>0, <2>1, <2>2 DEF LockInv
<1>5. ASSUME NEW r \in Reqs, ApertureStart(r), NEW s \in Reqs PROVE LockInv(s)'
  <2>1. /\ req'[r] = [req[r] EXCEPT !.astray = req[r].astray \/ req[r].sgIdx # 0]
        /\ \A x \in Reqs : x # r => req'[x] = req[x]
        /\ descLock' = descLock
    BY <1>0, <1>5, ApertureStartStep DEF Local
  <2>2. req'[r].kind = req[r].kind /\ req'[r].pc = req[r].pc
    BY <2>1, ReqTypes DEF ReqType
  <2> QED
    BY <1>0, <2>1, <2>2 DEF LockInv
<1>6. ASSUME NEW r \in Reqs, Collect(r), NEW s \in Reqs PROVE LockInv(s)'
  <2>1. req[r].kind # "async" /\ descLock = r
    BY <1>0, <1>6, CollectStep DEF Local, ControlInv, LockInv
  <2>2. CASE s = r
    <3>1. CASE req'[r] = NoReq
      BY <2>2, <3>1, NoReqType DEF LockInv
    <3>2. CASE descLock' = descLock
      BY <2>1, <2>2, <3>2 DEF LockInv
    <3> QED
      BY <1>6, <3>1, <3>2, CollectStep
  <2>3. CASE s # r
    <3>1. req'[s] = req[s]
      BY <1>6, <2>3, CollectStep
    <3> QED
      BY <1>0, <2>1, <2>3, <3>1 DEF LockInv
  <2> QED
    BY <2>2, <2>3
<1>7. ASSUME ApertureDesc, NEW s \in Reqs PROVE LockInv(s)'
  <2>1. /\ fill.own \in Reqs
        /\ req'[fill.own] = [req[fill.own] EXCEPT !.at = @ + NextLen]
        /\ \A x \in Reqs : x # fill.own => req'[x] = req[x]
        /\ descLock' = descLock
    BY <1>0, <1>7, ApertureDescStep
  <2>2. req'[fill.own].kind = req[fill.own].kind /\ req'[fill.own].pc = req[fill.own].pc
    BY <2>1, ReqTypes DEF ReqType
  <2> QED
    BY <1>0, <2>1, <2>2 DEF LockInv
<1>8. ASSUME ApertureEnd, NEW s \in Reqs PROVE LockInv(s)'
  <2>1. /\ Rest(Ending) = <<"queue", req[fill.own].kind, req[fill.own].sgl, req[fill.own].idx,
                             req[fill.own].at, fill.i, fill.off, req[fill.own].astray>>
        /\ fill.own \in Reqs /\ req[fill.own].pc = "init" /\ descLock' = descLock
    BY <1>0, <1>8, ApertureEndStep
  <2>2. req'[s].kind = req[s].kind /\ (s # fill.own => req'[s].pc = req[s].pc)
    BY <1>0, <1>8, <2>1, EndEffect DEF TakeEffect, Rest
  <2> QED
    BY <1>0, <2>1, <2>2 DEF LockInv
<1>9. ASSUME Service, NEW s \in Reqs PROVE LockInv(s)'
  <2>1. /\ SvcReq \in Reqs /\ descLock' = descLock
        /\ \A x \in Reqs : x # SvcReq => req'[x] = req[x]
        /\ req'[SvcReq] = NoReq \/ Rest(req'[SvcReq]) = Rest(req[SvcReq])
    BY <1>0, <1>9, ServiceStep
  <2>2. req'[s] = NoReq \/ (req'[s].kind = req[s].kind /\ req'[s].pc = req[s].pc)
    BY <2>1, RestFields
  <2> QED
    BY <1>0, <2>1, <2>2, NoReqType DEF LockInv
<1>10. CASE UNCHANGED vars
  BY <1>0, <1>10 DEF vars, LockInv
<1> QED
  BY <1>1, <1>2, <1>3, <1>4, <1>5, <1>6, <1>7, <1>8, <1>9, <1>10 DEF Next

\* A step that completes no transfer of request s and gives back none.
Keeps(s) ==
  /\ Len(req'[s].tfer) \in Nat
  /\ \A k \in 1..Len(req[s].tfer) : req'[s].tfer[k].done = req[s].tfer[k].done
  /\ Len(req'[s].tfer) >= Len(req[s].tfer)
  /\ req'[s].pc = "queue" => \/ req[s].pc = "queue"
                             \/ Len(req'[s].tfer) = Len(req[s].tfer) + 1

\* A step that keeps the transfers keeps the list right.
LEMMA ListKept ==
  ASSUME BaseOK, ListInv, list' = list, \A s \in Reqs : Keeps(s)
  PROVE  ListInv'
<1>1. ASSUME NEW i \in 1..Len(list)
      PROVE  LET q == req'[list[i][1]] IN
               /\ list[i][2] \in 1..Len(q.tfer)
               /\ ~q.tfer[list[i][2]].done
               /\ q.pc = "queue" => list[i][2] < Len(q.tfer)
  <2> DEFINE s == list[i][1]
             k == list[i][2]
  <2>1. s \in Reqs /\ k \in Nat
    <3>1. list[i] \in Reqs \X (Nat \ {0})
      BY ElementOfSeq DEF BaseOK
    <3> QED
      BY <3>1
  <2>2. k \in 1..Len(req[s].tfer) /\ ~req[s].tfer[k].done
        /\ (req[s].pc = "queue" => k < Len(req[s].tfer))
    BY DEF ListInv
  <2> HIDE DEF s, k
  <2>3. Len(req[s].tfer) \in Nat
    BY <2>1, ReqTypes
  <2>4. k \in 1..Len(req'[s].tfer) /\ ~req'[s].tfer[k].done
        /\ (req'[s].pc = "queue" => k < Len(req'[s].tfer))
    <3> DEFINE a == Len(req[s].tfer)
               b == Len(req'[s].tfer)
    <3>1. /\ b \in Nat /\ a \in Nat /\ b >= a
          /\ req'[s].pc = "queue" => req[s].pc = "queue" \/ b = a + 1
          /\ req'[s].tfer[k].done = req[s].tfer[k].done
      BY <2>1, <2>2, <2>3 DEF Keeps
    <3>2. k \in 1..a /\ (req[s].pc = "queue" => k < a)
      BY <2>2
    <3> HIDE DEF a, b
    <3>3. k \in 1..b /\ (req'[s].pc = "queue" => k < b)
      BY <3>1, <3>2
    <3> QED
      BY <2>2, <3>1, <3>3 DEF b
  <2> QED
    BY <2>4 DEF s, k
<1>2. \A i, j \in 1..Len(list) :
        i < j /\ list[i][1] = list[j][1] => list[i][2] < list[j][2]
  BY DEF ListInv
<1> QED
  BY <1>1, <1>2 DEF ListInv

\* Taking entries keeps the transfers there are.
LEMMA KeepsGrown ==
  ASSUME BaseOK, NEW r \in Reqs, NEW n \in Nat, NEW q, NEW last, TakeEffect(r, n, q, last),
         NEW s \in Reqs
  PROVE  Keeps(s)
<1>1. Len(req[s].tfer) \in Nat /\ \A k \in 1..Len(req[s].tfer) : req[s].tfer[k] \in AnyTfer
  BY ReqTypes
<1>2. ASSUME NEW k \in 1..Len(req[s].tfer)
      PROVE  req'[s].tfer[k].done = req[s].tfer[k].done
  <2> DEFINE t == req[s].tfer[k]
  <2>1. t \in AnyTfer /\ req'[s].tfer[k] = Grown(t, n)
    BY <1>1 DEF TakeEffect
  <2> HIDE DEF t
  <2>2. Grown(t, n).done = t.done
    BY <2>1, GrownType
  <2> QED
    BY <2>1, <2>2 DEF t
<1>3. CASE s = r
  BY <1>1, <1>2, <1>3 DEF Keeps, TakeEffect
<1>4. CASE s # r
  <2>1. Len(req'[s].tfer) = Len(req[s].tfer) /\ req'[s].pc = req[s].pc
    BY <1>4 DEF TakeEffect, Rest
  <2> QED
    BY <1>1, <1>2, <2>1 DEF Keeps
<1> QED
  BY <1>3, <1>4

\* Queueing adds a transfer that is not in the list.
LEMMA ListQueue ==
  ASSUME BaseOK, ListInv, NEW r \in Reqs, Local(req[r]), transfer_queue(r)
  PROVE  ListInv'
<1>1. /\ req[r].pc = "queue" /\ Len(req[r].tfer) \in Nat \ {0}
      /\ Len(list) \in Nat /\ Len(list') = Len(list) + 1
      /\ \A i \in 1..Len(list) : list'[i] = list[i]
      /\ list'[Len(list) + 1][1] = r /\ list'[Len(list) + 1][2] = Len(req[r].tfer)
      /\ \A s \in Reqs : s # r => req'[s] = req[s]
      /\ req'[r] = [req[r] EXCEPT !.pc = Queued(req[r])]
  BY QueueStep DEF Local
<1>2. req'[r].tfer = req[r].tfer /\ req'[r].pc # "queue"
  BY <1>1, ReqTypes DEF ReqType, Queued
<1>3. \A i \in 1..Len(list) : list[i][1] \in Reqs
  BY ElementOfSeq DEF BaseOK
<1>4. ~req[r].tfer[Len(req[r].tfer)].done
  BY <1>1 DEF Local, ControlInv
<1> DEFINE m == Len(list)
<1>5. ASSUME NEW i \in 1..(m + 1)
      PROVE  LET q == req'[list'[i][1]] IN
               /\ list'[i][2] \in 1..Len(q.tfer)
               /\ ~q.tfer[list'[i][2]].done
               /\ q.pc = "queue" => list'[i][2] < Len(q.tfer)
  <2>1. CASE i = m + 1
    <3>1. list'[i][1] = r /\ list'[i][2] = Len(req[r].tfer)
      BY <1>1, <2>1
    <3>2. Len(req[r].tfer) \in 1..Len(req[r].tfer)
      BY <1>1
    <3> QED
      BY <1>2, <1>4, <3>1, <3>2
  <2>2. CASE i # m + 1
    <3>1. i \in 1..Len(list) /\ list'[i] = list[i]
      BY <1>1, <2>2
    <3>2. LET q == req[list[i][1]] IN
            /\ list[i][2] \in 1..Len(q.tfer)
            /\ ~q.tfer[list[i][2]].done
            /\ q.pc = "queue" => list[i][2] < Len(q.tfer)
      BY <3>1 DEF ListInv
    <3>3. CASE list[i][1] = r
      BY <1>2, <3>1, <3>2, <3>3
    <3>4. CASE list[i][1] # r
      <4>1. req'[list[i][1]] = req[list[i][1]]
        BY <1>1, <1>3, <3>1, <3>4
      <4> QED
        BY <3>1, <3>2, <4>1
    <3> QED
      BY <3>3, <3>4
  <2> QED
    BY <2>1, <2>2
<1>6. ASSUME NEW i \in 1..(m + 1), NEW j \in 1..(m + 1), i < j, list'[i][1] = list'[j][1]
      PROVE  list'[i][2] < list'[j][2]
  <2>1. i \in 1..m /\ list'[i] = list[i]
    BY <1>1, <1>6
  <2>2. CASE j = m + 1
    <3>1. list[i][1] = r
      BY <1>1, <1>6, <2>1, <2>2
    <3>2. list[i][2] < Len(req[r].tfer)
      BY <1>1, <2>1, <3>1 DEF ListInv
    <3> QED
      BY <1>1, <2>1, <2>2, <3>2
  <2>3. CASE j # m + 1
    <3>1. j \in 1..m /\ list'[j] = list[j]
      BY <1>1, <2>3
    <3> QED
      BY <1>6, <2>1, <3>1 DEF ListInv
  <2> QED
    BY <2>2, <2>3
<1> QED
  BY <1>1, <1>5, <1>6 DEF ListInv

\* The service takes the first one off; an asynchronous request whose last
\* transfer it was has no other in the list.
LEMMA ListService ==
  ASSUME BaseOK, ListInv, \A s \in Reqs : Local(req[s]), Service
  PROVE  ListInv'
<1> DEFINE r == SvcReq
           k == SvcIdx
           q == req[r]
           p == req'[r]
<1>1. /\ r \in Reqs /\ k \in 1..Len(q.tfer)
      /\ Len(list) \in Nat /\ Len(list) > 0 /\ list[1][1] = r /\ list[1][2] = k
      /\ Len(list') = Len(list) - 1
      /\ \A i \in 1..Len(list') : i + 1 \in 1..Len(list) /\ list'[i] = list[i + 1]
      /\ \A s \in Reqs : s # r => req'[s] = req[s]
      /\ \/ q.kind = "async" /\ q.tfer[k].last
         \/ /\ Rest(p) = Rest(q) /\ Len(p.tfer) = Len(q.tfer)
            /\ \A j \in 1..Len(q.tfer) : j # k => p.tfer[j] = q.tfer[j]
  BY ServiceStep
<1>2. Len(q.tfer) \in Nat
  BY <1>1, ReqTypes
<1>3. q.tfer[k].last => k = Len(q.tfer)
  BY <1>1 DEF Local, ControlInv
<1> HIDE DEF r, k, p, q
<1>4. ASSUME NEW i \in 1..Len(list')
      PROVE  LET x == req'[list'[i][1]] IN
               /\ list'[i][2] \in 1..Len(x.tfer)
               /\ ~x.tfer[list'[i][2]].done
               /\ x.pc = "queue" => list'[i][2] < Len(x.tfer)
  <2> DEFINE s == list'[i][1]
             m == list'[i][2]
  <2>1. i + 1 \in 1..Len(list) /\ list'[i] = list[i + 1] /\ 1 \in 1..Len(list) /\ 1 < i + 1
    BY <1>1
  <2>2. /\ m \in 1..Len(req[s].tfer) /\ ~req[s].tfer[m].done
        /\ req[s].pc = "queue" => m < Len(req[s].tfer)
        /\ s = r => k < m
    BY <1>1, <2>1 DEF ListInv
  <2>3. s \in Reqs
    <3>1. list[i + 1] \in Reqs \X (Nat \ {0})
      BY <2>1, ElementOfSeq DEF BaseOK
    <3> QED
      BY <2>1, <3>1
  <2> HIDE DEF s, m
  <2>4. CASE s # r
    <3>1. req'[s] = req[s]
      BY <1>1, <2>3, <2>4
    <3> QED
      BY <2>2, <3>1 DEF s, m
  <2>5. CASE s = r
    <3>1. req[s] = q /\ req'[s] = p
      BY <2>5 DEF p, q, r
    <3>2. k < m /\ m \in 1..Len(q.tfer)
      BY <2>2, <2>5, <3>1
    <3>3. ~(q.kind = "async" /\ q.tfer[k].last)
      BY <1>1, <1>2, <1>3, <3>2
    <3>4. Rest(p) = Rest(q) /\ Len(p.tfer) = Len(q.tfer) /\ p.tfer[m] = q.tfer[m]
      BY <1>1, <3>2, <3>3
    <3>5. p.pc = q.pc
      BY <3>4 DEF Rest
    <3> QED
      BY <2>2, <3>1, <3>4, <3>5 DEF s, m
  <2> QED
    BY <2>4, <2>5
<1>5. ASSUME NEW i \in 1..Len(list'), NEW j \in 1..Len(list'), i < j, list'[i][1] = list'[j][1]
      PROVE  list'[i][2] < list'[j][2]
  <2>1. i + 1 \in 1..Len(list) /\ j + 1 \in 1..Len(list) /\ i + 1 < j + 1
        /\ list'[i] = list[i + 1] /\ list'[j] = list[j + 1]
    BY <1>1, <1>5
  <2> QED
    BY <1>5, <2>1 DEF ListInv
<1> QED
  BY <1>4, <1>5 DEF ListInv

\* The list has no transfer of a request whose wait is over.
LEMMA ListCollect ==
  ASSUME BaseOK, ListInv, NEW r \in Reqs, Local(req[r]), Collect(r)
  PROVE  ListInv'
<1>1. /\ req[r].pc = "wait" /\ req[r].tfer[1].done
      /\ \A s \in Reqs : s # r => req'[s] = req[s]
      /\ list' = list
  BY CollectStep
<1>2. Len(req[r].tfer) = 1
  BY <1>1 DEF Local, ControlInv
<1>3. ASSUME NEW i \in 1..Len(list)
      PROVE  list[i][1] # r /\ list[i][1] \in Reqs
  <2>1. list[i][1] \in Reqs
    BY ElementOfSeq DEF BaseOK
  <2>2. list[i][2] \in 1..Len(req[list[i][1]].tfer) /\ ~req[list[i][1]].tfer[list[i][2]].done
    BY DEF ListInv
  <2> QED
    BY <1>1, <1>2, <2>1, <2>2
<1> QED
  BY <1>1, <1>3 DEF ListInv

\* Every step keeps the list right.
LEMMA ListNext ==
  ASSUME BaseOK, BaseOK', FlowInv, [Next]_vars
  PROVE  ListInv'
<1>0. FillInv /\ ListInv /\ \A s \in Reqs : Local(req[s])
  BY DEF FlowInv, Local
<1>l. ASSUME NEW s \in Reqs PROVE Len(req'[s].tfer) \in Nat /\ Len(req[s].tfer) \in Nat
  <2>1. req'[s].tfer \in Seq(AnyTfer)
    BY DEF BaseOK, ReqType
  <2> QED
    BY <2>1, ReqTypes
<1>s. ASSUME NEW s \in Reqs, req'[s].tfer = req[s].tfer, req'[s].pc # "queue" \/ req[s].pc = "queue"
      PROVE  Keeps(s)
  BY <1>l, <1>s DEF Keeps
<1>1. ASSUME NEW r \in Reqs, Begin(r) PROVE ListInv'
  <2>1. req[r].tfer = <<>>
    BY <1>0, <1>1, BeginStep DEF Local, ControlInv
  <2>2. \A s \in Reqs : Keeps(s)
    BY <1>1, <1>s, <2>1, BeginStep
  <2> QED
    BY <1>0, <1>1, <2>2, BeginStep, ListKept
<1>2. ASSUME NEW r \in Reqs, LockDesc(r) PROVE ListInv'
  <2>1. req'[r].tfer = req[r].tfer /\ req'[r].pc = "init"
    <3>1. req'[r] = [req[r] EXCEPT !.pc = "init"] /\ req[r] \in ReqType
      BY <1>2, LockDescStep, ReqTypes
    <3> QED
      BY <3>1 DEF ReqType
  <2>2. \A s \in Reqs : Keeps(s)
    BY <1>2, <1>s, <2>1, LockDescStep
  <2> QED
    BY <1>0, <1>2, <2>2, LockDescStep, ListKept
<1>3. ASSUME NEW r \in Reqs, transfer_init(r) PROVE ListInv'
  <2>1. Taking(r) \in Nat /\ list' = list
    BY <1>0, <1>3, TransferInitStep DEF Local
  <2>2. \A s \in Reqs : Keeps(s)
    BY <1>0, <1>3, <2>1, InitEffect, KeepsGrown
  <2> QED
    BY <1>0, <2>1, <2>2, ListKept
<1>4. ASSUME NEW r \in Reqs, transfer_queue(r) PROVE ListInv'
  BY <1>0, <1>4, ListQueue
<1>5. ASSUME NEW r \in Reqs, ApertureStart(r) PROVE ListInv'
  <2>1. /\ req'[r] = [req[r] EXCEPT !.astray = req[r].astray \/ req[r].sgIdx # 0]
        /\ \A x \in Reqs : x # r => req'[x] = req[x]
        /\ list' = list
    BY <1>0, <1>5, ApertureStartStep DEF Local
  <2>2. req'[r].tfer = req[r].tfer /\ req'[r].pc = req[r].pc
    BY <2>1, ReqTypes DEF ReqType
  <2>3. \A s \in Reqs : Keeps(s)
    BY <1>s, <2>1, <2>2
  <2> QED
    BY <1>0, <2>1, <2>3, ListKept
<1>6. ASSUME NEW r \in Reqs, Collect(r) PROVE ListInv'
  BY <1>0, <1>6, ListCollect
<1>7. ASSUME ApertureDesc PROVE ListInv'
  <2>1. /\ fill.own \in Reqs
        /\ req'[fill.own] = [req[fill.own] EXCEPT !.at = @ + NextLen]
        /\ \A x \in Reqs : x # fill.own => req'[x] = req[x]
        /\ list' = list
    BY <1>0, <1>7, ApertureDescStep
  <2>2. req'[fill.own].tfer = req[fill.own].tfer /\ req'[fill.own].pc = req[fill.own].pc
    BY <2>1, ReqTypes DEF ReqType
  <2>3. \A s \in Reqs : Keeps(s)
    BY <1>s, <2>1, <2>2
  <2> QED
    BY <1>0, <2>1, <2>3, ListKept
<1>8. ASSUME ApertureEnd PROVE ListInv'
  <2>1. fill.cnt \in Nat /\ fill.own \in Reqs /\ list' = list
    BY <1>0, <1>8, ApertureEndStep
  <2>2. \A s \in Reqs : Keeps(s)
    BY <1>0, <1>8, <2>1, EndEffect, KeepsGrown
  <2> QED
    BY <1>0, <2>1, <2>2, ListKept
<1>9. ASSUME Service PROVE ListInv'
  BY <1>0, <1>9, ListService
<1>10. CASE UNCHANGED vars
  BY <1>0, <1>10 DEF vars, ListInv
<1> QED
  BY <1>1, <1>2, <1>3, <1>4, <1>5, <1>6, <1>7, <1>8, <1>9, <1>10 DEF Next

-----------------------------------------------------------------------------
(* Aperture requests.                                                      *)

\* A request starts at the start of its list.
LEMMA AtStart ==
  ASSUME NEW sgl \in Sgl, sgl # <<>>
  PROVE  At(sgl, 0, 0, 0) /\ 0 < Total(sgl)
<1>1. Len(sgl) \in Nat /\ Len(sgl) # 0
  BY EmptySeq DEF Sgl
<1>2. 0 + 1 \in 1..Len(sgl) /\ 0 \in 0..Len(sgl)
  BY <1>1
<1>3. At(sgl, 0, 0, 0)
  BY <1>1, <1>2, SglFacts DEF At
<1> QED
  BY <1>1, <1>3, AtTotal, SglFacts

\* The next descriptor of a pass moves the right data and leaves the pass right.
LEMMA NextRight ==
  ASSUME BaseOK, FillInv, fill.own \in Reqs, Local(req[fill.own]), WalkInv(fill.own),
         ApertureDesc, ~req[fill.own].astray
  PROVE  /\ Right(req[fill.own], NextPiece)
         /\ At(req[fill.own].sgl, fill'.i, fill'.off, req[fill.own].at + NextLen)
         /\ fill'.sg = fill'.i + 1
         /\ fill'.i < Len(req[fill.own].sgl) =>
              fill'.tlen = req[fill.own].sgl[fill'.sg] - fill'.off
         /\ fill'.ep \in 0..Aperture
         /\ PowerOfTwo(Aperture) => WrapEp(fill'.ep) = (req[fill.own].at + NextLen) % Aperture
<1> DEFINE q == req[fill.own]
           sgl == q.sgl
           at == q.at
           i == fill.i
           o == fill.off
           ep == NextEp
           len == NextLen
<1>1. /\ ~FillDone /\ q.pc = "init" /\ q.kind = "aperture"
      /\ fill'.ep = ep + len
      /\ fill.tlen = len => /\ fill'.i = i + 1 /\ fill'.sg = fill.sg + 1 /\ fill'.off = 0
                            /\ fill.sg < Len(sgl) => fill'.tlen = sgl[fill.sg + 1]
      /\ fill.tlen # len => /\ fill'.i = i /\ fill'.sg = fill.sg /\ fill'.off = o + len
                            /\ fill'.tlen = fill.tlen - len
  BY ApertureDescStep
<1>2. /\ At(sgl, i, o, at) /\ fill.sg = i + 1
      /\ i < Len(sgl) => fill.tlen = sgl[fill.sg] - o
      /\ fill.ep \in 0..Aperture
      /\ PowerOfTwo(Aperture) => WrapEp(fill.ep) = at % Aperture
  BY <1>1 DEF WalkInv
<1>3. sgl \in Sgl /\ Len(sgl) \in Nat
  BY <1>1, SdescFacts, SglFacts DEF Local
<1>4. i \in Nat /\ i < Len(sgl) /\ i + 1 \in 1..Len(sgl) /\ o \in Nat
  BY <1>1, <1>2, <1>3, FillTypes DEF FillDone, At
<1>5. sgl[i + 1] \in Nat /\ o < sgl[i + 1] /\ at = Sums(sgl)[i] + o /\ Sums(sgl)[i] \in Nat
      /\ Sums(sgl)[i + 1] = Sums(sgl)[i] + sgl[i + 1]
  <2>1. i \in 0..Len(sgl) /\ (i + 1) - 1 = i
    BY <1>3, <1>4
  <2> QED
    BY <1>2, <1>3, <1>4, <2>1, SglFacts DEF At
<1>6. fill.tlen = sgl[i + 1] - o /\ fill.tlen \in Nat /\ fill.tlen > 0 /\ at \in Nat
  <2> DEFINE x == sgl[i + 1]
             y == Sums(sgl)[i]
             z == fill.tlen
  <2>1. z = x - o
    BY <1>2, <1>4
  <2>2. x \in Nat /\ y \in Nat /\ o \in Nat /\ o < x /\ at = y + o
    BY <1>4, <1>5
  <2> HIDE DEF x, y, z, at, o
  <2>3. z \in Nat /\ z > 0 /\ at \in Nat
    BY <2>1, <2>2
  <2> QED
    BY <2>1, <2>3 DEF x, z
<1>7. /\ PowerOfTwo(Aperture) => ep = at % Aperture
      /\ ep \in 0..(Aperture - 1) /\ Aperture \in Nat /\ Aperture > 0
      /\ Blen \in Nat /\ Blen > 0
  <2>1. ep \in 0..(Aperture - 1)
    BY <1>2, Consts DEF NextEp, WrapEp
  <2> QED
    BY <1>2, <2>1, Consts DEF NextEp
<1>8. /\ len \in Nat /\ len >= 1 /\ len <= Blen /\ len <= fill.tlen /\ ep + len <= Aperture
  <2>1. len = IF ep + Wanted > Aperture - 1 THEN Aperture - ep ELSE Wanted
    BY DEF NextLen
  <2>2. Wanted \in Nat /\ Wanted >= 1 /\ Wanted <= Blen /\ Wanted <= fill.tlen
    BY <1>6, <1>7 DEF Wanted, Least
  <2> HIDE DEF ep, len
  <2> QED
    BY <1>6, <1>7, <2>1, <2>2
<1> HIDE DEF ep, len, at, o, i, sgl
<1>9. Right(q, NextPiece)
  <2> DEFINE p == [sg |-> i + 1, off |-> o, len |-> len, at |-> at, ep |-> ep]
  <2>1. NextPiece = p
    BY <1>2 DEF NextPiece, ep, len, at, o
  <2>2. p \in PieceType
    BY <1>4, <1>6, <1>7, <1>8 DEF PieceType
  <2>3. (i + 1) - 1 = i
    BY <1>4
  <2>4. Sums(sgl)[p.sg - 1] + p.off = p.at /\ p.len \in 1..Blen /\ p.off + p.len <= sgl[p.sg]
    BY <1>4, <1>5, <1>6, <1>7, <1>8, <2>3
  <2>5. p.sg \in 1..Len(sgl) /\ (PowerOfTwo(Aperture) => p.ep = p.at % Aperture)
        /\ p.ep + p.len <= Aperture
    BY <1>4, <1>7, <1>8
  <2> HIDE DEF p
  <2> QED
    BY <1>1, <2>1, <2>2, <2>4, <2>5 DEF Right, sgl
<1>10. /\ PowerOfTwo(Aperture) => WrapEp(ep + len) = (at + len) % Aperture
       /\ ep + len \in 0..Aperture
  <2>0. Aperture \in Nat \ {0}
    BY <1>7
  <2>1. CASE PowerOfTwo(Aperture) /\ ep + len < Aperture
    <3>1. (at + len) % Aperture = (at % Aperture) + len
      BY <1>6, <1>7, <1>8, <2>0, <2>1, ModAdd
    <3> QED
      BY <1>7, <1>8, <2>1, <3>1 DEF WrapEp
  <2>2. CASE PowerOfTwo(Aperture) /\ ep + len = Aperture
    <3>1. (at + len) % Aperture = 0
      BY <1>6, <1>7, <1>8, <2>0, <2>2, ModWrap
    <3> QED
      BY <1>7, <1>8, <2>2, <3>1 DEF WrapEp
  <2> QED
    BY <1>7, <1>8, <2>1, <2>2
<1>11. CASE fill.tlen = len
  <2>1. fill'.i = i + 1 /\ fill'.sg = i + 2 /\ fill'.off = 0
    BY <1>1, <1>2, <1>4, <1>11
  <2>2. At(sgl, i + 1, 0, at + len)
    <3>1. at + len = Sums(sgl)[i + 1] + 0
      <4> DEFINE x == sgl[i + 1]
                 y == Sums(sgl)[i]
      <4>1. x \in Nat /\ y \in Nat /\ o \in Nat /\ at = y + o /\ len = x - o
        BY <1>4, <1>5, <1>6, <1>11
      <4>2. Sums(sgl)[i + 1] = y + x
        BY <1>5
      <4> HIDE DEF x, y
      <4>3. at + len = (y + x) + 0
        BY <4>1
      <4> QED
        BY <4>2, <4>3
    <3>2. i + 1 < Len(sgl) => 0 < sgl[(i + 1) + 1]
      <4>1. i + 1 < Len(sgl) => (i + 1) + 1 \in 1..Len(sgl)
        BY <1>3, <1>4
      <4> QED
        BY <1>3, <4>1, SglFacts
    <3>3. i + 1 \in 0..Len(sgl)
      BY <1>4
    <3> QED
      BY <3>1, <3>2, <3>3 DEF At
  <2>3. fill'.i < Len(sgl) => fill'.tlen = sgl[fill'.sg] - fill'.off
    <3>1. i + 1 < Len(sgl) => fill'.tlen = sgl[i + 2] /\ sgl[i + 2] \in Nat
      <4>1. i + 1 < Len(sgl) => i + 2 \in 1..Len(sgl) /\ fill.sg < Len(sgl) /\ fill.sg + 1 = i + 2
        BY <1>2, <1>3, <1>4
      <4> QED
        BY <1>1, <1>3, <1>11, <4>1, SglFacts
    <3> QED
      BY <2>1, <3>1
  <2>4. fill'.sg = fill'.i + 1
    BY <1>4, <2>1
  <2> QED
    BY <1>1, <1>9, <1>10, <2>1, <2>2, <2>3, <2>4 DEF at, len, sgl
<1>12. CASE fill.tlen # len
  <2>1. fill'.i = i /\ fill'.sg = i + 1 /\ fill'.off = o + len /\ fill'.tlen = fill.tlen - len
    BY <1>1, <1>2, <1>12
  <2>2. o + len < sgl[i + 1] /\ o + len \in Nat
    <3> DEFINE x == sgl[i + 1]
               z == fill.tlen
    <3>1. x \in Nat /\ o \in Nat /\ len \in Nat /\ z = x - o /\ len <= z /\ len # z
      BY <1>4, <1>5, <1>6, <1>8, <1>12
    <3> HIDE DEF x, z
    <3>2. o + len < x /\ o + len \in Nat
      BY <3>1
    <3> QED
      BY <3>2 DEF x
  <2>3. At(sgl, i, o + len, at + len)
    <3>1. at + len = Sums(sgl)[i] + (o + len)
      BY <1>4, <1>5, <1>8
    <3>2. i \in 0..Len(sgl) /\ i # Len(sgl)
      BY <1>3, <1>4
    <3> QED
      BY <2>2, <3>1, <3>2 DEF At
  <2>4. fill.tlen - len = sgl[i + 1] - (o + len)
    BY <1>4, <1>5, <1>6, <1>8
  <2> QED
    BY <1>1, <1>9, <1>10, <2>1, <2>3, <2>4 DEF at, len, sgl
<1> QED
  BY <1>11, <1>12

\* Nobody collects a transfer while another request fills the ring.
LEMMA NoCollectInFill ==
  ASSUME BaseOK, FlowInv, NEW r \in Reqs, Collect(r)
  PROVE  fill.own = None
<1>1. SUFFICES ASSUME fill.own # None PROVE FALSE
  OBVIOUS
<1>2. fill.own \in Reqs /\ req[fill.own].pc = "init" /\ req[fill.own].kind = "aperture"
  BY <1>1, FillTypes DEF FlowInv, FillInv
<1>3. descLock = fill.own
  BY <1>2 DEF FlowInv, LockInv
<1>4. req[r].pc = "wait" /\ req[r].kind # "async"
  BY CollectStep DEF FlowInv, ControlInv
<1>5. descLock = r
  BY <1>4 DEF FlowInv, LockInv
<1> QED
  BY <1>2, <1>3, <1>4, <1>5

\* Every step keeps what is known of the entries being filled.
LEMMA FillNext ==
  ASSUME BaseOK, FlowInv, [Next]_vars
  PROVE  FillInv'
<1>0. /\ FillInv /\ ListInv
      /\ \A s \in Reqs : Local(req[s]) /\ WalkInv(s)
  BY DEF FlowInv, Local
<1>k. ASSUME fill' = fill, descIdx' = descIdx, ring' = ring,
             fill.own # None => req'[fill.own] = req[fill.own]
      PROVE  FillInv'
  BY <1>0, <1>k DEF FillInv
<1>n. ASSUME fill' = NoFill PROVE FillInv'
  BY <1>n DEF FillInv, NoFill
<1>i. fill.own # None => fill.own \in Reqs /\ req[fill.own].pc = "init"
  BY <1>0, FillTypes DEF FillInv
<1>o. fill.own = None => fill = NoFill
  BY <1>0 DEF FillInv
<1>1. ASSUME NEW r \in Reqs, Begin(r) PROVE FillInv'
  <2>1. /\ req[r].pc = "idle" /\ \A s \in Reqs : s # r => req'[s] = req[s]
        /\ UNCHANGED <<descIdx, ring, fill>>
    BY <1>1, BeginStep
  <2> QED
    BY <1>i, <1>k, <2>1
<1>2. ASSUME NEW r \in Reqs, LockDesc(r) PROVE FillInv'
  <2>1. /\ req[r].pc = "mutex" /\ \A s \in Reqs : s # r => req'[s] = req[s]
        /\ UNCHANGED <<descIdx, ring, fill>>
    BY <1>2, LockDescStep
  <2> QED
    BY <1>i, <1>k, <2>1
<1>3. ASSUME NEW r \in Reqs, transfer_init(r) PROVE FillInv'
  <2>1. fill.own = None /\ fill' = fill
    BY <1>0, <1>3, TransferInitStep DEF Local
  <2> QED
    BY <1>n, <1>o, <2>1
<1>4. ASSUME NEW r \in Reqs, transfer_queue(r) PROVE FillInv'
  <2>1. fill.own = None /\ fill' = fill
    BY <1>0, <1>4, QueueStep DEF Local
  <2> QED
    BY <1>n, <1>o, <2>1
<1>5. ASSUME NEW r \in Reqs, ApertureStart(r) PROVE FillInv'
  <2>1. /\ req'[r] = [req[r] EXCEPT !.astray = req[r].astray \/ req[r].sgIdx # 0]
        /\ req[r].pc = "init" /\ req[r].kind = "aperture"
        /\ fill'.own = r /\ fill'.cnt = 0 /\ descIdx' = descIdx
    BY <1>0, <1>5, ApertureStartStep DEF Local
  <2>2. req'[r].pc = "init" /\ req'[r].kind = "aperture" /\ r # None
    BY <2>1, ReqTypes, Names DEF ReqType
  <2>3. descIdx' + 0 <= Size /\ descIdx'..(descIdx' + 0 - 1) = {}
    BY <2>1, FillTypes
  <2> QED
    BY <2>1, <2>2, <2>3 DEF FillInv
<1>6. ASSUME NEW r \in Reqs, Collect(r) PROVE FillInv'
  <2>1. fill.own = None /\ fill' = fill
    BY <1>6, CollectStep, NoCollectInFill
  <2> QED
    BY <1>n, <1>o, <2>1
<1>7. ASSUME ApertureDesc PROVE FillInv'
  <2> DEFINE r == fill.own
             e0 == descIdx + fill.cnt
  <2>1. /\ r \in Reqs /\ req[r].pc = "init" /\ req[r].kind = "aperture"
        /\ NextDesc \in Desc(AnyPiece)
        /\ e0 < Size /\ e0 \in Entries
        /\ ring' = [ring EXCEPT ![e0] = NextDesc]
        /\ req'[r] = [req[r] EXCEPT !.at = @ + NextLen]
        /\ fill'.own = r /\ fill'.cnt = fill.cnt + 1 /\ descIdx' = descIdx
    BY <1>0, <1>7, ApertureDescStep
  <2>2. /\ req'[r].pc = "init" /\ req'[r].kind = "aperture" /\ req'[r].sgl = req[r].sgl
        /\ req'[r].astray = req[r].astray
    BY <2>1, ReqTypes DEF ReqType
  <2>3. ring'[e0] = NextDesc /\ \A e \in Entries : e # e0 => ring'[e] = ring[e]
    BY <2>1 DEF BaseOK
  <2>4. ~req[r].astray => Right(req[r], NextPiece)
    BY <1>0, <1>7, <2>1, NextRight
  <2>5. NextDesc # None /\ NextDesc.piece = NextPiece
    BY <2>1, Names DEF NextDesc
  <2>6. descIdx \in Nat /\ fill.cnt \in Nat /\ Size \in Nat
    BY FillTypes
  <2>7. ASSUME NEW e \in descIdx..(descIdx + (fill.cnt + 1) - 1)
        PROVE  /\ ring'[e] # None
               /\ ~req'[r].astray => Right(req'[r], ring'[e].piece)
    <3>1. e \in Entries /\ (e # e0 => e \in descIdx..(descIdx + fill.cnt - 1))
      BY <2>1, <2>6 DEF Entries
    <3>2. CASE e = e0
      BY <2>1, <2>2, <2>3, <2>4, <2>5, <3>2 DEF Right
    <3>3. CASE e # e0
      <4>1. ring'[e] = ring[e] /\ e \in descIdx..(descIdx + fill.cnt - 1)
        BY <2>3, <3>1, <3>3
      <4>2. ring[e] # None /\ (~req[r].astray => Right(req[r], ring[e].piece))
        BY <1>0, <2>1, <4>1, Names DEF FillInv
      <4> QED
        BY <2>1, <2>2, <4>1, <4>2 DEF Right
    <3> QED
      BY <3>2, <3>3
  <2>8. descIdx + (fill.cnt + 1) <= Size
    BY <2>1, <2>6
  <2> HIDE DEF r
  <2>9. r # None
    BY <2>1, Names
  <2> QED
    BY <2>1, <2>2, <2>7, <2>8, <2>9 DEF FillInv
<1>8. ASSUME ApertureEnd PROVE FillInv'
  BY <1>0, <1>8, <1>n, ApertureEndStep
<1>9. ASSUME Service PROVE FillInv'
  <2>1. fill.own = None /\ fill' = fill
    BY <1>0, <1>9, ServiceStep
  <2> QED
    BY <1>n, <1>o, <2>1
<1>10. CASE UNCHANGED vars
  BY <1>0, <1>10 DEF vars, FillInv
<1> QED
  BY <1>1, <1>2, <1>3, <1>4, <1>5, <1>6, <1>7, <1>8, <1>9, <1>10 DEF Next

\* A step that touches neither the request nor its pass keeps its place.
LEMMA WalkKept ==
  ASSUME NEW s \in Reqs, WalkInv(s), Rest(req'[s]) = Rest(req[s]),
         fill' = fill \/ (fill.own # s /\ fill'.own # s)
  PROVE  WalkInv(s)'
<1>1. /\ req'[s].pc = req[s].pc /\ req'[s].kind = req[s].kind /\ req'[s].sgl = req[s].sgl
      /\ req'[s].at = req[s].at /\ req'[s].sgIdx = req[s].sgIdx
      /\ req'[s].sgOff = req[s].sgOff /\ req'[s].astray = req[s].astray
  BY DEF Rest
<1>2. CASE fill' = fill
  BY <1>1, <1>2 DEF WalkInv
<1>3. CASE fill.own # s /\ fill'.own # s
  BY <1>1, <1>3 DEF WalkInv
<1> QED
  BY <1>2, <1>3

\* A pass that starts in the first list entry starts at its place.
LEMMA WalkStart ==
  ASSUME BaseOK, NEW r \in Reqs, Local(req[r]), WalkInv(r), ApertureStart(r), ~req'[r].astray
  PROVE  WalkInv(r)'
<1> DEFINE q == req[r]
           p == req'[r]
<1>1. /\ q.pc = "init" /\ q.kind = "aperture" /\ fill.own = None
      /\ q.sgl \in Sgl /\ q.sgl # <<>>
      /\ p = [q EXCEPT !.astray = q.astray \/ q.sgIdx # 0]
      /\ fill'.own = r /\ fill'.i = q.sgIdx /\ fill'.sg = 1 /\ fill'.off = q.sgOff
      /\ fill'.tlen = q.sgl[1] - q.sgOff /\ fill'.cnt = 0
      /\ q \in ReqType
  BY ApertureStartStep, ReqTypes DEF Local
<1>b. fill'.ep = And(q.at, Aperture - 1)
  <2> DEFINE x == And(q.at, Aperture - 1)
             v == q.sgl[1] - q.sgOff
  <2>1. fill' = [own |-> r, i |-> q.sgIdx, sg |-> 1, off |-> q.sgOff, tlen |-> v, ep |-> x,
                 cnt |-> 0]
    BY ApertureStartStep DEF Local
  <2> HIDE DEF x, v, q
  <2>2. fill'.ep = x
    BY <2>1
  <2> QED
    BY <2>2 DEF x
<1>2. /\ p.pc = q.pc /\ p.kind = q.kind /\ p.sgl = q.sgl /\ p.at = q.at
      /\ p.astray = (q.astray \/ q.sgIdx # 0)
  BY <1>1 DEF ReqType
<1>3. ~q.astray /\ q.sgIdx = 0
  BY <1>2
<1>4. At(q.sgl, q.sgIdx, q.sgOff, q.at) /\ q.at < Total(q.sgl)
  BY <1>1, <1>3, Names DEF WalkInv
<1> HIDE DEF p, q
<1>5. q.sgIdx < Len(q.sgl) /\ q.at \in Nat
  <2>1. q.at \in Nat /\ Total(q.sgl) \in Nat /\ Len(q.sgl) \in Nat /\ q.sgIdx \in 0..Len(q.sgl)
        /\ (q.at = Total(q.sgl) <=> q.sgIdx = Len(q.sgl))
    BY <1>1, <1>4, AtTotal, SglFacts DEF At
  <2> QED
    BY <1>4, <2>1
<1> DEFINE ep == And(q.at, Aperture - 1)
<1>6. ep \in 0..(Aperture - 1) /\ Aperture \in Nat
  <2>1. Aperture - 1 \in Nat /\ q.at \in Int /\ Aperture \in Nat
    BY <1>5, Consts
  <2> QED
    BY <2>1, AndBound
<1>a. PowerOfTwo(Aperture) => ep = q.at % Aperture
  <2>1. Aperture \in Nat \ {0}
    BY Consts
  <2> QED
    BY <1>5, <2>1, AndPower
<1> HIDE DEF ep
<1>7. WrapEp(ep) = ep /\ ep \in 0..Aperture
  BY <1>6 DEF WrapEp
<1>8. /\ At(p.sgl, fill'.i, fill'.off, p.at)
      /\ fill'.sg = fill'.i + 1
      /\ fill'.tlen = p.sgl[fill'.sg] - fill'.off
      /\ fill'.ep \in 0..Aperture
      /\ PowerOfTwo(Aperture) => WrapEp(fill'.ep) = p.at % Aperture
      /\ fill'.i < Len(p.sgl)
  BY <1>1, <1>2, <1>3, <1>4, <1>5, <1>7, <1>a, <1>b DEF ep
<1> QED
  BY <1>1, <1>8 DEF WalkInv, p

\* Every step keeps the place of an aperture request in its list.
LEMMA WalkNext ==
  ASSUME BaseOK, FlowInv, [Next]_vars
  PROVE  \A s \in Reqs : WalkInv(s)'
<1>0. /\ FillInv /\ ListInv
      /\ \A s \in Reqs : Local(req[s]) /\ WalkInv(s)
  BY DEF FlowInv, Local
<1>i. fill.own # None => fill.own \in Reqs /\ req[fill.own].pc = "init"
  BY <1>0, FillTypes DEF FillInv
<1>1. ASSUME NEW r \in Reqs, Begin(r), NEW s \in Reqs PROVE WalkInv(s)'
  <2>1. CASE s # r
    BY <1>0, <1>1, <2>1, BeginStep, WalkKept
  <2>2. CASE s = r
    <3> DEFINE p == req'[r]
    <3>1. /\ req[r].pc = "idle" /\ fill' = fill
          /\ p.kind \in Kinds /\ p.sgl \in IF p.kind = "aperture" THEN Wide ELSE Lists
          /\ p.at = 0 /\ p.sgIdx = 0 /\ p.sgOff = 0
      BY <1>1, BeginStep
    <3>2. fill'.own # r
      BY <1>i, <3>1, Names
    <3>3. At(p.sgl, 0, 0, 0) /\ 0 < Total(p.sgl)
      BY <3>1, Names, AtStart
    <3> QED
      BY <2>2, <3>1, <3>2, <3>3 DEF WalkInv
  <2> QED
    BY <2>1, <2>2
<1>2. ASSUME NEW r \in Reqs, LockDesc(r), NEW s \in Reqs PROVE WalkInv(s)'
  <2>1. CASE s # r
    BY <1>0, <1>2, <2>1, LockDescStep, WalkKept
  <2>2. CASE s = r
    <3>1. req[r].pc = "mutex" /\ fill' = fill /\ req'[r] = [req[r] EXCEPT !.pc = "init"]
          /\ req[r] \in ReqType
      BY <1>2, LockDescStep, ReqTypes
    <3>2. /\ req'[r].kind = req[r].kind /\ req'[r].sgl = req[r].sgl /\ req'[r].at = req[r].at
          /\ req'[r].sgIdx = req[r].sgIdx /\ req'[r].sgOff = req[r].sgOff
          /\ req'[r].astray = req[r].astray
      BY <3>1 DEF ReqType
    <3>3. fill.own # r
      BY <1>i, <3>1, Names
    <3> QED
      BY <1>0, <2>2, <3>1, <3>2, <3>3 DEF WalkInv
  <2> QED
    BY <2>1, <2>2
<1>3. ASSUME NEW r \in Reqs, transfer_init(r), NEW s \in Reqs PROVE WalkInv(s)'
  <2>1. /\ req[r].kind # "aperture" /\ fill' = fill
        /\ Rest(Going(r)) = <<"queue", req[r].kind, req[r].sgl, req[r].idx + Taking(r),
                           Cuts(req[r].sgl)[req[r].idx + Taking(r)].n, req[r].sgIdx,
                           req[r].sgOff, req[r].astray>>
    BY <1>0, <1>3, TransferInitStep DEF Local
  <2>2. CASE s # r
    <3>1. Rest(req'[s]) = Rest(req[s])
      BY <1>0, <1>3, <2>2, InitEffect DEF TakeEffect
    <3> QED
      BY <1>0, <2>1, <3>1, WalkKept
  <2>3. CASE s = r
    <3>1. Rest(req'[r]) = Rest(Going(r))
      BY <1>0, <1>3, InitEffect DEF TakeEffect
    <3>2. req'[r].kind # "aperture"
      BY <2>1, <3>1 DEF Rest
    <3> QED
      BY <2>3, <3>2 DEF WalkInv
  <2> QED
    BY <2>2, <2>3
<1>4. ASSUME NEW r \in Reqs, transfer_queue(r), NEW s \in Reqs PROVE WalkInv(s)'
  <2>1. /\ req[r].pc = "queue" /\ fill.own = None /\ fill' = fill
        /\ req'[r] = [req[r] EXCEPT !.pc = Queued(req[r])] /\ req[r] \in ReqType
        /\ \A x \in Reqs : x # r => req'[x] = req[x]
    BY <1>0, <1>4, QueueStep, ReqTypes DEF Local
  <2>2. CASE s # r
    BY <1>0, <2>1, <2>2, WalkKept
  <2>3. CASE s = r
    <3>1. /\ req'[r].kind = req[r].kind /\ req'[r].sgl = req[r].sgl /\ req'[r].at = req[r].at
          /\ req'[r].sgIdx = req[r].sgIdx /\ req'[r].sgOff = req[r].sgOff
          /\ req'[r].astray = req[r].astray /\ req'[r].pc = Queued(req[r])
      BY <2>1 DEF ReqType
    <3>2. req[r].kind = "aperture" => Queued(req[r]) = "wait"
      BY DEF Queued
    <3> QED
      BY <1>0, <2>1, <2>3, <3>1, <3>2, Names DEF WalkInv
  <2> QED
    BY <2>2, <2>3
<1>5. ASSUME NEW r \in Reqs, ApertureStart(r), NEW s \in Reqs PROVE WalkInv(s)'
  <2>a. /\ fill.own = None
        /\ \A x \in Reqs : x # r => req'[x] = req[x]
        /\ fill' = [own |-> r, i |-> req[r].sgIdx, sg |-> 1, off |-> req[r].sgOff,
                    tlen |-> req[r].sgl[1] - req[r].sgOff, ep |-> And(req[r].at, Aperture - 1),
                    cnt |-> 0]
    BY <1>0, <1>5, ApertureStartStep DEF Local
  <2>b. fill'.own = r
    BY <2>a
  <2>1. /\ fill.own = None /\ fill'.own = r
        /\ \A x \in Reqs : x # r => req'[x] = req[x]
    BY <2>a, <2>b
  <2>2. CASE s # r
    <3>1. Rest(req'[s]) = Rest(req[s]) /\ fill.own # s /\ fill'.own # s
      BY <2>1, <2>2, Names
    <3> QED
      BY <1>0, <3>1, WalkKept
  <2>3. CASE s = r /\ req'[r].astray
    BY <2>3 DEF WalkInv
  <2>4. CASE s = r /\ ~req'[r].astray
    BY <1>0, <1>5, <2>4, WalkStart
  <2> QED
    BY <2>2, <2>3, <2>4
<1>6. ASSUME NEW r \in Reqs, Collect(r), NEW s \in Reqs PROVE WalkInv(s)'
  <2>1. CASE s # r
    BY <1>0, <1>6, <2>1, CollectStep, WalkKept
  <2>2. CASE s = r /\ req'[r] = NoReq
    BY <2>2, NoReqType DEF WalkInv
  <2>3. CASE s = r /\ req'[r] # NoReq
    <3> DEFINE q == req[r]
               p == req'[r]
    <3>1. /\ ~RequestDone(q) /\ q.pc = "wait" /\ fill' = fill
          /\ Rest(p) = <<"init", q.kind, q.sgl, q.idx, q.at, q.sgIdx, q.sgOff, q.astray>>
      BY <1>6, <2>3, CollectStep
    <3>2. /\ p.pc = "init" /\ p.kind = q.kind /\ p.sgl = q.sgl /\ p.at = q.at
          /\ p.sgIdx = q.sgIdx /\ p.sgOff = q.sgOff /\ p.astray = q.astray
      BY <3>1 DEF Rest
    <3>3. fill.own = None
      BY <1>6, NoCollectInFill
    <3>4. ASSUME q.kind = "aperture", ~q.astray
          PROVE  At(q.sgl, q.sgIdx, q.sgOff, q.at) /\ q.at < Total(q.sgl)
      <4>1. At(q.sgl, q.sgIdx, q.sgOff, q.at)
        BY <1>0, <3>1, <3>3, <3>4, Names DEF WalkInv
      <4>2. q.sgl \in Sgl
        BY <1>0, <3>1, SdescFacts DEF Local
      <4>3. q.at \in Nat /\ Total(q.sgl) \in Nat
        BY <4>1, <4>2, AtTotal, SglFacts
      <4>4. ~(q.at >= Total(q.sgl))
        BY <3>1, <3>4 DEF RequestDone
      <4> QED
        BY <4>1, <4>3, <4>4
    <3> QED
      BY <2>3, <3>1, <3>2, <3>3, <3>4, Names DEF WalkInv
  <2> QED
    BY <2>1, <2>2, <2>3
<1>7. ASSUME ApertureDesc, NEW s \in Reqs PROVE WalkInv(s)'
  <2> DEFINE r == fill.own
  <2>1. /\ r \in Reqs /\ req[r].pc = "init" /\ req[r].kind = "aperture"
        /\ req'[r] = [req[r] EXCEPT !.at = @ + NextLen] /\ req[r] \in ReqType
        /\ \A x \in Reqs : x # r => req'[x] = req[x]
        /\ fill'.own = r /\ fill'.cnt = fill.cnt + 1
    BY <1>0, <1>7, ApertureDescStep, ReqTypes
  <2>2. CASE s # r
    <3>1. Rest(req'[s]) = Rest(req[s]) /\ fill.own # s /\ fill'.own # s
      BY <2>1, <2>2
    <3> QED
      BY <1>0, <3>1, WalkKept
  <2>3. CASE s = r
    <3> DEFINE q == req[r]
               p == req'[r]
    <3>1. /\ p.pc = "init" /\ p.kind = q.kind /\ p.sgl = q.sgl /\ p.at = q.at + NextLen
          /\ p.astray = q.astray
      BY <2>1 DEF ReqType
    <3>2. ASSUME ~q.astray
          PROVE  /\ At(q.sgl, fill'.i, fill'.off, q.at + NextLen)
                 /\ fill'.sg = fill'.i + 1
                 /\ fill'.i < Len(q.sgl) => fill'.tlen = q.sgl[fill'.sg] - fill'.off
                 /\ fill'.ep \in 0..Aperture
                 /\ PowerOfTwo(Aperture) => WrapEp(fill'.ep) = (q.at + NextLen) % Aperture
      BY <1>0, <1>7, <2>1, <3>2, NextRight
    <3>3. fill'.cnt # 0
      BY <2>1, FillTypes
    <3> HIDE DEF p, q
    <3>4. p = req'[s] /\ q = req[s] /\ fill'.own = s
      BY <2>1, <2>3 DEF p, q
    <3> QED
      BY <3>1, <3>2, <3>3, <3>4 DEF WalkInv
  <2> QED
    BY <2>2, <2>3
<1>8. ASSUME ApertureEnd, NEW s \in Reqs PROVE WalkInv(s)'
  <2> DEFINE r == fill.own
  <2>1. /\ r \in Reqs /\ req[r].pc = "init" /\ fill' = NoFill
        /\ Rest(Ending) = <<"queue", req[r].kind, req[r].sgl, req[r].idx, req[r].at,
                            fill.i, fill.off, req[r].astray>>
    BY <1>0, <1>8, ApertureEndStep
  <2>2. fill'.own # s
    BY <2>1, Names DEF NoFill
  <2>3. CASE s # r
    <3>1. Rest(req'[s]) = Rest(req[s])
      BY <1>0, <1>8, <2>3, EndEffect DEF TakeEffect
    <3> QED
      BY <1>0, <2>2, <2>3, <3>1, WalkKept
  <2>4. CASE s = r
    <3>1. Rest(req'[r]) = Rest(Ending)
      BY <1>0, <1>8, EndEffect DEF TakeEffect
    <3>2. /\ req'[r].pc = "queue" /\ req'[r].kind = req[r].kind /\ req'[r].sgl = req[r].sgl
          /\ req'[r].at = req[r].at /\ req'[r].sgIdx = fill.i /\ req'[r].sgOff = fill.off
          /\ req'[r].astray = req[r].astray
      BY <2>1, <3>1 DEF Rest
    <3> QED
      BY <1>0, <2>1, <2>2, <2>4, <3>2 DEF WalkInv
  <2> QED
    BY <2>3, <2>4
<1>9. ASSUME Service, NEW s \in Reqs PROVE WalkInv(s)'
  <2>1. /\ fill' = fill
        /\ \A x \in Reqs : x # SvcReq => req'[x] = req[x]
        /\ req'[SvcReq] = NoReq \/ Rest(req'[SvcReq]) = Rest(req[SvcReq])
    BY <1>0, <1>9, ServiceStep
  <2>2. CASE req'[s] = NoReq
    BY <2>2, NoReqType DEF WalkInv
  <2>3. CASE Rest(req'[s]) = Rest(req[s])
    BY <1>0, <2>1, <2>3, WalkKept
  <2> QED
    BY <2>1, <2>2, <2>3
<1>10. CASE UNCHANGED vars
  BY <1>0, <1>10 DEF vars, WalkInv
<1> QED
  BY <1>1, <1>2, <1>3, <1>4, <1>5, <1>6, <1>7, <1>8, <1>9, <1>10 DEF Next

\* Clearing entries keeps what is known for lists of one entry...
LEMMA OneKept ==
  ASSUME OneInv, \A s \in Reqs : req'[s].astray => req[s].astray,
         \A e \in Entries : ring'[e] = ring[e] \/ ring'[e] = None
  PROVE  OneInv'
BY DEF OneInv, OneEntry

\* ... and so does a chain of proper pieces.
LEMMA OneLaid ==
  ASSUME BaseOK, OneInv, NEW r \in Reqs, NEW p, NEW n \in Nat, descIdx + n <= Size,
         OneEntry => \A j \in 1..n : p[j] \in PieceType,
         \A j \in 1..n : p[j] \in AnyPiece,
         ring' = Laid(Chain(r, p, descIdx, n)),
         \A s \in Reqs : req'[s].astray => req[s].astray
  PROVE  OneInv'
<1> DEFINE c == Chain(r, p, descIdx, n)
<1>1. /\ DOMAIN c = descIdx..(descIdx + n - 1)
      /\ \A k \in descIdx..(descIdx + n - 1) :
           c[k] = [own |-> r, piece |-> p[k - descIdx + 1],
                   next |-> IF k = descIdx + n - 1 THEN None ELSE k + 1,
                   adj |-> xdma_get_next_adj(descIdx + n - k - 1, k + 1),
                   stop |-> k = descIdx + n - 1]
  <2>1. descIdx \in Entries
    BY DEF BaseOK
  <2>2. DOMAIN c = descIdx..(descIdx + n - 1)
    BY <2>1, ChainType
  <2>3. ASSUME NEW k \in descIdx..(descIdx + n - 1)
        PROVE  c[k] = [own |-> r, piece |-> p[k - descIdx + 1],
                       next |-> IF k = descIdx + n - 1 THEN None ELSE k + 1,
                       adj |-> xdma_get_next_adj(descIdx + n - k - 1, k + 1),
                       stop |-> k = descIdx + n - 1]
    BY <2>1, ChainType
  <2> QED
    BY <2>2, <2>3
<1>2. \A k \in descIdx..(descIdx + n - 1) : c[k].piece = p[k - descIdx + 1]
  BY <1>1
<1>3. \A k \in descIdx..(descIdx + n - 1) : k - descIdx + 1 \in 1..n
  BY FillTypes
<1> HIDE DEF c
<1>4. ASSUME OneEntry, NEW e \in Entries, ring'[e] # None
      PROVE  ring'[e].piece \in PieceType
  <2>1. ring'[e] = IF e \in DOMAIN c THEN c[e] ELSE ring[e]
    BY DEF Laid, c
  <2> QED
    BY <1>1, <1>2, <1>3, <1>4, <2>1 DEF OneInv
<1> QED
  BY <1>4 DEF OneInv, OneEntry

\* With lists of one entry no step leads a request astray.
LEMMA OneNext ==
  ASSUME BaseOK, FlowInv, [Next]_vars
  PROVE  OneInv'
<1>0. /\ FillInv /\ ListInv /\ OneInv
      /\ \A s \in Reqs : Local(req[s]) /\ WalkInv(s)
  BY DEF FlowInv, Local
<1>1. ASSUME NEW r \in Reqs, Begin(r) PROVE OneInv'
  BY <1>0, <1>1, BeginStep, OneKept
<1>2. ASSUME NEW r \in Reqs, LockDesc(r) PROVE OneInv'
  <2>1. req'[r].astray = req[r].astray
    <3>1. req'[r] = [req[r] EXCEPT !.pc = "init"] /\ req[r] \in ReqType
      BY <1>2, LockDescStep, ReqTypes
    <3> QED
      BY <3>1 DEF ReqType
  <2> QED
    BY <1>0, <1>2, <2>1, LockDescStep, OneKept
<1>3. ASSUME NEW r \in Reqs, transfer_init(r) PROVE OneInv'
  <2>1. /\ Taking(r) \in Nat /\ descIdx + Taking(r) <= Size
        /\ \A j \in 1..Taking(r) : Slice(r)[j] \in PieceType
        /\ ring' = Laid(Chain(r, Slice(r), descIdx, Taking(r)))
        /\ Rest(Going(r)) = <<"queue", req[r].kind, req[r].sgl, req[r].idx + Taking(r),
                              Cuts(req[r].sgl)[req[r].idx + Taking(r)].n, req[r].sgIdx,
                              req[r].sgOff, req[r].astray>>
    BY <1>0, <1>3, TransferInitStep DEF Local
  <2>2. \A s \in Reqs : req'[s].astray = req[s].astray
    BY <1>0, <1>3, <2>1, InitEffect DEF TakeEffect, Rest
  <2>3. PieceType \subseteq AnyPiece
    BY DEF PieceType, AnyPiece
  <2>4. \A j \in 1..Taking(r) : Slice(r)[j] \in AnyPiece
    BY <2>1, <2>3
  <2> QED
    BY <1>0, <2>1, <2>2, <2>4, OneLaid
<1>4. ASSUME NEW r \in Reqs, transfer_queue(r) PROVE OneInv'
  <2>1. req'[r].astray = req[r].astray
    <3>1. req'[r] = [req[r] EXCEPT !.pc = Queued(req[r])] /\ req[r] \in ReqType
      BY <1>0, <1>4, QueueStep, ReqTypes DEF Local
    <3> QED
      BY <3>1 DEF ReqType
  <2> QED
    BY <1>0, <1>4, <2>1, QueueStep, OneKept DEF Local
<1>5. ASSUME NEW r \in Reqs, ApertureStart(r) PROVE OneInv'
  <2> DEFINE q == req[r]
  <2>1. /\ q.pc = "init" /\ q.kind = "aperture" /\ fill.own = None
        /\ q.sgl \in Sgl /\ q.sgl \in Wide
        /\ req'[r] = [q EXCEPT !.astray = q.astray \/ q.sgIdx # 0]
        /\ q \in ReqType /\ ring' = ring
        /\ \A s \in Reqs : s # r => req'[s] = req[s]
    BY <1>0, <1>5, ApertureStartStep, ReqTypes DEF Local
  <2>2. req'[r].astray = (q.astray \/ q.sgIdx # 0)
    BY <2>1 DEF ReqType
  <2>3. ASSUME OneEntry, ~q.astray PROVE q.sgIdx = 0
    <3>1. At(q.sgl, q.sgIdx, q.sgOff, q.at) /\ q.at < Total(q.sgl)
      BY <1>0, <2>1, <2>3, Names DEF WalkInv
    <3>2. /\ q.at \in Nat /\ Total(q.sgl) \in Nat /\ q.sgIdx \in 0..Len(q.sgl)
          /\ (q.at = Total(q.sgl) <=> q.sgIdx = Len(q.sgl))
      <4>1. q.at \in Nat /\ (q.at = Total(q.sgl) <=> q.sgIdx = Len(q.sgl))
        BY <2>1, <3>1, AtTotal
      <4>2. Total(q.sgl) \in Nat
        BY <2>1, SglFacts
      <4>3. q.sgIdx \in 0..Len(q.sgl)
        BY <3>1 DEF At
      <4> QED
        BY <4>1, <4>2, <4>3
    <3>3. Len(q.sgl) = 1
      BY <2>1, <2>3 DEF OneEntry
    <3> QED
      BY <3>1, <3>2, <3>3
  <2>4. OneEntry => \A s \in Reqs : ~req'[s].astray
    BY <1>0, <2>1, <2>2, <2>3 DEF OneInv
  <2> QED
    BY <1>0, <2>1, <2>4 DEF OneInv, OneEntry
<1>6. ASSUME NEW r \in Reqs, Collect(r) PROVE OneInv'
  <2>1. req'[r].astray => req[r].astray
    BY <1>6, CollectStep, NoReqType DEF Rest
  <2>2. \A e \in Entries : ring'[e] = ring[e] \/ ring'[e] = None
    <3>1. ring' = Cleared({req[r].tfer[1]})
      BY <1>6, CollectStep
    <3> QED
      BY <3>1, ClearedType
  <2> QED
    BY <1>0, <1>6, <2>1, <2>2, CollectStep, OneKept
<1>7. ASSUME ApertureDesc PROVE OneInv'
  <2> DEFINE r == fill.own
             e0 == descIdx + fill.cnt
  <2>1. /\ r \in Reqs
        /\ NextDesc \in Desc(AnyPiece)
        /\ ring' = [ring EXCEPT ![e0] = NextDesc]
        /\ req'[r] = [req[r] EXCEPT !.at = @ + NextLen] /\ req[r] \in ReqType
        /\ \A s \in Reqs : s # r => req'[s] = req[s]
    BY <1>0, <1>7, ApertureDescStep, ReqTypes
  <2>2. req'[r].astray = req[r].astray
    BY <2>1 DEF ReqType
  <2>3. OneEntry => NextPiece \in PieceType
    BY <1>0, <1>7, <2>1, NextRight DEF OneInv, Right
  <2>4. NextDesc.piece = NextPiece
    BY DEF NextDesc
  <2>5. \A e \in Entries : ring'[e] = ring[e] \/ ring'[e] = NextDesc
    BY <2>1 DEF BaseOK
  <2>6. OneEntry => \A e \in Entries : ring'[e] # None => ring'[e].piece \in PieceType
    BY <1>0, <2>3, <2>4, <2>5 DEF OneInv
  <2>7. OneEntry => \A s \in Reqs : ~req'[s].astray
    BY <1>0, <2>1, <2>2 DEF OneInv
  <2> QED
    BY <2>6, <2>7 DEF OneInv, OneEntry
<1>8. ASSUME ApertureEnd PROVE OneInv'
  <2> DEFINE r == fill.own
  <2>1. /\ r \in Reqs /\ fill.cnt \in Nat /\ descIdx + fill.cnt <= Size
        /\ \A j \in 1..fill.cnt : Filled[j] = ring[descIdx + j - 1].piece /\ Filled[j] \in AnyPiece
        /\ ring' = Laid(Chain(r, Filled, descIdx, fill.cnt))
        /\ Rest(Ending) = <<"queue", req[r].kind, req[r].sgl, req[r].idx, req[r].at,
                            fill.i, fill.off, req[r].astray>>
    BY <1>0, <1>8, ApertureEndStep
  <2>2. \A s \in Reqs : req'[s].astray = req[s].astray
    BY <1>0, <1>8, <2>1, EndEffect DEF TakeEffect, Rest
  <2>3. ASSUME OneEntry, NEW j \in 1..fill.cnt PROVE Filled[j] \in PieceType
    <3>1. /\ descIdx + j - 1 \in Entries
          /\ descIdx + j - 1 \in descIdx..(descIdx + fill.cnt - 1)
      BY <2>1, FillTypes DEF Entries
    <3>2. ring[descIdx + j - 1] # None
      BY <1>0, <2>1, <3>1, Names DEF FillInv
    <3> QED
      BY <1>0, <2>1, <2>3, <3>1, <3>2 DEF OneInv
  <2> QED
    BY <1>0, <2>1, <2>2, <2>3, OneLaid
<1>9. ASSUME Service PROVE OneInv'
  <2>1. \A s \in Reqs : req'[s].astray => req[s].astray
    BY <1>0, <1>9, ServiceStep, NoReqType DEF Rest
  <2>2. \A e \in Entries : ring'[e] = ring[e] \/ ring'[e] = None
    BY <1>0, <1>9, ServiceStep, ClearedType
  <2> QED
    BY <1>0, <2>1, <2>2, OneKept
<1>10. CASE UNCHANGED vars
  BY <1>0, <1>10, OneKept DEF vars
<1> QED
  BY <1>1, <1>2, <1>3, <1>4, <1>5, <1>6, <1>7, <1>8, <1>9, <1>10 DEF Next

\* The part of the invariant that does not depend on overruns holds at first...
LEMMA FlowInit ==
  Init => FlowInv
<1>1. SUFFICES ASSUME Init PROVE FlowInv
  OBVIOUS
<1>2. \A r \in Reqs : req[r] = NoReq /\ Local(req[r])
  BY <1>1, LocalNoReq DEF Init
<1>3. fill = NoFill /\ fill.own = None /\ list = <<>> /\ Len(list) = 0
  BY <1>1 DEF Init, NoFill
<1>4. \A r \in Reqs : LockInv(r) /\ WalkInv(r)
  BY <1>2, NoReqType DEF LockInv, WalkInv
<1>5. FillInv
  BY <1>3 DEF FillInv
<1>6. ListInv
  BY <1>3 DEF ListInv
<1>7. OneInv
  BY <1>1, <1>2, NoReqType DEF OneInv, Init
<1> QED
  BY <1>2, <1>4, <1>5, <1>6, <1>7 DEF FlowInv, Local

\* ... and every step keeps it.
LEMMA FlowNext ==
  ASSUME BaseOK, FlowInv, [Next]_vars
  PROVE  BaseOK' /\ FlowInv'
<1>1. BaseOK'
  BY BaseNext
<1>2. \A s \in Reqs : Local(req'[s]) /\ LockInv(s)' /\ WalkInv(s)'
  BY LocalNext, LockNext, WalkNext
<1>3. ListInv' /\ FillInv' /\ OneInv'
  BY <1>1, ListNext, FillNext, OneNext
<1>4. \A s \in Reqs : ControlInv(req[s])' /\ IdxInv(req[s])' /\ NumInv(req[s])'
  BY <1>2 DEF Local
<1> QED
  BY <1>1, <1>2, <1>3, <1>4 DEF FlowInv

-----------------------------------------------------------------------------
(* Ages and chains, as long as no live transfer was overrun.               *)

Span(t) == t.start..(t.start + t.num - 1)

\* The bounds of an interval.
LEMMA SpanBounds ==
  ASSUME NEW a \in Nat, NEW n \in Nat, NEW e \in a..(a + n - 1)
  PROVE  e \in Nat /\ a <= e /\ e < a + n
OBVIOUS

\* An interval behind d in a ring of z entries: the next m.
LEMMA SpanAhead ==
  ASSUME NEW a \in Nat, NEW n \in Nat, NEW g \in Nat, NEW d \in Nat, NEW z \in Nat,
         NEW m \in Nat, NEW e \in Nat, n <= g, g + m <= z,
         a + g = d \/ a + g = d + z, a <= e, e < a + n
  PROVE  e \notin d..(d + m - 1)
OBVIOUS

\* A transfer as the arithmetic of ages needs it.
LEMMA TferFacts ==
  ASSUME BaseOK, FlowInv, AgeInv, NEW r \in Reqs, NEW k \in 1..Len(req[r].tfer)
  PROVE  LET t == req[r].tfer[k] IN
         /\ t.start \in Nat /\ t.num \in Nat /\ t.age \in Nat
         /\ t.start < Size /\ t.num <= t.age /\ t.start + t.num <= Size
         /\ t.age <= Size /\ t.age + fill.cnt <= Size
         /\ t.start + t.age = descIdx \/ t.start + t.age = descIdx + Size
<1> DEFINE t == req[r].tfer[k]
<1>1. t.start \in Nat /\ t.start < Size /\ t.num \in 0..Size /\ t.age \in 0..(Size + 1)
  BY ReqTypes
<1>2. t.num <= t.age /\ t.start + t.num <= Size
  BY DEF FlowInv, NumInv
<1>3. t.age + fill.cnt <= Size /\ Behind(t)
  BY DEF AgeInv
<1>4. fill.cnt \in Nat /\ Size \in Nat
  BY FillTypes
<1> HIDE DEF t
<1>5. t.num \in Nat /\ t.age \in Nat /\ t.age <= Size
  BY <1>1, <1>3, <1>4
<1> QED
  BY <1>1, <1>2, <1>3, <1>5 DEF Behind, t

\* Two live transfers have no entry in common.
LEMMA Apart ==
  ASSUME BaseOK, FlowInv, AgeInv, NEW r \in Reqs, NEW k \in 1..Len(req[r].tfer),
         NEW s \in Reqs, NEW m \in 1..Len(req[s].tfer), r # s \/ k # m,
         NEW e \in Span(req[r].tfer[k])
  PROVE  e \notin Span(req[s].tfer[m])
<1> DEFINE t == req[r].tfer[k]
           u == req[s].tfer[m]
<1>1. /\ t.start \in Nat /\ t.num \in Nat /\ t.age \in Nat
      /\ t.num <= t.age /\ t.age <= Size
      /\ t.start + t.age = descIdx \/ t.start + t.age = descIdx + Size
  BY TferFacts
<1>2. /\ u.start \in Nat /\ u.num \in Nat /\ u.age \in Nat
      /\ u.num <= u.age /\ u.age <= Size
      /\ u.start + u.age = descIdx \/ u.start + u.age = descIdx + Size
  BY TferFacts
<1>3. Older(t, u) \/ Older(u, t)
  BY DEF AgeInv
<1>4. e \in Span(t)
  OBVIOUS
<1>5. descIdx \in Nat /\ Size \in Nat
  BY FillTypes
<1> HIDE DEF t, u
<1>6. ASSUME e \in Span(u) PROVE FALSE
  <2>1. e \in Nat /\ t.start <= e /\ e < t.start + t.num
    BY <1>1, <1>4, SpanBounds DEF Span
  <2>2. u.start <= e /\ e < u.start + u.num
    BY <1>2, <1>6, SpanBounds DEF Span
  <2>3. t.age >= u.age + t.num \/ u.age >= t.age + u.num
    BY <1>3 DEF Older
  <2> DEFINE a == t.start
             n == t.num
             g == t.age
             b == u.start
             l == u.num
             h == u.age
             d == descIdx
             z == Size
  <2>4. a \in Nat /\ n \in Nat /\ g \in Nat /\ b \in Nat /\ l \in Nat /\ h \in Nat
        /\ d \in Nat /\ z \in Nat /\ e \in Nat
    BY <1>1, <1>2, <1>5, <2>1
  <2>5. n <= g /\ g <= z /\ l <= h /\ h <= z /\ a <= e /\ e < a + n /\ b <= e /\ e < b + l
    BY <1>1, <1>2, <2>1, <2>2
  <2>6. (a + g = d \/ a + g = d + z) /\ (b + h = d \/ b + h = d + z)
    BY <1>1, <1>2
  <2>7. g >= h + n \/ h >= g + l
    BY <2>3
  <2> HIDE DEF a, n, g, b, l, h, d, z
  <2> QED
    BY <2>4, <2>5, <2>6, <2>7
<1> QED
  BY <1>6 DEF u

\* The next n entries are not those of a transfer that n more do not overrun.
LEMMA Ahead ==
  ASSUME BaseOK, FlowInv, AgeInv, NEW r \in Reqs, NEW k \in 1..Len(req[r].tfer),
         NEW n \in Nat, req[r].tfer[k].age + n <= Size, NEW e \in Span(req[r].tfer[k])
  PROVE  e \in Entries /\ e \notin descIdx..(descIdx + n - 1)
<1> DEFINE t == req[r].tfer[k]
<1>1. /\ t.start \in Nat /\ t.num \in Nat /\ t.age \in Nat
      /\ t.num <= t.age /\ t.start + t.num <= Size
      /\ t.start + t.age = descIdx \/ t.start + t.age = descIdx + Size
  BY TferFacts
<1>2. t.age + n <= Size /\ e \in Span(t)
  OBVIOUS
<1>3. descIdx \in Nat /\ Size \in Nat
  BY FillTypes
<1> HIDE DEF t
<1>4. e \in Nat /\ t.start <= e /\ e < t.start + t.num
  BY <1>1, <1>2, SpanBounds DEF Span
<1>5. e \in Entries
  BY <1>1, <1>3, <1>4 DEF Entries
<1> QED
  BY <1>1, <1>2, <1>3, <1>4, <1>5, SpanAhead

\* The address mode does not change.
LEMMA ModeStays ==
  [Next]_vars => mode' = mode
BY DEF Next, vars, Begin, LockDesc, transfer_init, transfer_queue, ApertureStart, Collect,
       ApertureDesc, ApertureEnd, Service

\* What makes a step keep the k-th transfer of s and its chain.
Carries(s, k) ==
  /\ req'[s].tfer[k].start = req[s].tfer[k].start
  /\ req'[s].tfer[k].num = req[s].tfer[k].num
  /\ req'[s].kind = req[s].kind
  /\ req'[s].sgl = req[s].sgl
  /\ req[s].astray => req'[s].astray
  /\ \A e \in Span(req[s].tfer[k]) : ring'[e] = ring[e]

\* A transfer that a step carries over keeps its chain.
LEMMA LinkCarried ==
  ASSUME NEW s \in Reqs, NEW k \in 1..Len(req[s].tfer), Carries(s, k), ChainInv,
         NEW e \in Span(req'[s].tfer[k]), mode' = mode
  PROVE  Link(s, req[s].tfer[k], e)'
<1> DEFINE t == req[s].tfer[k]
           u == req'[s].tfer[k]
<1>1. u.start = t.start /\ u.num = t.num /\ e \in Span(t)
  BY DEF Carries, Span
<1>2. Link(s, t, e)
  BY <1>1 DEF ChainInv, Span
<1>3. ring'[e] = ring[e]
  BY <1>1 DEF Carries
<1>4. ~req'[s].astray => Right(req'[s], ring[e].piece)
  BY <1>2 DEF Link, Carries, Right
<1>5. Placed(req[s], ring[e].piece, e)'
  <2>1. Placed(req[s], ring[e].piece, e) /\ req'[s].kind = req[s].kind
    BY <1>2 DEF Link, Carries
  <2> QED
    BY <1>3, <2>1 DEF Placed, Address
<1> QED
  BY <1>1, <1>2, <1>3, <1>4, <1>5 DEF Link

\* A step that takes no entries keeps ages and chains if it carries over every
\* transfer it leaves.
LEMMA Steady ==
  ASSUME BaseOK, FlowInv, AgeInv, ChainInv, descIdx' = descIdx, mode' = mode,
         \A s \in Reqs : \A k \in 1..Len(req'[s].tfer) :
           /\ k \in 1..Len(req[s].tfer)
           /\ req'[s].tfer[k].age = req[s].tfer[k].age
           /\ req[s].tfer[k].age + fill'.cnt <= Size
           /\ Carries(s, k)
  PROVE  AgeInv' /\ ChainInv'
<1>1. ASSUME NEW s \in Reqs, NEW k \in 1..Len(req'[s].tfer)
      PROVE  req'[s].tfer[k].age + fill'.cnt <= Size /\ Behind(req[s].tfer[k])'
  <2>1. Behind(req[s].tfer[k])
    BY <1>1 DEF AgeInv
  <2> QED
    BY <1>1, <2>1 DEF Behind, Carries
<1>2. ASSUME NEW r \in Reqs, NEW s \in Reqs, NEW k \in 1..Len(req'[r].tfer),
             NEW m \in 1..Len(req'[s].tfer), r # s \/ k # m
      PROVE  Older(req'[r].tfer[k], req'[s].tfer[m]) \/ Older(req'[s].tfer[m], req'[r].tfer[k])
  <2>1. Older(req[r].tfer[k], req[s].tfer[m]) \/ Older(req[s].tfer[m], req[r].tfer[k])
    BY <1>2 DEF AgeInv
  <2> QED
    BY <1>2, <2>1 DEF Older, Carries
<1>3. AgeInv'
  BY <1>1, <1>2 DEF AgeInv
<1>4. ASSUME NEW s \in Reqs, NEW k \in 1..Len(req'[s].tfer), NEW e \in Span(req'[s].tfer[k])
      PROVE  Link(s, req[s].tfer[k], e)'
  BY LinkCarried
<1>5. ChainInv'
  BY <1>4 DEF ChainInv, Span
<1> QED
  BY <1>3, <1>5

\* The transfers after a step that takes entries are the old ones, older by n, and
\* the new one.
LEMMA TakenTfers ==
  ASSUME BaseOK, FlowInv, AgeInv, NEW r \in Reqs, NEW n \in Nat, NEW q, NEW last,
         TakeEffect(r, n, q, last), ~over', NEW s \in Reqs, NEW k \in 1..Len(req'[s].tfer)
  PROVE  \/ /\ k \in 1..Len(req[s].tfer)
            /\ req'[s].tfer[k].start = req[s].tfer[k].start
            /\ req'[s].tfer[k].num = req[s].tfer[k].num
            /\ req'[s].tfer[k].age = req[s].tfer[k].age + n
            /\ req[s].tfer[k].age + n <= Size
         \/ /\ s = r /\ k = Len(req[r].tfer) + 1
            /\ req'[s].tfer[k].start = descIdx
            /\ req'[s].tfer[k].num = n
            /\ req'[s].tfer[k].age = n
<1>1. Len(req[s].tfer) \in Nat /\ DOMAIN req[s].tfer = 1..Len(req[s].tfer)
  BY ReqTypes
<1>2. CASE k \in 1..Len(req[s].tfer)
  <2> DEFINE t == req[s].tfer[k]
  <2>1. t \in AnyTfer /\ req'[s].tfer[k] = Grown(t, n)
    BY <1>2, ReqTypes DEF TakeEffect
  <2>2. ~(t.age + n > Size)
    BY <1>1, <1>2 DEF TakeEffect, Overrun
  <2>3. t.age \in Nat /\ Size \in Nat
    BY <1>2, TferFacts, FillTypes
  <2> HIDE DEF t
  <2>4. t.age + n <= Size
    BY <2>2, <2>3
  <2>5. Least(t.age + n, Size + 1) = t.age + n
    BY <2>3, <2>4 DEF Least
  <2>6. /\ Grown(t, n).start = t.start /\ Grown(t, n).num = t.num
        /\ Grown(t, n).age = t.age + n
    BY <2>1, <2>5, GrownType
  <2> QED
    BY <1>2, <2>1, <2>4, <2>6 DEF t
<1>3. CASE k \notin 1..Len(req[s].tfer)
  <2>1. s = r
    BY <1>3 DEF TakeEffect
  <2>2. k = Len(req[r].tfer) + 1
    BY <1>1, <1>3, <2>1 DEF TakeEffect
  <2>3. req'[s].tfer[k] = NewTfer(n, last)
    BY <2>1, <2>2 DEF TakeEffect
  <2> QED
    BY <2>1, <2>2, <2>3 DEF NewTfer
<1> QED
  BY <1>2, <1>3

\* Taking entries that overrun no transfer keeps the ages.
LEMMA AgeTaken ==
  ASSUME BaseOK, FlowInv, AgeInv, NEW r \in Reqs, NEW n \in Nat, descIdx + n <= Size,
         NEW q, NEW last, TakeEffect(r, n, q, last), ~over', fill'.cnt = 0
  PROVE  AgeInv'
<1> DEFINE Old(s, k) ==
             /\ k \in 1..Len(req[s].tfer)
             /\ req'[s].tfer[k].start = req[s].tfer[k].start
             /\ req'[s].tfer[k].num = req[s].tfer[k].num
             /\ req'[s].tfer[k].age = req[s].tfer[k].age + n
             /\ req[s].tfer[k].age + n <= Size
           New(s, k) ==
             /\ s = r /\ k = Len(req[r].tfer) + 1
             /\ req'[s].tfer[k].start = descIdx
             /\ req'[s].tfer[k].num = n
             /\ req'[s].tfer[k].age = n
<1>1. ASSUME NEW s \in Reqs, NEW k \in 1..Len(req'[s].tfer) PROVE Old(s, k) \/ New(s, k)
  BY TakenTfers
<1>2. /\ descIdx \in Nat /\ Size \in Nat /\ descIdx < Size /\ descIdx' \in Nat
      /\ descIdx' = descIdx + n \/ descIdx' = descIdx + n - Size
  BY FillTypes DEF TakeEffect, Entries
<1>3. ASSUME NEW s \in Reqs, NEW k \in 1..Len(req'[s].tfer)
      PROVE  req'[s].tfer[k].age + fill'.cnt <= Size /\ Behind(req[s].tfer[k])'
  <2> DEFINE a == req'[s].tfer[k].start
             g == req'[s].tfer[k].age
             d == descIdx'
             c == descIdx
             z == Size
  <2>1. CASE New(s, k)
    <3>1. a = c /\ g = n /\ c \in Nat /\ z \in Nat /\ d \in Nat /\ c + n <= z
          /\ (d = c + n \/ d = c + n - z)
      BY <1>2, <2>1
    <3> HIDE DEF a, g, d, c, z
    <3>2. g + 0 <= z /\ (a + g = d \/ a + g = d + z)
      BY <3>1
    <3> QED
      BY <3>2 DEF Behind, a, g, d, z
  <2>2. CASE Old(s, k)
    <3> DEFINE h == req[s].tfer[k].age
    <3>1. /\ a \in Nat /\ a < z /\ h \in Nat /\ (a + h = c \/ a + h = c + z)
      BY <2>2, TferFacts
    <3>2. g = h + n /\ h + n <= z
      BY <2>2
    <3>3. c \in Nat /\ z \in Nat /\ d \in Nat /\ c + n <= z /\ (d = c + n \/ d = c + n - z)
      BY <1>2
    <3> HIDE DEF a, g, d, c, z, h
    <3>4. g + 0 <= z /\ (a + g = d \/ a + g = d + z)
      BY <3>1, <3>2, <3>3
    <3> QED
      BY <3>4 DEF Behind, a, g, d, z
  <2> QED
    BY <1>1, <2>1, <2>2
<1>4. ASSUME NEW s \in Reqs, NEW k \in 1..Len(req'[s].tfer), Old(s, k),
             NEW x \in Reqs, NEW m \in 1..Len(req'[x].tfer), New(x, m)
      PROVE  Older(req'[s].tfer[k], req'[x].tfer[m])
  <2> DEFINE h == req[s].tfer[k].age
             i == req[s].tfer[k].num
  <2>1. h \in Nat /\ i \in Nat /\ i <= h
    BY <1>4, TferFacts
  <2>2. req'[s].tfer[k].age = h + n /\ req'[s].tfer[k].num = i /\ req'[x].tfer[m].age = n
    BY <1>4
  <2> HIDE DEF h, i
  <2>3. h + n >= n + i
    BY <2>1
  <2> QED
    BY <2>2, <2>3 DEF Older
<1>5. ASSUME NEW s \in Reqs, NEW k \in 1..Len(req'[s].tfer), Old(s, k),
             NEW x \in Reqs, NEW m \in 1..Len(req'[x].tfer), Old(x, m), s # x \/ k # m
      PROVE  Older(req'[s].tfer[k], req'[x].tfer[m]) \/ Older(req'[x].tfer[m], req'[s].tfer[k])
  <2> DEFINE t == req[s].tfer[k]
             u == req[x].tfer[m]
  <2>1. Older(t, u) \/ Older(u, t)
    BY <1>5 DEF AgeInv
  <2>2. t.age \in Nat /\ t.num \in Nat /\ u.age \in Nat /\ u.num \in Nat
    BY <1>5, TferFacts
  <2>3. /\ req'[s].tfer[k].age = t.age + n /\ req'[s].tfer[k].num = t.num
        /\ req'[x].tfer[m].age = u.age + n /\ req'[x].tfer[m].num = u.num
    BY <1>5
  <2> HIDE DEF t, u
  <2>4. t.age + n >= (u.age + n) + t.num \/ u.age + n >= (t.age + n) + u.num
    BY <2>1, <2>2 DEF Older
  <2> QED
    BY <2>3, <2>4 DEF Older
<1>6. ASSUME NEW s \in Reqs, NEW x \in Reqs, NEW k \in 1..Len(req'[s].tfer),
             NEW m \in 1..Len(req'[x].tfer), s # x \/ k # m
      PROVE  Older(req'[s].tfer[k], req'[x].tfer[m]) \/ Older(req'[x].tfer[m], req'[s].tfer[k])
  <2>1. ~(New(s, k) /\ New(x, m))
    BY <1>6
  <2>2. (Old(s, k) \/ New(s, k)) /\ (Old(x, m) \/ New(x, m))
    BY <1>1
  <2> HIDE DEF Old, New
  <2> QED
    BY <1>4, <1>5, <1>6, <2>1, <2>2
<1> HIDE DEF Old, New
<1> QED
  BY <1>3, <1>6 DEF AgeInv

\* It lays a new chain and touches no other.
LEMMA ChainTaken ==
  ASSUME BaseOK, FlowInv, AgeInv, ChainInv, NEW r \in Reqs, NEW n \in Nat, descIdx + n <= Size,
         NEW q, NEW last, TakeEffect(r, n, q, last), ~over',
         q.kind = req[r].kind, q.sgl = req[r].sgl, q.astray = req[r].astray,
         NEW p, \A j \in 1..n : p[j] \in AnyPiece,
         ring' = Laid(Chain(r, p, descIdx, n)),
         ~req[r].astray => \A j \in 1..n : Right(req[r], p[j]),
         \A j \in 1..n : Placed(req[r], p[j], descIdx + j - 1), mode' = mode
  PROVE  ChainInv'
<1> DEFINE c == Chain(r, p, descIdx, n)
<1>0. descIdx \in Entries /\ descIdx \in Nat
  BY FillTypes DEF BaseOK
<1>1. DOMAIN c = descIdx..(descIdx + n - 1)
  BY <1>0, ChainType
<1>2. ASSUME NEW e \in descIdx..(descIdx + n - 1)
      PROVE  /\ e \in Entries
             /\ c[e] = [own |-> r, piece |-> p[e - descIdx + 1],
                        next |-> IF e = descIdx + n - 1 THEN None ELSE e + 1,
                        adj |-> xdma_get_next_adj(descIdx + n - e - 1, e + 1),
                        stop |-> e = descIdx + n - 1]
             /\ c[e] \in Desc(AnyPiece)
  BY <1>0, ChainType
<1> HIDE DEF c
<1>3. \A e \in Entries : ring'[e] = IF e \in DOMAIN c THEN c[e] ELSE ring[e]
  BY DEF Laid, c
<1>4. \A s \in Reqs : /\ req'[s].kind = req[s].kind /\ req'[s].sgl = req[s].sgl
                      /\ req'[s].astray = req[s].astray
  BY DEF TakeEffect, Rest
<1>5. ASSUME NEW s \in Reqs, NEW k \in 1..Len(req'[s].tfer), NEW e \in Span(req'[s].tfer[k])
      PROVE  Link(s, req[s].tfer[k], e)'
  <2>1. CASE /\ k \in 1..Len(req[s].tfer)
             /\ req'[s].tfer[k].start = req[s].tfer[k].start
             /\ req'[s].tfer[k].num = req[s].tfer[k].num
             /\ req[s].tfer[k].age + n <= Size
    <3>1. ASSUME NEW d \in Span(req[s].tfer[k]) PROVE ring'[d] = ring[d]
      <4>1. d \in Entries /\ d \notin descIdx..(descIdx + n - 1)
        BY <2>1, Ahead
      <4> QED
        BY <1>1, <1>3, <4>1
    <3>2. Carries(s, k)
      BY <1>4, <2>1, <3>1 DEF Carries
    <3> QED
      BY <2>1, <3>2, LinkCarried
  <2>2. CASE /\ s = r
             /\ req'[s].tfer[k].start = descIdx
             /\ req'[s].tfer[k].num = n
    <3>1. e \in descIdx..(descIdx + n - 1)
      BY <2>2 DEF Span
    <3>2. ring'[e] = c[e] /\ c[e] # None
      BY <1>1, <1>2, <1>3, <3>1, Names
    <3>3. /\ ring'[e].own = r /\ ring'[e].piece = p[e - descIdx + 1]
          /\ ring'[e].next = IF e = descIdx + n - 1 THEN None ELSE e + 1
          /\ ring'[e].adj = xdma_get_next_adj(descIdx + n - e - 1, e + 1)
          /\ ring'[e].stop = (e = descIdx + n - 1)
      <4> DEFINE x == ring'[e]
                 b == (e = descIdx + n - 1)
                 w == IF b THEN None ELSE e + 1
                 v == xdma_get_next_adj(descIdx + n - e - 1, e + 1)
                 y == p[e - descIdx + 1]
      <4>1. x = [own |-> r, piece |-> y, next |-> w, adj |-> v, stop |-> b]
        BY <1>2, <3>1, <3>2
      <4> HIDE DEF x, b, w, v, y
      <4>2. x.own = r /\ x.piece = y /\ x.next = w /\ x.adj = v /\ x.stop = b
        BY <4>1
      <4> QED
        BY <4>2 DEF x, b, w, v, y
    <3>4. e - descIdx + 1 \in 1..n
      BY <1>0, <3>1
    <3>5. ~req'[s].astray => Right(req'[s], ring'[e].piece)
      <4> SUFFICES ASSUME ~req'[s].astray PROVE Right(req'[s], ring'[e].piece)
        OBVIOUS
      <4>1. Right(req[s], ring'[e].piece)
        BY <1>4, <2>2, <3>3, <3>4
      <4>2. req'[s].kind = req[s].kind /\ req'[s].sgl = req[s].sgl
        BY <1>4
      <4> QED
        BY <4>1, <4>2 DEF Right
    <3>6. Placed(req[s], ring[e].piece, e)'
      <4>1. Placed(req[r], p[e - descIdx + 1], descIdx + (e - descIdx + 1) - 1)
        BY <3>4
      <4>2. descIdx + (e - descIdx + 1) - 1 = e
        BY <1>0, <3>1
      <4> QED
        BY <1>4, <2>2, <3>3, <4>1, <4>2 DEF Placed, Address
    <3> QED
      BY <2>2, <3>2, <3>3, <3>5, <3>6 DEF Link
  <2> QED
    BY <2>1, <2>2, TakenTfers
<1> QED
  BY <1>5 DEF ChainInv, Span

\* Every software descriptor of a request moves the right data.
LEMMA SdescRight ==
  ASSUME BaseOK, NEW r \in Reqs, ControlInv(req[r]), req[r].pc # "idle",
         req[r].kind # "aperture", NEW j \in 1..Len(Sdesc(req[r]))
  PROVE  Right(req[r], Sdesc(req[r])[j])
<1> DEFINE sgl == req[r].sgl
           p == Sdesc(req[r])[j]
           c == Cuts(sgl)[j - 1]
<1>1. sgl \in Sgl /\ sgl # <<>>
  BY SdescFacts
<1>2. p = Piece(sgl, c) /\ c \in CutType /\ c.sg <= Len(sgl) /\ At(sgl, c.sg - 1, c.o, c.n)
  BY <1>1, InitRequest DEF Sdesc
<1>3. req[r].kind # "aperture" /\ req[r].sgl = sgl
  OBVIOUS
<1> HIDE DEF sgl, p, c
<1>4. /\ Piece(sgl, c) \in PieceType /\ Piece(sgl, c).len \in 1..Blen
      /\ c.o + Piece(sgl, c).len <= sgl[c.sg]
  BY <1>1, <1>2, AdvancePlace
<1>5. /\ Piece(sgl, c).sg = c.sg /\ Piece(sgl, c).off = c.o /\ Piece(sgl, c).at = c.n
      /\ Piece(sgl, c).ep = c.n
  BY DEF Piece
<1>6. c.sg \in 1..Len(sgl)
  <2>1. c.sg \in Nat \ {0} /\ Len(sgl) \in Nat
    BY <1>1, <1>2, SglFacts DEF CutType
  <2> QED
    BY <1>2, <2>1
<1>7. Sums(sgl)[c.sg - 1] + c.o = c.n
  BY <1>2 DEF At
<1>8. Right(req[r], p)
  BY <1>2, <1>3, <1>4, <1>5, <1>6, <1>7 DEF Right
<1> QED
  BY <1>8 DEF p

\* Every step that overruns nothing keeps ages and chains.
LEMMA ChainsNext ==
  ASSUME BaseOK, FlowInv, [Next]_vars, ~over', ~over => AgeInv /\ ChainInv
  PROVE  AgeInv' /\ ChainInv'
<1>0. /\ FillInv /\ ListInv
      /\ \A s \in Reqs : Local(req[s]) /\ WalkInv(s)
  BY DEF FlowInv, Local
<1>m. mode' = mode
  BY ModeStays
<1>c. ASSUME ~over, NEW s \in Reqs, NEW k \in 1..Len(req[s].tfer)
      PROVE  req[s].tfer[k].age + fill.cnt <= Size /\ req[s].tfer[k].age + 0 <= Size
  BY <1>c, TferFacts
<1>1. ASSUME NEW r \in Reqs, Begin(r) PROVE AgeInv' /\ ChainInv'
  <2>1. /\ \A s \in Reqs : s # r => req'[s] = req[s]
        /\ Len(req'[r].tfer) = 0
        /\ UNCHANGED <<descIdx, ring, fill, over>>
    <3>1. req'[r].tfer = <<>>
      BY <1>1, BeginStep
    <3>2. Len(req'[r].tfer) = 0
      BY <3>1
    <3> QED
      BY <1>1, <3>2, BeginStep
  <2>2. ASSUME NEW s \in Reqs, NEW k \in 1..Len(req'[s].tfer)
        PROVE  /\ k \in 1..Len(req[s].tfer)
               /\ req'[s].tfer[k].age = req[s].tfer[k].age
               /\ req[s].tfer[k].age + fill'.cnt <= Size
               /\ Carries(s, k)
    BY <1>c, <2>1 DEF Carries
  <2> QED
    BY <2>1, <2>2, <1>m, Steady
<1>2. ASSUME NEW r \in Reqs, LockDesc(r) PROVE AgeInv' /\ ChainInv'
  <2>1. /\ \A s \in Reqs : s # r => req'[s] = req[s]
        /\ req'[r] = [req[r] EXCEPT !.pc = "init"] /\ req[r] \in ReqType
        /\ UNCHANGED <<descIdx, ring, fill, over>>
    BY <1>2, LockDescStep, ReqTypes
  <2>2. /\ req'[r].tfer = req[r].tfer /\ req'[r].kind = req[r].kind /\ req'[r].sgl = req[r].sgl
        /\ req'[r].astray = req[r].astray
    BY <2>1 DEF ReqType
  <2>3. ASSUME NEW s \in Reqs, NEW k \in 1..Len(req'[s].tfer)
        PROVE  /\ k \in 1..Len(req[s].tfer)
               /\ req'[s].tfer[k].age = req[s].tfer[k].age
               /\ req[s].tfer[k].age + fill'.cnt <= Size
               /\ Carries(s, k)
    BY <1>c, <2>1, <2>2 DEF Carries
  <2> QED
    BY <2>1, <2>3, <1>m, Steady
<1>3. ASSUME NEW r \in Reqs, transfer_init(r) PROVE AgeInv' /\ ChainInv'
  <2> DEFINE n == Taking(r)
             g == Going(r)
             last == req[r].idx + Taking(r) = Len(Sdesc(req[r]))
             p == Slice(r)
  <2>1. /\ n \in Nat \ {0} /\ descIdx + n <= Size
        /\ req[r].idx + n <= Len(Sdesc(req[r]))
        /\ \A j \in 1..n :
             /\ p[j] = [Sdesc(req[r])[req[r].idx + j] EXCEPT
                  !.ep = Address(Sdesc(req[r])[req[r].idx + j].at, descIdx + j - 1)]
             /\ p[j] \in PieceType
             /\ req[r].idx + j \in 1..Len(Sdesc(req[r]))
             /\ Sdesc(req[r])[req[r].idx + j] \in PieceType
        /\ ring' = Laid(Chain(r, p, descIdx, n))
        /\ Rest(g) = <<"queue", req[r].kind, req[r].sgl, req[r].idx + n,
                       Cuts(req[r].sgl)[req[r].idx + n].n, req[r].sgIdx,
                       req[r].sgOff, req[r].astray>>
        /\ req[r].pc = "init" /\ req[r].kind # "aperture" /\ fill.own = None /\ fill' = fill
    BY <1>0, <1>3, TransferInitStep DEF Local
  <2>2. TakeEffect(r, n, g, last)
    BY <1>0, <1>3, InitEffect
  <2>3. g.kind = req[r].kind /\ g.sgl = req[r].sgl /\ g.astray = req[r].astray
    BY <2>1 DEF Rest
  <2>4. fill'.cnt = 0
    BY <1>0, <2>1 DEF FillInv, NoFill
  <2>5. req[r].idx \in Nat /\ Len(Sdesc(req[r])) \in Nat
    BY <1>0, <2>1, ReqTypes, SdescFacts DEF ReqType, Local
  <2>6. ASSUME NEW j \in 1..n
        PROVE  /\ p[j] \in AnyPiece /\ Right(req[r], p[j])
               /\ Placed(req[r], p[j], descIdx + j - 1)
    <3> DEFINE y == Sdesc(req[r])[req[r].idx + j]
               x == Address(y.at, descIdx + j - 1)
    <3>1. Right(req[r], y) /\ y \in PieceType
      BY <1>0, <2>1, SdescRight DEF Local
    <3>2. p[j] = [y EXCEPT !.ep = x] /\ p[j] \in PieceType /\ req[r].kind # "aperture"
      BY <2>1
    <3> HIDE DEF n, p, y
    <3>3. p[j].ep = x /\ p[j].at = y.at /\ p[j].sg = y.sg /\ p[j].off = y.off /\ p[j].len = y.len
      <4> HIDE DEF x
      <4> QED
        BY <3>1, <3>2 DEF PieceType
    <3>4. Right(req[r], p[j])
      BY <3>1, <3>2, <3>3 DEF Right
    <3>5. p[j] \in AnyPiece
      BY <3>2 DEF PieceType, AnyPiece
    <3>6. Placed(req[r], p[j], descIdx + j - 1)
      BY <3>3 DEF Placed
    <3> QED
      BY <3>4, <3>5, <3>6
  <2>7. ~over
    BY <2>2 DEF TakeEffect
  <2> HIDE DEF n, g, last, p
  <2>8. n \in Nat
    BY <2>1
  <2>9. AgeInv'
    BY <2>1, <2>2, <2>4, <2>7, <2>8, AgeTaken
  <2>10. ChainInv'
    BY <2>1, <2>2, <2>3, <2>6, <2>7, <2>8, <1>m, ChainTaken
  <2> QED
    BY <2>9, <2>10
<1>4. ASSUME NEW r \in Reqs, transfer_queue(r) PROVE AgeInv' /\ ChainInv'
  <2>1. /\ \A s \in Reqs : s # r => req'[s] = req[s]
        /\ req'[r] = [req[r] EXCEPT !.pc = Queued(req[r])] /\ req[r] \in ReqType
        /\ UNCHANGED <<descIdx, ring, fill, over>>
    BY <1>0, <1>4, QueueStep, ReqTypes DEF Local
  <2>2. /\ req'[r].tfer = req[r].tfer /\ req'[r].kind = req[r].kind /\ req'[r].sgl = req[r].sgl
        /\ req'[r].astray = req[r].astray
    BY <2>1 DEF ReqType
  <2>3. ASSUME NEW s \in Reqs, NEW k \in 1..Len(req'[s].tfer)
        PROVE  /\ k \in 1..Len(req[s].tfer)
               /\ req'[s].tfer[k].age = req[s].tfer[k].age
               /\ req[s].tfer[k].age + fill'.cnt <= Size
               /\ Carries(s, k)
    BY <1>c, <2>1, <2>2 DEF Carries
  <2> QED
    BY <2>1, <2>3, <1>m, Steady
<1>5. ASSUME NEW r \in Reqs, ApertureStart(r) PROVE AgeInv' /\ ChainInv'
  <2>1. /\ \A s \in Reqs : s # r => req'[s] = req[s]
        /\ req'[r] = [req[r] EXCEPT !.astray = req[r].astray \/ req[r].sgIdx # 0]
        /\ req[r] \in ReqType
        /\ fill' = [own |-> r, i |-> req[r].sgIdx, sg |-> 1, off |-> req[r].sgOff,
                    tlen |-> req[r].sgl[1] - req[r].sgOff, ep |-> And(req[r].at, Aperture - 1),
                    cnt |-> 0]
        /\ UNCHANGED <<descIdx, ring, over>>
    BY <1>0, <1>5, ApertureStartStep, ReqTypes DEF Local
  <2>2. /\ req'[r].tfer = req[r].tfer /\ req'[r].kind = req[r].kind /\ req'[r].sgl = req[r].sgl
        /\ req[r].astray => req'[r].astray
    BY <2>1 DEF ReqType
  <2>3. fill'.cnt = 0
    BY <2>1
  <2>4. ASSUME NEW s \in Reqs, NEW k \in 1..Len(req'[s].tfer)
        PROVE  /\ k \in 1..Len(req[s].tfer)
               /\ req'[s].tfer[k].age = req[s].tfer[k].age
               /\ req[s].tfer[k].age + fill'.cnt <= Size
               /\ Carries(s, k)
    BY <1>c, <2>1, <2>2, <2>3 DEF Carries
  <2> QED
    BY <2>1, <2>4, <1>m, Steady
<1>6. ASSUME NEW r \in Reqs, Collect(r) PROVE AgeInv' /\ ChainInv'
  <2>1. /\ \A s \in Reqs : s # r => req'[s] = req[s]
        /\ Len(req'[r].tfer) = 0
        /\ req[r].pc = "wait"
        /\ ring' = Cleared({req[r].tfer[1]})
        /\ UNCHANGED <<descIdx, fill, over>>
    <3>1. req'[r].tfer = <<>>
      BY <1>6, CollectStep
    <3>2. Len(req'[r].tfer) = 0
      BY <3>1
    <3> QED
      BY <1>6, <3>2, CollectStep
  <2>2. 1 \in 1..Len(req[r].tfer)
    BY <1>0, <2>1 DEF Local, ControlInv
  <2>3. ASSUME NEW s \in Reqs, NEW k \in 1..Len(req'[s].tfer)
        PROVE  /\ k \in 1..Len(req[s].tfer)
               /\ req'[s].tfer[k].age = req[s].tfer[k].age
               /\ req[s].tfer[k].age + fill'.cnt <= Size
               /\ Carries(s, k)
    <3>1. s # r /\ req'[s] = req[s]
      BY <2>1
    <3>2. ASSUME NEW e \in Span(req[s].tfer[k]) PROVE ring'[e] = ring[e]
      <4>1. e \notin Span(req[r].tfer[1])
        BY <2>1, <2>2, <3>1, Apart
      <4>2. e \in Entries
        BY <1>c, <2>1, <3>1, Ahead
      <4> QED
        BY <2>1, <4>1, <4>2, ClearedType DEF Span
    <3> QED
      BY <1>c, <2>1, <3>1, <3>2 DEF Carries
  <2> QED
    BY <2>1, <2>3, <1>m, Steady
<1>7. ASSUME ApertureDesc PROVE AgeInv' /\ ChainInv'
  <2> DEFINE r == fill.own
             e0 == descIdx + fill.cnt
  <2>1. /\ r \in Reqs /\ e0 \in Entries
        /\ ring' = [ring EXCEPT ![e0] = NextDesc]
        /\ req'[r] = [req[r] EXCEPT !.at = @ + NextLen] /\ req[r] \in ReqType
        /\ \A s \in Reqs : s # r => req'[s] = req[s]
        /\ fill'.cnt = fill.cnt + 1
        /\ over' = (over \/ Overrun(fill.cnt + 1))
        /\ descIdx' = descIdx
    BY <1>0, <1>7, ApertureDescStep, ReqTypes
  <2>2. /\ req'[r].tfer = req[r].tfer /\ req'[r].kind = req[r].kind /\ req'[r].sgl = req[r].sgl
        /\ req'[r].astray = req[r].astray
    BY <2>1 DEF ReqType
  <2>3. ~over /\ ~Overrun(fill.cnt + 1)
    BY <2>1
  <2>4. fill.cnt \in Nat /\ descIdx \in Nat
    BY FillTypes
  <2>5. ASSUME NEW s \in Reqs, NEW k \in 1..Len(req'[s].tfer)
        PROVE  /\ k \in 1..Len(req[s].tfer)
               /\ req'[s].tfer[k].age = req[s].tfer[k].age
               /\ req[s].tfer[k].age + fill'.cnt <= Size
               /\ Carries(s, k)
    <3>1. /\ req'[s].tfer = req[s].tfer /\ req'[s].kind = req[s].kind /\ req'[s].sgl = req[s].sgl
          /\ req'[s].astray = req[s].astray
      BY <2>1, <2>2
    <3>2. k \in DOMAIN req[s].tfer /\ k \in 1..Len(req[s].tfer)
      BY <3>1, ReqTypes
    <3>3. ~(req[s].tfer[k].age + (fill.cnt + 1) > Size)
      BY <2>3, <3>2 DEF Overrun
    <3>4. req[s].tfer[k].age + (fill.cnt + 1) <= Size
      <4>1. req[s].tfer[k].age \in Nat /\ Size \in Nat
        BY <2>3, <3>2, TferFacts, FillTypes
      <4> QED
        BY <2>4, <3>3, <4>1
    <3>5. ASSUME NEW e \in Span(req[s].tfer[k]) PROVE ring'[e] = ring[e]
      <4>1. fill.cnt + 1 \in Nat
        BY <2>4
      <4>2. e \in Entries /\ e \notin descIdx..(descIdx + (fill.cnt + 1) - 1)
        BY <2>3, <3>2, <3>4, <4>1, Ahead
      <4>3. e # e0
        BY <2>4, <4>2
      <4> QED
        BY <2>1, <4>2, <4>3 DEF BaseOK
    <3> QED
      BY <2>1, <3>1, <3>2, <3>4, <3>5 DEF Carries
  <2> QED
    BY <2>1, <2>3, <2>5, <1>m, Steady
<1>8. ASSUME ApertureEnd PROVE AgeInv' /\ ChainInv'
  <2> DEFINE r == fill.own
             n == fill.cnt
             g == Ending
             last == req[fill.own].at = Total(req[fill.own].sgl)
             p == Filled
  <2>1. /\ r \in Reqs /\ n \in Nat /\ descIdx + n <= Size
        /\ \A j \in 1..n : p[j] = ring[descIdx + j - 1].piece /\ p[j] \in AnyPiece
        /\ ring' = Laid(Chain(r, p, descIdx, n))
        /\ Rest(g) = <<"queue", req[r].kind, req[r].sgl, req[r].idx, req[r].at,
                       fill.i, fill.off, req[r].astray>>
        /\ fill' = NoFill
    BY <1>0, <1>8, ApertureEndStep
  <2>2. TakeEffect(r, n, g, last)
    BY <1>0, <1>8, EndEffect
  <2>3. g.kind = req[r].kind /\ g.sgl = req[r].sgl /\ g.astray = req[r].astray
    BY <2>1 DEF Rest
  <2>4. fill'.cnt = 0
    BY <2>1 DEF NoFill
  <2>5. descIdx \in Nat
    BY FillTypes
  <2>6. ASSUME ~req[r].astray, NEW j \in 1..n PROVE Right(req[r], p[j])
    <3>1. descIdx + j - 1 \in descIdx..(descIdx + n - 1)
      BY <2>1, <2>5
    <3>2. Right(req[r], ring[descIdx + j - 1].piece)
      BY <1>0, <2>1, <2>6, <3>1, Names DEF FillInv
    <3> QED
      BY <2>1, <3>2
  <2>7. ~over
    BY <2>2 DEF TakeEffect
  <2>10. \A j \in 1..n : Placed(req[r], p[j], descIdx + j - 1)
    <3>1. req[r].kind = "aperture"
      BY <1>0, <1>8, ApertureEndStep
    <3> QED
      BY <3>1 DEF Placed
  <2> HIDE DEF n, g, last, p, r
  <2>8. AgeInv'
    BY <2>1, <2>2, <2>4, <2>7, AgeTaken
  <2>9. ChainInv'
    BY <2>1, <2>2, <2>3, <2>6, <2>7, <2>10, <1>m, ChainTaken
  <2> QED
    BY <2>8, <2>9
<1>9. ASSUME Service PROVE AgeInv' /\ ChainInv'
  <2> DEFINE r == SvcReq
             ts == req[r].tfer
  <2>1. /\ r \in Reqs /\ SvcIdx \in 1..Len(ts)
        /\ \A s \in Reqs : s # r => req'[s] = req[s]
        /\ UNCHANGED <<descIdx, fill, over>>
    BY <1>0, <1>9, ServiceStep
  <2>2. ts \in Seq(AnyTfer) /\ DOMAIN ts = 1..Len(ts)
    BY <2>1, ReqTypes
  <2>3. CASE /\ req'[r] = NoReq
             /\ ring' = Cleared({ts[j] : j \in DOMAIN ts})
    <3>1. Len(req'[r].tfer) = 0
      BY <2>3, NoReqType
    <3>2. ASSUME NEW s \in Reqs, NEW k \in 1..Len(req'[s].tfer)
          PROVE  /\ k \in 1..Len(req[s].tfer)
                 /\ req'[s].tfer[k].age = req[s].tfer[k].age
                 /\ req[s].tfer[k].age + fill'.cnt <= Size
                 /\ Carries(s, k)
      <4>1. s # r /\ req'[s] = req[s] /\ k \in 1..Len(req[s].tfer)
        BY <2>1, <3>1
      <4>2. ASSUME NEW e \in Span(req[s].tfer[k]) PROVE ring'[e] = ring[e]
        <5>1. \A j \in 1..Len(ts) : e \notin Span(ts[j])
          BY <2>1, <4>1, Apart
        <5>2. e \in Entries
          BY <1>c, <2>1, <4>1, Ahead
        <5>3. ~ \E t \in {ts[j] : j \in DOMAIN ts} : e \in t.start..(t.start + t.num - 1)
          BY <2>2, <5>1 DEF Span
        <5> QED
          BY <2>3, <5>2, <5>3, ClearedType
      <4> QED
        BY <1>c, <2>1, <4>1, <4>2 DEF Carries
    <3> QED
      BY <2>1, <3>2, <1>m, Steady
  <2>4. CASE /\ Rest(req'[r]) = Rest(req[r])
             /\ Len(req'[r].tfer) = Len(ts)
             /\ \A j \in 1..Len(ts) : j # SvcIdx => req'[r].tfer[j] = ts[j]
             /\ req'[r].tfer[SvcIdx] = [ts[SvcIdx] EXCEPT !.done = TRUE]
             /\ ring' = ring
    <3>1. /\ req'[r].kind = req[r].kind /\ req'[r].sgl = req[r].sgl
          /\ req'[r].astray = req[r].astray
      BY <2>4 DEF Rest
    <3>2. ASSUME NEW j \in 1..Len(ts)
          PROVE  /\ req'[r].tfer[j].start = ts[j].start /\ req'[r].tfer[j].num = ts[j].num
                 /\ req'[r].tfer[j].age = ts[j].age
      <4>1. ts[SvcIdx] \in AnyTfer
        BY <2>1, <2>2
      <4> QED
        BY <2>4, <4>1 DEF AnyTfer
    <3>3. ASSUME NEW s \in Reqs, NEW k \in 1..Len(req'[s].tfer)
          PROVE  /\ k \in 1..Len(req[s].tfer)
                 /\ req'[s].tfer[k].age = req[s].tfer[k].age
                 /\ req[s].tfer[k].age + fill'.cnt <= Size
                 /\ Carries(s, k)
      <4>1. CASE s = r
        BY <1>c, <2>1, <2>4, <3>1, <3>2, <4>1 DEF Carries
      <4>2. CASE s # r
        BY <1>c, <2>1, <2>4, <4>2 DEF Carries
      <4> QED
        BY <4>1, <4>2
    <3> QED
      BY <2>1, <3>3, <1>m, Steady
  <2> QED
    BY <1>0, <1>9, <2>3, <2>4, ServiceStep
<1>10. CASE UNCHANGED vars
  <2>1. ~over
    BY <1>10 DEF vars
  <2> QED
    BY <1>10, <2>1 DEF vars, AgeInv, Behind, Older, ChainInv, Link, Placed, Address
<1> QED
  BY <1>1, <1>2, <1>3, <1>4, <1>5, <1>6, <1>7, <1>8, <1>9, <1>10 DEF Next

-----------------------------------------------------------------------------
(* The theorems.                                                           *)

\* The invariant holds at first...
LEMMA RingInit ==
  Init => BaseOK /\ RingInv
<1>1. SUFFICES ASSUME Init PROVE AgeInv /\ ChainInv
  BY BaseInit, FlowInit DEF RingInv
<1>2. \A r \in Reqs : Len(req[r].tfer) = 0
  BY <1>1, NoReqType DEF Init
<1> QED
  BY <1>2 DEF AgeInv, ChainInv

\* ... and every step keeps it.
LEMMA RingNext ==
  ASSUME BaseOK, RingInv, [Next]_vars
  PROVE  BaseOK' /\ RingInv'
<1>1. BaseOK' /\ FlowInv'
  BY FlowNext DEF RingInv
<1>2. ~over' => AgeInv' /\ ChainInv'
  BY ChainsNext DEF RingInv
<1> QED
  BY <1>1, <1>2 DEF RingInv

\* The inductive invariant holds for every interleaving of blocking, asynchronous
\* and aperture requests over one ring.
THEOREM RingHolds ==
  Spec => [](BaseOK /\ RingInv)
<1>1. BaseOK /\ RingInv /\ [Next]_vars => (BaseOK /\ RingInv)'
  BY RingNext
<1> QED
  BY RingInit, <1>1, PTL DEF Spec

\* A transfer that is not yet executed is one of its request.
LEMMA WaitingFacts ==
  ASSUME BaseOK, RingInv, NEW w \in Waiting
  PROVE  /\ w[1] \in Reqs /\ w[2] \in 1..Len(req[w[1]].tfer)
         /\ req[w[1]].tfer[w[2]] \in AnyTfer
<1>1. w[1] \in Reqs /\ w[2] \in DOMAIN req[w[1]].tfer
  BY DEF Waiting
<1> QED
  BY <1>1, ReqTypes

\* Until more entries are taken than the ring has, no caller that takes, wraps
\* around or clears entries damages the chain of a transfer that is not yet executed:
\* transfer_init(), xdma_xfer_aperture() and xdma_desc_done() only touch entries
\* that no live transfer has.
THEOREM ChainsIntact ==
  Spec => []ChainIntact
<1>1. ASSUME BaseOK, RingInv PROVE ChainIntact
  <2>1. SUFFICES ASSUME ~over, NEW w \in Waiting,
                        NEW e \in Span(req[w[1]].tfer[w[2]])
                 PROVE  LET r == w[1]
                            t == req[r].tfer[w[2]]
                        IN /\ e \in Entries /\ ring[e] # None
                           /\ ring[e].own = r
                           /\ LET last == e = t.start + t.num - 1
                              IN /\ ring[e].next = IF last THEN None ELSE e + 1
                                 /\ ring[e].stop = last
    BY DEF ChainIntact, Span
  <2>2. FlowInv /\ AgeInv /\ ChainInv
    BY <1>1, <2>1 DEF RingInv
  <2>3. w[1] \in Reqs /\ w[2] \in 1..Len(req[w[1]].tfer)
    BY <1>1, WaitingFacts
  <2>4. Link(w[1], req[w[1]].tfer[w[2]], e)
    BY <2>2, <2>3 DEF ChainInv, Span
  <2>5. e \in Entries
    <3>1. req[w[1]].tfer[w[2]].age \in Nat /\ req[w[1]].tfer[w[2]].age <= Size
      BY <1>1, <2>2, <2>3, TferFacts
    <3>2. req[w[1]].tfer[w[2]].age + 0 <= Size
      BY <3>1
    <3> QED
      BY <1>1, <2>2, <2>3, <3>2, Ahead
  <2> QED
    BY <2>4, <2>5 DEF Link
<1> QED
  BY RingHolds, <1>1, PTL

\* The engine stays what it is.
LEMMA ModeKnown ==
  Spec => [](mode \in Modes)
<1>1. Init => mode \in Modes
  BY DEF Init
<1>2. mode \in Modes /\ [Next]_vars => (mode \in Modes)'
  BY ModeStays
<1> QED
  BY <1>1, <1>2, PTL DEF Spec

\* The descriptors of xdma_init_request() and xdma_xfer_aperture() move the right
\* host data, whatever the list, the descriptor length and the place in the ring, to
\* an address that advances, stays (non_incr_addr), is that of their own result (a
\* stream), or lies in the aperture: at the right place in it when its size is a
\* power of two, because offset & (aperture - 1) is the remainder only then.  The
\* cut list fits its allocation.
THEOREM DataPlaced ==
  Spec => []DataInPlace
<1>1. ASSUME BaseOK, RingInv, mode \in Modes PROVE DataInPlace
  <2>1. SUFFICES ASSUME ~over, NEW w \in Waiting, ~req[w[1]].astray,
                        NEW e \in Span(req[w[1]].tfer[w[2]])
                 PROVE  LET q == req[w[1]]
                            p == ring[e].piece
                        IN /\ \/ q.kind = "aperture"
                              \/ Len(xdma_init_request(q.sgl)) <= SdescRoom(q.sgl)
                           /\ HostPos(q.sgl, p.sg, p.off) = p.at
                           /\ p.len \in 1..Blen
                           /\ p.off + p.len <= q.sgl[p.sg]
                           /\ \/ /\ q.kind # "aperture"
                                 /\ p.ep = CASE mode = "incr" -> p.at [] mode = "fixed" -> 0
                                             [] mode = "stream" -> e
                              \/ /\ q.kind = "aperture"
                                 /\ PowerOfTwo(Aperture) => p.ep = p.at % Aperture
                                 /\ p.ep + p.len <= Aperture
    BY DEF DataInPlace, Span
  <2>2. FlowInv /\ AgeInv /\ ChainInv
    BY <1>1, <2>1 DEF RingInv
  <2>3. w[1] \in Reqs /\ w[2] \in 1..Len(req[w[1]].tfer)
    BY <1>1, WaitingFacts
  <2>4. Right(req[w[1]], ring[e].piece) /\ Placed(req[w[1]], ring[e].piece, e)
    BY <2>1, <2>2, <2>3 DEF ChainInv, Span, Link
  <2>5. Len(xdma_init_request(req[w[1]].sgl)) <= SdescRoom(req[w[1]].sgl)
    <3>1. ControlInv(req[w[1]])
      BY <2>2, <2>3 DEF FlowInv
    <3>2. req[w[1]].pc # "idle"
      BY <2>3, <3>1 DEF ControlInv
    <3>3. req[w[1]].sgl \in Sgl /\ req[w[1]].sgl # <<>>
      BY <1>1, <2>3, <3>1, <3>2, SdescFacts
    <3> QED
      BY <3>3, RoomEnough
  <2> DEFINE a == ring[e].piece.at
  <2>6. mode \in {"incr", "fixed", "stream"}
    BY <1>1, RingAssumption
  <2>7. Address(a, e) = CASE mode = "incr" -> a [] mode = "fixed" -> 0 [] mode = "stream" -> e
    BY <2>6 DEF Address
  <2>8. req[w[1]].kind # "aperture" =>
          ring[e].piece.ep = CASE mode = "incr" -> a [] mode = "fixed" -> 0 [] mode = "stream" -> e
    BY <2>4, <2>7 DEF Placed
  <2> QED
    BY <2>4, <2>5, <2>8 DEF Right, HostPos
<1> QED
  BY RingHolds, ModeKnown, <1>1, PTL

\* Only a stream's transfer ends with a packet.
EopInv == \A r \in Reqs : req[r].eop => mode = "stream"

\* The record of a request that sees no end of packet in a step.
LEMMA EopKept ==
  ASSUME EopInv, mode' = mode, \A s \in Reqs : req'[s].eop => req[s].eop
  PROVE  EopInv'
BY DEF EopInv

LEMMA EopHolds ==
  Spec => []EopInv
<1>1. Init => EopInv
  BY DEF Init, EopInv, NoReq
<1>2. ASSUME BaseOK, RingInv, EopInv, [Next]_vars PROVE EopInv'
  <2>0. /\ FillInv /\ ListInv
        /\ \A s \in Reqs : Local(req[s]) /\ WalkInv(s)
        /\ mode' = mode
    BY <1>2, ModeStays DEF RingInv, FlowInv, Local
  <2>t. \A s \in Reqs : req[s] \in ReqType
    BY <1>2, ReqTypes
  <2>1. ASSUME NEW r \in Reqs, Begin(r) PROVE EopInv'
    <3>1. ~req'[r].eop /\ \A s \in Reqs : s # r => req'[s] = req[s]
      BY <1>2, <2>1, BeginStep
    <3> QED
      BY <1>2, <2>0, <3>1, EopKept
  <2>2. ASSUME NEW r \in Reqs, LockDesc(r) PROVE EopInv'
    <3>1. /\ req'[r] = [req[r] EXCEPT !.pc = "init"]
          /\ \A s \in Reqs : s # r => req'[s] = req[s]
      BY <1>2, <2>2, LockDescStep
    <3>2. req'[r].eop = req[r].eop
      BY <2>t, <3>1 DEF ReqType
    <3> QED
      BY <1>2, <2>0, <3>1, <3>2, EopKept
  <2>3. ASSUME NEW r \in Reqs, NEW q, NEW n, NEW last, Take(r, q, n, last), q \in ReqType,
               q.eop = req[r].eop
        PROVE  EopInv'
    <3> DEFINE aged == Aged(n)
    <3>1. ASSUME NEW s \in Reqs PROVE aged[s].eop = req[s].eop
      <4> DEFINE us == [k \in DOMAIN req[s].tfer |-> Grown(req[s].tfer[k], n)]
      <4>1. aged[s] = [req[s] EXCEPT !.tfer = us]
        BY DEF Aged
      <4> HIDE DEF us
      <4> QED
        BY <2>t, <4>1 DEF ReqType
    <3>2. DOMAIN aged = Reqs
      BY DEF Aged
    <3> HIDE DEF aged
    <3> DEFINE us == Append(aged[r].tfer, [start |-> descIdx, num |-> n, done |-> FALSE,
                                           last |-> last, age |-> n])
    <3>3. req' = [aged EXCEPT ![r] = [q EXCEPT !.tfer = us]]
      BY <2>3 DEF Take, aged
    <3> HIDE DEF us
    <3>4. req'[r] = [q EXCEPT !.tfer = us] /\ \A s \in Reqs : s # r => req'[s] = aged[s]
      BY <3>2, <3>3
    <3>5. req'[r].eop = req[r].eop
      BY <2>3, <3>4 DEF ReqType
    <3> QED
      BY <1>2, <2>0, <3>1, <3>4, <3>5, EopKept
  <2>4. ASSUME NEW r \in Reqs, transfer_init(r) PROVE EopInv'
    <3>1. /\ Take(r, Going(r), Taking(r), req[r].idx + Taking(r) = Len(Sdesc(req[r])))
          /\ Going(r) \in ReqType
      BY <1>2, <2>0, <2>4, TransferInitStep DEF Local
    <3>2. Going(r).eop = req[r].eop
      BY <2>t DEF Going, ReqType
    <3> QED
      BY <2>3, <3>1, <3>2
  <2>5. ASSUME NEW r \in Reqs, transfer_queue(r) PROVE EopInv'
    <3>1. /\ req'[r] = [req[r] EXCEPT !.pc = Queued(req[r])]
          /\ \A s \in Reqs : s # r => req'[s] = req[s]
      BY <1>2, <2>0, <2>5, QueueStep DEF Local
    <3>2. req'[r].eop = req[r].eop
      BY <2>t, <3>1 DEF ReqType
    <3> QED
      BY <1>2, <2>0, <3>1, <3>2, EopKept
  <2>6. ASSUME NEW r \in Reqs, ApertureStart(r) PROVE EopInv'
    <3>1. /\ req'[r] = [req[r] EXCEPT !.astray = req[r].astray \/ req[r].sgIdx # 0]
          /\ \A s \in Reqs : s # r => req'[s] = req[s]
      BY <1>2, <2>0, <2>6, ApertureStartStep DEF Local
    <3>2. req'[r].eop = req[r].eop
      BY <2>t, <3>1 DEF ReqType
    <3> QED
      BY <1>2, <2>0, <3>1, <3>2, EopKept
  <2>7. ASSUME NEW r \in Reqs, Collect(r) PROVE EopInv'
    <3>1. /\ \A s \in Reqs : s # r => req'[s] = req[s]
          /\ req'[r].eop => req[r].eop
      BY <1>2, <2>7, CollectStep
    <3> QED
      BY <1>2, <2>0, <3>1, EopKept
  <2>8. ASSUME ApertureDesc PROVE EopInv'
    <3>1. /\ fill.own \in Reqs
          /\ req'[fill.own] = [req[fill.own] EXCEPT !.at = @ + NextLen]
          /\ \A s \in Reqs : s # fill.own => req'[s] = req[s]
      BY <1>2, <2>0, <2>8, ApertureDescStep
    <3>2. req'[fill.own].eop = req[fill.own].eop
      BY <2>t, <3>1 DEF ReqType
    <3> QED
      BY <1>2, <2>0, <3>1, <3>2, EopKept
  <2>9. ASSUME ApertureEnd PROVE EopInv'
    <3>1. /\ fill.own \in Reqs /\ Ending \in ReqType
          /\ Take(fill.own, Ending, fill.cnt, req[fill.own].at = Total(req[fill.own].sgl))
      BY <1>2, <2>0, <2>9, ApertureEndStep
    <3>2. Ending.eop = req[fill.own].eop
      BY <2>t, <3>1 DEF Ending, ReqType
    <3> QED
      BY <2>3, <3>1, <3>2
  <2>10. ASSUME Service PROVE EopInv'
    <3>1. /\ SvcReq \in Reqs
          /\ \A s \in Reqs : s # SvcReq => req'[s] = req[s]
          /\ req'[SvcReq].eop => mode = "stream"
      BY <1>2, <2>0, <2>10, ServiceStep
    <3> QED
      BY <1>2, <2>0, <3>1 DEF EopInv
  <2>11. CASE UNCHANGED vars
    BY <1>2, <2>11 DEF vars, EopInv
  <2> QED
    BY <1>2, <2>1, <2>2, <2>4, <2>5, <2>6, <2>7, <2>8, <2>9, <2>10, <2>11 DEF Next
<1>3. BaseOK /\ RingInv /\ EopInv /\ [Next]_vars => EopInv'
  BY <1>2
<1> QED
  BY RingHolds, <1>1, <1>3, PTL DEF Spec

\* A request ends, in xdma_xfer_completion() or after the last wait of a blocking
\* caller, only when all of its data was in a chain, or when it is a blocking one on
\* a stream and its last chain ended with the packet (xdma_xfer_submit() then sets
\* nents to 0).
THEOREM NoEarlyEnd ==
  Spec => EndsWhole
<1> DEFINE Whole == \A r \in Reqs : req[r].pc # "idle" /\ req'[r].pc = "idle" /\ ~req[r].astray =>
                      \/ req[r].at = Total(req[r].sgl)
                      \/ mode = "stream" /\ req[r].kind = "sync" /\ req[r].eop
<1>1. ASSUME BaseOK, RingInv, EopInv, [Next]_vars PROVE [Whole]_vars
  <2>0. /\ FillInv /\ ListInv
        /\ \A s \in Reqs : Local(req[s]) /\ WalkInv(s)
    BY <1>1 DEF RingInv, FlowInv, Local
  <2>1. SUFFICES ASSUME NEW s \in Reqs, req[s].pc # "idle", req'[s].pc = "idle", ~req[s].astray
                 PROVE  \/ req[s].at = Total(req[s].sgl)
                        \/ mode = "stream" /\ req[s].kind = "sync" /\ req[s].eop
    OBVIOUS
  <2> DEFINE q == req[s]
  <2>2. q.sgl \in Sgl /\ q.sgl # <<>>
    BY <1>1, <2>0, <2>1, SdescFacts DEF Local
  <2>3. ASSUME q.kind # "aperture", q.idx = Len(Sdesc(q)) PROVE q.at = Total(q.sgl)
    <3>1. q.at = Cuts(q.sgl)[q.idx].n
      BY <2>0, <2>1, <2>3 DEF Local, IdxInv
    <3> QED
      BY <2>2, <2>3, <3>1, InitRequest DEF Sdesc
  <2>4. ASSUME NEW r \in Reqs, Collect(r)
        PROVE  q.at = Total(q.sgl) \/ (mode = "stream" /\ q.kind = "sync" /\ q.eop)
    <3>1. s = r
      BY <1>1, <2>1, <2>4, CollectStep
    <3>2. q.pc = "wait" /\ RequestDone(q)
      BY <1>1, <2>1, <2>4, <3>1, CollectStep DEF Rest
    <3>3. CASE q.kind # "aperture" /\ ~q.eop
      BY <2>3, <3>2, <3>3 DEF RequestDone, Sdesc
    <3>5. CASE q.kind # "aperture" /\ q.eop
      <4>1. q.kind \in {"sync", "async", "aperture"}
        BY <1>1, ReqTypes DEF ReqType
      <4>2. q.kind # "async"
        BY <2>0, <3>2 DEF Local, ControlInv
      <4>3. mode = "stream"
        BY <1>1, <3>5 DEF EopInv
      <4> QED
        BY <3>5, <4>1, <4>2, <4>3
    <3>4. CASE q.kind = "aperture"
      <4>1. fill.own = None
        BY <1>1, <2>4, NoCollectInFill DEF RingInv
      <4>2. At(q.sgl, q.sgIdx, q.sgOff, q.at)
        BY <2>0, <2>1, <3>4, <4>1, Names DEF WalkInv
      <4>3. q.at \in Nat /\ q.at <= Total(q.sgl) /\ Total(q.sgl) \in Nat
        BY <2>2, <4>2, AtTotal, SglFacts
      <4>4. q.at >= Total(q.sgl)
        BY <3>2, <3>4 DEF RequestDone
      <4> QED
        BY <4>3, <4>4
    <3> QED
      BY <3>3, <3>4, <3>5
  <2>5. ASSUME Service PROVE q.at = Total(q.sgl)
    <3>1. /\ SvcReq \in Reqs /\ SvcIdx \in 1..Len(req[SvcReq].tfer)
          /\ \A x \in Reqs : x # SvcReq => req'[x] = req[x]
          /\ \/ req[SvcReq].kind = "async" /\ req[SvcReq].tfer[SvcIdx].last
             \/ Rest(req'[SvcReq]) = Rest(req[SvcReq])
      BY <1>1, <2>0, <2>5, ServiceStep
    <3>2. s = SvcReq
      BY <2>1, <3>1
    <3>3. q.kind = "async" /\ q.tfer[SvcIdx].last
      BY <2>1, <3>1, <3>2 DEF Rest
    <3>4. SvcIdx = Len(q.tfer) /\ q.pc \in {"queue", "queued"}
      <4>1. q.pc \in {"idle", "mutex", "init", "queue", "wait", "queued"}
        BY <1>1, ReqTypes DEF ReqType
      <4> QED
        BY <2>0, <2>1, <3>1, <3>2, <3>3, <4>1 DEF Local, ControlInv
    <3>5. q.idx = Len(Sdesc(q))
      BY <2>0, <2>1, <3>3, <3>4 DEF Local, IdxInv
    <3> QED
      BY <2>3, <3>3, <3>5
  <2>6. ASSUME NEW r \in Reqs, Begin(r) PROVE FALSE
    BY <1>1, <2>1, <2>6, BeginStep
  <2>7. ASSUME NEW r \in Reqs, LockDesc(r) PROVE FALSE
    <3>1. req'[r] = [req[r] EXCEPT !.pc = "init"] /\ req[r] \in ReqType
          /\ \A x \in Reqs : x # r => req'[x] = req[x]
      BY <1>1, <2>7, LockDescStep, ReqTypes
    <3>2. req'[r].pc = "init"
      BY <3>1 DEF ReqType
    <3> QED
      BY <2>1, <3>1, <3>2
  <2>8. ASSUME NEW r \in Reqs, transfer_init(r) PROVE FALSE
    <3>1. TakeEffect(r, Taking(r), Going(r), req[r].idx + Taking(r) = Len(Sdesc(req[r])))
      BY <1>1, <2>0, <2>8, InitEffect
    <3>2. Rest(Going(r))[1] = "queue"
      BY <1>1, <2>0, <2>8, TransferInitStep DEF Local
    <3> QED
      BY <2>1, <3>1, <3>2 DEF TakeEffect, Rest
  <2>9. ASSUME NEW r \in Reqs, transfer_queue(r) PROVE FALSE
    <3>1. req'[r] = [req[r] EXCEPT !.pc = Queued(req[r])] /\ req[r] \in ReqType
          /\ \A x \in Reqs : x # r => req'[x] = req[x]
      BY <1>1, <2>0, <2>9, QueueStep, ReqTypes DEF Local
    <3>2. req'[r].pc = Queued(req[r])
      BY <3>1 DEF ReqType
    <3> QED
      BY <2>1, <3>1, <3>2 DEF Queued
  <2>10. ASSUME NEW r \in Reqs, ApertureStart(r) PROVE FALSE
    <3>1. /\ req'[r] = [req[r] EXCEPT !.astray = req[r].astray \/ req[r].sgIdx # 0]
          /\ req[r] \in ReqType /\ \A x \in Reqs : x # r => req'[x] = req[x]
      BY <1>1, <2>0, <2>10, ApertureStartStep, ReqTypes DEF Local
    <3>2. req'[r].pc = req[r].pc
      BY <3>1 DEF ReqType
    <3> QED
      BY <2>1, <3>1, <3>2
  <2>11. ASSUME ApertureDesc PROVE FALSE
    <3>1. /\ req'[fill.own] = [req[fill.own] EXCEPT !.at = @ + NextLen] /\ fill.own \in Reqs
          /\ req[fill.own] \in ReqType /\ \A x \in Reqs : x # fill.own => req'[x] = req[x]
      BY <1>1, <2>0, <2>11, ApertureDescStep, ReqTypes
    <3>2. req'[fill.own].pc = req[fill.own].pc
      BY <3>1 DEF ReqType
    <3> QED
      BY <2>1, <3>1, <3>2
  <2>12. ASSUME ApertureEnd PROVE FALSE
    <3>1. TakeEffect(fill.own, fill.cnt, Ending, req[fill.own].at = Total(req[fill.own].sgl))
      BY <1>1, <2>0, <2>12, EndEffect
    <3>2. Rest(Ending)[1] = "queue"
      BY <1>1, <2>0, <2>12, ApertureEndStep
    <3> QED
      BY <2>1, <3>1, <3>2 DEF TakeEffect, Rest
  <2>13. CASE UNCHANGED vars
    BY <2>1, <2>13 DEF vars
  <2> QED
    BY <1>1, <2>4, <2>5, <2>6, <2>7, <2>8, <2>9, <2>10, <2>11, <2>12, <2>13 DEF Next
<1>2. BaseOK /\ RingInv /\ EopInv /\ [Next]_vars => [Whole]_vars
  BY <1>1
<1>3. Spec => [][Whole]_vars
  BY RingHolds, EopHolds, <1>2, PTL DEF Spec
<1> QED
  BY <1>3 DEF EndsWhole

\* The prefetch from next, with m descriptors left up to end.
LEMMA AdjFits ==
  ASSUME NEW next \in Nat, NEW m \in Nat \ {0}, NEW end \in Nat, next + m = end + 1
  PROVE  /\ next + xdma_get_next_adj(m, next) <= end
         /\ next \div Block = (next + xdma_get_next_adj(m, next)) \div Block
<1> DEFINE a == xdma_get_next_adj(m, next)
<1>1. a \in 0..(Block - 1) /\ (next % Block) + a < Block /\ a <= m - 1
  <2>1. m \in Int /\ m > 0
    OBVIOUS
  <2> QED
    BY <2>1, AdjBounds
<1> HIDE DEF a
<1>2. a \in Nat /\ Block \in Nat \ {0}
  BY <1>1, Consts
<1>3. (next + a) \div Block = next \div Block
  BY <1>1, <1>2, ModAdd
<1>4. next + a <= end
  BY <1>1, <1>2
<1> QED
  BY <1>3, <1>4 DEF a

\* The prefetch counts of xdma_get_next_adj() stay in the chain and in an aligned
\* block.  Aperture lists have one entry: a longer one can go on with an empty
\* transfer, which has no first descriptor.
THEOREM BlocksFit ==
  ASSUME OneEntry
  PROVE  Spec => []BlockInChain
<1>1. ASSUME BaseOK, RingInv PROVE BlockInChain
  <2>1. SUFFICES ASSUME ~over, NEW w \in Waiting
                 PROVE  LET t == req[w[1]].tfer[w[2]]
                            end == t.start + t.num - 1
                            Fits(next, adj) == /\ next + adj <= end
                                               /\ next \div Block = (next + adj) \div Block
                        IN /\ Fits(t.start, xdma_get_next_adj(t.num, t.start))
                           /\ \A k \in t.start..end : k < end => Fits(k + 1, ring[k].adj)
    BY DEF BlockInChain
  <2> DEFINE r == w[1]
             t == req[w[1]].tfer[w[2]]
             end == t.start + t.num - 1
  <2>2. FlowInv /\ AgeInv /\ ChainInv
    BY <1>1, <2>1 DEF RingInv
  <2>3. r \in Reqs /\ w[2] \in 1..Len(req[r].tfer)
    BY <1>1, WaitingFacts
  <2>4. t.start \in Nat /\ t.num \in Nat
    BY <1>1, <2>2, <2>3, TferFacts
  <2>5. t.num > 0
    BY <2>2, <2>3 DEF FlowInv, OneInv, NumInv
  <2>6. ASSUME NEW e \in t.start..end
        PROVE  ring[e].adj = xdma_get_next_adj(t.start + t.num - e - 1, e + 1)
    BY <2>2, <2>3 DEF ChainInv, Link
  <2> HIDE DEF t, r
  <2>7. end \in Nat
    BY <2>4, <2>5
  <2>8. /\ t.start + xdma_get_next_adj(t.num, t.start) <= end
        /\ t.start \div Block = (t.start + xdma_get_next_adj(t.num, t.start)) \div Block
    <3>1. t.num \in Nat \ {0} /\ t.start + t.num = end + 1
      BY <2>4, <2>5
    <3> HIDE DEF end
    <3> QED
      BY <2>4, <2>7, <3>1, AdjFits
  <2>9. ASSUME NEW e \in t.start..end, e < end
        PROVE  /\ e + 1 + ring[e].adj <= end
               /\ (e + 1) \div Block = (e + 1 + ring[e].adj) \div Block
    <3> DEFINE m == t.start + t.num - e - 1
               next == e + 1
    <3>1. m \in Nat \ {0} /\ next \in Nat /\ next + m = end + 1
      BY <2>4, <2>5, <2>9
    <3>2. ring[e].adj = xdma_get_next_adj(m, next)
      BY <2>6
    <3> HIDE DEF end, m, next
    <3>3. /\ next + ring[e].adj <= end
          /\ next \div Block = (next + ring[e].adj) \div Block
      BY <2>7, <3>1, <3>2, AdjFits
    <3> QED
      BY <3>3 DEF next
  <2> HIDE DEF end
  <2>10. /\ /\ t.start + xdma_get_next_adj(t.num, t.start) <= end
            /\ t.start \div Block = (t.start + xdma_get_next_adj(t.num, t.start)) \div Block
         /\ \A k \in t.start..end : k < end =>
              /\ k + 1 + ring[k].adj <= end
              /\ (k + 1) \div Block = (k + 1 + ring[k].adj) \div Block
    BY <2>8, <2>9
  <2> QED
    BY <2>10 DEF t, end
<1> QED
  BY RingHolds, <1>1, PTL

\* An empty list has no software descriptors.
LEMMA NoSdesc ==
  Len(xdma_init_request(<<>>)) = 0
<1> DEFINE s == <<>>
<1>1. s \in Sgl /\ Len(s) = 0
  BY DEF Sgl
<1>2. Total(s) = 0
  BY <1>1, SglFacts DEF Total
<1>3. Cuts(s)[0].sg = 1
  BY <1>1, CutsDef
<1>4. Ended(s, 0)
  BY <1>1, <1>3 DEF Ended
<1>5. Count(s) = 0
  <2>1. 0..Total(s) = {0}
    BY <1>2
  <2>2. Count(s) \in 0..Total(s)
    BY <1>4, <2>1 DEF Count
  <2> QED
    BY <2>1, <2>2
<1>6. xdma_init_request(s) = [j \in 1..Count(s) |-> Piece(s, Cuts(s)[j - 1])]
  BY DEF xdma_init_request, Count, Ended
<1>7. xdma_init_request(s) = [j \in 1..0 |-> Piece(s, Cuts(s)[j - 1])]
  BY <1>5, <1>6
<1> QED
  BY <1>7

-----------------------------------------------------------------------------
(* Type correctness.                                                       *)

\* Every variable keeps its type: no transfer is empty, no ring entry holds anything
\* but a descriptor, and no request cuts more software descriptors than it has.
\* Aperture lists have one entry, see BlocksFit.
THEOREM TypeCorrect ==
  ASSUME OneEntry
  PROVE  Spec => []TypeOK
<1>1. ASSUME BaseOK, RingInv, mode \in Modes PROVE TypeOK
  <2>0. FlowInv
    BY <1>1 DEF RingInv
  <2>2. ASSUME NEW e \in Entries PROVE ring[e] = None \/ ring[e] \in Desc(PieceType)
    <3>1. ring[e] = None \/ ring[e] \in Desc(AnyPiece)
      BY <1>1 DEF BaseOK
    <3>2. ring[e] # None => ring[e].piece \in PieceType
      BY <2>0 DEF FlowInv, OneInv
    <3> QED
      BY <3>1, <3>2 DEF Desc
  <2>3. list \in Seq(Reqs \X Nat)
    <3>1. list \in Seq(Reqs \X (Nat \ {0}))
      BY <1>1 DEF BaseOK
    <3>2. \A i \in 1..Len(list) : list[i] \in Reqs \X Nat
      BY <3>1
    <3> QED
      BY <3>1, <3>2
  <2>4. ASSUME NEW r \in Reqs
        PROVE  /\ req[r].pc \in {"idle", "mutex", "init", "queue", "wait", "queued"}
               /\ req[r].tfer \in Seq(TferType)
               /\ req[r].at \in Nat
               /\ req[r].idx <= Len(xdma_init_request(req[r].sgl))
    <3> DEFINE q == req[r]
    <3>1. q \in ReqType /\ q.tfer \in Seq(AnyTfer) /\ Len(q.tfer) \in Nat
      BY <1>1, ReqTypes
    <3>2. ControlInv(q) /\ IdxInv(q) /\ NumInv(q) /\ WalkInv(r) /\ ~q.astray
      BY <2>0 DEF FlowInv, OneInv
    <3>3. \A k \in 1..Len(q.tfer) : q.tfer[k] \in TferType
      <4>1. ASSUME NEW k \in 1..Len(q.tfer) PROVE q.tfer[k] \in TferType
        <5> DEFINE t == q.tfer[k]
        <5>1. t \in AnyTfer
          BY <3>1
        <5>2. t.num > 0 /\ t.num <= t.age
          BY <3>2 DEF NumInv
        <5>3. t.num \in 0..Size /\ t.age \in 0..(Size + 1) /\ Size \in Nat
          BY <5>1, Consts DEF AnyTfer
        <5> HIDE DEF t
        <5>4. t.num \in 1..Size /\ t.age \in 1..(Size + 1)
          BY <5>2, <5>3
        <5>5. t \in TferType
          BY <5>1, <5>4 DEF AnyTfer, TferType
        <5> QED
          BY <5>5 DEF t
      <4> QED
        BY <4>1
    <3>4. q.tfer \in Seq(TferType)
      BY <3>1, <3>3
    <3>5. CASE q.pc = "idle"
      <4>1. q.at = 0 /\ q.idx = 0 /\ q.sgl = <<>>
        BY <3>2, <3>5, NoReqType DEF ControlInv, Rest
      <4> QED
        BY <3>1, <3>4, <4>1, NoSdesc DEF ReqType
    <3>6. CASE q.pc # "idle"
      <4>1. q.sgl \in Sgl /\ q.sgl # <<>> /\ Len(Sdesc(q)) \in Nat \ {0}
        BY <1>1, <3>2, <3>6, SdescFacts
      <4>2. q.idx <= Len(Sdesc(q))
        <5>1. CASE q.kind = "aperture"
          BY <3>2, <4>1, <5>1 DEF IdxInv
        <5>2. CASE q.kind # "aperture"
          BY <3>2, <3>6, <5>2 DEF IdxInv
        <5> QED
          BY <5>1, <5>2
      <4>3. q.at \in Nat
        <5>1. CASE q.kind = "aperture"
          <6>1. \E i, o : At(q.sgl, i, o, q.at)
            BY <3>2, <3>6, <5>1 DEF WalkInv
          <6> QED
            BY <4>1, <6>1, AtTotal
        <5>2. CASE q.kind # "aperture"
          <6>1. q.at = Cuts(q.sgl)[q.idx].n /\ q.idx \in Nat
            BY <3>1, <3>2, <3>6, <5>2 DEF IdxInv, ReqType
          <6>2. At(q.sgl, Cuts(q.sgl)[q.idx].sg - 1, Cuts(q.sgl)[q.idx].o, Cuts(q.sgl)[q.idx].n)
            BY <4>1, <6>1, CutsPlace
          <6> QED
            BY <4>1, <6>1, <6>2, AtTotal
        <5> QED
          BY <5>1, <5>2
      <4> QED
        BY <3>1, <3>4, <4>2, <4>3 DEF ReqType, Sdesc
    <3> QED
      BY <3>5, <3>6
  <2>5. fill.own \in Reqs \cup {None}
    BY <1>1, FillTypes
  <2> QED
    BY <1>1, <2>2, <2>3, <2>4, <2>5 DEF TypeOK, BaseOK
<1> QED
  BY RingHolds, ModeKnown, <1>1, PTL
=============================================================================
