-------------------------- MODULE TransferService ---------------------------
(***************************************************************************)
(* What xdma_xfer_submit() promises its callers, without engine, interrupt *)
(* or ring: callers are served one at a time, a caller gets its data piece *)
(* by piece, and when its service ends, for whatever reason, it is told    *)
(* how much that was, or an error when it was nothing.  A caller that is   *)
(* told less than it asked for cannot tell an end of packet from an error. *)
(* XdmaEngine implements it.                                               *)
(***************************************************************************)
EXTENDS Naturals

CONSTANTS
  Callers,  \* the blocking requests
  MaxReq,   \* largest number of descriptors in a request
  None      \* nobody

VARIABLES
  phase,  \* of each caller: idle, waiting, serving, count, error
  want,   \* descriptors the caller asked for
  got,    \* descriptors delivered to it
  told,   \* the count the caller is told
  owner,  \* the caller being served
  broken  \* the engine holds memory of a caller that was sent away: no promises

vars == <<phase, want, got, told, owner, broken>>

Init ==
  /\ phase = [c \in Callers |-> "idle"]
  /\ want = [c \in Callers |-> 0]
  /\ got = [c \in Callers |-> 0]
  /\ told = [c \in Callers |-> 0]
  /\ owner = None
  /\ broken = FALSE

Step(c, from, to) == phase[c] = from /\ phase' = [phase EXCEPT ![c] = to]

Request(c) ==
  /\ Step(c, "idle", "waiting")
  /\ \E n \in 1..MaxReq : want' = [want EXCEPT ![c] = n]
  /\ UNCHANGED <<got, told, owner, broken>>

Grant(c) ==
  /\ owner = None
  /\ Step(c, "waiting", "serving")
  /\ owner' = c
  /\ UNCHANGED <<want, got, told, broken>>

\* Data arrives for the caller being served and for nobody else.
Deliver(c) ==
  /\ phase[c] = "serving"
  /\ \E k \in 1..MaxReq :
        /\ got[c] + k <= want[c]
        /\ got' = [got EXCEPT ![c] = @ + k]
  /\ UNCHANGED <<phase, want, told, owner, broken>>

\* The service ends, complete or not.
Answer(c) ==
  /\ Step(c, "serving", IF got[c] > 0 THEN "count" ELSE "error")
  /\ told' = [told EXCEPT ![c] = got[c]]
  /\ UNCHANGED <<want, got, owner, broken>>

Return(c) ==
  /\ Step(c, "count", "idle") \/ Step(c, "error", "idle")
  /\ want' = [want EXCEPT ![c] = 0]
  /\ got' = [got EXCEPT ![c] = 0]
  /\ told' = [told EXCEPT ![c] = 0]
  /\ owner' = None
  /\ UNCHANGED broken

Next ==
  \E c \in Callers :
    Request(c) \/ Grant(c) \/ Deliver(c) \/ Answer(c) \/ Return(c)

\* Nothing is promised once the engine is broken.
Promised == Next \/ broken'

Spec == Init /\ [][Promised]_vars
=============================================================================
