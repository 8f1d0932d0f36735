---------------------------- MODULE MCXdmaEngine ----------------------------
(***************************************************************************)
(* Model checking instance of XdmaEngine.                                  *)
(***************************************************************************)
EXTENDS XdmaEngine, TLC

\* Requests of one kind are interchangeable; used by the safety runs only.
Symmetry == Permutations(Sync) \cup Permutations(Async)

\* No run goes on after a freed transfer was left in transfer_list: every
\* property of those runs that speaks of blocking callers gives up there.  A
\* behaviour that is cut off here satisfies SubmitReturns.
NothingLost == ~lost
=============================================================================
