------------------------------- MODULE MCDbuf -------------------------------
(***************************************************************************)
(* Model checking instance of Dbuf.                                        *)
(***************************************************************************)
EXTENDS Dbuf, TLC

\* DMA addresses are interchangeable; used by the safety runs only.
Symmetry == Permutations(Bufs)
=============================================================================
