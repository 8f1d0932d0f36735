---------------------------- MODULE MCLifecycle -----------------------------
(* Instances of Lifecycle for TLC. *)
EXTENDS Lifecycle, TLC

\* Devices are interchangeable.
Symmetry == Permutations(Dev)
=============================================================================
