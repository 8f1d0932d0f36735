------------------------------- MODULE MCRing -------------------------------
(* Instances of Ring for TLC.                                              *)
EXTENDS Ring, TLC

\* Requests are interchangeable.
Symmetry == Permutations(Reqs)

\* Nothing is claimed once more entries are taken than the ring has.
WithinRing == ~over

\* Lists of 1 to 3 descriptors; aperture lists go on in their first entry and,
\* when they meet the end of the ring there, also in a later one.
SmallLists == {<<1>>, <<3>>, <<2, 3>>}
WideLists == {<<5>>, <<3, 2>>}

\* Lists of 3 and of 4 descriptors: each fits the ring.
FittingLists == {<<2, 3>>, <<3, 4>>}
=============================================================================
