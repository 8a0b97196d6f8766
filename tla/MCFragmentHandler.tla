------------------------- MODULE MCFragmentHandler -------------------------
(* FragmentHandler for TLC. *)
EXTENDS FragmentHandler

\* Bound on the states to go on from: one source has stalled at most, and none if a
\* complete flush found fragments.
FewTroubles == Cardinality(stalled) <= 1 /\ (stalled = {} \/ "flush" \notin past)
=============================================================================
