--------------------------- MODULE MCTripLifecycle ---------------------------
(* The constants TLC gives TripLifecycle. *)
EXTENDS TripLifecycle, TLC

\* Sound for the safety runs only.
Symmetry ==
  Permutations(Trips) \union Permutations(Runs) \union Permutations(Requests)
=============================================================================
