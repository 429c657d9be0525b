------------------------- MODULE MCResultDelivery -------------------------
EXTENDS ResultDelivery, TLC

CONSTANT MaxEvents

OnePair == (1 :> "a") @@ (2 :> "a")
OnePath == (1 :> "x") @@ (2 :> "x")

\* A clean-up, of rows and then of packages, counts for two.
Events == jobs + labels + 2 * cleanups + boots + crashes + asked
\* Overlapping rebuilds leave next to nothing to be said of a delivery: it takes
\* no step after them.
MCNext ==
  /\ DeliveryNext
  /\ Events' > Events => Events' <= MaxEvents
  /\ overlapped => UNCHANGED delivery
MCSpec == DeliveryInit /\ [][MCNext]_allvars
Symm == Permutations(Sessions)
=============================================================================
