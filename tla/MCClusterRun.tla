---------------------------- MODULE MCClusterRun ----------------------------
(* Instances of ClusterRun for TLC: i1 is executed on the main server, i2  *)
(* by a remote worker.  MCNext bounds crashes, failed downloads and, which *)
(* count for two, cancellations together; no fair action counts as one of  *)
(* them.  The second fault strikes the retry of the first: with two        *)
(* attempts, they then run out.                                            *)
EXTENDS ClusterRun

CONSTANTS i1, i2, MaxEvents

Events == crashes + 2 * cancels + fetchFails
MCNext ==
  /\ Next
  /\ Events' <= MaxEvents
  /\ Events' > Events /\ Events > 0 =>
       \E i \in Items : job[i].attempts > 0 /\ exec'[i] # exec[i]
MCSpec == Init /\ [][MCNext]_vars /\ Fairness

=============================================================================
