---------------------------- MODULE MCJobQueue ----------------------------
(* Small instances of JobQueue for TLC.                                    *)
EXTENDS JobQueue, TLC

CONSTANTS w1, w2, s1, s2

\* Two workers with one slot each, two jobs.
TwoWorkers == s1 :> w1 @@ s2 :> w2

TwoPriorities == 1 :> 0 @@ 2 :> 5
TwoMax == 1 :> 2 @@ 2 :> 1
\* The second worker is started with JOB_WORKER_ALLOWED_TYPES.
SecondRestricted == w1 :> Jobs @@ w2 :> {1}
=============================================================================
