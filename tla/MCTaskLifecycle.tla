-------------------------- MODULE MCTaskLifecycle --------------------------
(* Instances of TaskLifecycle for TLC.  MCNext bounds crashes and          *)
(* cancellations together; no fair action counts as one of them.  The two  *)
(* tasks are alike: t1 is the one that is created first.                   *)
EXTENDS TaskLifecycle

CONSTANTS t1, t2, MaxEvents

MCNext ==
  /\ Next
  /\ crashes' + cancels' <= MaxEvents
  /\ creator' = t2 => status'[t1] # "NONE"
MCSpec == Init /\ [][MCNext]_vars /\ Fairness

=============================================================================
