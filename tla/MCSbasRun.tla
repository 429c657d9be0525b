------------------------------ MODULE MCSbasRun ------------------------------
(* Instances of SbasRun for TLC.  The threads are interchangeable.  MCNext *)
(* bounds jobs and faults together: three jobs take a run from its network *)
(* to the interferograms, or two jobs and a fault happen to it; and only   *)
(* two jobs while the expert workflow is used in a run that was audited.   *)
EXTENDS SbasRun, TLC

CONSTANTS e1, e2, MaxEvents

SlotSymmetry == Permutations(Slots)

AllOrLast == {Steps, {LastStep}}

Events == submitted + faults
ExpertWaits == \E o \in queue : o.kind = "workflow"
ExpertWorks == \E e \in Slots : slot[e].kind = "workflow"
Expert == ExpertWaits \/ ExpertWorks \/ steps # Pending
MCNext ==
  /\ Next
  /\ Events' <= MaxEvents
  /\ audits' > 0 /\ Expert' => submitted' < MaxEvents
MCSpec == Init /\ [][MCNext]_vars

=============================================================================
