---------------------------- MODULE MCDinsarRun ----------------------------
(* Instances of DinsarRun for TLC: two runs, of two items and of one.  The *)
(* listing closes the first; the second competes for the engine.           *)
EXTENDS DinsarRun, TLC

CONSTANTS r1, r2

TwoAndOne == r1 :> 2 @@ r2 :> 1
MCNext == Next /\ lister'.of # r2
MCSpec == Init /\ [][MCNext]_vars /\ \A r \in Runs : WF_vars(Work(r))
=============================================================================
