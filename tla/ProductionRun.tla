--------------------------- MODULE ProductionRun ---------------------------
(***************************************************************************)
(* What production runs promise to the users who read their rows and those *)
(* of their items (services/dinsar_production_service.py), whoever carries *)
(* them out: the controller of DinsarRun or the handlers of ClusterRun.    *)
(* An item begins once, ends once and keeps its result; a run is called    *)
(* successful only when its items are, and cancelled only on request; a    *)
(* closed run is not opened again, and a request is not forgotten.         *)
(***************************************************************************)
CONSTANT Runs

VARIABLES
  status,    \* status of the dinsar_production_runs rows
  flagged,   \* cancel_requested of the rows
  item,      \* status of the items of each run
  unseen,    \* items whose failure their run may overlook
  disturbed, \* runs that a listing has closed, or a worker has left while the
             \* server was still registering a product
  presumed   \* runs whose job was recovered

vars == <<status, flagged, item, unseen, disturbed, presumed>>

Ended == {"COMPLETED", "FAILED", "CANCELLED"}
Final == {"COMPLETED", "PARTIAL_SUCCESS", "FAILED", "CANCELLED"}

Init ==
  /\ status \in [Runs -> {"NONE", "PENDING"}]
  /\ flagged = [r \in Runs |-> FALSE]
  /\ \A r \in Runs : \A i \in DOMAIN item[r] : item[r][i] = "PENDING"
  /\ disturbed = {} /\ presumed = {}

\* The items of r, and the requests, justify the final status s.
Justified(r, s) ==
  /\ s = "COMPLETED" => \A i \in DOMAIN item[r] :
       \/ item[r][i] = "COMPLETED"
       \/ item[r][i] = "FAILED" /\ i \in unseen[r]
  /\ s = "PARTIAL_SUCCESS" =>
       /\ \A i \in DOMAIN item[r] : item[r][i] \in Ended
       /\ {"COMPLETED", "FAILED"} \subseteq {item[r][i] : i \in DOMAIN item[r]}
  /\ s = "CANCELLED" => flagged[r]

-----------------------------------------------------------------------------
Becomes(r, i, s) == item' = [item EXCEPT ![r][i] = s]

Begin(r, i) ==
  /\ item[r][i] = "PENDING"
  /\ Becomes(r, i, "RUNNING")

\* Only an item that has begun has a result.
End(r, i, s) ==
  /\ item[r][i] = "RUNNING" \/ (item[r][i] = "PENDING" /\ s = "CANCELLED")
  /\ s = "CANCELLED" => flagged'[r]
  /\ Becomes(r, i, s)

\* The late upload of a worker that is gone, or its item taken up once more.
Revise(r, i, s) ==
  /\ r \in disturbed /\ item[r][i] \in Ended
  /\ Becomes(r, i, s)

ItemMove(r) ==
  \/ UNCHANGED item
  \/ \E i \in DOMAIN item[r] :
       Begin(r, i) \/ \E s \in Ended : End(r, i, s) \/ Revise(r, i, s)

Called(r, s) == status' = [status EXCEPT ![r] = s]

Create(r) == status[r] = "NONE" /\ Called(r, "PENDING")
Start(r) == status[r] = "PENDING" /\ Called(r, "RUNNING")

\* A status justified by the rows as this step leaves them.
Close(r, s) ==
  /\ Justified(r, s)' \/ r \in disturbed'
  /\ Called(r, s)

Reopen(r) ==
  /\ status[r] \in Final
  /\ flagged[r] \/ r \in disturbed \/ r \in presumed
  /\ Called(r, "RUNNING")

StatusMove(r) ==
  UNCHANGED status \/ Create(r) \/ Start(r) \/ Reopen(r) \/ \E s \in Final : Close(r, s)

\* One commit may write several columns, and the item of its run with them.
Next ==
  \E r \in Runs :
    /\ ItemMove(r) /\ StatusMove(r)
    /\ flagged' \in {flagged, [flagged EXCEPT ![r] = TRUE]}
    /\ disturbed' \in {disturbed, disturbed \cup {r}}
    /\ presumed' \in {presumed, presumed \cup {r}}
    /\ UNCHANGED unseen

Spec == Init /\ [][Next]_vars

=============================================================================
