----------------------------- MODULE MCWorkflow -----------------------------
(* Small instances of Workflow for TLC.                                    *)
EXTENDS Workflow, TLC

CONSTANTS a, b, c, d, e1, e2, c1, c2

\* a before b and c, both before d.
Diamond == a :> {} @@ b :> {a} @@ c :> {a} @@ d :> {b, c}
\* Two steps that join.
Join == a :> {} @@ b :> {} @@ c :> {a, b}
=============================================================================
