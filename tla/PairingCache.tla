---------------------------- MODULE PairingCache ----------------------------
(***************************************************************************)
(* The cache of candidate pairs (services/pairing_state_service.py and     *)
(* pairing_cache_service.py) with those who write beside it.               *)
(*                                                                         *)
(* Scans write scenes and mark them dirty, a job computes the rows of the  *)
(* pairs, and the planning of productions reads the rows and is told       *)
(* whether to trust them.  An inventory scan changes a scene and marks it  *)
(* in one transaction; the older radar scan (Scanner) commits the scene    *)
(* first and marks it in a second transaction.  The job commits REBUILDING *)
(* and then does everything else in one transaction whose statements each  *)
(* see what is committed when they start: it computes, resolves the dirty  *)
(* marks, counts what is left of them and commits, with pauses (progress   *)
(* reports, hours of geometry) between its statements.                     *)
(*                                                                         *)
(* What a row says is abstracted to the contents of the two scenes it was  *)
(* computed from.  There is one job at a time (its task type is exclusive, *)
(* TaskLifecycle) and it has one attempt.                                  *)
(***************************************************************************)
EXTENDS Naturals, FiniteSets

CONSTANTS
  Scene,            \* scenes the inventories may find
  Writer,           \* transactions of scans, one scene in each
  Scanner,          \* those of the radar scan; the others are inventories
  Content,          \* values of the fields that pairs depend on
  Usable,           \* contents that pass the hard constraints
  Absent,           \* of a scene that is not in the database
  RatioPart,        \* 1 / FULL_REBUILD_DIRTY_SCENE_RATIO
  DirtyThreshold,   \* FULL_REBUILD_DIRTY_SCENE_THRESHOLD
  MaxChanges        \* bound: writes of scenes

ASSUME ScannerAssumption == Scanner \subseteq Writer
ASSUME UsableAssumption == Usable \subseteq Content
ASSUME AbsentAssumption == Absent \notin Content
ASSUME FullAssumption == RatioPart \in Nat \ {0} /\ DirtyThreshold \in Nat \ {0}
ASSUME ChangesAssumption == MaxChanges \in Nat

VARIABLES
  scene,      \* radar_data: the content of every scene
  rows,       \* pairing_metric_cache: for a pair, what its row was made from
  pending,    \* scenes with a PENDING row in pairing_dirty_scenes
  status,     \* pairing_cache_state.status
  writer,     \* the open scan transactions
  job,        \* the handler of PAIRING_CACHE_REBUILD
  slipped,    \* history: scenes whose last change no mark announces
  changes     \* number of scenes written, up to MaxChanges

vars == <<scene, rows, pending, status, writer, job, slipped, changes>>

-----------------------------------------------------------------------------
(* Pairs and their rows.                                                   *)

Pair == {p \in SUBSET Scene : \E a, b \in p : a # b /\ p = {a, b}}
NoRow == <<>>
Row == (UNION {[p -> Usable] : p \in Pair}) \cup {NoRow}

\* The row the SQL of either insertion computes for p from the scenes sc.
RowOf(sc, p) == IF \A t \in p : sc[t] \in Usable
                THEN [t \in p |-> sc[t]] ELSE NoRow
NoPairs(R) == \A p \in Pair : R[p] = NoRow

Statuses == {"READY", "DIRTY", "REBUILDING", "FAILED"}

\* _cache_requires_rebuild, for the marks dirty and the rows R a session sees.
SeveralScenes == Cardinality({s \in Scene : scene[s] # Absent}) > 1
RequiresRebuild(dirty, R) == dirty # {} \/ (SeveralScenes /\ NoPairs(R))

\* _effective_status and ensure_pairing_cache_state: DIRTY without a reason
\* is READY; the latter also turns READY with a reason into DIRTY.
Normal == IF status = "DIRTY" /\ ~RequiresRebuild(pending, rows)
          THEN "READY" ELSE status
Ensured == IF status = "READY" /\ RequiresRebuild(pending, rows)
           THEN "DIRTY" ELSE Normal

\* needs_rebuild of _build_state_payload; find_dinsar_pairs adds a warning
\* then, or refuses, and answers without either otherwise.
NeedsRebuild == \/ RequiresRebuild(pending, rows)
                \/ Normal \in {"DIRTY", "FAILED"}
Silent == ~NeedsRebuild

-----------------------------------------------------------------------------
(* Scans.                                                                  *)

Idle == [at |-> "idle"]
OpenWriter == [at : {"written", "marked"}, s : Scene, c : Content,
               adds : BOOLEAN, view : Statuses]

\* Scenes a radar scan has written and not marked yet.
Unmarked == {s \in Scene : \E w \in Scanner :
                            writer[w].at # "idle" /\ writer[w].s = s}

\* An inventory holds the row of the scene until it commits.
RowLocked(s) == \E w \in Writer \ Scanner :
                  writer[w].at # "idle" /\ writer[w].s = s

\* The job has begun to compute: what changes now, it may have read before.
Computing == job.at \in {"inserting", "computed", "resolved", "judged"}
ChangeSeenBy(j, s) == IF Computing THEN [j EXCEPT !.late = @ \cup {s}] ELSE j

\* mark_scenes_dirty, up to the commit: no second PENDING row for a scene.
Marked(s, c) == [at |-> "marked", s |-> s, c |-> c,
                 adds |-> s \notin pending, view |-> status]

\* _upsert_radar_records_for_source_assets: a new scene, or one of which a
\* pairing field has changed, is written and marked.
InventoryMark(w, s, c) ==
  /\ w \in Writer \ Scanner /\ writer[w] = Idle
  /\ c # scene[s] /\ ~RowLocked(s)
  /\ writer' = [writer EXCEPT ![w] = Marked(s, c)]
  /\ changes < MaxChanges /\ changes' = changes + 1
  /\ UNCHANGED <<scene, rows, pending, status, job, slipped>>

\* scan_radar_data up to its first commit; it writes whatever it finds.
ScanWrite(w, s, c) ==
  /\ w \in Scanner /\ writer[w] = Idle /\ ~RowLocked(s)
  /\ scene' = [scene EXCEPT ![s] = c]
  /\ writer' = [writer EXCEPT ![w] = [at |-> "written", s |-> s, c |-> c,
                                      adds |-> FALSE, view |-> status]]
  /\ job' = ChangeSeenBy(job, s)
  /\ changes < MaxChanges /\ changes' = changes + 1
  /\ UNCHANGED <<rows, pending, status, slipped>>

ScanMark(w) ==
  /\ w \in Scanner /\ writer[w].at = "written"
  /\ writer' = [writer EXCEPT ![w] = Marked(writer[w].s, writer[w].c)]
  /\ UNCHANGED <<scene, rows, pending, status, job, slipped, changes>>

\* The commit of the marks, and of the scene in the case of an inventory.  A
\* mark that is added after the job's UPDATE is not among those it resolves;
\* one that was not added may have been resolved since it was read.
MarkCommit(w) ==
  LET s == writer[w].s
      adds == writer[w].adds
      seen == IF w \in Scanner THEN job ELSE ChangeSeenBy(job, s)
  IN /\ writer[w].at = "marked"
     /\ scene' = IF w \in Scanner THEN scene
                 ELSE [scene EXCEPT ![s] = writer[w].c]
     /\ pending' = IF adds THEN pending \cup {s} ELSE pending
     /\ job' = IF adds /\ job.at # "idle"
               THEN [seen EXCEPT !.resolved = @ \ {s}] ELSE seen
     /\ status' = IF writer[w].view = "DIRTY" THEN status ELSE "DIRTY"
     /\ slipped' = IF adds THEN slipped ELSE slipped \cup ({s} \ pending)
     /\ writer' = [writer EXCEPT ![w] = Idle]
     /\ UNCHANGED <<rows, changes>>

\* The process of a scan ends, or an exception does: what is not committed is
\* gone.  The radar scan passes its scenes by the next time, because the scan
\* state it committed with them is as new as they are.
ScanDies(w) ==
  /\ writer[w] # Idle
  /\ slipped' = IF w \in Scanner THEN slipped \cup ({writer[w].s} \ pending)
                ELSE slipped
  /\ writer' = [writer EXCEPT ![w] = Idle]
  /\ UNCHANGED <<scene, rows, pending, status, job, changes>>

-----------------------------------------------------------------------------
(* The job.                                                                *)

OpenJob == [at : {"computing", "inserting", "computed", "resolved", "judged"},
            full : BOOLEAN, dirty : SUBSET Scene, todo : SUBSET Scene,
            rows : [Pair -> Row],
            resolved : SUBSET Scene, late : SUBSET Scene,
            verdict : Statuses, view : Statuses]

Begun(at, full, dirty, R) ==
  [at |-> at, full |-> full, dirty |-> dirty, todo |-> dirty, rows |-> R,
   resolved |-> {}, late |-> {}, verdict |-> "READY", view |-> status]

\* rebuild_metric_cache up to its first commit.
BeginFull ==
  /\ job' = Begun("computing", TRUE, {}, rows)
  /\ status' = "REBUILDING"
  /\ UNCHANGED <<scene, rows, pending, writer, slipped, changes>>

\* _should_full_rebuild without force_full.
ShouldFull ==
  \/ NoPairs(rows) /\ SeveralScenes
  \/ Cardinality(pending) >= DirtyThreshold
  \/ /\ \E s \in Scene : scene[s] # Absent
     /\ Cardinality(pending) * RatioPart
          >= Cardinality({s \in Scene : scene[s] # Absent})

\* The administrator may ask for a full rebuild at any time.
Rebuild == job = Idle /\ BeginFull

\* Variant of Reconcile: the rows of the dirty scenes are not deleted first,
\* so that ON CONFLICT DO NOTHING keeps them.
ReconcileKeeping ==
  /\ job = Idle
  /\ \/ ShouldFull /\ BeginFull
     \/ /\ ~ShouldFull /\ pending # {}
        /\ job' = Begun("computing", FALSE, pending, rows)
        /\ status' = "REBUILDING"
        /\ UNCHANGED <<scene, rows, pending, writer, slipped, changes>>

\* reconcile_dirty_scenes: all, nothing or the scenes that are dirty.  The
\* incremental way deletes the rows of these scenes first.
Reconcile ==
  /\ job = Idle
  /\ \/ ShouldFull /\ BeginFull
     \/ /\ ~ShouldFull /\ pending = {}
        /\ job' = Begun("resolved", FALSE, {}, rows)
        /\ UNCHANGED <<scene, rows, pending, status, writer, slipped, changes>>
     \/ /\ ~ShouldFull /\ pending # {}
        /\ job' = Begun("computing", FALSE, pending,
                        [p \in Pair |-> IF p \cap pending # {} THEN NoRow
                                        ELSE rows[p]])
        /\ status' = "REBUILDING"
        /\ UNCHANGED <<scene, rows, pending, writer, slipped, changes>>

\* DELETE of all rows and INSERT of all pairs of the scenes as committed now.
ComputeAll ==
  /\ job.at = "computing" /\ job.full
  /\ job' = [job EXCEPT !.at = "computed",
                        !.rows = [p \in Pair |-> RowOf(scene, p)]]
  /\ UNCHANGED <<scene, rows, pending, status, writer, slipped, changes>>

\* INSERT of the pairs of one dirty scene, ON CONFLICT DO NOTHING.
ComputeScene(d) ==
  /\ job.at \in {"computing", "inserting"} /\ ~job.full /\ d \in job.todo
  /\ job' = [job EXCEPT
       !.at = IF job.todo = {d} THEN "computed" ELSE "inserting",
       !.todo = @ \ {d},
       !.rows = [p \in Pair |-> IF d \in p /\ job.rows[p] = NoRow
                                THEN RowOf(scene, p) ELSE job.rows[p]]]
  /\ UNCHANGED <<scene, rows, pending, status, writer, slipped, changes>>

\* Variant of ResolveDirty: the UPDATE is not restricted to the scenes that
\* were computed.
ResolveEvery ==
  /\ job.at = "computed"
  /\ job' = [job EXCEPT !.at = "resolved", !.resolved = pending]
  /\ UNCHANGED <<scene, rows, pending, status, writer, slipped, changes>>

\* _resolve_dirty_rows: every PENDING row, or those of the dirty scenes.
ResolveDirty ==
  /\ job.at = "computed"
  /\ job' = [job EXCEPT !.at = "resolved",
               !.resolved = IF job.full THEN pending ELSE pending \cap job.dirty]
  /\ UNCHANGED <<scene, rows, pending, status, writer, slipped, changes>>

\* _finalize_state_success: counts, decides and assigns.
Judge ==
  /\ job.at = "resolved"
  /\ job' = [job EXCEPT !.at = "judged", !.view = status,
               !.verdict = IF RequiresRebuild(pending \ job.resolved, job.rows)
                           THEN "DIRTY" ELSE "READY"]
  /\ UNCHANGED <<scene, rows, pending, status, writer, slipped, changes>>

\* The commit.  The session leaves out a status equal to the one it loaded.
\* A scene that changed after the computation began, and whose mark is
\* resolved nevertheless, has slipped; one that was computed has not.
JobCommit ==
  LET computed == (IF job.full THEN Scene ELSE job.dirty) \ job.late
  IN /\ job.at = "judged"
     /\ rows' = job.rows
     /\ pending' = pending \ job.resolved
     /\ status' = IF job.verdict = job.view THEN status ELSE job.verdict
     /\ slipped' = (slipped \ computed) \cup (job.resolved \cap job.late)
     /\ job' = Idle
     /\ UNCHANGED <<scene, writer, changes>>

\* The except branch: rollback, _finalize_state_failure.  The reconciliation
\* that found nothing to do has no such branch.
JobFails ==
  /\ job # Idle /\ (job.full \/ job.dirty # {})
  /\ status' = "FAILED" /\ job' = Idle
  /\ UNCHANGED <<scene, rows, pending, writer, slipped, changes>>

\* The worker dies; the status stays as it is.
JobDies ==
  /\ job # Idle /\ job' = Idle
  /\ UNCHANGED <<scene, rows, pending, status, writer, slipped, changes>>

\* bootstrap_pairing_cache_state, when the server starts.
Bootstrap ==
  /\ status' = Ensured
  /\ UNCHANGED <<scene, rows, pending, writer, job, slipped, changes>>

-----------------------------------------------------------------------------

\* A cache that has just been computed for the scenes there are.
Init ==
  /\ scene \in [Scene -> Content \cup {Absent}]
  /\ rows = [p \in Pair |-> RowOf(scene, p)]
  /\ pending = {} /\ slipped = {} /\ changes = 0
  /\ status = IF RequiresRebuild(pending, rows) THEN "DIRTY" ELSE "READY"
  /\ writer = [w \in Writer |-> Idle]
  /\ job = Idle

ScanStep(w) == \/ \E s \in Scene, c \in Content :
                    InventoryMark(w, s, c) \/ ScanWrite(w, s, c)
               \/ ScanMark(w) \/ MarkCommit(w) \/ ScanDies(w)

JobStep == \/ Rebuild \/ Reconcile \/ ComputeAll
           \/ \E d \in Scene : ComputeScene(d)
           \/ ResolveDirty \/ Judge \/ JobCommit \/ JobFails \/ JobDies

Next == (\E w \in Writer : ScanStep(w)) \/ JobStep \/ Bootstrap

Spec == Init /\ [][Next]_vars

-----------------------------------------------------------------------------
(* Properties.                                                             *)

Exempt == slipped \cup Unmarked

TypeOK ==
  /\ scene \in [Scene -> Content \cup {Absent}]
  /\ rows \in [Pair -> Row]
  /\ pending \subseteq Scene /\ slipped \subseteq Scene
  /\ status \in Statuses /\ changes \in 0..MaxChanges
  /\ writer \in [Writer -> {Idle} \cup OpenWriter]
  /\ job \in {Idle} \cup OpenJob

\* Unless a scene has no mark because of a race, the row of a pair is that of
\* its scenes as they are.
RowsTrue == \A p \in Pair : p \cap (pending \cup Exempt) = {}
                              => rows[p] = RowOf(scene, p)

\* What changes under a job is announced, or known to have slipped.
LateAnnounced == Computing => job.late \subseteq pending \cup Exempt

\* What the transaction of a full job holds: the pairs of the scenes that
\* have not changed since.
FullTrue == Computing /\ job.full =>
  \A p \in Pair : p \cap job.late = {} => job.rows[p] = RowOf(scene, p)

\* What that of an incremental job holds: the pairs of the scenes it has
\* treated, none of those it has yet to treat, the others as they were.
DirtyTrue == job.at # "idle" /\ ~job.full =>
  /\ job.dirty \subseteq pending /\ job.todo \subseteq job.dirty
  /\ job.resolved \subseteq job.dirty
  /\ \A p \in Pair :
       /\ p \cap job.dirty = {} => job.rows[p] = rows[p]
       /\ p \cap (job.dirty \ job.todo) # {} /\ p \cap job.late = {}
            => job.rows[p] = RowOf(scene, p)
       /\ p \cap job.dirty # {} /\ p \cap (job.dirty \ job.todo) = {}
            => job.rows[p] = NoRow

\* Where the stages of the job are.
Stages == job.at # "idle" =>
  /\ job.full => job.dirty = {} /\ job.todo = {}
  /\ job.at = "computing" => job.late = {} /\ job.todo = job.dirty
  /\ job.at \in {"computed", "resolved", "judged"} => job.todo = {}
  /\ job.resolved \subseteq pending
  /\ job.at \in {"computing", "inserting", "computed"} => job.resolved = {}

\* What a job has computed and not committed is true of the scenes, unless they
\* have changed since; and what changed since is marked after the job, or has
\* slipped: the inductive invariant.
PairingInv == TypeOK /\ RowsTrue /\ LateAnnounced /\ FullTrue /\ DirtyTrue /\ Stages

\* A planner that gets pairs without a warning gets those of the scenes as
\* they are, but for the scenes that have slipped.
CacheTrue == Silent => \A p \in Pair : p \cap Exempt = {} => rows[p] = RowOf(scene, p)
=============================================================================
