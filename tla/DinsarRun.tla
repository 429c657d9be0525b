----------------------------- MODULE DinsarRun -----------------------------
(***************************************************************************)
(* D-InSAR production runs of one engine: each is one job, whose           *)
(* controller (_run_dinsar_production_controller for ENVI,                 *)
(* _run_wsl_dinsar_production_controller for the engines under WSL, both   *)
(* in services/job_handlers.py) walks through the items of the run under   *)
(* the lock of the engine (services/engine_lock_service.py).  Runs of one  *)
(* task type exclude each other by their tasks; a task may be closed while *)
(* its controller still works, and then only the engine lock is left.      *)
(*                                                                         *)
(* The session of a controller keeps the run as it has loaded it           *)
(* (expire_on_commit=False), writes the columns it has changed, and counts *)
(* items in the database without flushing its own changes first            *)
(* (autoflush=False in database.py).  An update_task without a status      *)
(* leaves the task alone; the others are one step, as in ClusterRun.  The  *)
(* job has a single attempt (create_run), so no item is met that was       *)
(* executed before.                                                        *)
(***************************************************************************)
EXTENDS Integers, FiniteSets

CONSTANTS
  Runs,         \* production runs of one engine
  Size,         \* number of items of each run
  NoRun,
  MaxEvents     \* bound on force-cancel requests, on workers that die, on lock
                \* connections that are lost and on recoveries of a job whose
                \* controller is alive, all together

ASSUME RunsAssumption == NoRun \notin Runs /\ Size \in [Runs -> Nat \ {0}]
ASSUME DinsarBounds == MaxEvents \in Nat

VARIABLES
  engine,    \* which controller the runs have
  run,       \* columns of the dinsar_production_runs rows
  item,      \* status of the items of each run
  task,      \* status of the task of each run, "NONE" before create_run
  job,       \* status of its job
  exec,      \* its controller coroutine
  holder,    \* the run whose connection holds the advisory lock
  admin,     \* the force-cancel request under way for each run
  lister,    \* the run a listing has loaded, its view of it and what it will write
  events,    \* force-cancels and faults so far
  crashed,   \* history: runs whose worker died
  lost,      \* history: runs whose lock connection was lost
  presumed,  \* history: runs whose job was recovered
  late,      \* history: items each run began although it was flagged
  outdated   \* history: runs a listing wrote a count into that was no longer true

history == <<crashed, lost, presumed, late, outdated>>
vars == <<engine, run, item, task, job, exec, holder, admin, lister,
          events, history>>

FinalStatuses == {"COMPLETED", "PARTIAL_SUCCESS", "FAILED", "CANCELLED"}
Statuses == {"NONE", "PENDING", "RUNNING"} \cup FinalStatuses
JobStatuses == {"NONE", "READY", "RUNNING", "COMPLETED", "FAILED"}
ItemTerminal == {"COMPLETED", "FAILED", "CANCELLED"}
ItemStatuses == {"PENDING", "RUNNING"} \cup ItemTerminal

\* completed and failed are the counters of refresh_run_counters.
Row == [status: Statuses, cancel: BOOLEAN, completed: Nat, failed: Nat]
NewRow(status) == [status |-> status, cancel |-> FALSE, completed |-> 0, failed |-> 0]

(* Where a controller is:                                                  *)
(*   claimed, starting    start_task, mark_run_started to do;              *)
(*   waiting              polling for the engine lock;                     *)
(*   looping, checked     next item, not cancelled;                        *)
(*   executing            the engine runs;                                 *)
(*   failing, cancelling  the item is to be failed, cancelled;             *)
(*   leaving              lock to be released;                             *)
(*   publishing, closing  results to be published, run to be judged;       *)
(*   finalizing, reporting   finalize_run, update_task to do;              *)
(*   returned             mark_completed to do;                            *)
(*   raised, excusing     the wrapper has to load the run, to fail it;     *)
(*   failed, settling     it has to fail the task, the worker the job.     *)
Inside == {"looping", "checked", "executing", "failing", "cancelling", "leaving"}
Places == {"idle", "claimed", "starting", "waiting", "publishing", "closing",
           "finalizing", "reporting", "returned", "raised", "excusing",
           "failed", "settling"} \cup Inside

\* view is the run as the session knows it, k the item at hand; some: there are
\* results to publish; error: publishing failed; pid, killed: the engine's
\* process is registered, was killed.
Coroutine == [at: Places, view: Row, k: Nat, some: BOOLEAN, error: BOOLEAN,
              pid: BOOLEAN, killed: BOOLEAN]
Idle == [at |-> "idle", view |-> NewRow("NONE"), k |-> 1, some |-> FALSE,
         error |-> FALSE, pid |-> FALSE, killed |-> FALSE]

\* A listing of the runs has loaded them, knows that the task is closed, or has
\* counted the items.
NoListing == [of |-> NoRun, at |-> "loaded", seen |-> NewRow("NONE"),
              new |-> NewRow("NONE")]

ItemsOf(r) == 1..Size[r]

TypeOK ==
  /\ engine \in {"envi", "wsl"}
  /\ run \in [Runs -> Row]
  /\ \A r \in Runs : item[r] \in [ItemsOf(r) -> ItemStatuses]
  /\ DOMAIN item = Runs
  /\ task \in [Runs -> Statuses]
  /\ job \in [Runs -> JobStatuses]
  /\ exec \in [Runs -> Coroutine]
  /\ holder \in Runs \cup {NoRun}
  /\ admin \in [Runs -> {"", "flagged", "killed"}]
  /\ lister \in [of: Runs \cup {NoRun}, at: {"loaded", "closing", "counted"},
                 seen: Row, new: Row]
  /\ events \in Nat
  /\ crashed \subseteq Runs /\ lost \subseteq Runs /\ presumed \subseteq Runs
  /\ outdated \subseteq Runs
  /\ late \in [Runs -> Nat]

Init ==
  /\ engine \in {"envi", "wsl"}
  /\ run = [r \in Runs |-> NewRow("NONE")]
  /\ item = [r \in Runs |-> [i \in ItemsOf(r) |-> "PENDING"]]
  /\ task = [r \in Runs |-> "NONE"]
  /\ job = [r \in Runs |-> "NONE"]
  /\ exec = [r \in Runs |-> Idle]
  /\ holder = NoRun
  /\ admin = [r \in Runs |-> ""]
  /\ lister = NoListing
  /\ events = 0
  /\ crashed = {} /\ lost = {} /\ presumed = {} /\ outdated = {}
  /\ late = [r \in Runs |-> 0]

-----------------------------------------------------------------------------
(* The session                                                             *)

Having(r, s) == {i \in ItemsOf(r) : item[r][i] = s}
Number(r, s) == Cardinality(Having(r, s))

\* refresh_run_counters: the database is asked, and has not seen what the
\* session is about to write.
Counted(r, row) ==
  [row EXCEPT !.completed = Number(r, "COMPLETED"), !.failed = Number(r, "FAILED")]

\* A commit writes the columns in which new differs from what was loaded.
Merged(row, seen, new) ==
  [status    |-> IF new.status = seen.status THEN row.status ELSE new.status,
   cancel    |-> IF new.cancel = seen.cancel THEN row.cancel ELSE new.cancel,
   completed |-> IF new.completed = seen.completed THEN row.completed ELSE new.completed,
   failed    |-> IF new.failed = seen.failed THEN row.failed ELSE new.failed]

\* The controller of r commits new and goes on at place.
Commit(r, new, place) ==
  /\ run' = [run EXCEPT ![r] = Merged(@, exec[r].view, new)]
  /\ exec' = [exec EXCEPT ![r] = [@ EXCEPT !.at = place, !.view = new]]
Goto(r, place) == exec' = [exec EXCEPT ![r].at = place]

\* _refresh_cancel_state: the run is refreshed, the task read, and the run
\* flagged if its task is cancelled.
Cancelled(r) == run[r].cancel \/ task[r] = "CANCELLED"
Refreshed(r) == [run[r] EXCEPT !.cancel = Cancelled(r)]
Refresh(r, place) ==
  /\ run' = [run EXCEPT ![r] = Refreshed(r)]
  /\ exec' = [exec EXCEPT ![r] = [@ EXCEPT !.at = place, !.view = Refreshed(r)]]

Outside == <<engine, admin, lister, events>>
Quietly == UNCHANGED <<Outside, job, history>>

-----------------------------------------------------------------------------
(* The controller                                                          *)

\* create_run: create_task refuses while another task of the type is active.
Create(r) ==
  /\ task[r] = "NONE"
  /\ \A q \in Runs : task[q] \notin {"PENDING", "RUNNING"}
  /\ task' = [task EXCEPT ![r] = "PENDING"]
  /\ run' = [run EXCEPT ![r] = NewRow("PENDING")]
  /\ job' = [job EXCEPT ![r] = "READY"]
  /\ UNCHANGED <<item, exec, holder, Outside, history>>

Claim(r) ==
  /\ job[r] = "READY"
  /\ job' = [job EXCEPT ![r] = "RUNNING"]
  /\ exec' = [exec EXCEPT ![r] = [Idle EXCEPT !.at = "claimed", !.view = run[r]]]
  /\ UNCHANGED <<run, item, task, holder, Outside, history>>

StartTask(r) ==
  /\ exec[r].at = "claimed"
  /\ task' = [task EXCEPT ![r] = "RUNNING"]
  /\ Goto(r, "starting")
  /\ UNCHANGED <<run, item, holder>> /\ Quietly

StartRun(r) ==
  /\ exec[r].at = "starting"
  /\ Commit(r, Counted(r, [exec[r].view EXCEPT !.status = "RUNNING"]), "waiting")
  /\ UNCHANGED <<item, task, holder>> /\ Quietly

\* Variant of Acquire: the answer of pg_try_advisory_lock is not looked at.
AcquireAnyway(r) ==
  /\ exec[r].at = "waiting"
  /\ holder' = r
  /\ Goto(r, "looping")
  /\ UNCHANGED <<run, item, task>> /\ Quietly

\* pg_try_advisory_lock returns true; until then the controller sleeps and asks
\* again, without a time limit and without looking for a cancellation.
Acquire(r) ==
  /\ exec[r].at = "waiting" /\ holder = NoRun
  /\ holder' = r
  /\ Goto(r, "looping")
  /\ UNCHANGED <<run, item, task>> /\ Quietly

\* Variant of Check: the run is not refreshed.
CheckStale(r) ==
  /\ exec[r].at = "looping" /\ exec[r].k \in ItemsOf(r)
  /\ Goto(r, IF exec[r].view.cancel THEN "leaving" ELSE "checked")
  /\ UNCHANGED <<run, item, task, holder>> /\ Quietly

\* Before each item the controller looks for a cancellation.
Check(r) ==
  /\ exec[r].at = "looping" /\ exec[r].k \in ItemsOf(r)
  /\ Refresh(r, IF Cancelled(r) THEN "leaving" ELSE "checked")
  /\ UNCHANGED <<item, task, holder>> /\ Quietly

\* begin_item_execution.
Begin(r) ==
  /\ exec[r].at = "checked"
  /\ item' = [item EXCEPT ![r][exec[r].k] = "RUNNING"]
  /\ run' = [run EXCEPT ![r] =
       Merged(@, exec[r].view, [exec[r].view EXCEPT !.status = "RUNNING"])]
  /\ exec' = [exec EXCEPT ![r] =
       [@ EXCEPT !.at = "executing", !.view.status = "RUNNING"]]
  /\ late' = IF run[r].cancel THEN [late EXCEPT ![r] = @ + 1] ELSE late
  /\ UNCHANGED <<task, job, holder, Outside, crashed, lost, presumed, outdated>>

\* Only the ENVI controller stores the process of the engine.
RegisterPid(r) ==
  /\ engine = "envi" /\ exec[r].at = "executing" /\ ~exec[r].pid
  /\ exec' = [exec EXCEPT ![r].pid = TRUE]
  /\ UNCHANGED <<run, item, task, holder>> /\ Quietly

\* mark_item_completed.
ItemDone(r) ==
  /\ exec[r].at = "executing" /\ ~exec[r].killed
  /\ item' = [item EXCEPT ![r][exec[r].k] = "COMPLETED"]
  /\ run' = [run EXCEPT ![r] = Merged(@, exec[r].view, Counted(r, exec[r].view))]
  /\ exec' = [exec EXCEPT ![r] =
       [@ EXCEPT !.at = "looping", !.view = Counted(r, exec[r].view),
                 !.k = exec[r].k + 1, !.some = TRUE, !.pid = FALSE]]
  /\ UNCHANGED <<task, holder>> /\ Quietly

\* The engine fails or is killed, or its result is unusable.
ItemRaises(r) ==
  /\ exec[r].at = "executing"
  /\ run' = [run EXCEPT ![r] = Refreshed(r)]
  /\ exec' = [exec EXCEPT ![r] =
       [@ EXCEPT !.at = IF Cancelled(r) THEN "cancelling" ELSE "failing",
                 !.view = Refreshed(r), !.pid = FALSE, !.killed = FALSE]]
  /\ UNCHANGED <<item, task, holder>> /\ Quietly

\* mark_item_failed.
FailItem(r) ==
  /\ exec[r].at = "failing"
  /\ item' = [item EXCEPT ![r][exec[r].k] = "FAILED"]
  /\ run' = [run EXCEPT ![r] = Merged(@, exec[r].view, Counted(r, exec[r].view))]
  /\ exec' = [exec EXCEPT ![r] =
       [@ EXCEPT !.at = "looping", !.view = Counted(r, exec[r].view), !.k = exec[r].k + 1]]
  /\ UNCHANGED <<task, holder>> /\ Quietly

\* Variant of CancelItem: only the run is marked.
CancelRunOnly(r) ==
  /\ exec[r].at = "cancelling"
  /\ Commit(r, Counted(r, [exec[r].view EXCEPT !.status = "CANCELLED", !.cancel = TRUE]),
            "leaving")
  /\ UNCHANGED <<item, task, holder>> /\ Quietly

\* mark_item_cancelled, after which the loop is left.
CancelItem(r) ==
  /\ exec[r].at = "cancelling"
  /\ item' = [item EXCEPT ![r][exec[r].k] = "CANCELLED"]
  /\ Commit(r, Counted(r, [exec[r].view EXCEPT !.status = "CANCELLED", !.cancel = TRUE]),
            "leaving")
  /\ UNCHANGED <<task, holder>> /\ Quietly

\* No item is left, or a cancellation was found.
Done(r) ==
  \/ exec[r].at = "leaving"
  \/ exec[r].at = "looping" /\ exec[r].k \notin ItemsOf(r)

\* Variant of Release: the connection goes back to the pool with the lock.
ReleaseLate(r) ==
  /\ Done(r)
  /\ Goto(r, IF r \in lost THEN "raised"
             ELSE IF exec[r].some THEN "publishing" ELSE "closing")
  /\ UNCHANGED <<run, item, task, holder>> /\ Quietly

\* pg_advisory_unlock, which raises if the connection is gone.
Release(r) ==
  /\ Done(r)
  /\ holder' = IF r \in lost THEN holder ELSE NoRun
  /\ Goto(r, IF r \in lost THEN "raised"
             ELSE IF exec[r].some THEN "publishing" ELSE "closing")
  /\ UNCHANGED <<run, item, task>> /\ Quietly

Publish(r) ==
  /\ exec[r].at = "publishing"
  /\ Goto(r, "closing")
  /\ UNCHANGED <<run, item, task, holder>> /\ Quietly
\* The WSL controller goes on with publish_error; the handler of the ENVI
\* controller raises itself, because it names item_label.
PublishFails(r) ==
  /\ exec[r].at = "publishing"
  /\ exec' = [exec EXCEPT ![r] =
       [@ EXCEPT !.at = IF engine = "wsl" THEN "closing" ELSE "raised",
                 !.error = engine = "wsl"]]
  /\ UNCHANGED <<run, item, task, holder>> /\ Quietly

-----------------------------------------------------------------------------
(* The end of the run                                                      *)

\* Variant of Judged: failures are not looked at.
JudgedBlind(r, row, error) ==
  IF error THEN "FAILED" ELSE IF row.cancel THEN "CANCELLED" ELSE "COMPLETED"

\* The final status; the WSL controller counts the items once more, the ENVI
\* controller trusts the counters of the row.
Judged(r, row, error) ==
  LET counts == IF engine = "wsl" THEN Counted(r, row) ELSE row IN
  IF error THEN "FAILED"
  ELSE IF row.cancel THEN "CANCELLED"
  ELSE IF counts.failed > 0 /\ counts.completed > 0 THEN "PARTIAL_SUCCESS"
  ELSE IF counts.failed > 0 THEN "FAILED"
  ELSE "COMPLETED"

\* The run is refreshed and judged; the status is written by finalize_run.
Judge(r) ==
  /\ exec[r].at = "closing"
  /\ run' = [run EXCEPT ![r] = Refreshed(r)]
  /\ exec' = [exec EXCEPT ![r] = [@ EXCEPT !.at = "finalizing", !.view = Refreshed(r)]]
  /\ UNCHANGED <<item, task, holder>> /\ Quietly
\* Variant of Finalize: the counters are left as they are.
FinalizeUncounted(r) ==
  /\ exec[r].at = "finalizing"
  /\ Commit(r, [exec[r].view EXCEPT !.status = Judged(r, exec[r].view, exec[r].error)],
            "reporting")
  /\ UNCHANGED <<item, task, holder>> /\ Quietly

Finalize(r) ==
  /\ exec[r].at = "finalizing"
  /\ Commit(r, Counted(r, [exec[r].view EXCEPT !.status =
                             Judged(r, exec[r].view, exec[r].error)]), "reporting")
  /\ UNCHANGED <<item, task, holder>> /\ Quietly

\* The task takes the status of the run; a failed run makes the job fail.
Report(r) ==
  /\ exec[r].at = "reporting"
  /\ task' = [task EXCEPT ![r] = exec[r].view.status]
  /\ Goto(r, IF exec[r].view.status = "FAILED" THEN "raised" ELSE "returned")
  /\ UNCHANGED <<run, item, holder>> /\ Quietly
Return(r) ==
  /\ exec[r].at = "returned"
  /\ job' = [job EXCEPT ![r] = "COMPLETED"]
  /\ exec' = [exec EXCEPT ![r] = Idle]
  /\ UNCHANGED <<run, item, task, holder, Outside, history>>

\* The wrapper of the controller (_handle_idl_run_dinsar and its like) fails
\* a run and a task that are not closed, in a session of its own.
LoadFailed(r) ==
  /\ exec[r].at = "raised"
  /\ exec' = [exec EXCEPT ![r] = [@ EXCEPT !.view = run[r],
       !.at = IF run[r].status \in FinalStatuses THEN "failed" ELSE "excusing"]]
  /\ UNCHANGED <<run, item, task, holder>> /\ Quietly
Excuse(r) ==
  /\ exec[r].at = "excusing"
  /\ Commit(r, Counted(r, [exec[r].view EXCEPT !.status = "FAILED"]), "failed")
  /\ UNCHANGED <<item, task, holder>> /\ Quietly
FailTask(r) ==
  /\ exec[r].at = "failed"
  /\ task' = [task EXCEPT ![r] = IF @ \in FinalStatuses THEN @ ELSE "FAILED"]
  /\ Goto(r, "settling")
  /\ UNCHANGED <<run, item, holder>> /\ Quietly

\* mark_failed, and update_task of _run_job.
Settle(r) ==
  /\ exec[r].at = "settling"
  /\ job' = [job EXCEPT ![r] = "FAILED"]
  /\ task' = [task EXCEPT ![r] = IF @ = "CANCELLED" THEN @ ELSE "FAILED"]
  /\ exec' = [exec EXCEPT ![r] = Idle]
  /\ UNCHANGED <<run, item, holder, Outside, history>>

-----------------------------------------------------------------------------
(* Faults                                                                  *)

\* A worker dies, and with it its connection.
Crash(r) ==
  /\ exec[r].at # "idle" /\ events < MaxEvents
  /\ exec' = [exec EXCEPT ![r] = Idle]
  /\ holder' = IF holder = r THEN NoRun ELSE holder
  /\ events' = events + 1
  /\ crashed' = crashed \cup {r}
  /\ UNCHANGED <<engine, run, item, task, job, admin, lister, lost, presumed, late,
                 outdated>>

\* recover_stale_running_jobs takes the job for abandoned, rightly or not: it
\* was its only attempt, and the task is failed.
Recover(r) ==
  /\ job[r] = "RUNNING"
  /\ \/ exec[r].at = "idle" /\ UNCHANGED events
     \/ exec[r].at # "idle" /\ events < MaxEvents /\ events' = events + 1
  /\ job' = [job EXCEPT ![r] = "FAILED"]
  /\ task' = [task EXCEPT ![r] = "FAILED"]
  /\ presumed' = presumed \cup {r}
  /\ UNCHANGED <<engine, run, item, exec, holder, admin, lister, crashed, lost, late,
                 outdated>>

\* The connection that waits for the lock, or holds it, is lost: the next poll
\* raises, a holder does not notice before it unlocks.
LoseConnection(r) ==
  /\ r \notin lost /\ events < MaxEvents
  /\ exec[r].at \in Inside \cup {"waiting"}
  /\ lost' = lost \cup {r}
  /\ events' = events + 1
  /\ holder' = IF holder = r THEN NoRun ELSE holder
  /\ IF exec[r].at = "waiting" THEN Goto(r, "raised") ELSE UNCHANGED exec
  /\ UNCHANGED <<engine, run, item, task, job, admin, lister, crashed, presumed, late,
                 outdated>>

-----------------------------------------------------------------------------
(* The administrator and the clients                                       *)

Controllers == <<engine, item, job, holder, history>>

\* force_cancel_task: the run is flagged, the registered process killed, then
\* the task is cancelled.
Flag(r) ==
  /\ admin[r] = "" /\ events < MaxEvents
  /\ task[r] \in {"PENDING", "RUNNING"}
  /\ run' = IF run[r].status \in FinalStatuses THEN run
            ELSE [run EXCEPT ![r].cancel = TRUE]
  /\ admin' = [admin EXCEPT ![r] = "flagged"]
  /\ events' = events + 1
  /\ UNCHANGED <<task, exec, lister, Controllers>>
Kill(r) ==
  /\ admin[r] = "flagged"
  /\ exec' = IF exec[r].at = "executing" /\ exec[r].pid
             THEN [exec EXCEPT ![r].killed = TRUE] ELSE exec
  /\ admin' = [admin EXCEPT ![r] = "killed"]
  /\ UNCHANGED <<run, task, lister, events, Controllers>>
CancelTask(r) ==
  /\ admin[r] = "killed"
  /\ task' = [task EXCEPT ![r] = "CANCELLED"]
  /\ admin' = [admin EXCEPT ![r] = ""]
  /\ UNCHANGED <<run, exec, lister, events, Controllers>>

\* list_runs loads the runs, then the tasks of those that are not closed
\* (reconcile_run_with_task).
ListLoad(r) ==
  /\ lister.of = NoRun /\ run[r].status \in {"PENDING", "RUNNING"}
  /\ lister' = [of |-> r, at |-> "loaded", seen |-> run[r], new |-> run[r]]
  /\ UNCHANGED <<run, task, exec, admin, events, Controllers>>
ListTask(r) ==
  /\ lister.of = r /\ lister.at = "loaded"
  /\ lister' =
       IF task[r] \notin FinalStatuses THEN NoListing
       ELSE [lister EXCEPT !.at = "closing",
               !.new = [lister.seen EXCEPT !.status = task[r],
                          !.cancel = lister.seen.cancel \/ task[r] = "CANCELLED"]]
  /\ UNCHANGED <<run, task, exec, admin, events, Controllers>>

\* It counts the items of such a run, goes on with the other runs, and commits.
ListCount(r) ==
  /\ lister.of = r /\ lister.at = "closing"
  /\ lister' = [lister EXCEPT !.at = "counted", !.new = Counted(r, lister.new)]
  /\ UNCHANGED <<run, task, exec, admin, events, Controllers>>

\* A count that the listing will write, and that items have made untrue since.
Miscounted(r) ==
  \/ lister.new.completed \notin {lister.seen.completed, Number(r, "COMPLETED")}
  \/ lister.new.failed \notin {lister.seen.failed, Number(r, "FAILED")}

ListClose(r) ==
  /\ lister.of = r /\ lister.at = "counted"
  /\ run' = [run EXCEPT ![r] = Merged(@, lister.seen, lister.new)]
  /\ lister' = NoListing
  /\ outdated' = IF Miscounted(r) THEN outdated \cup {r} ELSE outdated
  /\ UNCHANGED <<engine, item, job, holder, task, exec, admin, events, crashed, lost,
                 presumed, late>>
List(r) == ListLoad(r) \/ ListTask(r) \/ ListCount(r) \/ ListClose(r)

Work(r) ==
  \/ Claim(r) \/ StartTask(r) \/ StartRun(r) \/ Acquire(r) \/ Check(r)
  \/ Begin(r) \/ ItemDone(r) \/ ItemRaises(r) \/ FailItem(r)
  \/ CancelItem(r) \/ Release(r) \/ Publish(r) \/ Judge(r) \/ Finalize(r)
  \/ Report(r) \/ Return(r) \/ LoadFailed(r) \/ Excuse(r) \/ FailTask(r)
  \/ Settle(r)
Fault(r) == Crash(r) \/ Recover(r) \/ LoseConnection(r) \/ PublishFails(r)
Client(r) == Flag(r) \/ Kill(r) \/ CancelTask(r) \/ List(r)

Next == \E r \in Runs : Create(r) \/ Work(r) \/ RegisterPid(r) \/ Fault(r) \/ Client(r)

Spec == Init /\ [][Next]_vars

(* Workers claim jobs and run the controllers they hold; an engine ends or *)
(* runs into its time-out.  As nothing else takes the lock, a controller   *)
(* that polls gets it when it is free for good.                            *)
FairSpec == Spec /\ \A r \in Runs : WF_vars(Work(r))

-----------------------------------------------------------------------------
(* Properties                                                              *)

Engaged == {"executing", "failing", "cancelling"}

\* The lock is held by the connection of the one controller that works with
\* the engine, unless that connection was lost.
LockMatches == \A r \in Runs : holder = r <=> exec[r].at \in Inside /\ r \notin lost

\* The controller goes through the items in order: those before the one at
\* hand are done, those after it are untouched.
InOrder ==
  \A r \in Runs :
    /\ exec[r].at \in {"claimed", "starting", "waiting"} => exec[r].k = 1
    /\ exec[r].at \in {"claimed", "starting", "waiting"} \cup Inside =>
         \A i \in ItemsOf(r) :
           /\ i < exec[r].k => item[r][i] \in {"COMPLETED", "FAILED"}
           /\ i > exec[r].k => item[r][i] = "PENDING"
    /\ exec[r].at \in {"claimed", "starting", "waiting", "looping", "checked"} =>
         (exec[r].k \in ItemsOf(r) => item[r][exec[r].k] = "PENDING")
    /\ exec[r].at \in {"checked"} \cup Engaged => exec[r].k \in ItemsOf(r)
    /\ exec[r].at \in Engaged => item[r][exec[r].k] = "RUNNING"

\* An item is RUNNING only while a controller works on it, or because its
\* worker died.
NoGhostItem ==
  \A r \in Runs : \A i \in ItemsOf(r) :
    item[r][i] = "RUNNING" =>
      r \in crashed \/ (exec[r].at \in Engaged /\ exec[r].k = i)

\* A run whose job was not claimed is untouched.
Untouched ==
  \A r \in Runs :
    /\ task[r] = "NONE" => job[r] = "NONE"
    /\ job[r] \in {"NONE", "READY"} =>
         /\ exec[r].at = "idle" /\ r \notin lost /\ late[r] = 0
         /\ \A i \in ItemsOf(r) : item[r][i] = "PENDING"

\* A controller that is still to get the lock has not lost its connection.
Connected ==
  \A r \in lost : exec[r].at \notin {"claimed", "starting", "waiting"}

\* The flag of a run stays set, so that no controller that has begun an item
\* in spite of it passes the next check.
FlagStays ==
  \A r \in Runs :
    late[r] # 0 => late[r] = 1 /\ run[r].cancel /\ exec[r].at # "checked"

\* The task is given a final status.
JudgedFirst ==
  \A r \in Runs : exec[r].at = "reporting" => exec[r].view.status \in FinalStatuses

\* The first part of the inductive invariant: who works with the engine, and on
\* which item.
WorkInv ==
  /\ TypeOK
  /\ LockMatches /\ Connected
  /\ InOrder /\ NoGhostItem /\ Untouched
  /\ FlagStays /\ JudgedFirst

\* A status of r that fits its items; the ENVI controller does not see that the
\* last item has failed.
Fits(r, status) ==
  /\ status = "COMPLETED" => \A i \in ItemsOf(r) :
       \/ item[r][i] = "COMPLETED"
       \/ item[r][i] = "FAILED" /\ engine = "envi" /\ i = Size[r]
  /\ status = "PARTIAL_SUCCESS" =>
       /\ Having(r, "FAILED") # {} /\ Having(r, "COMPLETED") # {}
       /\ \A i \in ItemsOf(r) : item[r][i] \in ItemTerminal

\* Counters that are not zero count something.
Backed(r, row) ==
  /\ row.completed > 0 => Having(r, "COMPLETED") # {}
  /\ row.failed > 0 => Having(r, "FAILED") # {}

\* All items are done, and failures but for the last one are in the counter.
Finished(r, failed) ==
  \A i \in ItemsOf(r) :
    /\ item[r][i] \in {"COMPLETED", "FAILED"}
    /\ item[r][i] = "FAILED" /\ i < Size[r] => failed > 0

Early == {"claimed", "starting", "waiting"}
Unjudged == Early \cup Inside \cup {"publishing", "closing", "finalizing"}
Good == {"COMPLETED", "PARTIAL_SUCCESS"}

\* The controller has still to judge the run.
Open(r) == exec[r].at \in Unjudged \/ job[r] \in {"NONE", "READY"}

\* A cancellation that somebody has seen is in the row, and so is a failure.
SeenInRow(r) ==
  /\ run[r].status = "CANCELLED" => run[r].cancel
  /\ exec[r].at # "idle" =>
       /\ exec[r].view.cancel => run[r].cancel
       /\ exec[r].view.failed > 0 => run[r].failed > 0
       /\ Backed(r, exec[r].view)
  /\ Backed(r, run[r])
  /\ exec[r].at = "leaving" => run[r].cancel
  /\ task[r] = "NONE" => run[r].status = "NONE"

\* Nobody calls the run COMPLETED or PARTIAL_SUCCESS before its controller has
\* judged it, and then rightly.
StatusFits(r) ==
  /\ Fits(r, run[r].status) /\ Fits(r, task[r])
  /\ exec[r].at = "reporting" => Fits(r, exec[r].view.status)
  /\ Open(r) => run[r].status \notin Good /\ task[r] \notin Good

\* The items and the counter of failures that the controller judges by.
ItemsCounted(r) ==
  /\ exec[r].at \in Early \cup Inside =>
       /\ exec[r].k > 0
       /\ \A i \in ItemsOf(r) :
            i < exec[r].k - 1 /\ item[r][i] = "FAILED" => run[r].failed > 0
  /\ exec[r].at \in {"publishing", "closing"} =>
       run[r].cancel \/ Finished(r, run[r].failed)
  /\ exec[r].at = "finalizing" =>
       exec[r].view.cancel \/ Finished(r, exec[r].view.failed)

\* A counter is that of the items, or will be when the controller writes it, but
\* for what a listing has counted before and written since.
CountersSettle(r) ==
  /\ exec[r].at = "finalizing" /\ r \notin outdated =>
       /\ run[r].completed \in {exec[r].view.completed, Number(r, "COMPLETED")}
       /\ run[r].failed \in {exec[r].view.failed, Number(r, "FAILED")}
  /\ (exec[r].at \in {"reporting", "returned"} \/ job[r] = "COMPLETED")
       /\ r \notin outdated =>
       /\ run[r].completed = Number(r, "COMPLETED")
       /\ run[r].failed = Number(r, "FAILED")
  /\ job[r] = "COMPLETED" => exec[r].at = "idle"

\* Under a controller that has not judged yet neither the task fails nor the run
\* is closed, but for a job that was recovered and a run that was flagged.
StillOpen(r) ==
  Open(r) /\ r \notin presumed =>
    /\ task[r] # "FAILED"
    /\ run[r].status \in FinalStatuses => run[r].cancel

\* Nobody has touched the row of a run that was not created.
Uncreated(r) ==
  /\ run[r].status = "NONE" => task[r] = "NONE"
  /\ task[r] = "NONE" => ~run[r].cancel /\ admin[r] = ""

\* What a listing is about to write is no less true of the run than the task was:
\* its status still fits, and it hides neither a cancellation nor a failure.
ListingFits(r) ==
  lister.of = r =>
    /\ lister.seen.cancel => run[r].cancel /\ lister.new.cancel
    /\ task[r] # "NONE"
    /\ Backed(r, lister.seen) /\ Backed(r, lister.new)
    /\ lister.seen.failed > 0 => lister.new.failed > 0
    /\ lister.at # "loaded" =>
         /\ lister.new.status \in FinalStatuses /\ Fits(r, lister.new.status)
         /\ lister.new.status = "CANCELLED" => lister.new.cancel
         /\ Open(r) => lister.new.status \notin Good
         /\ Open(r) /\ r \notin presumed => lister.new.status # "FAILED"

\* The second part: what the row, the views of it and the task say of the items.
OutcomeInv ==
  \A r \in Runs :
    /\ SeenInRow(r) /\ StatusFits(r) /\ ItemsCounted(r) /\ CountersSettle(r)
    /\ StillOpen(r) /\ Uncreated(r) /\ ListingFits(r)

\* The inductive invariant.
DinsarInv == WorkInv /\ OutcomeInv

\* The engine lock keeps its promise to the controllers: one of them at a time
\* works with the engine, whichever tasks were closed, workers died and jobs
\* were taken for abandoned, until a connection is lost.
Lock == INSTANCE EngineMutex WITH
  Clients <- Runs,
  inside <- {r \in Runs : exec[r].at \in Inside},
  breached <- lost # {}
OneAtATime == Lock!Spec

\* A cancellation takes effect before the next item but one: whatever else
\* writes the run, the flag is not lost, and at most one item, that was
\* checked before the flag was set, still begins.
CancelHeeded == \A r \in Runs : late[r] <= 1

\* A run that was cancelled was to be; a run that is called COMPLETED or
\* PARTIAL_SUCCESS, whoever has written the status, has the items for it, but the
\* last item of an ENVI run may have failed unnoticed.
RunOutcome ==
  \A r \in Runs :
    (run[r].status = "CANCELLED" => run[r].cancel) /\ Fits(r, run[r].status)

\* The counters of a run whose job completed are those of its items, although
\* every update of an item counts too early, unless a listing has counted while
\* the controller was still at work and written that count later.
CountersTrue ==
  \A r \in Runs :
    job[r] = "COMPLETED" /\ r \notin outdated =>
      run[r].completed = Number(r, "COMPLETED") /\ run[r].failed = Number(r, "FAILED")

\* The runs keep what ProductionRun promises, although a controller goes on when
\* its task was closed and listings and force-cancels write the row beside it.
Promise == INSTANCE ProductionRun WITH
  status <- [r \in Runs |-> run[r].status],
  flagged <- [r \in Runs |-> run[r].cancel],
  unseen <- [r \in Runs |-> IF engine = "envi" THEN {Size[r]} ELSE {}],
  disturbed <- {}
PromiseKept == Promise!Spec

\* In the end every run that was created is closed and its controller gone,
\* unless its worker died.
RunEnds ==
  <>[](\A r \in Runs :
         job[r] # "NONE" =>
           exec[r].at = "idle" /\ (run[r].status \in FinalStatuses \/ r \in crashed))

\* The task of a run all of whose items failed is not COMPLETED, so that the
\* maintenance page lists it (OPS_TASK_MAINTENANCE_PANEL_DESIGN: the page lists
\* the failed and the partially successful D-InSAR tasks).
FailureShows ==
  \A r \in Runs : (\A i \in ItemsOf(r) : item[r][i] = "FAILED") => task[r] # "COMPLETED"

=============================================================================
