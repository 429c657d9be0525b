----------------------------- MODULE ClusterRun -----------------------------
(***************************************************************************)
(* One LandSAR cluster run (services/dinsar_production_service.py): its    *)
(* items, each carried out by a LANDSAR_CLUSTER_ITEM job that any worker   *)
(* may claim (_handle_landsar_cluster_item of services/job_handlers.py),   *)
(* the upload endpoint that completes the items of remote workers          *)
(* (routers/cluster.py), an administrator who force-cancels the parent     *)
(* task, and a client that lists the runs, which closes runs whose task is *)
(* closed.                                                                 *)
(*                                                                         *)
(* A session keeps the attributes it has loaded (expire_on_commit=False)   *)
(* and writes an attribute only if it assigns another value.  The run and  *)
(* the item are loaded long before they are written, so each coroutine     *)
(* carries its view of them.  update_task reads and writes in one step: as *)
(* it assigns a constant, its load and its store (two actions in           *)
(* TaskLifecycle) always have the effect of one of them alone.             *)
(***************************************************************************)
EXTENDS Integers, FiniteSets

CONSTANTS
  Items,          \* items of the run
  Remote,         \* items whose jobs are claimed by remote workers
  MaxAttempts,    \* LANDSAR_CLUSTER_ITEM_JOB_MAX_ATTEMPTS
  MaxCrashes,     \* bound on workers that die
  MaxCancels,     \* bound on force-cancel requests
  MaxFetchFails   \* bound on downloads that fail

ASSUME ItemsAssumption == IsFiniteSet(Items) /\ Items # {} /\ Remote \subseteq Items
ASSUME ClusterBounds ==
  /\ MaxAttempts \in Nat \ {0} /\ MaxCrashes \in Nat
  /\ MaxCancels \in Nat /\ MaxFetchFails \in Nat

VARIABLES
  run,       \* status and cancel_requested of the dinsar_production_runs row
  item,      \* status of the dinsar_production_run_items rows
  task,      \* status of the parent task
  job,       \* status of the jobs and their attempts
  exec,      \* the handler coroutine of each job
  server,    \* the upload request of each item on the main server
  admin,     \* the force-cancel request has flagged the run
  lister,    \* a listing of the runs: idle (""), runs loaded, task's status read
  crashes, cancels, fetchFails,
  undelivered,  \* history: items given up, or left by a crash, while the server was
                \* still registering their product
  unpublished,  \* history: items completed with an error of the catalog
  reconciled    \* history: a listing has closed the run

history == <<undelivered, unpublished, reconciled>>
vars == <<run, item, task, job, exec, server, admin, lister, crashes, cancels,
          fetchFails, history>>

FinalStatuses == {"COMPLETED", "PARTIAL_SUCCESS", "FAILED", "CANCELLED"}
RunStatuses == {"PENDING", "RUNNING"} \cup FinalStatuses
ItemTerminal == {"COMPLETED", "FAILED", "CANCELLED"}
ItemStatuses == {"PENDING", "RUNNING"} \cup ItemTerminal
JobRow == [status: {"READY", "RUNNING", "COMPLETED", "FAILED"}, attempts: Nat]

(* Where a handler is:                                                     *)
(*   opened, fetched     run and item loaded, input downloaded;            *)
(*   cleared, starting   not cancelled, task updated and run to be started;*)
(*   started, executing  begin_item_execution to do, engine running;       *)
(*   uploading, doubting remote worker waits for the server, has failed    *)
(*                       and refreshed the item;                           *)
(*   marked, decided     run to be finalized, counts read;                 *)
(*   reporting           task to be updated with final;                    *)
(*   returned, raised    mark_completed, mark_failed to do;                *)
(*   judging, settling   the task of the failed job to be read, updated.   *)
Places == {"idle", "opened", "fetched", "cleared", "starting", "started",
           "executing", "uploading", "doubting", "marked", "decided",
           "reporting", "returned", "raised", "judging", "settling"}

\* run, cancel and item are the session's view; error is publish_error; hush
\* says that the handler returns without updating the task.
Coroutine == [at: Places, run: RunStatuses, cancel: BOOLEAN, item: ItemStatuses,
              error: BOOLEAN, hush: BOOLEAN, final: {""} \cup FinalStatuses]
Idle == [at |-> "idle", run |-> "PENDING", cancel |-> FALSE, item |-> "PENDING",
         error |-> FALSE, hush |-> FALSE, final |-> ""]

ServerStates == {"idle", "received", "marked", "decided", "done"}
Upload == [at: ServerStates, run: RunStatuses, cancel: BOOLEAN,
           item: ItemStatuses, final: {""} \cup FinalStatuses]
NoUpload == [at |-> "idle", run |-> "PENDING", cancel |-> FALSE,
             item |-> "PENDING", final |-> ""]

TypeOK ==
  /\ run \in [status: RunStatuses, cancel: BOOLEAN]
  /\ item \in [Items -> ItemStatuses]
  /\ task \in RunStatuses
  /\ job \in [Items -> JobRow]
  /\ exec \in [Items -> Coroutine]
  /\ server \in [Items -> Upload]
  /\ admin \in BOOLEAN
  /\ crashes \in Nat /\ cancels \in Nat /\ fetchFails \in Nat
  /\ lister \in {"", "loaded"} \cup FinalStatuses
  /\ undelivered \subseteq Items /\ unpublished \subseteq Items /\ reconciled \in BOOLEAN

\* create_landsar_cluster_run has committed.
Init ==
  /\ run = [status |-> "PENDING", cancel |-> FALSE]
  /\ item = [i \in Items |-> "PENDING"]
  /\ task = "PENDING"
  /\ job = [i \in Items |-> [status |-> "READY", attempts |-> 0]]
  /\ exec = [i \in Items |-> Idle]
  /\ server = [i \in Items |-> NoUpload]
  /\ admin = FALSE /\ lister = ""
  /\ crashes = 0 /\ cancels = 0 /\ fetchFails = 0
  /\ undelivered = {} /\ unpublished = {} /\ reconciled = FALSE

-----------------------------------------------------------------------------
(* Finalizing the run                                                      *)

Having(s) == {i \in Items : item[i] = s}
AllTerminal == \A i \in Items : item[i] \in ItemTerminal

\* Variants of Outcome: a terminal item is enough, failures are not counted.
OutcomeEarly(error, cancel) ==
  IF \A i \in Items : item[i] \in {"PENDING", "RUNNING"} THEN "" ELSE "COMPLETED"
OutcomeBlind(error, cancel) ==
  IF ~AllTerminal THEN ""
  ELSE IF cancel THEN "CANCELLED" ELSE "COMPLETED"

\* What finalize_cluster_run_if_complete makes of the counts.
Outcome(error, cancel) ==
  IF ~AllTerminal THEN ""
  ELSE IF error THEN "FAILED"
  ELSE IF Having("CANCELLED") # {} \/ cancel THEN "CANCELLED"
  ELSE IF Having("FAILED") # {} /\ Having("COMPLETED") # {} THEN "PARTIAL_SUCCESS"
  ELSE IF Having("FAILED") # {} THEN "FAILED"
  ELSE "COMPLETED"

RunStatusFor(final) == IF final = "" THEN "RUNNING" ELSE final

\* Assigning new to an attribute of the run, the session having loaded seen.
WriteRun(seen, new) == run' = IF seen = new THEN run ELSE [run EXCEPT !.status = new]
WriteItem(i, seen, new) ==
  item' = IF seen = new THEN item ELSE [item EXCEPT ![i] = new]

-----------------------------------------------------------------------------
(* The handler                                                             *)

Bounds == <<crashes, cancels, fetchFails>>
Outside == <<server, admin, lister, history, crashes, cancels, fetchFails>>

Goto(i, place) == exec' = [exec EXCEPT ![i].at = place]

\* Variant of Open: the job of a terminal item has nothing left to do.
OpenDone(i) ==
  /\ job[i].status = "READY" /\ exec[i].at = "idle"
  /\ job' = [job EXCEPT ![i].status = "RUNNING"]
  /\ exec' = [exec EXCEPT ![i] =
       [Idle EXCEPT !.at = IF item[i] \in ItemTerminal THEN "returned" ELSE "opened",
                    !.run = run.status, !.cancel = run.cancel, !.item = item[i]]]
  /\ UNCHANGED <<run, item, task>> /\ UNCHANGED Outside

\* The job is claimed, the run and the item are loaded; a terminal item is
\* not executed again.
Open(i) ==
  /\ job[i].status = "READY" /\ exec[i].at = "idle"
  /\ job' = [job EXCEPT ![i].status = "RUNNING"]
  /\ exec' = [exec EXCEPT ![i] =
       [Idle EXCEPT !.at = IF item[i] \in ItemTerminal THEN "marked" ELSE "opened",
                    !.hush = item[i] \in ItemTerminal,
                    !.run = run.status, !.cancel = run.cancel, !.item = item[i]]]
  /\ UNCHANGED <<run, item, task>> /\ UNCHANGED Outside

\* materialize_cluster_input, which may raise.
Fetch(i) ==
  /\ exec[i].at = "opened"
  /\ Goto(i, "fetched")
  /\ UNCHANGED <<run, item, task, job>> /\ UNCHANGED Outside
FetchFails(i) ==
  /\ exec[i].at = "opened" /\ fetchFails < MaxFetchFails
  /\ Goto(i, "raised")
  /\ fetchFails' = fetchFails + 1
  /\ UNCHANGED <<run, item, task, job, server, admin, lister, history, crashes, cancels>>

\* Cancellation is looked for once: in the run as it was loaded and in the
\* task as it is now.
Cancelled(i) == exec[i].cancel \/ task = "CANCELLED"

Clear(i) ==
  /\ exec[i].at = "fetched" /\ ~Cancelled(i)
  /\ Goto(i, "cleared")
  /\ UNCHANGED <<run, item, task, job>> /\ UNCHANGED Outside
CancelItem(i) ==
  /\ exec[i].at = "fetched" /\ Cancelled(i)
  /\ WriteItem(i, exec[i].item, "CANCELLED")
  /\ run' = [run EXCEPT !.cancel = @ \/ ~exec[i].cancel]
  /\ exec' = [exec EXCEPT ![i].at = "marked", ![i].hush = TRUE, ![i].cancel = TRUE]
  /\ UNCHANGED <<task, job>> /\ UNCHANGED Outside

\* start_task or update_task, then mark_run_started if the run was PENDING
\* when it was loaded.
StartTask(i) ==
  /\ exec[i].at = "cleared"
  /\ task' = "RUNNING"
  /\ Goto(i, IF exec[i].run = "PENDING" THEN "starting" ELSE "started")
  /\ UNCHANGED <<run, item, job>> /\ UNCHANGED Outside
StartRun(i) ==
  /\ exec[i].at = "starting"
  /\ WriteRun(exec[i].run, "RUNNING")
  /\ exec' = [exec EXCEPT ![i].at = "started", ![i].run = "RUNNING"]
  /\ UNCHANGED <<item, task, job>> /\ UNCHANGED Outside

\* Variant of Begin: the item is set RUNNING whatever the session has loaded.
BeginAgain(i) ==
  /\ exec[i].at = "started"
  /\ item' = [item EXCEPT ![i] = "RUNNING"]
  /\ WriteRun(exec[i].run, "RUNNING")
  /\ exec' = [exec EXCEPT ![i] =
       [@ EXCEPT !.at = "executing", !.run = "RUNNING", !.item = "RUNNING"]]
  /\ UNCHANGED <<task, job>> /\ UNCHANGED Outside

\* begin_item_execution.
Begin(i) ==
  /\ exec[i].at = "started"
  /\ WriteItem(i, exec[i].item, "RUNNING")
  /\ WriteRun(exec[i].run, "RUNNING")
  /\ exec' = [exec EXCEPT ![i] =
       [@ EXCEPT !.at = "executing", !.run = "RUNNING", !.item = "RUNNING"]]
  /\ UNCHANGED <<task, job>> /\ UNCHANGED Outside

\* _task_keepalive, every 30 seconds.
KeepAlive(i) ==
  /\ exec[i].at \in {"executing", "uploading", "doubting"}
  /\ task' = "RUNNING"
  /\ UNCHANGED <<run, item, job, exec>> /\ UNCHANGED Outside

\* A local worker publishes the product and completes the item; an error of
\* the catalog is kept in the coroutine.
LocalDone(i) ==
  /\ exec[i].at = "executing" /\ i \notin Remote
  /\ WriteItem(i, exec[i].item, "COMPLETED")
  /\ \E error \in BOOLEAN :
       /\ exec' = [exec EXCEPT ![i] = [@ EXCEPT !.at = "marked", !.item = "COMPLETED",
                                                !.error = error]]
       /\ unpublished' = IF error THEN unpublished \cup {i} ELSE unpublished
  /\ UNCHANGED <<run, task, job, server, admin, lister, undelivered, reconciled>>
  /\ UNCHANGED Bounds
LocalFails(i) ==
  /\ exec[i].at = "executing" /\ i \notin Remote
  /\ WriteItem(i, exec[i].item, "FAILED")
  /\ exec' = [exec EXCEPT ![i] = [@ EXCEPT !.at = "marked", !.item = "FAILED"]]
  /\ UNCHANGED <<run, task, job>> /\ UNCHANGED Outside

\* A remote worker uploads the product; the server loads the item.
Send(i) ==
  /\ exec[i].at = "executing" /\ i \in Remote /\ server[i].at = "idle"
  /\ Goto(i, "uploading")
  /\ server' = [server EXCEPT ![i] =
       [NoUpload EXCEPT !.at = "received", !.item = item[i]]]
  /\ UNCHANGED <<run, item, task, job, admin, lister, history>> /\ UNCHANGED Bounds
Answered(i) ==
  /\ exec[i].at = "uploading" /\ server[i].at = "done"
  /\ Goto(i, "marked")
  /\ server' = [server EXCEPT ![i] = NoUpload]
  /\ UNCHANGED <<run, item, task, job, admin, lister, history>> /\ UNCHANGED Bounds

\* The items given up after a step that takes the worker of i away.
GivenUp(i) ==
  IF server[i].at = "received" THEN undelivered \cup {i} ELSE undelivered

\* The engine or the upload fails, or the answer does not come in time: the
\* item is refreshed, and failed unless the server has completed it.
RemoteFails(i) ==
  /\ i \in Remote
  /\ exec[i].at \in {"executing", "uploading"}
  /\ exec' = [exec EXCEPT ![i] = [@ EXCEPT !.at = "doubting", !.item = item[i]]]
  /\ undelivered' = GivenUp(i)
  /\ UNCHANGED <<run, item, task, job, server, admin, lister, unpublished, reconciled>>
  /\ UNCHANGED Bounds
RemoteClose(i) ==
  /\ exec[i].at = "doubting"
  /\ IF exec[i].item = "COMPLETED" THEN UNCHANGED item
                                   ELSE WriteItem(i, exec[i].item, "FAILED")
  /\ Goto(i, "marked")
  /\ UNCHANGED <<run, task, job>> /\ UNCHANGED Outside

\* The run is refreshed, unless the handler returns early, and the items are
\* counted; then the outcome is written, and then the task.
FinalRead(i) ==
  LET seen == IF exec[i].hush THEN [status |-> exec[i].run, cancel |-> exec[i].cancel]
                              ELSE run
  IN
  /\ exec[i].at = "marked"
  /\ exec' = [exec EXCEPT ![i] =
       [@ EXCEPT !.at = "decided", !.run = seen.status, !.cancel = seen.cancel,
                 !.final = Outcome(exec[i].error, seen.cancel)]]
  /\ UNCHANGED <<run, item, task, job>> /\ UNCHANGED Outside
FinalCommit(i) ==
  /\ exec[i].at = "decided"
  /\ WriteRun(exec[i].run, RunStatusFor(exec[i].final))
  /\ Goto(i, IF exec[i].hush THEN "returned" ELSE "reporting")
  /\ UNCHANGED <<item, task, job>> /\ UNCHANGED Outside
Report(i) ==
  /\ exec[i].at = "reporting"
  /\ task' = RunStatusFor(exec[i].final)
  /\ Goto(i, "returned")
  /\ UNCHANGED <<run, item, job>> /\ UNCHANGED Outside

-----------------------------------------------------------------------------
(* The job                                                                 *)

Return(i) ==
  /\ exec[i].at = "returned"
  /\ job' = [job EXCEPT ![i].status = "COMPLETED"]
  /\ exec' = [exec EXCEPT ![i] = Idle]
  /\ UNCHANGED <<run, item, task>> /\ UNCHANGED Outside

Attempted(i) == [job[i] EXCEPT !.attempts = @ + 1,
                 !.status = IF job[i].attempts + 1 >= MaxAttempts
                            THEN "FAILED" ELSE "READY"]

\* mark_failed; the parent task is failed with the last attempt.
MarkFailed(i) ==
  /\ exec[i].at = "raised"
  /\ job' = [job EXCEPT ![i] = Attempted(i)]
  /\ IF Attempted(i).status = "FAILED" THEN Goto(i, "judging")
                                       ELSE exec' = [exec EXCEPT ![i] = Idle]
  /\ UNCHANGED <<run, item, task>> /\ UNCHANGED Outside
Judge(i) ==
  /\ exec[i].at = "judging"
  /\ exec' = [exec EXCEPT ![i] = [@ EXCEPT !.at = "settling",
       !.final = IF task = "CANCELLED" THEN "CANCELLED" ELSE "FAILED"]]
  /\ UNCHANGED <<run, item, task, job>> /\ UNCHANGED Outside
Settle(i) ==
  /\ exec[i].at = "settling"
  /\ task' = exec[i].final
  /\ exec' = [exec EXCEPT ![i] = Idle]
  /\ UNCHANGED <<run, item, job>> /\ UNCHANGED Outside

Crash(i) ==
  /\ exec[i].at # "idle" /\ crashes < MaxCrashes
  /\ exec' = [exec EXCEPT ![i] = Idle]
  /\ crashes' = crashes + 1
  /\ undelivered' = GivenUp(i)
  /\ UNCHANGED <<run, item, task, job, server, admin, lister, cancels, fetchFails,
                 unpublished, reconciled>>

\* recover_stale_running_jobs.
Recover(i) ==
  /\ job[i].status = "RUNNING" /\ exec[i].at = "idle"
  /\ job' = [job EXCEPT ![i] = Attempted(i)]
  /\ IF Attempted(i).status = "FAILED"
     THEN exec' = [exec EXCEPT ![i] = [Idle EXCEPT !.at = "settling", !.final = "FAILED"]]
     ELSE UNCHANGED exec
  /\ UNCHANGED <<run, item, task>> /\ UNCHANGED Outside

-----------------------------------------------------------------------------
(* The main server and the administrator                                   *)

Handlers == <<task, job, exec, admin, lister, history, crashes, cancels, fetchFails>>

\* upload_cluster_result has registered the product: it loads the run and
\* completes the item, finalizes the run, and answers.
ServerMark(i) ==
  /\ server[i].at = "received"
  /\ WriteItem(i, server[i].item, "COMPLETED")
  /\ server' = [server EXCEPT ![i] =
       [@ EXCEPT !.at = "marked", !.run = run.status, !.cancel = run.cancel]]
  /\ UNCHANGED run /\ UNCHANGED Handlers
ServerRead(i) ==
  /\ server[i].at = "marked"
  /\ server' = [server EXCEPT ![i] =
       [@ EXCEPT !.at = "decided", !.final = Outcome(FALSE, server[i].cancel)]]
  /\ UNCHANGED <<run, item>> /\ UNCHANGED Handlers
ServerCommit(i) ==
  /\ server[i].at = "decided"
  /\ WriteRun(server[i].run, RunStatusFor(server[i].final))
  /\ server' = [server EXCEPT ![i] = IF exec[i].at = "uploading"
                                     THEN [NoUpload EXCEPT !.at = "done"] ELSE NoUpload]
  /\ UNCHANGED item /\ UNCHANGED Handlers
\* The registration fails, or nobody waits for the answer any more.
ServerEnds(i) ==
  /\ \/ server[i].at = "received"
     \/ server[i].at = "done" /\ exec[i].at # "uploading"
  /\ server' = [server EXCEPT ![i] = NoUpload]
  /\ UNCHANGED <<run, item>> /\ UNCHANGED Handlers

\* force_cancel_task: request_cancel on the run, then update_task.
CancelRun ==
  /\ ~admin /\ cancels < MaxCancels
  /\ task \in {"PENDING", "RUNNING"}
  /\ run' = IF run.status \in FinalStatuses THEN run ELSE [run EXCEPT !.cancel = TRUE]
  /\ admin' = TRUE
  /\ cancels' = cancels + 1
  /\ UNCHANGED <<item, task, job, exec, server, lister, crashes, fetchFails, history>>
CancelTask ==
  /\ admin
  /\ task' = "CANCELLED"
  /\ admin' = FALSE
  /\ UNCHANGED <<run, item, job, exec, server, lister, history>> /\ UNCHANGED Bounds

\* list_runs loads the runs, then the tasks of those that are not closed, and
\* closes the runs whose task is (reconcile_run_with_task).
ListRuns ==
  /\ lister = "" /\ run.status \notin FinalStatuses
  /\ lister' = "loaded"
  /\ UNCHANGED <<run, item, task, job, exec, server, admin, history>> /\ UNCHANGED Bounds
ListTask ==
  /\ lister = "loaded"
  /\ lister' = IF task \in FinalStatuses THEN task ELSE ""
  /\ UNCHANGED <<run, item, task, job, exec, server, admin, history>> /\ UNCHANGED Bounds
ListCommit ==
  /\ lister \in FinalStatuses
  /\ run' = [status |-> lister, cancel |-> run.cancel \/ lister = "CANCELLED"]
  /\ lister' = "" /\ reconciled' = TRUE
  /\ UNCHANGED <<item, task, job, exec, server, admin, undelivered, unpublished>>
  /\ UNCHANGED Bounds
List == ListRuns \/ ListTask \/ ListCommit

Advance(i) ==
  \/ Open(i) \/ Fetch(i) \/ Clear(i) \/ CancelItem(i) \/ StartTask(i)
  \/ StartRun(i) \/ Begin(i) \/ LocalDone(i) \/ Send(i) \/ Answered(i)
  \/ RemoteClose(i) \/ FinalRead(i) \/ FinalCommit(i) \/ Report(i) \/ Return(i)
  \/ MarkFailed(i) \/ Judge(i) \/ Settle(i) \/ Recover(i)
Serve(i) == ServerMark(i) \/ ServerRead(i) \/ ServerCommit(i)

Next ==
  \/ CancelRun \/ CancelTask \/ List
  \/ \E i \in Items :
       \/ Advance(i) \/ Serve(i) \/ FetchFails(i) \/ KeepAlive(i) \/ LocalFails(i)
       \/ RemoteFails(i) \/ ServerEnds(i) \/ Crash(i)

Spec == Init /\ [][Next]_vars

(* Workers poll and run the coroutines they hold, the engine has a         *)
(* time-out, the worker gives up an upload in the end, and the server      *)
(* finishes the requests it has read.                                      *)
Fairness ==
  /\ WF_vars(CancelTask)
  /\ \A i \in Items :
       /\ WF_vars(Advance(i)) /\ WF_vars(Serve(i))
       /\ WF_vars(exec[i].at = "uploading" /\ server[i].at = "idle" /\ RemoteFails(i))

FairSpec == Spec /\ Fairness

-----------------------------------------------------------------------------
(* Properties                                                              *)

\* A run is never closed while an item is still to be done, unless a listing
\* has closed it because its task was.
ClosedRunIsDone == run.status \in FinalStatuses /\ ~reconciled => AllTerminal

Before == {"opened", "fetched", "cleared", "starting", "started"}
Begun == {"executing", "uploading", "doubting"}

\* A view taken before the item began tells rightly whether it is PENDING, and
\* nobody works on, or uploads, an item that has not begun.
ViewOfItem ==
  \A i \in Items :
    /\ exec[i].at \in Before =>
         /\ exec[i].item \in {"PENDING", "RUNNING"}
         /\ exec[i].item = "PENDING" <=> item[i] = "PENDING"
    /\ item[i] = "PENDING" => exec[i].at \notin Begun /\ server[i].at = "idle"

\* A final status that was decided, and is not yet written, is still right.
DecidedIsDone ==
  \A i \in Items :
    /\ exec[i].at = "decided" /\ exec[i].final # "" => AllTerminal
    /\ server[i].at = "decided" /\ server[i].final # "" => AllTerminal

\* A task is settled with a final status.
SettlesToFinal == \A i \in Items : exec[i].at = "settling" => exec[i].final # ""

\* The first part of the inductive invariant: whatever a session remembers of
\* the items that still matters for closing the run is true of the rows.
ClosingInv ==
  TypeOK /\ ViewOfItem /\ DecidedIsDone /\ SettlesToFinal /\ ClosedRunIsDone

\* A final status is the one the items and the catalog call for.
Verdict(final) ==
  /\ final = "COMPLETED" => \A i \in Items : item[i] = "COMPLETED"
  /\ final = "PARTIAL_SUCCESS" => Having("FAILED") # {} /\ Having("COMPLETED") # {}
  /\ final = "FAILED" => unpublished # {} \/ Having("COMPLETED") = {}

\* What sessions know of the cancellation and of the catalog's errors is true.
Remembered(i) ==
  /\ exec[i].cancel \/ server[i].cancel \/ item[i] = "CANCELLED" => run.cancel
  /\ exec[i].at = "decided" /\ exec[i].final = "CANCELLED" => run.cancel
  /\ server[i].at = "decided" /\ server[i].final = "CANCELLED" => run.cancel
  /\ exec[i].error => i \in unpublished

\* A worker whose upload the server is registering waits for it, so that an item
\* someone still works on is not terminal, unless he knows it.
Waited(i) ==
  /\ server[i].at = "received" =>
       exec[i].at = "uploading" /\ server[i].item = "RUNNING" /\ item[i] = "RUNNING"
  /\ server[i].at \in {"marked", "decided", "done"} => item[i] = "COMPLETED"
  /\ exec[i].at \in Before => item[i] \notin ItemTerminal
  /\ exec[i].at = "executing" => item[i] = "RUNNING"
  /\ exec[i].at = "uploading" /\ server[i].at = "idle" => item[i] = "RUNNING"
  /\ exec[i].at = "doubting" =>
       item[i] = "RUNNING" \/ (item[i] = "COMPLETED" /\ exec[i].item = "COMPLETED")

\* A final status that was decided is still the one the items call for.
DecidedRight(i) ==
  /\ exec[i].at = "decided" => Verdict(exec[i].final)
  /\ server[i].at = "decided" => Verdict(server[i].final)

\* The final status is the one the items and the catalog call for, unless a
\* worker gave up an upload the server was still registering or a listing took
\* the status from the task; and only a run that was to be cancelled is.
RunOutcome ==
  /\ run.status = "CANCELLED" => run.cancel
  /\ undelivered = {} /\ ~reconciled => Verdict(run.status)

\* The second part of the inductive invariant: the rows a final status was
\* computed from are the rows as they are when it is written.
OutcomeInv ==
  /\ RunOutcome
  /\ \A i \in Items : Remembered(i)
  /\ undelivered = {} => \A i \in Items : Waited(i) /\ DecidedRight(i)

\* A run that an item has begun in, or a session has seen started, is started;
\* a handler at work on an item has not returned early.
Started(i) ==
  /\ exec[i].run # "PENDING" \/ server[i].run # "PENDING" => run.status # "PENDING"
  /\ item[i] # "PENDING" => run.status # "PENDING" \/ run.cancel
  /\ exec[i].at = "marked" => item[i] # "PENDING"
  /\ exec[i].at \in Before \cup Begun => ~exec[i].hush

\* A session that is to write RUNNING, because it has met items that were not
\* done, has the run RUNNING in its view, and so writes nothing.
Seen(status) == status # "PENDING" /\ (status \in FinalStatuses => AllTerminal)
Unwritten(i) ==
  /\ exec[i].at = "marked" /\ exec[i].hush => Seen(exec[i].run)
  /\ exec[i].at = "decided" /\ exec[i].final = "" => exec[i].run = "RUNNING"
  /\ server[i].at = "marked" => Seen(server[i].run)
  /\ server[i].at = "decided" /\ server[i].final = "" => server[i].run = "RUNNING"

\* The third part: why nobody opens a closed run again.
ReopenInv ==
  \A i \in Items :
    /\ Started(i)
    /\ undelivered = {} /\ ~reconciled /\ ~run.cancel => Unwritten(i)

ClusterInv == ClosingInv /\ OutcomeInv /\ ReopenInv

\* The run keeps what ProductionRun promises, although sessions of several
\* machines write its rows from views of other times and jobs are recovered,
\* retried and overtaken by their uploads: an item ends once and keeps its
\* result, and a closed run stays closed.
Here == {"run"}
Of(value) == [r \in Here |-> value]
Promise == INSTANCE ProductionRun WITH
  Runs <- Here,
  status <- Of(run.status),
  flagged <- Of(run.cancel),
  item <- Of(item),
  unseen <- Of({}),
  disturbed <- IF undelivered = {} /\ ~reconciled THEN {} ELSE Here,
  presumed <- {}
PromiseKept == Promise!Spec

Quiet ==
  /\ ~admin /\ lister = ""
  /\ \A i \in Items : /\ exec[i].at = "idle" /\ server[i].at = "idle"
                      /\ job[i].status \in {"COMPLETED", "FAILED"}

\* Once all items are terminal and nobody works on them, the run is closed, or
\* its task is, so that the next listing closes it.
RunFinalized ==
  Quiet /\ AllTerminal => run.status \in FinalStatuses \/ task \in FinalStatuses

\* Every run is closed in the end and stays so, whatever crashes or fails to
\* arrive, as long as a job has attempts left: the retry of a job whose item was
\* already closed still closes the run.  A job that has used up its attempts may
\* leave its item undone or the run open, which only a listing closes that finds
\* the task FAILED; for a run that is cancelled see RunFinalized.
RunEnds ==
  <>[](\/ run.status \in FinalStatuses
       \/ cancels > 0 \/ \E i \in Items : job[i].status = "FAILED")

=============================================================================
