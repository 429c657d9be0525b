--------------------------- MODULE TaskLifecycle ---------------------------
(***************************************************************************)
(* The user-visible tasks of one task_type (services/task_service.py), the *)
(* job each is carried out by, the worker that executes it                 *)
(* (services/job_worker.py, _run_job) and the other writers of the task    *)
(* row: an administrator who force-cancels it (routers/tasks_runtime.py)   *)
(* and the sweep that expires tasks without a heartbeat.                   *)
(*                                                                         *)
(* update_task and start_task load the row and later write it, at READ     *)
(* COMMITTED and without a row lock; the session writes the status only if *)
(* it differs from the loaded one.  Every such update is two actions here, *)
(* a load and a Store.  A job has one executor at a time: what happens     *)
(* when it has two is the subject of JobQueue.                             *)
(***************************************************************************)
EXTENDS Integers, FiniteSets

CONSTANTS
  Tasks,        \* tasks of one task_type, each with one job
  MaxAttempts,  \* max_attempts of a job
  MaxCrashes,   \* bound on processes that die
  MaxCancels,   \* bound on force-cancel requests
  NoTask

ASSUME TasksAssumption == NoTask \notin Tasks
ASSUME TaskBounds ==
  MaxAttempts \in Nat \ {0} /\ MaxCrashes \in Nat /\ MaxCancels \in Nat

VARIABLES
  status,      \* status of the system_tasks rows
  aged,        \* rows whose updated_at is older than TASK_TIMEOUT_MINUTES
  creator,     \* the task create_task is inserting under the advisory lock
  submitting,  \* tasks inserted by a router that has yet to create the job
  job,         \* status of the system_jobs row and its attempts
  exec,        \* the worker coroutine that holds the job
  admin,       \* the force-cancel request under way
  swept,       \* tasks _expire_zombie_tasks has read
  crashes, cancels,
  revived,     \* history: a write took a terminal task back to RUNNING
  orphaned     \* history: tasks whose submitter or worker died

vars == <<status, aged, creator, submitting, job, exec, admin, swept,
          crashes, cancels, revived, orphaned>>

Active == {"PENDING", "RUNNING"}
TerminalTask == {"COMPLETED", "FAILED", "CANCELLED"}
TaskStatuses == {"NONE"} \cup Active \cup TerminalTask

\* READY stands for QUEUED and for RETRY once its delay has passed.
JobRow == [status: {"NONE", "READY", "RUNNING", "COMPLETED", "FAILED"},
           attempts: Nat]

(* Where the worker is in _run_job:                                        *)
(*   claimed, starting    start_task to do, loaded;                        *)
(*   working, reporting   handler running, progress update loaded;         *)
(*   closing              update_task(goal) of the handler loaded;         *)
(*   returned, raised     mark_completed, mark_failed to do;               *)
(*   judging              get_task of the final failure to do;             *)
(*   settling, settled    its update_task(goal) to do, loaded.             *)
Places == {"idle", "claimed", "starting", "working", "reporting", "closing",
           "returned", "raised", "judging", "settling", "settled"}
Coroutine == [at: Places, seen: TaskStatuses, goal: TaskStatuses]
Idle == [at |-> "idle", seen |-> "NONE", goal |-> "NONE"]

Request == [task: Tasks \cup {NoTask}, loaded: BOOLEAN, seen: TaskStatuses]
NoRequest == [task |-> NoTask, loaded |-> FALSE, seen |-> "NONE"]

TypeOK ==
  /\ status \in [Tasks -> TaskStatuses]
  /\ aged \subseteq Tasks
  /\ creator \in Tasks \cup {NoTask}
  /\ submitting \subseteq Tasks
  /\ job \in [Tasks -> JobRow]
  /\ exec \in [Tasks -> Coroutine]
  /\ admin \in Request
  /\ swept \subseteq Tasks
  /\ crashes \in Nat /\ cancels \in Nat
  /\ revived \in BOOLEAN
  /\ orphaned \subseteq Tasks

Init ==
  /\ status = [t \in Tasks |-> "NONE"]
  /\ aged = {} /\ creator = NoTask /\ submitting = {}
  /\ job = [t \in Tasks |-> [status |-> "NONE", attempts |-> 0]]
  /\ exec = [t \in Tasks |-> Idle]
  /\ admin = NoRequest
  /\ swept = {}
  /\ crashes = 0 /\ cancels = 0
  /\ revived = FALSE
  /\ orphaned = {}

-----------------------------------------------------------------------------
(* Writing a task row                                                      *)

ActiveTasks == {t \in Tasks : status[t] \in Active}

\* What the session writes of status new when it has loaded seen.
Stored(t, seen, new) == IF new = seen THEN status[t] ELSE new

Store(t, seen, new) ==
  /\ status' = [status EXCEPT ![t] = Stored(t, seen, new)]
  /\ aged' = aged \ {t}
  /\ revived' = (revived \/ (status[t] \in TerminalTask /\ status'[t] \in Active))

Goto(t, place) == exec' = [exec EXCEPT ![t].at = place]
Load(t, place) ==
  exec' = [exec EXCEPT ![t] = [@ EXCEPT !.at = place, !.seen = status[t]]]
LoadFor(t, place, goal) ==
  exec' = [exec EXCEPT ![t] = [at |-> place, seen |-> status[t], goal |-> goal]]

-----------------------------------------------------------------------------
(* Submission                                                              *)

\* Variant of CreateCheck: without the advisory lock.
CreateCheckUnlocked(t) ==
  /\ status[t] = "NONE" /\ ActiveTasks = {} /\ t # creator
  /\ IF creator = NoTask
     THEN creator' = t /\ UNCHANGED <<status, submitting>>
     ELSE /\ status' = [status EXCEPT ![t] = "PENDING"]
          /\ submitting' = submitting \cup {t}
          /\ UNCHANGED creator
  /\ UNCHANGED <<aged, job, exec, admin, swept, crashes, cancels, revived, orphaned>>

\* create_task: under the lock of the type, no task of the type is active.
CreateCheck(t) ==
  /\ creator = NoTask
  /\ status[t] = "NONE"
  /\ ActiveTasks = {}
  /\ creator' = t
  /\ UNCHANGED <<status, aged, submitting, job, exec, admin, swept,
                 crashes, cancels, revived, orphaned>>

\* The commit inserts the row and releases the lock.
CreateInsert ==
  /\ creator # NoTask
  /\ status' = [status EXCEPT ![creator] = "PENDING"]
  /\ submitting' = submitting \cup {creator}
  /\ creator' = NoTask
  /\ UNCHANGED <<aged, job, exec, admin, swept, crashes, cancels, revived, orphaned>>

\* The router then creates the job, in a transaction of its own.
SubmitJob(t) ==
  /\ t \in submitting
  /\ submitting' = submitting \ {t}
  /\ job' = [job EXCEPT ![t].status = "READY"]
  /\ UNCHANGED <<status, aged, creator, exec, admin, swept, crashes, cancels,
                 revived, orphaned>>

-----------------------------------------------------------------------------
(* The worker                                                              *)

Rest == <<creator, submitting, admin, swept, crashes, cancels, orphaned>>

Claim(t) ==
  /\ job[t].status = "READY" /\ exec[t].at = "idle"
  /\ job' = [job EXCEPT ![t].status = "RUNNING"]
  /\ Goto(t, "claimed")
  /\ UNCHANGED <<status, aged, revived>> /\ UNCHANGED Rest

\* start_task, unconditionally RUNNING.
StartLoad(t) ==
  /\ exec[t].at = "claimed"
  /\ Load(t, "starting")
  /\ UNCHANGED <<status, aged, job, revived>> /\ UNCHANGED Rest
StartStore(t) ==
  /\ exec[t].at = "starting"
  /\ Store(t, exec[t].seen, "RUNNING")
  /\ Goto(t, "working")
  /\ UNCHANGED job /\ UNCHANGED Rest

\* A progress update of the handler: update_task(status="RUNNING").
ProgressLoad(t) ==
  /\ exec[t].at = "working"
  /\ Load(t, "reporting")
  /\ UNCHANGED <<status, aged, job, revived>> /\ UNCHANGED Rest
ProgressStore(t) ==
  /\ exec[t].at = "reporting"
  /\ Store(t, exec[t].seen, "RUNNING")
  /\ Goto(t, "working")
  /\ UNCHANGED job /\ UNCHANGED Rest

\* The handler records its outcome and returns, or raises.
CloseLoad(t) ==
  /\ exec[t].at = "working"
  /\ \E goal \in {"COMPLETED", "FAILED"} : LoadFor(t, "closing", goal)
  /\ UNCHANGED <<status, aged, job, revived>> /\ UNCHANGED Rest
CloseStore(t) ==
  /\ exec[t].at = "closing"
  /\ Store(t, exec[t].seen, exec[t].goal)
  /\ Goto(t, IF exec[t].goal = "COMPLETED" THEN "returned" ELSE "raised")
  /\ UNCHANGED job /\ UNCHANGED Rest

\* The handler raises before it has recorded anything.
Raise(t) ==
  /\ exec[t].at \in {"claimed", "working"}
  /\ Goto(t, "raised")
  /\ UNCHANGED <<status, aged, job, revived>> /\ UNCHANGED Rest

MarkCompleted(t) ==
  /\ exec[t].at = "returned"
  /\ job' = [job EXCEPT ![t].status = "COMPLETED"]
  /\ exec' = [exec EXCEPT ![t] = Idle]
  /\ UNCHANGED <<status, aged, revived>> /\ UNCHANGED Rest

\* Variants of the next two: the attempt is not counted, nobody settles the
\* task of a failed job.
AttemptedFree(t) == [job[t] EXCEPT !.status = "READY"]
AfterFailureQuiet(t, place) == Idle

\* One attempt has failed, and what the coroutine goes on to do.
Attempted(t) == [job[t] EXCEPT !.attempts = @ + 1,
                 !.status = IF job[t].attempts + 1 >= MaxAttempts
                            THEN "FAILED" ELSE "READY"]
AfterFailure(t, place) ==
  IF Attempted(t).status = "FAILED"
  THEN [Idle EXCEPT !.at = place, !.goal = "FAILED"] ELSE Idle

\* mark_failed: RETRY leaves the task alone but for its message and heartbeat
\* (update_task without a status); the last attempt settles it.
MarkFailed(t) ==
  /\ exec[t].at = "raised"
  /\ job' = [job EXCEPT ![t] = Attempted(t)]
  /\ exec' = [exec EXCEPT ![t] = AfterFailure(t, "judging")]
  /\ aged' = IF Attempted(t).status = "FAILED" THEN aged ELSE aged \ {t}
  /\ UNCHANGED <<status, revived>> /\ UNCHANGED Rest

\* get_task: a CANCELLED task is to stay CANCELLED.
Judge(t) ==
  /\ exec[t].at = "judging"
  /\ exec' = [exec EXCEPT ![t] =
       [@ EXCEPT !.at = "settling",
                 !.goal = IF status[t] = "CANCELLED" THEN "CANCELLED" ELSE "FAILED"]]
  /\ UNCHANGED <<status, aged, job, revived>> /\ UNCHANGED Rest

\* update_task(final_status).
SettleLoad(t) ==
  /\ exec[t].at = "settling"
  /\ Load(t, "settled")
  /\ UNCHANGED <<status, aged, job, revived>> /\ UNCHANGED Rest
SettleStore(t) ==
  /\ exec[t].at = "settled"
  /\ Store(t, exec[t].seen, exec[t].goal)
  /\ exec' = [exec EXCEPT ![t] = Idle]
  /\ UNCHANGED job /\ UNCHANGED Rest

Stranded(t) == job[t].status = "RUNNING" /\ exec[t].at = "idle"

\* Another worker's loop recovers the job of a dead one; if it fails it, it
\* goes on to update the task.
Recover(t) ==
  /\ Stranded(t)
  /\ job' = [job EXCEPT ![t] = Attempted(t)]
  /\ exec' = [exec EXCEPT ![t] = AfterFailure(t, "settling")]
  /\ UNCHANGED <<status, aged, revived>> /\ UNCHANGED Rest

-----------------------------------------------------------------------------
(* The administrator, the sweep and failures                               *)

\* force_cancel_task reads the task, which must be active ...
CancelCheck(t) ==
  /\ admin = NoRequest /\ cancels < MaxCancels
  /\ status[t] \in Active
  /\ admin' = [NoRequest EXCEPT !.task = t]
  /\ cancels' = cancels + 1
  /\ UNCHANGED <<status, aged, creator, submitting, job, exec, swept,
                 crashes, revived, orphaned>>
\* ... and in other transactions updates it; its job is left alone.
CancelLoad ==
  /\ admin.task # NoTask /\ ~admin.loaded
  /\ admin' = [admin EXCEPT !.loaded = TRUE, !.seen = status[admin.task]]
  /\ UNCHANGED <<status, aged, creator, submitting, job, exec, swept,
                 crashes, cancels, revived, orphaned>>
CancelStore ==
  /\ admin.loaded
  /\ Store(admin.task, admin.seen, "CANCELLED")
  /\ admin' = NoRequest
  /\ UNCHANGED <<creator, submitting, job, exec, swept, crashes, cancels, orphaned>>

\* Two hours go by without a write to the row.
Age(t) ==
  /\ status[t] \in Active
  /\ aged' = aged \cup {t}
  /\ UNCHANGED <<status, job, exec, revived>> /\ UNCHANGED Rest

Zombies == {t \in aged : status[t] = "RUNNING"}

\* _expire_zombie_tasks, when a client lists the tasks.
SweepRead ==
  /\ swept = {} /\ Zombies # {}
  /\ swept' = Zombies
  /\ UNCHANGED <<status, aged, creator, submitting, job, exec, admin,
                 crashes, cancels, revived, orphaned>>
SweepCommit ==
  /\ swept # {}
  /\ status' = [t \in Tasks |-> IF t \in swept THEN "FAILED" ELSE status[t]]
  /\ aged' = aged \ swept
  /\ swept' = {}
  /\ UNCHANGED <<creator, submitting, job, exec, admin, crashes, cancels,
                 revived, orphaned>>

\* The router or the worker dies.
Crash(t) ==
  /\ crashes < MaxCrashes
  /\ \/ /\ t \in submitting
        /\ submitting' = submitting \ {t}
        /\ UNCHANGED exec
     \/ /\ exec[t].at # "idle"
        /\ exec' = [exec EXCEPT ![t] = Idle]
        /\ UNCHANGED submitting
  /\ crashes' = crashes + 1
  /\ orphaned' = orphaned \cup {t}
  /\ UNCHANGED <<status, aged, creator, job, admin, swept, cancels, revived>>

Submission(t) == CreateCheck(t) \/ SubmitJob(t)
Work(t) ==
  \/ Claim(t) \/ StartLoad(t) \/ StartStore(t) \/ ProgressStore(t)
  \/ CloseLoad(t) \/ CloseStore(t) \/ MarkCompleted(t) \/ MarkFailed(t)
  \/ Judge(t) \/ SettleLoad(t) \/ SettleStore(t) \/ Recover(t)

Next ==
  \/ CreateInsert \/ CancelLoad \/ CancelStore \/ SweepRead \/ SweepCommit
  \/ \E t \in Tasks :
       \/ Submission(t) \/ Work(t) \/ ProgressLoad(t) \/ Raise(t)
       \/ CancelCheck(t) \/ Age(t) \/ Crash(t)

Spec == Init /\ [][Next]_vars

(* A handler ends: it does not report progress forever, so CloseLoad is    *)
(* taken if it is enabled again and again.  Nobody has to list the tasks,  *)
(* so nothing is assumed of the sweep.                                     *)
Fairness ==
  /\ WF_vars(CreateInsert) /\ WF_vars(CancelLoad) /\ WF_vars(CancelStore)
  /\ \A t \in Tasks :
       /\ WF_vars(SubmitJob(t)) /\ WF_vars(Work(t)) /\ SF_vars(CloseLoad(t))

FairSpec == Spec /\ Fairness

-----------------------------------------------------------------------------
(* Properties                                                              *)

AtMostOneActive == \A t, u \in ActiveTasks : t = u

\* Two tasks of a type are active at once only after a worker has taken a
\* terminal task back to RUNNING.
ActiveUnique == ~revived => AtMostOneActive

\* An active task has a submitter, an unfinished job or a worker that is
\* about to settle it, whatever cancellations and sweeps raced with the
\* worker, unless a process of it died.
NobodyForgets ==
  \A t \in ActiveTasks :
    t \in orphaned \/ t \in submitting
      \/ job[t].status \in {"READY", "RUNNING"} \/ exec[t].at # "idle"

(* The inductive invariant behind ActiveUnique: nobody works for a task    *)
(* that has not been inserted, workers write terminal outcomes, and while  *)
(* create_task holds the lock no task of the type is active.               *)
Unborn(t) ==
  status[t] = "NONE" =>
    /\ job[t].status = "NONE" /\ exec[t].at = "idle"
    /\ t \notin submitting /\ t \notin aged /\ t \notin swept
    /\ admin.task # t

GoalOk(t) ==
  exec[t].at \in {"closing", "settling", "settled"} => exec[t].goal \in TerminalTask

Exclusion ==
  /\ creator # NoTask => status[creator] = "NONE"
  /\ ~revived => /\ AtMostOneActive
                 /\ creator # NoTask => ActiveTasks = {}

RowsInv ==
  /\ TypeOK
  /\ \A t \in Tasks : Unborn(t) /\ GoalOk(t)
  /\ admin.loaded => admin.task # NoTask
  /\ Exclusion

\* Behind NobodyForgets: a terminal status that the worker has loaded and will
\* not write again is still terminal, and so is the task of a handler that has
\* returned; only the worker itself could have reopened it.
Attended(t) ==
  /\ exec[t].at \in {"closing", "settled"} /\ exec[t].seen \in TerminalTask
       => status[t] \in TerminalTask
  /\ exec[t].at = "returned" => status[t] \in TerminalTask
  /\ status[t] \in Active =>
       t \in orphaned \/ t \in submitting
         \/ job[t].status \in {"READY", "RUNNING"} \/ exec[t].at # "idle"

LifecycleInv == RowsInv /\ \A t \in Tasks : Attended(t)

\* A task does not keep its type busy for ever, unless a process of it died.
EventuallyFree ==
  \A t \in Tasks : status[t] \in Active ~> status[t] \notin Active \/ t \in orphaned

=============================================================================
