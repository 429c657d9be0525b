------------------------------ MODULE JobQueue ------------------------------
(***************************************************************************)
(* The PostgreSQL-backed job queue of the backend and the workers that     *)
(* drain it: services/job_queue_service.py and services/job_worker.py.     *)
(*                                                                         *)
(* A worker process runs one polling loop and up to one job per slot.  The *)
(* loop claims jobs (SELECT ... FOR UPDATE SKIP LOCKED, then UPDATE, then  *)
(* a second SELECT that reads the claimed row back) and recovers RUNNING   *)
(* jobs whose heartbeat is old (a SELECT, then one UPDATE per row).  A     *)
(* slot executes the handler and records the outcome; mark_failed counts   *)
(* from the attempts of the row read back at the claim, not from the row   *)
(* as it is when the job fails.  No UPDATE but the claim's is conditional  *)
(* on the row still being in the state that was read.                      *)
(*                                                                         *)
(* Time is abstracted: "due" says that next_run_at is NULL or past, and    *)
(* "fresh" that heartbeat_at is younger than the staleness cutoff.  A      *)
(* fresh heartbeat may grow old whatever its executor does (a blocked      *)
(* event loop, an unreachable database), which is the case the recovery    *)
(* cannot tell from a dead worker.                                         *)
(***************************************************************************)
EXTENDS Integers, FiniteSets

CONSTANTS
  Jobs,           \* ids of the rows of system_jobs (serial numbers)
  Workers,        \* worker processes
  Slots,          \* places of the workers' semaphores, one job each
  WorkerOf,       \* the worker that owns a slot
  Priority,       \* priority of a job
  MaxAttempts,    \* normalized max_attempts of a job
  Allowed,        \* jobs whose type a worker accepts
  WorkflowJobs,   \* jobs that carry a workflow run and step
  MaxFaults,      \* bound on crashes and database errors
  NoWorker,       \* NULL in locked_by
  NoJob           \* no job in a slot or a loop

ASSUME JobsAssumption == Jobs \subseteq Nat /\ NoJob \notin Jobs
ASSUME WorkersAssumption == NoWorker \notin Workers
ASSUME SlotsAssumption == WorkerOf \in [Slots -> Workers]
ASSUME ParamsAssumption ==
  /\ Priority \in [Jobs -> Int]
  /\ MaxAttempts \in [Jobs -> Nat \ {0}]
  /\ Allowed \in [Workers -> SUBSET Jobs]
  /\ WorkflowJobs \subseteq Jobs
  /\ MaxFaults \in Nat

VARIABLES
  job,       \* the rows of system_jobs
  loop,      \* the polling loop of each worker
  slot,      \* the job each slot executes and the snapshot it holds
  faults,    \* crashes and database errors so far
  claims,    \* history: how often a job was claimed
  misfired   \* history: a recovery has hit a job that was not abandoned

vars == <<job, loop, slot, faults, claims, misfired>>
history == <<claims, misfired>>

Statuses == {"ABSENT", "READY", "RUNNING", "COMPLETED", "FAILED", "RETRY"}

Row == [status: Statuses, attempts: Nat, lockedBy: Workers \cup {NoWorker},
        due: BOOLEAN, fresh: BOOLEAN]

\* "locked": the loop's transaction holds the row lock of "job";
\* "reread": it has committed the claim and reads the row back;
\* "recover": it has selected stale rows; "stale" holds their attempts, and
\* -1 for a row it has not selected.
Loop == [pc: {"down", "poll", "locked", "reread", "recover"},
         job: Jobs \cup {NoJob}, stale: [Jobs -> Nat \cup {-1}]]

\* "run": the handler executes; "step": the job is marked completed and
\* the workflow step is being advanced.
Slot == [pc: {"idle", "run", "step"}, job: Jobs \cup {NoJob}, attempts: Nat]

TypeOK ==
  /\ job \in [Jobs -> Row]
  /\ loop \in [Workers -> Loop]
  /\ slot \in [Slots -> Slot]
  /\ faults \in Nat
  /\ claims \in [Jobs -> Nat]
  /\ misfired \in [Jobs -> BOOLEAN]

NoStale == [j \in Jobs |-> -1]
Polling == [pc |-> "poll", job |-> NoJob, stale |-> NoStale]
Down == [pc |-> "down", job |-> NoJob, stale |-> NoStale]
Idle == [pc |-> "idle", job |-> NoJob, attempts |-> 0]

Init ==
  /\ job = [j \in Jobs |-> [status |-> "ABSENT", attempts |-> 0,
                            lockedBy |-> NoWorker, due |-> TRUE,
                            fresh |-> FALSE]]
  /\ loop = [w \in Workers |-> Polling]
  /\ slot = [s \in Slots |-> Idle]
  /\ faults = 0
  /\ claims = [j \in Jobs |-> 0]
  /\ misfired = [j \in Jobs |-> FALSE]

-----------------------------------------------------------------------------
(* Reading the state                                                       *)

\* A claiming transaction holds the row lock: other claims skip the row and
\* other UPDATEs of it wait for the commit.
RowLocked(j) == \E w \in Workers : loop[w].pc = "locked" /\ loop[w].job = j

\* Some process is between the claim of j and the end of its executor.
InProgress(j) ==
  \/ \E w \in Workers : loop[w].pc = "reread" /\ loop[w].job = j
  \/ \E s \in Slots : slot[s].job = j

FreeSlots(w) == {s \in Slots : WorkerOf[s] = w /\ slot[s].pc = "idle"}

\* ORDER BY priority DESC, id ASC
Before(i, j) ==
  Priority[i] > Priority[j] \/ (Priority[i] = Priority[j] /\ i < j)

\* Variants of Claimable: without the row lock, and with FAILED claimable.
ClaimableUnlocked(w, j) ==
  job[j].status \in {"READY", "RETRY"} /\ job[j].due /\ j \in Allowed[w]
ClaimableFailed(w, j) ==
  /\ job[j].status \in {"READY", "RETRY", "FAILED"}
  /\ job[j].due /\ j \in Allowed[w] /\ ~RowLocked(j)

\* The rows claim_next_job selects from.  locked_by is NULL in every READY
\* or RETRY row (LockDiscipline), so the lock timeout never decides.
Claimable(w, j) ==
  /\ job[j].status \in {"READY", "RETRY"}
  /\ job[j].due
  /\ j \in Allowed[w]
  /\ job[j].lockedBy = NoWorker
  /\ ~RowLocked(j)

\* Variant of Stale: only rows without an owner count.
StaleUnowned(j) == job[j].status = "RUNNING" /\ job[j].lockedBy = NoWorker

Stale(j) == job[j].status = "RUNNING" /\ ~job[j].fresh

\* Variants of Failed: one attempt too many, and attempts counted down.
FailedLate(j, a) ==
  LET retry == a + 1 <= MaxAttempts[j]
  IN  [status |-> IF retry THEN "RETRY" ELSE "FAILED", attempts |-> a + 1,
       lockedBy |-> NoWorker, due |-> ~retry, fresh |-> FALSE]
FailedDown(j, a) ==
  [status |-> IF a - 1 > 0 THEN "RETRY" ELSE "FAILED", attempts |-> a - 1,
   lockedBy |-> NoWorker, due |-> TRUE, fresh |-> FALSE]

\* The row after a failed attempt that was counted from the snapshot a.
Failed(j, a) ==
  LET retry == a + 1 < MaxAttempts[j]
  IN  [status |-> IF retry THEN "RETRY" ELSE "FAILED", attempts |-> a + 1,
       lockedBy |-> NoWorker, due |-> ~retry, fresh |-> FALSE]

\* A recovery of j from the snapshot a goes wrong: it neither finds the
\* abandoned row it selected nor repeats what another recovery has written.
Misfire(j, a) ==
  /\ InProgress(j) \/ job[j].status # "RUNNING" \/ job[j].attempts # a
  /\ \/ InProgress(j)
     \/ job[j].status # Failed(j, a).status
     \/ job[j].attempts # a + 1

-----------------------------------------------------------------------------
(* job_queue_service.create_job                                            *)

CreateJob(j) ==
  /\ job[j].status = "ABSENT"
  /\ job' = [job EXCEPT ![j].status = "READY"]
  /\ UNCHANGED <<loop, slot, faults, history>>

(* job_queue_service.claim_next_job, called by the loop while it has room  *)

ClaimSelect(w) ==
  /\ loop[w].pc = "poll"
  /\ FreeSlots(w) # {}
  /\ \E j \in Jobs :
       /\ Claimable(w, j)
       /\ \A i \in Jobs : Claimable(w, i) => i = j \/ Before(j, i)
       /\ loop' = [loop EXCEPT ![w].pc = "locked", ![w].job = j]
  /\ UNCHANGED <<job, slot, faults, history>>

ClaimCommit(w) ==
  LET j == loop[w].job IN
  /\ loop[w].pc = "locked"
  /\ job' = [job EXCEPT ![j].status = "RUNNING", ![j].lockedBy = w,
                        ![j].fresh = TRUE]
  /\ loop' = [loop EXCEPT ![w].pc = "reread"]
  /\ claims' = IF misfired[j] THEN claims ELSE [claims EXCEPT ![j] = @ + 1]
  /\ UNCHANGED <<slot, faults, misfired>>

\* The row is read back in a new transaction, then a slot starts on it.
ClaimReread(w) ==
  LET j == loop[w].job IN
  /\ loop[w].pc = "reread"
  /\ \E s \in FreeSlots(w) :
       slot' = [slot EXCEPT ![s] = [pc |-> "run", job |-> j,
                                    attempts |-> job[j].attempts]]
  /\ loop' = [loop EXCEPT ![w] = Polling]
  /\ UNCHANGED <<job, faults, history>>

(* job_queue_service.heartbeat: no condition on status or owner            *)

Heartbeat(s) ==
  /\ slot[s].pc # "idle"
  /\ ~RowLocked(slot[s].job)
  /\ job' = [job EXCEPT ![slot[s].job].fresh = TRUE]
  /\ UNCHANGED <<loop, slot, faults, history>>

(* job_queue_service.recover_stale_running_jobs, called by the loop        *)

RecoverSelect(w) ==
  /\ loop[w].pc = "poll"
  /\ \E j \in Jobs : Stale(j)
  /\ loop' = [loop EXCEPT
       ![w].pc = "recover",
       ![w].stale = [j \in Jobs |-> IF Stale(j) THEN job[j].attempts ELSE -1]]
  /\ UNCHANGED <<job, slot, faults, history>>

RecoverApply(w) ==
  LET seen == loop[w].stale IN
  /\ loop[w].pc = "recover"
  /\ \A j \in Jobs : seen[j] # -1 => ~RowLocked(j)
  /\ job' = [j \in Jobs |-> IF seen[j] # -1 THEN Failed(j, seen[j])
                                           ELSE job[j]]
  /\ misfired' = [j \in Jobs |->
                    misfired[j] \/ (seen[j] # -1 /\ Misfire(j, seen[j]))]
  /\ loop' = [loop EXCEPT ![w] = Polling]
  /\ UNCHANGED <<slot, faults, claims>>

\* The transaction fails; run_worker_loop logs it and polls on.
RecoverAbort(w) ==
  /\ loop[w].pc = "recover"
  /\ faults < MaxFaults
  /\ faults' = faults + 1
  /\ loop' = [loop EXCEPT ![w] = Polling]
  /\ UNCHANGED <<job, slot, history>>

(* job_worker._run_job                                                     *)

\* The handler has returned: mark_completed, by job id alone.
MarkCompleted(s) ==
  LET j == slot[s].job IN
  /\ slot[s].pc = "run"
  /\ ~RowLocked(j)
  /\ job' = [job EXCEPT ![j].status = "COMPLETED", ![j].lockedBy = NoWorker,
                        ![j].fresh = FALSE]
  /\ slot' = IF j \in WorkflowJobs THEN [slot EXCEPT ![s].pc = "step"]
                                   ELSE [slot EXCEPT ![s] = Idle]
  /\ UNCHANGED <<loop, faults, history>>

\* mark_step_completed has returned.
StepDone(s) ==
  /\ slot[s].pc = "step"
  /\ slot' = [slot EXCEPT ![s] = Idle]
  /\ UNCHANGED <<job, loop, faults, history>>

\* There is no handler, or the handler, mark_completed or
\* mark_step_completed has raised: mark_failed from the snapshot.
MarkFailed(s) ==
  LET j == slot[s].job IN
  /\ slot[s].pc \in {"run", "step"}
  /\ ~RowLocked(j)
  /\ job' = [job EXCEPT ![j] = Failed(j, slot[s].attempts)]
  /\ slot' = [slot EXCEPT ![s] = Idle]
  /\ UNCHANGED <<loop, faults, history>>

\* mark_failed itself raises: the executor ends and the row stays.
MarkFailedRaises(s) ==
  /\ slot[s].pc \in {"run", "step"}
  /\ faults < MaxFaults
  /\ faults' = faults + 1
  /\ slot' = [slot EXCEPT ![s] = Idle]
  /\ UNCHANGED <<job, loop, history>>

-----------------------------------------------------------------------------
(* Processes and time                                                      *)

\* The process dies (or claim_next_job raises, which run_worker_loop does
\* not catch): its transactions roll back and its executors are gone.
Crash(w) ==
  /\ loop[w].pc # "down"
  /\ faults < MaxFaults
  /\ faults' = faults + 1
  /\ loop' = [loop EXCEPT ![w] = Down]
  /\ slot' = [s \in Slots |-> IF WorkerOf[s] = w THEN Idle ELSE slot[s]]
  /\ UNCHANGED <<job, history>>

Restart(w) ==
  /\ loop[w].pc = "down"
  /\ loop' = [loop EXCEPT ![w] = Polling]
  /\ UNCHANGED <<job, slot, faults, history>>

\* next_run_at passes.
Due(j) ==
  /\ ~job[j].due
  /\ job' = [job EXCEPT ![j].due = TRUE]
  /\ UNCHANGED <<loop, slot, faults, history>>

\* The heartbeat grows older than the cutoff.
Age(j) ==
  /\ job[j].fresh
  /\ job' = [job EXCEPT ![j].fresh = FALSE]
  /\ UNCHANGED <<loop, slot, faults, history>>

LoopStep(w) ==
  \/ ClaimSelect(w) \/ ClaimCommit(w) \/ ClaimReread(w)
  \/ RecoverSelect(w) \/ RecoverApply(w) \/ RecoverAbort(w)
  \/ Crash(w) \/ Restart(w)

SlotStep(s) ==
  \/ Heartbeat(s) \/ MarkCompleted(s) \/ StepDone(s)
  \/ MarkFailed(s) \/ MarkFailedRaises(s)

Next ==
  \/ \E w \in Workers : LoopStep(w)
  \/ \E s \in Slots : SlotStep(s)
  \/ \E j \in Jobs : CreateJob(j) \/ Due(j) \/ Age(j)

Spec == Init /\ [][Next]_vars

(* The loops poll, handlers end, clocks advance and crashed workers are    *)
(* started again.  Only the heartbeat of an abandoned job must grow old.   *)
Fairness ==
  /\ \A w \in Workers :
       /\ WF_vars(ClaimSelect(w)) /\ WF_vars(ClaimCommit(w))
       /\ WF_vars(ClaimReread(w)) /\ WF_vars(RecoverSelect(w))
       /\ WF_vars(RecoverApply(w)) /\ WF_vars(Restart(w))
  /\ \A s \in Slots : WF_vars(MarkCompleted(s) \/ StepDone(s) \/ MarkFailed(s))
  /\ \A j \in Jobs : WF_vars(Due(j)) /\ WF_vars(~InProgress(j) /\ Age(j))

FairSpec == Spec /\ Fairness

-----------------------------------------------------------------------------
(* Properties                                                              *)

\* The lock columns and the status never disagree, whatever the
\* interleaving of claims, recoveries and late outcomes: a row is owned
\* exactly while it is RUNNING (so no job is claimable but owned, and none
\* is RUNNING without the owner the recovery's NULL cases allow for).
LockDiscipline ==
  \A j \in Jobs : (job[j].status = "RUNNING") <=> (job[j].lockedBy # NoWorker)

Executors(j) == {s \in Slots : slot[s].job = j /\ slot[s].pc = "run"}

\* No two slots execute the handler of one job, unless a recovery has hit a
\* job whose worker was alive.
SingleExecutor ==
  \A j \in Jobs : ~misfired[j] =>
    \A s, t \in Executors(j) : s = t

\* Every claim is accounted for: with the one in progress or completed, the
\* attempts of a job are its claims, so a job is executed at most
\* max_attempts times and fails only when they are used up.
AttemptsExact ==
  \A j \in Jobs : ~misfired[j] =>
    /\ claims[j] = job[j].attempts
                     + (IF job[j].status \in {"RUNNING", "COMPLETED"}
                        THEN 1 ELSE 0)
    /\ claims[j] <= MaxAttempts[j]
    /\ job[j].status = "FAILED" => job[j].attempts = MaxAttempts[j]

\* A failed job stays failed and a completed one stays completed, unless a
\* recovery misfired or the worker that completed it could not advance the
\* workflow and reports the job as failed after all.
TerminalKept(j) ==
  ~misfired'[j] =>
    /\ job[j].status = "FAILED" => job'[j].status = "FAILED"
    /\ job[j].status = "COMPLETED" =>
         \/ job'[j].status = "COMPLETED"
         \/ \E s \in Slots : slot[s].pc = "step" /\ slot[s].job = j

TerminalStable == [][\A j \in Jobs : TerminalKept(j)]_vars

(* The inductive invariant behind the three invariants above.  A loop      *)
(* holds a row lock only on a claimable row; while no recovery of j has    *)
(* misfired, at most one loop or slot works on j and its row says so.      *)
LocksOk ==
  /\ \A w \in Workers :
       /\ loop[w].pc \in {"locked", "reread"} <=> loop[w].job \in Jobs
       /\ loop[w].pc = "locked" =>
            /\ job[loop[w].job].status \in {"READY", "RETRY"}
            /\ \A v \in Workers :
                 loop[v].pc = "locked" /\ loop[v].job = loop[w].job => v = w
  /\ \A s \in Slots : slot[s].pc # "idle" <=> slot[s].job \in Jobs

RowOk(j) ==
  /\ claims[j] = job[j].attempts
                   + (IF job[j].status \in {"RUNNING", "COMPLETED"}
                      THEN 1 ELSE 0)
  /\ IF job[j].status = "FAILED" THEN job[j].attempts = MaxAttempts[j]
                                 ELSE job[j].attempts < MaxAttempts[j]

OwnerOk(j) ==
  /\ \A w \in Workers : loop[w].pc = "reread" /\ loop[w].job = j =>
       /\ job[j].status = "RUNNING"
       /\ \A s \in Slots : slot[s].job # j
       /\ \A v \in Workers : loop[v].pc = "reread" /\ loop[v].job = j => v = w
  /\ \A s \in Slots : slot[s].job = j =>
       /\ job[j].status = IF slot[s].pc = "run" THEN "RUNNING" ELSE "COMPLETED"
       /\ slot[s].attempts = job[j].attempts
       /\ \A t \in Slots : slot[t].job = j => t = s

QueueInv ==
  /\ TypeOK /\ LocksOk /\ LockDiscipline
  /\ \A j \in Jobs : ~misfired[j] => RowOk(j) /\ OwnerOk(j)

\* Every created job reaches COMPLETED or FAILED for good, through crashes,
\* retries, recoveries and late outcomes.
EventuallySettled ==
  \A j \in Jobs :
    job[j].status # "ABSENT" ~> [](job[j].status \in {"COMPLETED", "FAILED"})

=============================================================================
