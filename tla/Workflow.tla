------------------------------ MODULE Workflow ------------------------------
(***************************************************************************)
(* One workflow run of services/workflow_service.py: a graph of steps that *)
(* becomes executable as dependencies complete, each executable step being *)
(* handed to the job queue once.                                           *)
(*                                                                         *)
(* Job executors report outcomes in database transactions that run         *)
(* concurrently at READ COMMITTED, without row locks on what they read.    *)
(* mark_step_completed reads all the steps, decides which have become      *)
(* READY and whether the run is over, and only then writes; it is two      *)
(* actions here, AdvanceRead and AdvanceCommit.  retry_step is the same,   *)
(* RetryRead and RetryCommit.  The session writes a status only if it      *)
(* differs from the one it has loaded.                                     *)
(*                                                                         *)
(* The job queue is abstracted to the number of unfinished jobs per step,  *)
(* each reported once as completed or failed, or not at all.               *)
(***************************************************************************)
EXTENDS Integers, FiniteSets

CONSTANTS
  Steps,        \* step ids of the run
  Deps,         \* depends_on of a step
  Executors,    \* job executors that report at the same time
  Clients,      \* clients of retry_step
  MaxRetries,   \* bound on retry_step calls
  MaxLost,      \* bound on processes that die before they report or enqueue
  NoStep

\* The request validator of routers/workflow.py rejects an empty list.
ASSUME StepsAssumption == Steps # {} /\ IsFiniteSet(Steps) /\ NoStep \notin Steps
ASSUME DepsAssumption == Deps \in [Steps -> SUBSET Steps]
ASSUME BoundsAssumption == MaxRetries \in Nat /\ MaxLost \in Nat

\* Variant of Downstream: the steps that depend on s directly.
Children(s) == {s} \cup {t \in Steps : s \in Deps[t]}

\* The steps reachable from s along reversed dependencies, s included: the
\* least set with s that holds every step depending on one of its members.
Closed(C) == \A t \in Steps : Deps[t] \cap C # {} => t \in C
Downstream(s) ==
  {t \in Steps : \A C \in SUBSET Steps : s \in C /\ Closed(C) => t \in C}

\* The request validator of routers/workflow.py rejects cyclic graphs.
ASSUME AcyclicAssumption == \A s \in Steps : Deps[s] \cap Downstream(s) = {}

VARIABLES
  run,         \* status of the workflow_runs row
  step,        \* status of the workflow_steps rows
  jobs,        \* unfinished jobs of each step in the queue
  creating,    \* create_run has committed and has yet to enqueue
  exec,        \* open mark_step_completed transactions
  client,      \* open retry_step transactions
  retries, lost,
  overlapped   \* history: a transaction read while another one was open

vars == <<run, step, jobs, creating, exec, client, retries, lost, overlapped>>

RunStatuses == {"NONE", "RUNNING", "COMPLETED", "FAILED"}
StepStatuses == {"NONE", "PENDING", "READY", "RUNNING", "COMPLETED", "FAILED"}
Terminal == {"COMPLETED", "FAILED"}

\* What a mark_step_completed transaction is about to write: the step if it
\* was not COMPLETED when read, the steps found READY, the final run status.
Report == [step: Steps \cup {NoStep}, mark: BOOLEAN, ready: SUBSET Steps,
           close: {"", "COMPLETED", "FAILED"}]

\* What a retry_step transaction is about to write.
Retry == [step: Steps \cup {NoStep}, reset: SUBSET Steps, reopen: BOOLEAN]

NoReport == [step |-> NoStep, mark |-> FALSE, ready |-> {}, close |-> ""]
NoRetry == [step |-> NoStep, reset |-> {}, reopen |-> FALSE]

TypeOK ==
  /\ run \in RunStatuses
  /\ step \in [Steps -> StepStatuses]
  /\ jobs \in [Steps -> Nat]
  /\ creating \in BOOLEAN
  /\ exec \in [Executors -> Report]
  /\ client \in [Clients -> Retry]
  /\ retries \in Nat /\ lost \in Nat
  /\ overlapped \in BOOLEAN

Init ==
  /\ run = "NONE"
  /\ step = [s \in Steps |-> "NONE"]
  /\ jobs = [s \in Steps |-> 0]
  /\ creating = FALSE
  /\ exec = [e \in Executors |-> NoReport]
  /\ client = [c \in Clients |-> NoRetry]
  /\ retries = 0 /\ lost = 0
  /\ overlapped = FALSE

-----------------------------------------------------------------------------

Busy(e) == exec[e].step # NoStep
Retrying(c) == client[c].step # NoStep
OpenTransaction == (\E e \in Executors : Busy(e)) \/ (\E c \in Clients : Retrying(c))

\* enqueue_ready_steps: a job for each READY step, which becomes RUNNING.
Enqueued(st, ready) == [s \in Steps |-> IF s \in ready THEN "RUNNING" ELSE st[s]]
WithJobs(ready) == [s \in Steps |-> IF s \in ready THEN jobs[s] + 1 ELSE jobs[s]]

\* Variant of CommittedReady: nothing is selected.
NothingReady == {}

CommittedReady == {s \in Steps : step[s] = "READY"}

\* Variants of the next two: one dependency is enough, the transaction does
\* not see its own write, one COMPLETED step closes the run.
NowReadyAny(seen) ==
  {t \in Steps : seen[t] = "PENDING" /\ \E d \in Deps[t] : seen[d] = "COMPLETED"}
NowReadyCommitted(seen) ==
  {t \in Steps : seen[t] = "PENDING" /\ \A d \in Deps[t] : step[d] = "COMPLETED"}
ClosingEarly(seen) ==
  IF \E t \in Steps : seen[t] = "COMPLETED" THEN "COMPLETED" ELSE "FAILED"

\* _advance_ready_steps, on the statuses a transaction sees.
NowReady(seen) ==
  {t \in Steps : seen[t] = "PENDING" /\ \A d \in Deps[t] : seen[d] = "COMPLETED"}
Closing(seen) ==
  IF \E t \in Steps : seen[t] \notin Terminal THEN ""
  ELSE IF \E t \in Steps : seen[t] = "FAILED" THEN "FAILED" ELSE "COMPLETED"

-----------------------------------------------------------------------------

\* create_run: the run and its steps are committed ...
CreateRun ==
  /\ run = "NONE"
  /\ run' = "RUNNING"
  /\ step' = [s \in Steps |-> IF Deps[s] = {} THEN "READY" ELSE "PENDING"]
  /\ creating' = TRUE
  /\ UNCHANGED <<jobs, exec, client, retries, lost, overlapped>>

\* ... and the READY steps are enqueued in a second transaction.
EnqueueCreated ==
  /\ creating
  /\ creating' = FALSE
  /\ step' = Enqueued(step, CommittedReady)
  /\ jobs' = WithJobs(CommittedReady)
  /\ UNCHANGED <<run, exec, client, retries, lost, overlapped>>

\* A job of s is done: mark_step_completed reads the steps.
AdvanceRead(e, s) ==
  LET seen == [step EXCEPT ![s] = "COMPLETED"] IN
  /\ ~Busy(e)
  /\ jobs[s] > 0
  /\ jobs' = [jobs EXCEPT ![s] = @ - 1]
  /\ exec' = [exec EXCEPT ![e] = [step |-> s, mark |-> step[s] # "COMPLETED",
                                  ready |-> NowReady(seen),
                                  close |-> IF NowReady(seen) = {}
                                            THEN Closing(seen) ELSE ""]]
  /\ overlapped' = (overlapped \/ OpenTransaction)
  /\ UNCHANGED <<run, step, creating, client, retries, lost>>

\* It writes the step and the READY steps, enqueues all steps it then sees
\* READY, and commits.
AdvanceCommit(e) ==
  LET r == exec[e]
      queued == r.ready \cup (CommittedReady \ {r.step})
  IN
  /\ Busy(e)
  /\ step' = Enqueued([step EXCEPT ![r.step] = IF r.mark THEN "COMPLETED" ELSE @],
                      queued)
  /\ jobs' = WithJobs(queued)
  /\ run' = IF r.close = "" THEN run ELSE r.close
  /\ exec' = [exec EXCEPT ![e] = NoReport]
  /\ UNCHANGED <<creating, client, retries, lost, overlapped>>

\* mark_step_failed: the step and the run are failed unconditionally.
StepFailed(s) ==
  /\ jobs[s] > 0
  /\ jobs' = [jobs EXCEPT ![s] = @ - 1]
  /\ step' = [step EXCEPT ![s] = "FAILED"]
  /\ run' = "FAILED"
  /\ UNCHANGED <<creating, exec, client, retries, lost, overlapped>>

\* Variant of RetryRead: RUNNING steps do not refuse the retry.
RetryReadUnchecked(c, s) ==
  /\ ~Retrying(c) /\ run # "NONE" /\ retries < MaxRetries
  /\ step[s] \in Terminal
  /\ retries' = retries + 1
  /\ client' = [client EXCEPT ![c] =
       [step |-> s, reopen |-> run # "RUNNING",
        reset |-> {t \in Downstream(s) \ {s} : step[t] # "PENDING"}]]
  /\ overlapped' = (overlapped \/ OpenTransaction)
  /\ UNCHANGED <<run, step, jobs, creating, exec, lost>>

\* retry_step: no step may be RUNNING and the target must be terminal.
RetryRead(c, s) ==
  /\ ~Retrying(c)
  /\ run # "NONE"
  /\ retries < MaxRetries
  /\ \A t \in Steps : step[t] # "RUNNING"
  /\ step[s] \in Terminal
  /\ retries' = retries + 1
  /\ client' = [client EXCEPT ![c] =
       [step |-> s, reopen |-> run # "RUNNING",
        reset |-> {t \in Downstream(s) \ {s} : step[t] # "PENDING"}]]
  /\ overlapped' = (overlapped \/ OpenTransaction)
  /\ UNCHANGED <<run, step, jobs, creating, exec, lost>>

\* The downstream steps are reset, the target becomes READY and is enqueued
\* with any other READY step in the same transaction.
RetryCommit(c) ==
  LET r == client[c]
      queued == {r.step} \cup (CommittedReady \ r.reset)
  IN
  /\ Retrying(c)
  /\ step' = Enqueued([t \in Steps |-> IF t \in r.reset THEN "PENDING" ELSE step[t]],
                      queued)
  /\ jobs' = WithJobs(queued)
  /\ run' = IF r.reopen THEN "RUNNING" ELSE run
  /\ client' = [client EXCEPT ![c] = NoRetry]
  /\ UNCHANGED <<creating, exec, retries, lost, overlapped>>

\* The creator dies before it enqueues.
LoseCreator ==
  /\ creating /\ lost < MaxLost
  /\ creating' = FALSE
  /\ lost' = lost + 1
  /\ UNCHANGED <<run, step, jobs, exec, client, retries, overlapped>>

\* The job ends without a report (recover_stale_running_jobs fails it, or
\* its worker dies after mark_completed), or the reporter dies.
LoseReport ==
  /\ lost < MaxLost
  /\ lost' = lost + 1
  /\ \/ /\ \E s \in Steps : jobs[s] > 0 /\ jobs' = [jobs EXCEPT ![s] = @ - 1]
        /\ UNCHANGED exec
     \/ /\ \E e \in Executors : Busy(e) /\ exec' = [exec EXCEPT ![e] = NoReport]
        /\ UNCHANGED jobs
  /\ UNCHANGED <<run, step, creating, client, retries, overlapped>>

Finish(s) == StepFailed(s) \/ \E e \in Executors : AdvanceRead(e, s)

Next ==
  \/ CreateRun \/ EnqueueCreated
  \/ \E s \in Steps : StepFailed(s)
  \/ \E e \in Executors : AdvanceCommit(e) \/ \E s \in Steps : AdvanceRead(e, s)
  \/ \E c \in Clients : RetryCommit(c) \/ \E s \in Steps : RetryRead(c, s)
  \/ LoseCreator \/ LoseReport

Spec == Init /\ [][Next]_vars

(* Transactions commit, and the queue brings every job to its report       *)
(* (EventuallySettled of JobQueue).  Nobody has to call retry_step.        *)
Fairness ==
  /\ WF_vars(EnqueueCreated)
  /\ \A s \in Steps : WF_vars(Finish(s))
  /\ \A e \in Executors : WF_vars(AdvanceCommit(e))
  /\ \A c \in Clients : WF_vars(RetryCommit(c))

FairSpec == Spec /\ Fairness

-----------------------------------------------------------------------------
(* Properties                                                              *)

Begun == {"READY", "RUNNING", "COMPLETED", "FAILED"}

\* No step is started before all its dependencies have completed, through
\* failures and retries, as long as no two transactions on the run overlap.
DepsRespected ==
  ~overlapped =>
    \A t \in Steps : step[t] \in Begun =>
      \A d \in Deps[t] : step[d] = "COMPLETED"

\* A step has at most one job in the queue or being reported, and only
\* while it is RUNNING: no step is ever executed twice at once.
OneJobPerStep ==
  ~overlapped =>
    \A s \in Steps :
      /\ jobs[s] <= 1
      /\ \A e, f \in Executors :
           exec[e].step = s /\ exec[f].step = s => e = f
      /\ jobs[s] = 1 => \A e \in Executors : exec[e].step # s
      /\ jobs[s] = 1 \/ (\E e \in Executors : exec[e].step = s)
           => step[s] = "RUNNING"

(* The inductive invariant behind DepsRespected and OneJobPerStep: what an *)
(* open transaction has read still holds when it commits.                  *)
CreationOk ==
  /\ run = "NONE" => \A s \in Steps : step[s] = "NONE" /\ jobs[s] = 0
  /\ creating =>
       /\ run # "NONE"
       /\ \A s \in Steps : step[s] \in {"READY", "PENDING"} /\ jobs[s] = 0
  /\ run = "NONE" \/ creating => ~OpenTransaction

OneTransaction ==
  /\ \A e, f \in Executors : Busy(e) /\ Busy(f) => e = f
  /\ \A c, d \in Clients : Retrying(c) /\ Retrying(d) => c = d
  /\ \A e \in Executors, c \in Clients : ~(Busy(e) /\ Retrying(c))

ReportOk(e) ==
  LET s == exec[e].step IN
  Busy(e) =>
    /\ step[s] = "RUNNING" /\ jobs[s] = 0 /\ exec[e].mark
    /\ \A t \in exec[e].ready :
         step[t] = "PENDING" /\ \A d \in Deps[t] : d = s \/ step[d] = "COMPLETED"

RetryOk(c) ==
  LET s == client[c].step IN
  Retrying(c) =>
    /\ step[s] \in Terminal
    /\ \A t \in Steps : step[t] # "RUNNING"
    /\ s \notin client[c].reset
    /\ \A t \in Downstream(s) \ {s} : t \in client[c].reset \/ step[t] = "PENDING"
    /\ client[c].reset \subseteq Downstream(s)

\* Part of WorkflowInv: what each open transaction relies on.
SerialInv ==
  /\ TypeOK
  /\ CreationOk
  /\ ~overlapped =>
       /\ OneTransaction
       /\ \A s \in Steps : jobs[s] <= 1 /\ (jobs[s] = 1 => step[s] = "RUNNING")
       /\ \A t \in Steps : step[t] \in Begun =>
            \A d \in Deps[t] : step[d] = "COMPLETED"
       /\ \A e \in Executors : ReportOk(e)
       /\ \A c \in Clients : RetryOk(c)

(* The part of WorkflowInv behind NoStrandedRun and CompletedRunIsDone.    *)
\* A report closes the run as completed exactly if it completes the last
\* step, and it misses no step that completing its own makes executable.
ReportComplete(e) ==
  LET s == exec[e].step IN
  Busy(e) =>
    /\ exec[e].close = "COMPLETED"
         <=> \A t \in Steps \ {s} : step[t] = "COMPLETED"
    /\ NowReady([step EXCEPT ![s] = "COMPLETED"]) \subseteq exec[e].ready

\* The status of the run agrees with its steps.
RunAgrees ==
  /\ run = "COMPLETED" => \A s \in Steps : step[s] = "COMPLETED"
  /\ run = "RUNNING" => \E s \in Steps : step[s] # "COMPLETED"
  /\ run # "NONE" => \A s \in Steps : step[s] # "NONE"
  /\ \A c \in Clients : Retrying(c) /\ run # "RUNNING" => client[c].reopen

\* A step under way has somebody working on it.
NothingForgotten ==
  /\ \A s \in Steps : step[s] = "READY" => creating
  /\ \A s \in Steps : step[s] = "RUNNING" =>
       jobs[s] = 1 \/ \E e \in Executors : exec[e].step = s

ProgressInv ==
  ~overlapped =>
    /\ \A e \in Executors : ReportComplete(e)
    /\ RunAgrees
    /\ NowReady(step) = {}
    /\ lost = 0 => NothingForgotten

WorkflowInv == SerialInv /\ ProgressInv

Quiet ==
  /\ ~creating /\ ~OpenTransaction
  /\ \A s \in Steps : jobs[s] = 0

\* A run is left RUNNING with nothing queued or under way only beside a
\* FAILED step: after the retry of another one.
NoStrandedRun ==
  lost = 0 /\ ~overlapped /\ run = "RUNNING" /\ Quiet
    => \E s \in Steps : step[s] = "FAILED"

\* A completed run has completed all its steps and has no job left.
CompletedRunIsDone ==
  ~overlapped /\ run = "COMPLETED" /\ (\A c \in Clients : ~Retrying(c)) =>
    \A s \in Steps : step[s] = "COMPLETED" /\ jobs[s] = 0

Executable(s) ==
  step[s] \in {"PENDING", "READY"} /\ \A d \in Deps[s] : step[d] = "COMPLETED"

\* Every step that becomes executable is enqueued, or taken back by a retry,
\* unless its creator died or transactions have overlapped.
ReadyIsEnqueued ==
  \A s \in Steps : Executable(s) ~> ~Executable(s) \/ overlapped \/ lost > 0

\* The same without the reservation.
ExecutableIsEnqueued == \A s \in Steps : Executable(s) ~> ~Executable(s)

=============================================================================
