------------------------ MODULE TaskLifecycleProofs ------------------------
(***************************************************************************)
(* At any number of tasks, attempts, crashes and cancellations, at most    *)
(* one task of a type is active unless a worker has revived one.           *)
(*                                                                         *)
(* Every write of a task row is a Store; StoreStep says once what a Store  *)
(* does to the row, to the other rows and to Exclusion.                    *)
(***************************************************************************)
EXTENDS TaskLifecycle, TLAPS

\* What a step that writes at most the row of t leaves of the rows.
RowWritten(t) ==
  /\ status' \in [Tasks -> TaskStatuses]
  /\ aged' \subseteq aged
  /\ revived' \in BOOLEAN
  /\ status'[t] # "NONE"
  /\ \A u \in Tasks : u # t => status'[u] = status[u]
  /\ Exclusion'

\* A Store of RUNNING or of a terminal status keeps Exclusion.
LEMMA StoreStep ==
  ASSUME RowsInv, NEW t \in Tasks, NEW seen, NEW new, status[t] # "NONE",
         new \in {"RUNNING"} \cup TerminalTask,
         Store(t, seen, new), UNCHANGED creator
  PROVE  RowWritten(t)
<1>1. status \in [Tasks -> TaskStatuses] /\ revived \in BOOLEAN
  BY DEF RowsInv, TypeOK
<1>2. status' = [status EXCEPT ![t] = Stored(t, seen, new)]
  BY DEF Store
<1>3. status'[t] = new \/ status'[t] = status[t]
  BY <1>1, <1>2 DEF Stored
<1>4. /\ status' \in [Tasks -> TaskStatuses]
      /\ \A u \in Tasks : u # t => status'[u] = status[u]
  <2>1. Stored(t, seen, new) \in TaskStatuses
    BY <1>1 DEF Stored, TaskStatuses, Active, TerminalTask
  <2> QED
    BY <1>1, <1>2, <2>1
<1>5. status'[t] # "NONE"
  BY <1>3 DEF TerminalTask
<1>6. aged' \subseteq aged /\ revived' \in BOOLEAN
  BY <1>1 DEF Store
<1>7. creator' # NoTask => status'[creator'] = "NONE"
  <2>1. creator # NoTask => creator \in Tasks /\ status[creator] = "NONE"
    BY DEF RowsInv, TypeOK, Exclusion
  <2> QED
    BY <1>4, <2>1
<1>8. ASSUME ~revived'
      PROVE  AtMostOneActive' /\ (creator' # NoTask => ActiveTasks' = {})
  <2>1. ~revived /\ ~(status[t] \in TerminalTask /\ status'[t] \in Active)
    BY <1>8 DEF Store
  <2>2. status[t] \in Active \cup TerminalTask
    BY <1>1 DEF TaskStatuses
  <2>3. ActiveTasks' \subseteq ActiveTasks
    BY <1>4, <2>1, <2>2 DEF ActiveTasks
  <2>4. AtMostOneActive /\ (creator # NoTask => ActiveTasks = {})
    BY <2>1 DEF RowsInv, Exclusion
  <2> QED
    BY <2>3, <2>4 DEF AtMostOneActive
<1> QED
  BY <1>4, <1>5, <1>6, <1>7, <1>8 DEF Exclusion, RowWritten

\* A step that changes no status keeps Exclusion.
LEMMA SameStatuses ==
  ASSUME RowsInv, UNCHANGED <<status, creator, revived>>
  PROVE  Exclusion'
  BY DEF RowsInv, Exclusion, AtMostOneActive, ActiveTasks

\* A step of the worker of t: it moves its own coroutine and job, and leaves
\* the task rows alone or does one Store of t.
LEMMA WorkerStep ==
  ASSUME RowsInv, NEW t \in Tasks, NEW c \in Coroutine, NEW r \in JobRow,
         status[t] # "NONE",
         exec' = [exec EXCEPT ![t] = c], job' = [job EXCEPT ![t] = r],
         c.at \in {"closing", "settling", "settled"} => c.goal \in TerminalTask,
         UNCHANGED Rest,
         \/ UNCHANGED <<status, revived>> /\ aged' \subseteq aged
         \/ \E seen \in TaskStatuses, new \in {"RUNNING"} \cup TerminalTask :
              Store(t, seen, new)
  PROVE  RowsInv'
<1>1. TypeOK /\ (\A u \in Tasks : Unborn(u) /\ GoalOk(u))
  BY DEF RowsInv
<1>2. RowWritten(t)
  <2>1. CASE UNCHANGED <<status, revived>> /\ aged' \subseteq aged
    <3>1. Exclusion'
      BY <2>1, SameStatuses DEF Rest
    <3> QED
      BY <1>1, <2>1, <3>1 DEF TypeOK, RowWritten
  <2>2. ASSUME NEW seen \in TaskStatuses,
               NEW new \in {"RUNNING"} \cup TerminalTask, Store(t, seen, new)
        PROVE  RowWritten(t)
    BY <2>2, StoreStep DEF Rest
  <2> QED
    BY <2>1, <2>2
<1>3. exec' \in [Tasks -> Coroutine] /\ job' \in [Tasks -> JobRow]
  BY <1>1 DEF TypeOK
<1>4. \A u \in Tasks : u # t => exec'[u] = exec[u] /\ job'[u] = job[u]
  BY <1>1 DEF TypeOK
<1>5. TypeOK'
  <2>1. UNCHANGED <<creator, submitting, admin, swept, crashes, cancels, orphaned>>
    BY DEF Rest
  <2>2. aged' \subseteq Tasks
    BY <1>1, <1>2 DEF TypeOK, RowWritten
  <2> QED
    BY <1>1, <1>2, <1>3, <2>1, <2>2 DEF TypeOK, RowWritten
<1>6. ASSUME NEW u \in Tasks PROVE Unborn(u)' /\ GoalOk(u)'
  <2>1. CASE u = t
    <3>1. exec'[t] = c
      BY <1>1 DEF TypeOK
    <3> QED
      BY <1>2, <2>1, <3>1 DEF Unborn, GoalOk, RowWritten
  <2>2. CASE u # t
    BY <1>1, <1>2, <1>4, <2>2 DEF Unborn, GoalOk, RowWritten, Rest
  <2> QED
    BY <2>1, <2>2
<1>7. admin'.loaded => admin'.task # NoTask
  BY DEF RowsInv, Rest
<1> QED
  BY <1>2, <1>5, <1>6, <1>7 DEF RowsInv, RowWritten

\* Somebody works for a task only if it has been inserted.
LEMMA Born ==
  ASSUME RowsInv, NEW t \in Tasks,
         \/ exec[t].at # "idle" \/ job[t].status # "NONE" \/ t \in submitting
         \/ t \in aged \/ t \in swept \/ admin.task = t
  PROVE  status[t] # "NONE"
  BY DEF RowsInv, Unborn

\* The coroutines the worker's actions move to.
LEMMA Coroutines ==
  ASSUME RowsInv, NEW t \in Tasks, NEW place \in Places
  PROVE  /\ exec[t] \in Coroutine /\ job[t] \in JobRow /\ Idle \in Coroutine
         /\ [exec[t] EXCEPT !.at = place] \in Coroutine
         /\ [exec[t] EXCEPT !.at = place].at = place
         /\ [exec[t] EXCEPT !.at = place, !.seen = status[t]] \in Coroutine
         /\ [exec[t] EXCEPT !.at = place, !.seen = status[t]].at = place
         /\ \A goal \in TaskStatuses :
              [at |-> place, seen |-> status[t], goal |-> goal] \in Coroutine
         /\ AfterFailure(t, place) \in Coroutine
         /\ Attempted(t) \in JobRow
<1>1. exec[t] \in Coroutine /\ job[t] \in JobRow /\ status[t] \in TaskStatuses
  BY DEF RowsInv, TypeOK
<1>2. Idle \in Coroutine
  BY DEF Idle, Coroutine, Places, TaskStatuses
<1>3. [Idle EXCEPT !.at = place, !.goal = "FAILED"] \in Coroutine
  BY DEF Idle, Coroutine, TaskStatuses, TerminalTask
<1>4. Attempted(t) \in JobRow
  <2>1. job[t].attempts + 1 \in Nat
    BY <1>1 DEF JobRow
  <2> QED
    BY <1>1, <2>1 DEF Attempted, JobRow
<1> QED
  BY <1>1, <1>2, <1>3, <1>4 DEF Coroutine, AfterFailure

\* The actions of the worker that do not write the task row.
LEMMA WorkQuiet ==
  ASSUME RowsInv, NEW t \in Tasks,
         \/ Claim(t) \/ StartLoad(t) \/ ProgressLoad(t) \/ CloseLoad(t)
         \/ Raise(t) \/ MarkCompleted(t) \/ MarkFailed(t) \/ Judge(t)
         \/ SettleLoad(t) \/ Recover(t)
  PROVE  RowsInv'
<1> USE DEF Places
<1>1. /\ exec[t] \in Coroutine /\ job[t] \in JobRow /\ Idle \in Coroutine
      /\ job = [job EXCEPT ![t] = job[t]]
      /\ GoalOk(t)
  BY Coroutines DEF RowsInv, TypeOK
<1>2. CASE Claim(t)
  <2> DEFINE r == [job[t] EXCEPT !.status = "RUNNING"]
  <2>1. r \in JobRow
    BY <1>1 DEF JobRow
  <2>2. /\ [exec[t] EXCEPT !.at = "claimed"] \in Coroutine
        /\ [exec[t] EXCEPT !.at = "claimed"].at = "claimed"
    BY Coroutines
  <2>3. status[t] # "NONE"
    BY <1>2, Born DEF Claim
  <2> QED
    BY <1>2, <2>1, <2>2, <2>3, WorkerStep DEF Claim, Goto
<1>3. CASE StartLoad(t)
  <2>1. /\ [exec[t] EXCEPT !.at = "starting", !.seen = status[t]] \in Coroutine
        /\ [exec[t] EXCEPT !.at = "starting", !.seen = status[t]].at = "starting"
    BY Coroutines
  <2>2. status[t] # "NONE"
    BY <1>3, Born DEF StartLoad
  <2> QED
    BY <1>1, <1>3, <2>1, <2>2, WorkerStep DEF StartLoad, Load
<1>4. CASE ProgressLoad(t)
  <2>1. /\ [exec[t] EXCEPT !.at = "reporting", !.seen = status[t]] \in Coroutine
        /\ [exec[t] EXCEPT !.at = "reporting", !.seen = status[t]].at = "reporting"
    BY Coroutines
  <2>2. status[t] # "NONE"
    BY <1>4, Born DEF ProgressLoad
  <2> QED
    BY <1>1, <1>4, <2>1, <2>2, WorkerStep DEF ProgressLoad, Load
<1>5. CASE CloseLoad(t)
  <2>1. PICK goal \in {"COMPLETED", "FAILED"} : LoadFor(t, "closing", goal)
    BY <1>5 DEF CloseLoad
  <2>2. goal \in TaskStatuses /\ goal \in TerminalTask
    BY DEF TaskStatuses, TerminalTask
  <2>3. [at |-> "closing", seen |-> status[t], goal |-> goal] \in Coroutine
    BY <2>2, Coroutines
  <2>4. status[t] # "NONE"
    BY <1>5, Born DEF CloseLoad
  <2> QED
    BY <1>1, <1>5, <2>1, <2>2, <2>3, <2>4, WorkerStep DEF CloseLoad, LoadFor
<1>6. CASE Raise(t)
  <2>1. /\ [exec[t] EXCEPT !.at = "raised"] \in Coroutine
        /\ [exec[t] EXCEPT !.at = "raised"].at = "raised"
    BY Coroutines
  <2>2. status[t] # "NONE"
    BY <1>6, Born DEF Raise
  <2> QED
    BY <1>1, <1>6, <2>1, <2>2, WorkerStep DEF Raise, Goto
<1>7. CASE MarkCompleted(t)
  <2>1. [job[t] EXCEPT !.status = "COMPLETED"] \in JobRow
    BY <1>1 DEF JobRow
  <2>2. status[t] # "NONE"
    BY <1>7, Born DEF MarkCompleted
  <2> QED
    BY <1>1, <1>7, <2>1, <2>2, WorkerStep DEF MarkCompleted, Idle
<1>8. CASE MarkFailed(t)
  <2>1. Attempted(t) \in JobRow /\ AfterFailure(t, "judging") \in Coroutine
    BY Coroutines
  <2>2. AfterFailure(t, "judging").at \in {"idle", "judging"}
    BY DEF AfterFailure, Idle
  <2>3. aged' \subseteq aged /\ status[t] # "NONE"
    BY <1>8, Born DEF MarkFailed
  <2> QED
    BY <1>8, <2>1, <2>2, <2>3, WorkerStep DEF MarkFailed
<1>9. CASE Judge(t)
  <2> DEFINE goal == IF status[t] = "CANCELLED" THEN "CANCELLED" ELSE "FAILED"
             c == [exec[t] EXCEPT !.at = "settling", !.goal = goal]
  <2>1. c \in Coroutine /\ c.goal \in TerminalTask
    <3>1. goal \in TaskStatuses /\ goal \in TerminalTask
      BY DEF TaskStatuses, TerminalTask
    <3> HIDE DEF goal
    <3> QED
      BY <1>1, <3>1 DEF Coroutine
  <2>2. status[t] # "NONE"
    BY <1>9, Born DEF Judge
  <2>3. exec' = [exec EXCEPT ![t] = c]
    BY <1>9 DEF Judge
  <2> HIDE DEF c
  <2> QED
    BY <1>1, <1>9, <2>1, <2>2, <2>3, WorkerStep DEF Judge
<1>10. CASE SettleLoad(t)
  <2> DEFINE c == [exec[t] EXCEPT !.at = "settled", !.seen = status[t]]
  <2>1. c \in Coroutine
    BY Coroutines
  <2>2. c.goal \in TerminalTask
    BY <1>1, <1>10 DEF SettleLoad, GoalOk, Coroutine
  <2>3. status[t] # "NONE"
    BY <1>10, Born DEF SettleLoad
  <2> QED
    BY <1>1, <1>10, <2>1, <2>2, <2>3, WorkerStep DEF SettleLoad, Load
<1>11. CASE Recover(t)
  <2>1. Attempted(t) \in JobRow /\ AfterFailure(t, "settling") \in Coroutine
    BY Coroutines
  <2>2. \/ AfterFailure(t, "settling").at = "idle"
        \/ AfterFailure(t, "settling").goal \in TerminalTask
    BY DEF AfterFailure, Idle, TerminalTask
  <2>3. status[t] # "NONE"
    BY <1>11, Born DEF Recover, Stranded
  <2> QED
    BY <1>11, <2>1, <2>2, <2>3, WorkerStep DEF Recover
<1> QED
  BY <1>2, <1>3, <1>4, <1>5, <1>6, <1>7, <1>8, <1>9, <1>10, <1>11

\* The actions of the worker that do.
LEMMA WorkStores ==
  ASSUME RowsInv, NEW t \in Tasks,
         StartStore(t) \/ ProgressStore(t) \/ CloseStore(t) \/ SettleStore(t)
  PROVE  RowsInv'
<1> USE DEF Places
<1>1. /\ exec[t] \in Coroutine /\ job[t] \in JobRow /\ Idle \in Coroutine
      /\ job = [job EXCEPT ![t] = job[t]]
      /\ GoalOk(t)
      /\ exec[t].seen \in TaskStatuses
  <2>1. exec[t] \in Coroutine /\ job[t] \in JobRow /\ Idle \in Coroutine
    BY Coroutines
  <2>2. job = [job EXCEPT ![t] = job[t]] /\ GoalOk(t)
    BY DEF RowsInv, TypeOK
  <2>3. exec[t].seen \in TaskStatuses
    BY <2>1 DEF Coroutine
  <2> QED
    BY <2>1, <2>2, <2>3
<1>2. status[t] # "NONE"
  BY Born DEF StartStore, ProgressStore, CloseStore, SettleStore
<1>3. CASE StartStore(t) \/ ProgressStore(t)
  <2>1. /\ [exec[t] EXCEPT !.at = "working"] \in Coroutine
        /\ [exec[t] EXCEPT !.at = "working"].at = "working"
    BY Coroutines
  <2>2. /\ exec' = [exec EXCEPT ![t] = [exec[t] EXCEPT !.at = "working"]]
        /\ Store(t, exec[t].seen, "RUNNING")
        /\ UNCHANGED job /\ UNCHANGED Rest
    BY <1>3 DEF StartStore, ProgressStore, Goto
  <2> QED
    BY <1>1, <1>2, <2>1, <2>2, WorkerStep
<1>4. CASE CloseStore(t)
  <2> DEFINE place == IF exec[t].goal = "COMPLETED" THEN "returned" ELSE "raised"
  <2>1. place \in {"returned", "raised"}
    OBVIOUS
  <2>2. /\ exec' = [exec EXCEPT ![t] = [exec[t] EXCEPT !.at = place]]
        /\ Store(t, exec[t].seen, exec[t].goal)
        /\ UNCHANGED job /\ UNCHANGED Rest
    BY <1>4 DEF CloseStore, Goto
  <2>3. exec[t].goal \in TerminalTask
    BY <1>1, <1>4 DEF CloseStore, GoalOk
  <2> HIDE DEF place
  <2>4. /\ [exec[t] EXCEPT !.at = place] \in Coroutine
        /\ [exec[t] EXCEPT !.at = place].at = place
    <3>1. place \in Places
      BY <2>1
    <3> HIDE DEF Places
    <3> QED
      BY <3>1, Coroutines
  <2> QED
    BY <1>1, <1>2, <2>1, <2>2, <2>3, <2>4, WorkerStep
<1>5. CASE SettleStore(t)
  <2>1. exec[t].goal \in TerminalTask
    BY <1>1, <1>5 DEF SettleStore, GoalOk
  <2>2. Idle.at = "idle"
    BY DEF Idle
  <2> QED
    BY <1>1, <1>2, <1>5, <2>1, <2>2, WorkerStep DEF SettleStore
<1> QED
  BY <1>3, <1>4, <1>5

\* Submission: create_task holds the lock from its check to its insert.
LEMMA SubmissionSteps ==
  ASSUME RowsInv,
         CreateInsert \/ \E t \in Tasks : CreateCheck(t) \/ SubmitJob(t)
  PROVE  RowsInv'
<1>1. ASSUME NEW t \in Tasks, CreateCheck(t) PROVE RowsInv'
  <2>1. TypeOK'
    BY <1>1 DEF RowsInv, TypeOK, CreateCheck
  <2>2. \A u \in Tasks : Unborn(u)' /\ GoalOk(u)'
    BY <1>1 DEF RowsInv, Unborn, GoalOk, CreateCheck
  <2>3. Exclusion' /\ (admin'.loaded => admin'.task # NoTask)
    BY <1>1 DEF RowsInv, Exclusion, AtMostOneActive, ActiveTasks, CreateCheck
  <2> QED
    BY <2>1, <2>2, <2>3 DEF RowsInv
<1>2. CASE CreateInsert
  <2>1. /\ creator \in Tasks /\ creator' = NoTask
        /\ status' = [status EXCEPT ![creator] = "PENDING"]
        /\ submitting' = submitting \cup {creator}
        /\ UNCHANGED <<aged, job, exec, admin, swept, crashes, cancels,
                       revived, orphaned>>
    BY <1>2 DEF CreateInsert, RowsInv, TypeOK
  <2>2. /\ status' \in [Tasks -> TaskStatuses]
        /\ status'[creator] = "PENDING"
        /\ \A u \in Tasks : u # creator => status'[u] = status[u]
    BY <2>1 DEF RowsInv, TypeOK, TaskStatuses, Active
  <2>3. TypeOK'
    BY <2>1, <2>2 DEF RowsInv, TypeOK
  <2>4. \A u \in Tasks : Unborn(u)' /\ GoalOk(u)'
    BY <2>1, <2>2 DEF RowsInv, Unborn, GoalOk
  <2>5. ASSUME ~revived PROVE AtMostOneActive'
    <3>1. ActiveTasks = {}
      BY <2>5, <1>2 DEF CreateInsert, RowsInv, Exclusion
    <3>2. ActiveTasks' \subseteq {creator}
      BY <2>2, <3>1 DEF ActiveTasks
    <3> QED
      BY <3>2 DEF AtMostOneActive
  <2> QED
    BY <2>1, <2>3, <2>4, <2>5 DEF RowsInv, Exclusion
<1>3. ASSUME NEW t \in Tasks, SubmitJob(t) PROVE RowsInv'
  <2>1. /\ t \in submitting /\ submitting' = submitting \ {t}
        /\ job' = [job EXCEPT ![t].status = "READY"]
        /\ UNCHANGED <<status, aged, creator, exec, admin, swept, crashes,
                       cancels, revived, orphaned>>
    BY <1>3 DEF SubmitJob
  <2>2. /\ job' \in [Tasks -> JobRow]
        /\ \A u \in Tasks : u # t => job'[u] = job[u]
    BY <2>1 DEF RowsInv, TypeOK, JobRow
  <2>3. TypeOK'
    BY <2>1, <2>2 DEF RowsInv, TypeOK
  <2>4. status[t] # "NONE"
    BY <2>1, Born
  <2>5. \A u \in Tasks : Unborn(u)' /\ GoalOk(u)'
    BY <2>1, <2>2, <2>4 DEF RowsInv, Unborn, GoalOk
  <2> QED
    BY <2>1, <2>3, <2>5, SameStatuses DEF RowsInv
<1> QED
  BY <1>1, <1>2, <1>3

\* The force-cancel request.
LEMMA CancelSteps ==
  ASSUME RowsInv,
         CancelLoad \/ CancelStore \/ \E t \in Tasks : CancelCheck(t)
  PROVE  RowsInv'
<1>1. TypeOK /\ (\A u \in Tasks : Unborn(u) /\ GoalOk(u))
  BY DEF RowsInv
<1>2. ASSUME NEW t \in Tasks, CancelCheck(t) PROVE RowsInv'
  <2>1. /\ admin' = [task |-> t, loaded |-> FALSE, seen |-> "NONE"]
        /\ status[t] # "NONE"
    BY <1>2 DEF CancelCheck, NoRequest, Active
  <2>2. admin' \in Request
    BY <2>1 DEF Request, TaskStatuses
  <2>3. cancels' \in Nat
    BY <1>1, <1>2 DEF CancelCheck, TypeOK
  <2>4. UNCHANGED <<status, aged, creator, submitting, job, exec, swept,
                    crashes, revived, orphaned>>
    BY <1>2 DEF CancelCheck
  <2>5. TypeOK'
    BY <1>1, <2>2, <2>3, <2>4 DEF TypeOK
  <2>6. \A u \in Tasks : Unborn(u)' /\ GoalOk(u)'
    BY <1>1, <2>1, <2>4 DEF Unborn, GoalOk
  <2> QED
    BY <2>1, <2>4, <2>5, <2>6, SameStatuses DEF RowsInv
<1>3. CASE CancelLoad
  <2>1. /\ admin.task \in Tasks /\ admin \in Request
        /\ admin' = [admin EXCEPT !.loaded = TRUE, !.seen = status[admin.task]]
        /\ UNCHANGED <<status, aged, creator, submitting, job, exec, swept,
                       crashes, cancels, revived, orphaned>>
    BY <1>1, <1>3 DEF CancelLoad, TypeOK, Request
  <2>2. admin' \in Request /\ admin'.task = admin.task
    BY <1>1, <2>1 DEF Request, TypeOK
  <2>3. TypeOK'
    BY <1>1, <2>1, <2>2 DEF TypeOK
  <2>4. \A u \in Tasks : Unborn(u)' /\ GoalOk(u)'
    BY <1>1, <2>1, <2>2 DEF Unborn, GoalOk
  <2>5. admin'.task # NoTask
    BY <1>3, <2>2 DEF CancelLoad
  <2> QED
    BY <2>1, <2>3, <2>4, <2>5, SameStatuses DEF RowsInv
<1>4. CASE CancelStore
  <2> DEFINE t == admin.task
  <2>1. t \in Tasks /\ status[t] # "NONE"
    <3>1. t \in Tasks
      BY <1>1, <1>4 DEF CancelStore, RowsInv, TypeOK, Request
    <3> QED
      BY <3>1, Born
  <2>2. /\ Store(t, admin.seen, "CANCELLED") /\ admin' = NoRequest
        /\ UNCHANGED <<creator, submitting, job, exec, swept, crashes, cancels,
                       orphaned>>
    BY <1>4 DEF CancelStore
  <2> HIDE DEF t
  <2>3. RowWritten(t)
    BY <2>1, <2>2, StoreStep DEF TerminalTask
  <2>4. admin' \in Request /\ admin'.task = NoTask /\ ~admin'.loaded
    BY <2>2 DEF NoRequest, Request, TaskStatuses
  <2>5. TypeOK'
    BY <1>1, <2>2, <2>3, <2>4 DEF TypeOK, RowWritten
  <2>6. \A u \in Tasks : Unborn(u)' /\ GoalOk(u)'
    BY <1>1, <2>2, <2>3, <2>4, TasksAssumption DEF Unborn, GoalOk, RowWritten
  <2> QED
    BY <2>3, <2>4, <2>5, <2>6 DEF RowsInv, RowWritten
<1> QED
  BY <1>2, <1>3, <1>4

\* The sweep, the passing of time and crashes.
LEMMA SweepSteps ==
  ASSUME RowsInv,
         SweepRead \/ SweepCommit \/ \E t \in Tasks : Age(t) \/ Crash(t)
  PROVE  RowsInv'
<1>1. TypeOK /\ (\A u \in Tasks : Unborn(u) /\ GoalOk(u))
  BY DEF RowsInv
<1>2. ASSUME NEW t \in Tasks, Age(t) PROVE RowsInv'
  <2>1. /\ status[t] # "NONE" /\ aged' = aged \cup {t}
        /\ UNCHANGED <<status, creator, submitting, job, exec, admin, swept,
                       crashes, cancels, revived, orphaned>>
    BY <1>2 DEF Age, Active, Rest
  <2>2. TypeOK'
    BY <1>1, <2>1 DEF TypeOK
  <2>3. \A u \in Tasks : Unborn(u)' /\ GoalOk(u)'
    BY <1>1, <2>1 DEF Unborn, GoalOk
  <2> QED
    BY <2>1, <2>2, <2>3, SameStatuses DEF RowsInv
<1>3. CASE SweepRead
  <2>1. /\ swept' = Zombies
        /\ UNCHANGED <<status, aged, creator, submitting, job, exec, admin,
                       crashes, cancels, revived, orphaned>>
    BY <1>3 DEF SweepRead
  <2>2. swept' \subseteq aged
    BY <2>1 DEF Zombies
  <2>3. TypeOK'
    BY <1>1, <2>1, <2>2 DEF TypeOK
  <2>4. \A u \in Tasks : Unborn(u)' /\ GoalOk(u)'
    BY <1>1, <2>1, <2>2 DEF Unborn, GoalOk
  <2> QED
    BY <2>1, <2>3, <2>4, SameStatuses DEF RowsInv
<1>4. CASE SweepCommit
  <2>1. /\ status' = [t \in Tasks |-> IF t \in swept THEN "FAILED" ELSE status[t]]
        /\ aged' = aged \ swept /\ swept' = {}
        /\ UNCHANGED <<creator, submitting, job, exec, admin, crashes, cancels,
                       revived, orphaned>>
    BY <1>4 DEF SweepCommit
  <2>2. /\ status' \in [Tasks -> TaskStatuses]
        /\ \A u \in Tasks : \/ status'[u] = "FAILED" /\ status[u] # "NONE"
                            \/ status'[u] = status[u]
    BY <1>1, <2>1 DEF TypeOK, TaskStatuses, TerminalTask, Unborn
  <2>3. TypeOK'
    BY <1>1, <2>1, <2>2 DEF TypeOK
  <2>4. \A u \in Tasks : Unborn(u)' /\ GoalOk(u)'
    BY <1>1, <2>1, <2>2 DEF Unborn, GoalOk
  <2>5. ActiveTasks' \subseteq ActiveTasks
    BY <2>2 DEF ActiveTasks, Active
  <2>6. creator' # NoTask => status'[creator'] = "NONE"
    BY <2>1, <2>2 DEF RowsInv, TypeOK, Exclusion
  <2>7. Exclusion'
    BY <2>1, <2>5, <2>6 DEF RowsInv, Exclusion, AtMostOneActive
  <2> QED
    BY <2>1, <2>3, <2>4, <2>7 DEF RowsInv
<1>5. ASSUME NEW t \in Tasks, Crash(t) PROVE RowsInv'
  <2>1. /\ submitting' \subseteq submitting
        /\ exec' = exec \/ exec' = [exec EXCEPT ![t] = Idle]
        /\ crashes' = crashes + 1 /\ orphaned' = orphaned \cup {t}
        /\ UNCHANGED <<status, aged, creator, job, admin, swept, cancels, revived>>
    BY <1>5 DEF Crash
  <2>2. Idle \in Coroutine /\ Idle.at = "idle"
    BY DEF Idle, Coroutine, Places, TaskStatuses
  <2>3. /\ exec' \in [Tasks -> Coroutine]
        /\ \A u \in Tasks : exec'[u] = exec[u] \/ exec'[u] = Idle
    BY <1>1, <2>1, <2>2 DEF TypeOK
  <2>4. TypeOK'
    BY <1>1, <2>1, <2>3 DEF TypeOK
  <2>5. \A u \in Tasks : Unborn(u)' /\ GoalOk(u)'
    BY <1>1, <2>1, <2>2, <2>3 DEF Unborn, GoalOk
  <2> QED
    BY <2>1, <2>4, <2>5, SameStatuses DEF RowsInv
<1> QED
  BY <1>2, <1>3, <1>4, <1>5

LEMMA InitRows == Init => RowsInv
<1> SUFFICES ASSUME Init PROVE RowsInv
  OBVIOUS
<1>1. /\ status = [t \in Tasks |-> "NONE"] /\ creator = NoTask
      /\ job = [t \in Tasks |-> [status |-> "NONE", attempts |-> 0]]
      /\ exec = [t \in Tasks |-> Idle]
      /\ admin = NoRequest /\ revived = FALSE
      /\ aged = {} /\ submitting = {} /\ swept = {} /\ orphaned = {}
      /\ crashes = 0 /\ cancels = 0
  BY DEF Init
<1>2. Idle \in Coroutine /\ Idle.at = "idle"
  BY DEF Idle, Coroutine, Places, TaskStatuses
<1>3. NoRequest \in Request /\ NoRequest.task = NoTask /\ ~NoRequest.loaded
  BY DEF NoRequest, Request, TaskStatuses
<1>4. job \in [Tasks -> JobRow]
  BY <1>1 DEF JobRow
<1>5. status \in [Tasks -> TaskStatuses] /\ exec \in [Tasks -> Coroutine]
  BY <1>1, <1>2 DEF TaskStatuses
<1>6. TypeOK
  BY <1>1, <1>3, <1>4, <1>5 DEF TypeOK
<1>7. \A t \in Tasks : Unborn(t) /\ GoalOk(t)
  BY <1>1, <1>2, <1>3, TasksAssumption DEF Unborn, GoalOk
<1>8. Exclusion
  BY <1>1 DEF Exclusion, AtMostOneActive, ActiveTasks, Active
<1> QED
  BY <1>1, <1>3, <1>6, <1>7, <1>8 DEF RowsInv

LEMMA NextRows == RowsInv /\ [Next]_vars => RowsInv'
<1> SUFFICES ASSUME RowsInv, [Next]_vars PROVE RowsInv'
  OBVIOUS
<1>1. CASE UNCHANGED vars
  <2>1. TypeOK' /\ (\A u \in Tasks : Unborn(u)' /\ GoalOk(u)')
    BY <1>1 DEF RowsInv, TypeOK, Unborn, GoalOk, vars
  <2> QED
    BY <1>1, <2>1, SameStatuses DEF RowsInv, vars
<1>2. CASE Next
  BY <1>2, WorkQuiet, WorkStores, SubmissionSteps, CancelSteps, SweepSteps
     DEF Next, Submission, Work
<1> QED
  BY <1>1, <1>2

-----------------------------------------------------------------------------
(* The second part: nobody forgets an active task.                         *)

\* A step that leaves the worker of u alone and reopens nothing.
LEMMA CalmStep ==
  ASSUME NEW u \in Tasks, Attended(u),
         exec'[u] = exec[u], job'[u] = job[u],
         u \in submitting => u \in submitting',
         u \in orphaned => u \in orphaned',
         status[u] \in TerminalTask => status'[u] \in TerminalTask,
         status'[u] \in Active => status[u] \in Active
  PROVE  Attended(u)'
  BY DEF Attended

\* What a Store of new makes of the row.
LEMMA StoredRow ==
  ASSUME RowsInv, NEW t \in Tasks, NEW seen, NEW new, Store(t, seen, new)
  PROVE  /\ status'[t] = IF new = seen THEN status[t] ELSE new
         /\ \A u \in Tasks : u # t => status'[u] = status[u]
  BY DEF RowsInv, TypeOK, Store, Stored

\* A step of the worker of t concerns no other task ...
LEMMA WorkerLocal ==
  ASSUME RowsInv, NEW t \in Tasks, Work(t) \/ ProgressLoad(t) \/ Raise(t)
  PROVE  /\ \E c \in Coroutine : exec' = [exec EXCEPT ![t] = c]
         /\ \E r \in JobRow : job' = [job EXCEPT ![t] = r]
         /\ \/ status' = status
            \/ \E seen \in TaskStatuses, new \in TaskStatuses : Store(t, seen, new)
         /\ UNCHANGED Rest
<1>0. exec[t] \in Coroutine /\ job[t] \in JobRow
  BY DEF RowsInv, TypeOK
<1>1. /\ job = [job EXCEPT ![t] = job[t]]
      /\ exec[t].seen \in TaskStatuses /\ exec[t].goal \in TaskStatuses
  BY <1>0 DEF RowsInv, TypeOK, Coroutine
<1>2. ASSUME NEW place \in Places, Goto(t, place)
      PROVE  \E c \in Coroutine : exec' = [exec EXCEPT ![t] = c]
  BY <1>2, Coroutines DEF Goto
<1>3. ASSUME NEW place \in Places, Load(t, place)
      PROVE  \E c \in Coroutine : exec' = [exec EXCEPT ![t] = c]
  BY <1>3, Coroutines DEF Load
<1>4. CASE Claim(t)
  <2>1. [job[t] EXCEPT !.status = "RUNNING"] \in JobRow
    BY <1>0 DEF JobRow
  <2> QED
    BY <1>4, <1>2, <2>1 DEF Claim, Places
<1>5. CASE StartLoad(t) \/ ProgressLoad(t) \/ SettleLoad(t)
  BY <1>5, <1>0, <1>1, <1>3 DEF StartLoad, ProgressLoad, SettleLoad, Places
<1>6. CASE StartStore(t) \/ ProgressStore(t)
  <2>1. "RUNNING" \in TaskStatuses
    BY DEF TaskStatuses, Active
  <2> QED
    BY <1>6, <1>0, <1>1, <1>2, <2>1 DEF StartStore, ProgressStore, Places
<1>7. CASE CloseLoad(t)
  <2>1. {"COMPLETED", "FAILED"} \subseteq TaskStatuses /\ "closing" \in Places
    BY DEF TaskStatuses, TerminalTask, Places
  <2> QED
    BY <1>7, <1>0, <1>1, <2>1, Coroutines DEF CloseLoad, LoadFor
<1>8. CASE CloseStore(t)
  BY <1>8, <1>0, <1>1, <1>2 DEF CloseStore, Places
<1>9. CASE Raise(t)
  BY <1>9, <1>0, <1>1, <1>2 DEF Raise, Places
<1>10. CASE MarkCompleted(t)
  <2>1. [job[t] EXCEPT !.status = "COMPLETED"] \in JobRow
    BY <1>0 DEF JobRow
  <2>2. Idle \in Coroutine
    BY Coroutines DEF Places
  <2> QED
    BY <1>10, <2>1, <2>2 DEF MarkCompleted
<1>11. CASE MarkFailed(t) \/ Recover(t)
  <2>1. /\ Attempted(t) \in JobRow
        /\ AfterFailure(t, "judging") \in Coroutine
        /\ AfterFailure(t, "settling") \in Coroutine
    BY Coroutines DEF Places
  <2> QED
    BY <1>11, <2>1 DEF MarkFailed, Recover
<1>12. CASE Judge(t)
  <2> DEFINE goal == IF status[t] = "CANCELLED" THEN "CANCELLED" ELSE "FAILED"
  <2>1. goal \in TaskStatuses
    BY DEF TaskStatuses, TerminalTask
  <2>2. exec' = [exec EXCEPT ![t] = [@ EXCEPT !.at = "settling", !.goal = goal]]
    BY <1>12 DEF Judge
  <2> HIDE DEF goal
  <2>3. [exec[t] EXCEPT !.at = "settling", !.goal = goal] \in Coroutine
    BY <1>0, <2>1 DEF Coroutine, Places
  <2> QED
    BY <1>12, <1>0, <1>1, <2>2, <2>3 DEF Judge
<1>13. CASE SettleStore(t)
  <2>1. Idle \in Coroutine
    BY Coroutines DEF Places
  <2> QED
    BY <1>13, <1>0, <1>1, <2>1 DEF SettleStore
<1> QED
  BY <1>4, <1>5, <1>6, <1>7, <1>8, <1>9, <1>10, <1>11, <1>12, <1>13 DEF Work

\* ... and settles the task before it lets go of it.
LEMMA WorkerAttended ==
  ASSUME RowsInv, NEW t \in Tasks, Attended(t),
         Work(t) \/ ProgressLoad(t) \/ Raise(t)
  PROVE  Attended(t)'
<1>1. /\ exec \in [Tasks -> Coroutine] /\ job \in [Tasks -> JobRow]
      /\ GoalOk(t) /\ exec[t] \in Coroutine /\ job[t] \in JobRow
  BY DEF RowsInv, TypeOK
<1>2. \A place : Goto(t, place) => exec'[t].at = place
  BY <1>1 DEF Goto, Coroutine
<1>3. \A place : Load(t, place)
        => exec'[t].at = place /\ exec'[t].seen = status[t]
  BY <1>1 DEF Load, Coroutine
<1>4. \A place : IF Attempted(t).status = "FAILED"
                  THEN AfterFailure(t, place).at = place
                  ELSE AfterFailure(t, place) = Idle
  <2> TAKE place
  <2>1. [Idle EXCEPT !.at = place, !.goal = "FAILED"].at = place
    BY DEF Idle
  <2> QED
    BY <2>1 DEF AfterFailure
<1>5. Attempted(t).status \in {"FAILED", "READY"}
  BY <1>1 DEF Attempted, JobRow
<1>6. CASE \/ Claim(t) \/ StartLoad(t) \/ ProgressLoad(t) \/ StartStore(t)
           \/ ProgressStore(t) \/ Raise(t)
  <2>1. exec'[t].at \in {"claimed", "starting", "reporting", "working", "raised"}
    BY <1>6, <1>2, <1>3
       DEF Claim, StartLoad, ProgressLoad, StartStore, ProgressStore, Raise
  <2> QED
    BY <2>1 DEF Attended
<1>7. CASE CloseLoad(t)
  <2>1. exec'[t].at = "closing" /\ exec'[t].seen = status[t] /\ status' = status
    BY <1>7, <1>1 DEF CloseLoad, LoadFor
  <2> QED
    BY <2>1 DEF Attended
<1>8. CASE CloseStore(t)
  <2>1. exec[t].goal \in TerminalTask /\ exec[t].at = "closing"
    BY <1>8, <1>1 DEF CloseStore, GoalOk
  <2>2. status'[t] = IF exec[t].goal = exec[t].seen THEN status[t] ELSE exec[t].goal
    BY <1>8, StoredRow DEF CloseStore
  <2>3. status'[t] \in TerminalTask
    BY <2>1, <2>2 DEF Attended
  <2>4. exec'[t].at \in {"returned", "raised"}
    BY <1>8, <1>2 DEF CloseStore
  <2> QED
    BY <2>3, <2>4 DEF Attended
<1>9. CASE MarkCompleted(t)
  <2>1. status'[t] \in TerminalTask /\ exec'[t] = Idle
    BY <1>9, <1>1 DEF MarkCompleted, Attended
  <2> QED
    BY <2>1 DEF Attended, Idle, TerminalTask, Active
<1>10. CASE MarkFailed(t) \/ Recover(t)
  <2>1. PICK place \in {"judging", "settling"} : exec'[t] = AfterFailure(t, place)
    BY <1>10, <1>1 DEF MarkFailed, Recover
  <2>2. job'[t] = Attempted(t)
    BY <1>10, <1>1 DEF MarkFailed, Recover
  <2> QED
    BY <1>4, <1>5, <2>1, <2>2 DEF Attended, Idle
<1>11. CASE Judge(t)
  <2>1. exec'[t].at = "settling"
    BY <1>11, <1>1 DEF Judge, Coroutine
  <2> QED
    BY <2>1 DEF Attended
<1>12. CASE SettleLoad(t)
  <2>1. exec'[t].at = "settled" /\ exec'[t].seen = status[t] /\ status' = status
    BY <1>12, <1>3 DEF SettleLoad
  <2> QED
    BY <2>1 DEF Attended
<1>13. CASE SettleStore(t)
  <2>1. exec[t].goal \in TerminalTask /\ exec[t].at = "settled" /\ exec'[t] = Idle
    BY <1>13, <1>1 DEF SettleStore, GoalOk
  <2>2. status'[t] = IF exec[t].goal = exec[t].seen THEN status[t] ELSE exec[t].goal
    BY <1>13, StoredRow DEF SettleStore
  <2>3. status'[t] \in TerminalTask
    BY <2>1, <2>2 DEF Attended
  <2> QED
    BY <2>1, <2>3 DEF Attended, Idle, TerminalTask, Active
<1> QED
  BY <1>6, <1>7, <1>8, <1>9, <1>10, <1>11, <1>12, <1>13 DEF Work

LEMMA NextAttended ==
  ASSUME RowsInv, NEW u \in Tasks, Attended(u), [Next]_vars
  PROVE  Attended(u)'
<1>1. TypeOK /\ (\A t \in Tasks : Unborn(t) /\ GoalOk(t))
  BY DEF RowsInv
<1>2. ASSUME NEW t \in Tasks, Work(t) \/ ProgressLoad(t) \/ Raise(t)
      PROVE  Attended(u)'
  <2>1. CASE u = t
    BY <1>2, <2>1, WorkerAttended
  <2>2. CASE u # t
    <3>1. UNCHANGED Rest /\ exec'[u] = exec[u] /\ job'[u] = job[u]
      BY <1>1, <1>2, <2>2, WorkerLocal DEF TypeOK
    <3>2. status'[u] = status[u]
      BY <1>2, <2>2, WorkerLocal, StoredRow
    <3> QED
      BY <3>1, <3>2, CalmStep DEF Rest
  <2> QED
    BY <2>1, <2>2
<1>3. CASE CreateInsert
  <2>1. creator \in Tasks /\ status[creator] = "NONE"
    BY <1>3 DEF CreateInsert, RowsInv, TypeOK, Exclusion
  <2>2. CASE u = creator
    <3>1. exec[u].at = "idle" /\ u \in submitting' /\ exec' = exec
      BY <1>1, <1>3, <2>1, <2>2 DEF CreateInsert, Unborn
    <3> QED
      BY <3>1 DEF Attended
  <2>3. CASE u # creator
    BY <1>1, <1>3, <2>3, CalmStep DEF CreateInsert, TypeOK
  <2> QED
    BY <2>2, <2>3
<1>4. ASSUME NEW t \in Tasks, SubmitJob(t) PROVE Attended(u)'
  <2>1. CASE u = t
    <3>1. job'[u].status = "READY" /\ exec' = exec /\ status' = status
      BY <1>1, <1>4, <2>1 DEF SubmitJob, TypeOK, JobRow
    <3> QED
      BY <3>1 DEF Attended
  <2>2. CASE u # t
    BY <1>1, <1>4, <2>2, CalmStep DEF SubmitJob, TypeOK
  <2> QED
    BY <2>1, <2>2
<1>5. ASSUME NEW t \in Tasks, CreateCheck(t) \/ CancelCheck(t) \/ Age(t)
      PROVE  Attended(u)'
  BY <1>5, CalmStep DEF CreateCheck, CancelCheck, Age, Rest
<1>6. CASE CancelLoad \/ SweepRead \/ UNCHANGED vars
  BY <1>6, CalmStep DEF CancelLoad, SweepRead, vars
<1>7. CASE CancelStore
  <2>1. /\ admin.task \in Tasks /\ Store(admin.task, admin.seen, "CANCELLED")
        /\ UNCHANGED <<submitting, job, exec, orphaned>>
    BY <1>7 DEF CancelStore, RowsInv, TypeOK, Request
  <2>2. status'[u] \in {status[u], "CANCELLED"}
    BY <2>1, StoredRow
  <2> QED
    BY <2>1, <2>2, CalmStep DEF TerminalTask, Active
<1>8. CASE SweepCommit
  <2>1. status'[u] \in {status[u], "FAILED"}
    BY <1>8 DEF SweepCommit
  <2> QED
    BY <1>8, <2>1, CalmStep DEF SweepCommit, TerminalTask, Active
<1>9. ASSUME NEW t \in Tasks, Crash(t) PROVE Attended(u)'
  <2>1. CASE u = t
    <3>1. u \in orphaned' /\ status' = status
      BY <1>9, <2>1 DEF Crash
    <3>2. exec'[u] = exec[u] \/ exec'[u] = Idle
      BY <1>1, <1>9, <2>1 DEF Crash, TypeOK
    <3> QED
      BY <3>1, <3>2 DEF Attended, Idle
  <2>2. CASE u # t
    BY <1>1, <1>9, <2>2, CalmStep DEF Crash, TypeOK
  <2> QED
    BY <2>1, <2>2
<1> QED
  BY <1>2, <1>3, <1>4, <1>5, <1>6, <1>7, <1>8, <1>9 DEF Next, Submission

LEMMA InitInv == Init => LifecycleInv
<1>1. Init => \A t \in Tasks : Attended(t)
  BY DEF Init, Attended, Idle, Active
<1> QED
  BY <1>1, InitRows DEF LifecycleInv

LEMMA NextStep == LifecycleInv /\ [Next]_vars => LifecycleInv'
  BY NextRows, NextAttended DEF LifecycleInv

\* LifecycleInv holds in every reachable state: the per-type lock of create_task
\* keeps a second creation out, and a worker settles its task before it goes.
THEOREM LifecycleInvariant == Spec => []LifecycleInv
  BY InitInv, NextStep, PTL DEF Spec

\* However many tasks, workers, sweeps and cancellations race, two tasks of a
\* type are active at once only after a terminal one has been reopened, and an
\* active task whose processes have not died has somebody who will settle it.
THEOREM ActiveTasksOwned == Spec => [](ActiveUnique /\ NobodyForgets)
<1>1. LifecycleInv => ActiveUnique
  BY DEF LifecycleInv, RowsInv, Exclusion, ActiveUnique
<1>2. LifecycleInv => NobodyForgets
  BY DEF LifecycleInv, Attended, NobodyForgets, ActiveTasks
<1> QED
  BY <1>1, <1>2, LifecycleInvariant, PTL

=============================================================================
