------------------------------- MODULE SbasRun -------------------------------
(***************************************************************************)
(* One SBAS-InSAR run of LT-1 data (services/                              *)
(* sbas_insar_production_service.py, its router and its job handlers).     *)
(* The state of a run is its file run_manifest.json, which every operation *)
(* reads, changes and writes back whole, without a lock.  Short operations *)
(* are one step here.  Those that run Gamma scripts take hours: a stage    *)
(* writes RUNNING, and at the end the manifest as it was then, with its    *)
(* own record changed; a baseline audit, which runs in the thread of the   *)
(* request, writes only at the end; the expert workflow reads the manifest *)
(* again and keeps its steps in a second file, state/step_status.json.     *)
(*                                                                         *)
(* Left out: the stages after the interferograms, which no request reaches *)
(* any more (prepare_ipta_timeseries wants DETREND_ATM_READY, and what     *)
(* sets it is not called), next_stage, which is only shown, the retained   *)
(* resume_stage_status, which says PLANNED whenever it is asked, and the   *)
(* deletion of a run.                                                      *)
(***************************************************************************)
EXTENDS Integers, FiniteSets

CONSTANTS
  Slots,      \* threads of workers and requests that run scripts at a time
  LastStep,   \* number of steps of the expert workflow
  Selections, \* the sets of steps that clients ask a workflow to run
  MaxAudits,  \* bound on baseline audits that are executed
  MaxJobs,    \* bound on jobs that are submitted
  MaxFaults   \* bound on force-cancels, threads that die with their process
              \* and servers that stop between two writes, all together

ASSUME SbasAssumption ==
  LastStep \in Nat \ {0} /\ Selections \subseteq SUBSET (1..LastStep)
ASSUME SbasBounds == MaxAudits \in Nat /\ MaxJobs \in Nat /\ MaxFaults \in Nat

VARIABLES
  manifest,   \* run_manifest.json
  disk,       \* what the other files of the run directory say
  steps,      \* state/step_status.json
  slot,       \* what each thread is doing
  queue,      \* jobs that no worker has claimed
  audits, submitted, faults,   \* counters of the bounds
  verdict,    \* history: the last decision on the pair network
  lost,       \* history: the decision and the records of input stages that
              \* were changed by a writer which had not seen them
  crashed,    \* history: kinds of which an execution died
  overlapped, \* history: a workflow was submitted while one was executed
  leapt,      \* history: a workflow was told to leave out steps
  fresh       \* history: steps that succeeded after the steps before them

bounds == <<audits, submitted, faults>>
wfHistory == <<overlapped, leapt, fresh>>
vars == <<manifest, disk, steps, slot, queue, bounds, verdict, lost,
          crashed, wfHistory>>

Inputs == {"coregistration", "rdc_dem"}   \* of the interferograms
Stages == Inputs \cup {"interferograms"}
Kinds == Stages \cup {"workflow"}
Steps == 1..LastStep

\* A status is the part of the run it is about, and what it says of it.
Planned == <<"planned", "">>
Statuses ==
  {Planned}
    \cup ({"baseline_audit"} \X {"SCRIPT_READY", "READY", "FAILED"})
    \cup ({"itab"} \X {"approve", "reject"})
    \cup (Stages \X {"SCRIPT_READY", "RUNNING", "READY", "FAILED"})
    \cup ({"workflow"} \X {"READY", "RUNNING", "COMPLETED", "PARTIAL", "FAILED"})

\* The record of a stage: its script was written, the outcome of its
\* execution, summary.ready if there is a summary, and the pair network.
Record == [script: BOOLEAN, mark: {"", "RUNNING", "COMPLETED", "FAILED"},
           ready: {"", "yes", "no"}, net: Nat]
NoRecord == [script |-> FALSE, mark |-> "", ready |-> "", net |-> 0]
Audit == [script: BOOLEAN, summary: BOOLEAN, decision: {"", "approve", "reject"}]
Manifest == [status: Statuses, audit: Audit, stage: [Stages -> Record]]
NewManifest == [status |-> <<"workflow", "READY">>,
                audit |-> [script |-> FALSE, summary |-> FALSE, decision |-> ""],
                stage |-> [s \in Stages |-> NoRecord]]

\* Pair networks are numbered by the audits that made them: itab_adjacent,
\* its copy itab_approved, and the copy of that in the common directory.
Disk == [adjacent: Nat, summary: BOOLEAN, approved: Nat, common: Nat,
         ready: [Stages -> {"", "yes", "no"}]]

StepStates == [Steps -> {"PENDING", "RUNNING", "COMPLETED", "FAILED"}]
Pending == [i \in Steps |-> "PENDING"]

Order == [kind: Kinds, todo: SUBSET Steps, force: BOOLEAN]

\* A thread: view is the manifest it has read; memory, todo and force are those
\* of the workflow; cancelled: the task of its job was.
Thread == [kind: Kinds \cup {"", "baseline_audit"},
           at: {"idle", "claimed", "executing", "stepping", "step"},
           view: Manifest, memory: StepStates, todo: SUBSET Steps,
           force: BOOLEAN, cancelled: BOOLEAN]
Idle == [kind |-> "", at |-> "idle", view |-> NewManifest, memory |-> Pending,
         todo |-> {}, force |-> FALSE, cancelled |-> FALSE]

TypeOK ==
  /\ manifest \in Manifest
  /\ disk \in Disk
  /\ steps \in StepStates
  /\ slot \in [Slots -> Thread]
  /\ queue \subseteq Order
  /\ audits \in Nat /\ submitted \in Nat /\ faults \in Nat
  /\ verdict \in {"", "approve", "reject"}
  /\ lost \subseteq Inputs \cup {"decision"} /\ crashed \subseteq Kinds
  /\ overlapped \in BOOLEAN /\ leapt \in BOOLEAN /\ fresh \subseteq Steps

\* create_run.
Init ==
  /\ manifest = NewManifest
  /\ disk = [adjacent |-> 0, summary |-> FALSE, approved |-> 0, common |-> 0,
             ready |-> [s \in Stages |-> ""]]
  /\ steps = Pending
  /\ slot = [e \in Slots |-> Idle]
  /\ queue = {}
  /\ audits = 0 /\ submitted = 0 /\ faults = 0
  /\ verdict = "" /\ lost = {} /\ crashed = {}
  /\ overlapped = FALSE /\ leapt = FALSE /\ fresh = {}

-----------------------------------------------------------------------------
(* What the manifest says of the stages                                    *)

\* _stage_execution_completed.
Completed(r) == r.mark = "COMPLETED" /\ r.ready # "no"

\* Variant of Inferred: nothing is inferred of a run whose audit is not planned.
InferredBlank(m) ==
  IF m.audit.script THEN <<"baseline_audit", "SCRIPT_READY">> ELSE <<"", "">>
\* _infer_stage_status_from_manifest.
Inferred(m) ==
  IF Completed(m.stage["interferograms"]) THEN <<"interferograms", "READY">>
  ELSE IF Completed(m.stage["rdc_dem"]) THEN <<"rdc_dem", "READY">>
  ELSE IF Completed(m.stage["coregistration"]) THEN <<"coregistration", "READY">>
  ELSE IF m.stage["coregistration"].script THEN <<"coregistration", "SCRIPT_READY">>
  ELSE IF m.audit.summary THEN <<"baseline_audit", "READY">>
  ELSE IF m.audit.script THEN <<"baseline_audit", "SCRIPT_READY">>
  ELSE Planned

\* _recover_workflow_resume_status.
Recovered(m) ==
  IF m.status \in {"workflow"} \X {"READY", "RUNNING", "FAILED", "PARTIAL"}
  THEN [m EXCEPT !.status = Inferred(m)] ELSE m

\* Variant of PrepareFrom: any decision on the network will do.
PrepareFromDecided(s) == {<<"itab", "approve">>, <<"itab", "reject">>, <<s, "FAILED">>}
\* The statuses from which a stage may be prepared ...
PrepareFrom(s) ==
  CASE s = "coregistration" ->
         {<<"itab", "approve">>, <<s, "SCRIPT_READY">>, <<s, "FAILED">>,
          <<"rdc_dem", "SCRIPT_READY">>, <<"rdc_dem", "READY">>}
    [] s = "rdc_dem" ->
         {<<"baseline_audit", "READY">>, <<"itab", "approve">>,
          <<"coregistration", "SCRIPT_READY">>, <<"coregistration", "READY">>,
          <<s, "SCRIPT_READY">>, <<s, "FAILED">>}
    [] s = "interferograms" ->
         {<<"coregistration", "READY">>, <<"rdc_dem", "READY">>,
          <<s, "SCRIPT_READY">>, <<s, "FAILED">>}
\* ... and those in which the request for a job prepares it.
SubmitPrepares(s) ==
  CASE s = "coregistration" -> {<<"itab", "approve">>, <<s, "FAILED">>}
    [] s = "rdc_dem" -> {<<"coregistration", "READY">>, <<s, "FAILED">>}
    [] s = "interferograms" -> {<<"rdc_dem", "READY">>, <<s, "FAILED">>}

\* The summary of the manifest or, if it has none, that of the stage's file.
Ready(m, s) ==
  (IF m.stage[s].ready # "" THEN m.stage[s].ready ELSE disk.ready[s]) = "yes"

\* Variant of MayPrepare: the coregistration is not asked for.
MayPrepareUnready(s, m) ==
  /\ m.status \in PrepareFrom(s)
  /\ s = "coregistration" => disk.approved > 0
  /\ s = "interferograms" => Ready(m, "rdc_dem")
MayPrepare(s, m) ==
  /\ m.status \in PrepareFrom(s)
  /\ s = "coregistration" => disk.approved > 0
  /\ s = "interferograms" => Ready(m, "rdc_dem") /\ Ready(m, "coregistration")

\* prepare_coregistration, prepare_rdc_dem, prepare_interferograms.
Prepared(s, m) ==
  [m EXCEPT
    !.status = IF s = "coregistration" /\ Completed(m.stage["rdc_dem"])
               THEN <<"rdc_dem", "READY">> ELSE <<s, "SCRIPT_READY">>,
    !.stage[s] = [script |-> TRUE, mark |-> "", ready |-> "",
                  net |-> IF s # "interferograms" THEN 0
                          ELSE IF disk.common > 0 THEN disk.common
                          ELSE disk.approved]]

\* What an execution finds to run: it prepares the stage again if need be.
MayExecute(s, m) ==
  m.status \in {<<s, "SCRIPT_READY">>, <<s, "RUNNING">>} \/ MayPrepare(s, m)
Opened(s, m) ==
  IF m.status \in {<<s, "SCRIPT_READY">>, <<s, "RUNNING">>} THEN m ELSE Prepared(s, m)
Started(s, m) ==
  [m EXCEPT !.status = <<s, "RUNNING">>,
            !.stage[s] = [m.stage[s] EXCEPT !.mark = "RUNNING"]]

\* The record and the status an execution leaves: the script returned 0 and the
\* outputs are there (good), or it failed with or without them.
Outcomes == {"good", "late", "bad"}
\* Variant of Ended: the return code does not matter if the outputs are there.
EndedAnyway(s, m, outcome) ==
  [m EXCEPT !.status = IF outcome # "bad" THEN <<s, "READY">> ELSE <<s, "FAILED">>,
            !.stage[s] = [m.stage[s] EXCEPT
                            !.mark = IF outcome = "good" THEN "COMPLETED" ELSE "FAILED",
                            !.ready = IF outcome = "bad" THEN "no" ELSE "yes"]]
\* Variant of Ended: a failure is recorded and the status is left as it is.
EndedSilently(s, m, outcome) ==
  [m EXCEPT !.status = IF outcome = "good" THEN <<s, "READY">> ELSE m.status,
            !.stage[s] = [m.stage[s] EXCEPT
                            !.mark = IF outcome = "good" THEN "COMPLETED" ELSE "FAILED",
                            !.ready = IF outcome = "bad" THEN "no" ELSE "yes"]]
Ended(s, m, outcome) ==
  [m EXCEPT
    !.status = IF outcome # "good" THEN <<s, "FAILED">>
               ELSE IF s = "coregistration" /\ Completed(m.stage["rdc_dem"])
               THEN <<"rdc_dem", "READY">> ELSE <<s, "READY">>,
    !.stage[s] = [m.stage[s] EXCEPT
                    !.mark = IF outcome = "good" THEN "COMPLETED" ELSE "FAILED",
                    !.ready = IF outcome = "bad" THEN "no" ELSE "yes"]]

-----------------------------------------------------------------------------
(* The reviewer and the clients                                            *)

Threads == <<slot, queue, bounds, crashed, wfHistory>>

\* run_baseline_audit without execution: it is READY if an earlier audit has
\* left its tables.
AuditFrom ==
  {Planned, <<"workflow", "READY">>, <<"workflow", "RUNNING">>}
    \cup ({"baseline_audit"} \X {"SCRIPT_READY", "READY", "FAILED"})
PlanAudit ==
  /\ manifest.status \in AuditFrom
  /\ manifest' = [manifest EXCEPT
       !.audit = [script |-> TRUE, summary |-> disk.adjacent > 0, decision |-> ""],
       !.status = IF disk.adjacent > 0 THEN <<"baseline_audit", "READY">>
                  ELSE <<"baseline_audit", "SCRIPT_READY">>]
  /\ disk' = [disk EXCEPT !.summary = @ \/ disk.adjacent > 0]
  /\ verdict' = ""
  /\ UNCHANGED <<steps, lost, Threads>>

\* decide_itab.  An approval leaves a run that is further on where it is.
Onward == {"coregistration", "rdc_dem"} \X {"SCRIPT_READY", "RUNNING", "READY"}
Decide(decision) ==
  /\ manifest.status \in
       {<<"baseline_audit", "READY">>} \cup ({"itab"} \X {"approve", "reject"}) \cup Onward
  /\ ~ (/\ manifest.status \in Onward
        /\ decision = "approve" /\ manifest.audit.decision = "approve")
  /\ disk.summary
  /\ decision = "approve" => disk.adjacent > 0
  /\ manifest' = [manifest EXCEPT
       !.audit = [@ EXCEPT !.decision = decision],
       !.status = IF decision = "approve" /\ manifest.status \in Onward
                  THEN @ ELSE <<"itab", decision>>]
  /\ disk' = IF decision = "approve" THEN [disk EXCEPT !.approved = disk.adjacent] ELSE disk
  /\ verdict' = decision
  /\ UNCHANGED <<steps, lost, Threads>>

Prepare(s) ==
  /\ MayPrepare(s, manifest)
  /\ manifest' = Prepared(s, manifest)
  /\ UNCHANGED <<disk, steps, verdict, lost, Threads>>

\* create_task refuses while a task of the type is active.
Active(k) ==
  \/ \E o \in queue : o.kind = k
  \/ \E e \in Slots : slot[e].kind = k /\ ~slot[e].cancelled

Submitting(k, todo, force) ==
  /\ submitted < MaxJobs /\ ~Active(k)
  /\ queue' = queue \cup {[kind |-> k, todo |-> todo, force |-> force]}
  /\ submitted' = submitted + 1
  /\ UNCHANGED <<slot, audits, faults, disk, verdict, lost, crashed>>

\* submit_sbas_insar_*_job: the stage is prepared first.
SubmitStage(s) ==
  LET m == IF manifest.status \in SubmitPrepares(s) /\ MayPrepare(s, manifest)
           THEN Prepared(s, manifest) ELSE manifest IN
  /\ m.status = <<s, "SCRIPT_READY">>
  /\ Submitting(s, {}, FALSE)
  /\ manifest' = m
  /\ UNCHANGED <<steps, wfHistory>>

\* prepare_workflow.
Bound(m) == [Recovered(m) EXCEPT !.status = <<"workflow", "READY">>]
PrepareWorkflow(force) ==
  /\ manifest' = Bound(manifest)
  /\ steps' = IF force THEN Pending ELSE steps
\* Its end point.  A request for a job that is refused because one is active
\* does the same.
BindWorkflow(force) ==
  /\ PrepareWorkflow(force)
  /\ UNCHANGED <<disk, slot, queue, bounds, verdict, lost, crashed,
                 wfHistory>>
SubmitWorkflow(todo, force) ==
  /\ PrepareWorkflow(force)
  /\ Submitting("workflow", todo, force)
  /\ overlapped' = (overlapped \/ \E d \in Slots : slot[d].kind = "workflow")
  /\ UNCHANGED <<leapt, fresh>>

-----------------------------------------------------------------------------
(* Executions                                                              *)

Files == <<manifest, disk, steps>>
Counters == <<audits, submitted>>

Claim(e, o) ==
  /\ slot[e].at = "idle" /\ o \in queue
  /\ queue' = queue \ {o}
  /\ slot' = [slot EXCEPT ![e] = [Idle EXCEPT !.kind = o.kind, !.at = "claimed",
                                              !.todo = o.todo, !.force = o.force]]
  /\ UNCHANGED <<Files, bounds, verdict, lost, crashed, wfHistory>>

\* execute_coregistration and its like, up to the start of the script.
Begin(e) ==
  LET s == slot[e].kind  m == Started(s, Opened(s, manifest)) IN
  /\ s \in Stages /\ slot[e].at = "claimed"
  /\ MayExecute(s, manifest)
  /\ manifest' = m
  /\ slot' = [slot EXCEPT ![e] = [@ EXCEPT !.at = "executing", !.view = m]]
  /\ UNCHANGED <<disk, steps, queue, bounds, verdict, lost, crashed, wfHistory>>
\* The stage is done already, or its status does not allow it.
Dismiss(e) ==
  /\ slot[e].kind \in Stages /\ slot[e].at = "claimed"
  /\ ~MayExecute(slot[e].kind, manifest)
  /\ slot' = [slot EXCEPT ![e] = Idle]
  /\ UNCHANGED <<Files, queue, bounds, verdict, lost, crashed, wfHistory>>

\* What the file says and the view of a thread does not.
Overwritten(e) ==
  {t \in Inputs : slot[e].view.stage[t] # manifest.stage[t]}
    \cup {d \in {"decision"} : slot[e].view.audit.decision # manifest.audit.decision}

\* The script of the coregistration copies the approved network at its end.
End(e, outcome) ==
  LET s == slot[e].kind  m == Ended(s, slot[e].view, outcome) IN
  /\ s \in Stages /\ slot[e].at = "executing"
  /\ manifest' = m
  /\ disk' = [disk EXCEPT
       !.ready = [disk.ready EXCEPT ![s] = m.stage[s].ready],
       !.common = IF s = "coregistration" /\ outcome # "bad" THEN disk.approved ELSE @]
  /\ lost' = lost \cup (Overwritten(e) \ {s})
  /\ slot' = [slot EXCEPT ![e] = Idle]
  /\ UNCHANGED <<steps, queue, bounds, verdict, crashed, wfHistory>>

\* run_baseline_audit: the manifest is read, then the script runs.
BeginAudit(e) ==
  /\ slot[e].at = "idle" /\ audits < MaxAudits
  /\ manifest.status \in AuditFrom
  /\ slot' = [slot EXCEPT ![e] = [Idle EXCEPT !.kind = "baseline_audit",
                                              !.at = "executing", !.view = manifest]]
  /\ audits' = audits + 1
  /\ UNCHANGED <<Files, queue, submitted, faults, verdict, lost, crashed, wfHistory>>
EndAudit(e, good) ==
  /\ slot[e].kind = "baseline_audit"
  /\ manifest' = [slot[e].view EXCEPT
       !.audit = [script |-> TRUE, summary |-> TRUE, decision |-> ""],
       !.status = <<"baseline_audit", IF good THEN "READY" ELSE "FAILED">>]
  /\ disk' = IF good THEN [disk EXCEPT !.adjacent = @ + 1, !.summary = TRUE] ELSE disk
  /\ verdict' = ""
  /\ lost' = lost \cup Overwritten(e)
  /\ slot' = [slot EXCEPT ![e] = Idle]
  /\ UNCHANGED <<steps, queue, bounds, crashed, wfHistory>>
\* TimeoutExpired: nothing is written.
AuditTimeout(e) ==
  /\ slot[e].kind = "baseline_audit"
  /\ slot' = [slot EXCEPT ![e] = Idle]
  /\ UNCHANGED <<Files, queue, bounds, verdict, lost, crashed, wfHistory>>

-----------------------------------------------------------------------------
(* The expert workflow                                                     *)

\* execute_workflow, and the state _execute_expert_workflow_scripts reads.
Skips(e) ==
  LET run == {i \in slot[e].todo : slot[e].force \/ steps[i] # "COMPLETED"} IN
  \E i \in run, h \in Steps \ run :
     (h < i /\ steps[h] # "COMPLETED") \/ (h > i /\ steps[h] = "COMPLETED")
BeginWorkflow(e) ==
  /\ slot[e].kind = "workflow" /\ slot[e].at = "claimed"
  /\ manifest' = [manifest EXCEPT !.status = <<"workflow", "RUNNING">>]
  /\ slot' = [slot EXCEPT ![e] = [@ EXCEPT !.at = "stepping", !.memory = steps]]
  /\ leapt' = (leapt \/ Skips(e))
  /\ UNCHANGED <<disk, steps, queue, bounds, verdict, lost, crashed,
                 overlapped, fresh>>

\* Variant of Coming: the steps are taken from the end.
ComingLast(e) == CHOOSE i \in slot[e].todo : \A j \in slot[e].todo : i >= j
Coming(e) == CHOOSE i \in slot[e].todo : \A j \in slot[e].todo : i <= j
Remembering(e, state) == [slot[e].memory EXCEPT ![Coming(e)] = state]

BeginStep(e) ==
  /\ slot[e].at = "stepping" /\ slot[e].todo # {}
  /\ IF slot[e].memory[Coming(e)] = "COMPLETED" /\ ~slot[e].force
     THEN /\ slot' = [slot EXCEPT ![e] = [@ EXCEPT !.todo = slot[e].todo \ {Coming(e)}]]
          /\ UNCHANGED steps
     ELSE /\ slot' = [slot EXCEPT ![e] =
                       [@ EXCEPT !.at = "step", !.memory = Remembering(e, "RUNNING")]]
          /\ steps' = Remembering(e, "RUNNING")
  /\ UNCHANGED <<manifest, disk, queue, bounds, verdict, lost, crashed, wfHistory>>
\* A step that fails ends the execution.
EndStep(e, good) ==
  LET state == IF good THEN "COMPLETED" ELSE "FAILED" IN
  /\ slot[e].at = "step"
  /\ steps' = Remembering(e, state)
  /\ slot' = [slot EXCEPT ![e] =
       [@ EXCEPT !.at = "stepping", !.memory = Remembering(e, state),
                 !.todo = IF good THEN slot[e].todo \ {Coming(e)} ELSE {}]]
  /\ fresh' = IF good /\ (\A h \in Steps : h < Coming(e) => h \in fresh)
              THEN {h \in fresh : h < Coming(e)} \cup {Coming(e)}
              ELSE {h \in fresh : h < Coming(e)}
  /\ UNCHANGED <<manifest, disk, queue, bounds, verdict, lost, crashed,
                 overlapped, leapt>>

\* _summarize_workflow_state, and the status that follows; audited: the audit of
\* the commands found nothing missing.
Summarized(audited) ==
  IF \E i \in Steps : steps[i] = "FAILED" THEN "FAILED"
  ELSE IF audited /\ \A i \in Steps : steps[i] = "COMPLETED" THEN "COMPLETED"
  ELSE "PARTIAL"
EndWorkflow(e, audited) ==
  /\ slot[e].at = "stepping" /\ slot[e].todo = {}
  /\ manifest' = [manifest EXCEPT !.status = <<"workflow", Summarized(audited)>>]
  /\ slot' = [slot EXCEPT ![e] = Idle]
  /\ UNCHANGED <<disk, steps, queue, bounds, verdict, lost, crashed, wfHistory>>

-----------------------------------------------------------------------------
(* Faults                                                                  *)

\* force_cancel_task closes the task; the thread is not told.
Cancel(e) ==
  /\ faults < MaxFaults
  /\ slot[e].kind \in Kinds /\ ~slot[e].cancelled
  /\ slot' = [slot EXCEPT ![e].cancelled = TRUE]
  /\ faults' = faults + 1
  /\ UNCHANGED <<Files, queue, Counters, verdict, lost, crashed, wfHistory>>
\* The process dies; the recovery of its job, which has one attempt, fails it.
Crash(e) ==
  /\ faults < MaxFaults
  /\ slot[e].at # "idle"
  /\ slot' = [slot EXCEPT ![e] = Idle]
  /\ crashed' = crashed \cup ({slot[e].kind} \cap Kinds)
  /\ faults' = faults + 1
  /\ UNCHANGED <<Files, queue, Counters, verdict, lost, wfHistory>>
\* The server stops between the writes of prepare_workflow.
CutWorkflow ==
  /\ faults < MaxFaults
  /\ manifest' = Recovered(manifest)
  /\ faults' = faults + 1
  /\ lost' = lost \cup {"decision"}
  /\ UNCHANGED <<disk, steps, slot, queue, Counters, verdict, crashed, wfHistory>>

Review == PlanAudit \/ \E decision \in {"approve", "reject"} : Decide(decision)
Request ==
  \/ \E s \in Stages : Prepare(s) \/ SubmitStage(s)
  \/ \E force \in BOOLEAN :
       BindWorkflow(force) \/ \E todo \in Selections : SubmitWorkflow(todo, force)
Execute(e) ==
  \/ \E o \in queue : Claim(e, o)
  \/ Begin(e) \/ Dismiss(e) \/ \E outcome \in Outcomes : End(e, outcome)
  \/ BeginAudit(e) \/ \E good \in BOOLEAN : EndAudit(e, good)
  \/ AuditTimeout(e)
  \/ BeginWorkflow(e) \/ BeginStep(e) \/ \E good \in BOOLEAN : EndStep(e, good)
  \/ \E audited \in BOOLEAN : EndWorkflow(e, audited)
Fault(e) == Cancel(e) \/ Crash(e)

Next ==
  \/ Review \/ Request \/ CutWorkflow
  \/ \E e \in Slots : Execute(e) \/ Fault(e)

Spec == Init /\ [][Next]_vars

-----------------------------------------------------------------------------
(* Properties                                                              *)

Backed(m) ==
  \A s \in Stages :
    /\ m.status = <<s, "READY">> => Completed(m.stage[s])
    /\ m.status \in {<<s, "SCRIPT_READY">>, <<s, "RUNNING">>} => m.stage[s].script

\* The status of a run never says more of a stage than its record does, in
\* the file or in what an execution will write back, whatever was overwritten:
\* a READY stage was executed to its end, a stage to be executed has a script.
StatusBacked ==
  Backed(manifest) /\ \A e \in Slots : slot[e].at = "executing" => Backed(slot[e].view)

\* A run that says a part is RUNNING has a thread that runs it and will write
\* another status, unless an execution of that part died with its process.
RunningHasRunner ==
  \A k \in Kinds : manifest.status = <<k, "RUNNING">> =>
     k \in crashed \/ \E e \in Slots : slot[e].kind = k /\ slot[e].at # "claimed"

\* After a rejection of the pair network no stage is prepared or executed from
\* it (only the expert workflow, which does not ask, may go on), unless a
\* thread that had read the manifest before wrote it back, or the server
\* stopped between the two writes of prepare_workflow.
Withheld == {<<"itab", "reject">>}
  \cup ({"workflow"} \X {"READY", "RUNNING", "COMPLETED", "PARTIAL", "FAILED"})
RejectionStands ==
  verdict = "reject" /\ "decision" \notin lost => manifest.status \in Withheld

(* The inductive invariant behind these three: besides them, the threads   *)
(* are where their kind can be, a rejection that was not lost is in the    *)
(* file, and the view of an execution was read when there was none.        *)
Placed(e) ==
  /\ slot[e].at = "idle" <=> slot[e].kind = ""
  /\ slot[e].kind = "baseline_audit" => slot[e].at = "executing"
  /\ slot[e].kind \in Stages => slot[e].at \in {"claimed", "executing"}
  /\ slot[e].kind = "workflow" => slot[e].at \in {"claimed", "stepping", "step"}
  /\ slot[e].at = "step" => slot[e].todo # {}

RejectionKept ==
  "decision" \notin lost =>
    /\ verdict = "reject" => manifest.audit.decision = "reject"
    /\ manifest.audit.decision = "reject" => manifest.status \in Withheld
    /\ \A e \in Slots : slot[e].kind \in Stages /\ slot[e].at = "executing" =>
         slot[e].view.audit.decision # "reject"

RecordsInv ==
  /\ TypeOK
  /\ \A e \in Slots : Placed(e)
  /\ StatusBacked
  /\ RunningHasRunner
  /\ RejectionKept

\* A workflow that is COMPLETED has run every step after the steps before it,
\* through failures, resumptions, forced repetitions and resets of its state
\* file, unless a workflow was submitted while a cancelled one was still
\* executed, or one left out a step.
WorkflowInOrder ==
  manifest.status = <<"workflow", "COMPLETED">> /\ ~overlapped /\ ~leapt => fresh = Steps

(* The inductive invariant behind it.  Unless overlapped, a workflow is    *)
(* alone: from its submission to its end no other is submitted, claimed or *)
(* executed, and a reset that it asked for is found when it begins.        *)
Waiting == {o \in queue : o.kind = "workflow"}
Working == {e \in Slots : slot[e].kind = "workflow"}
Stepping(e) == slot[e].kind = "workflow" /\ slot[e].at \in {"stepping", "step"}

Alone ==
  /\ \A o, p \in Waiting : o = p
  /\ ~overlapped =>
       /\ Waiting # {} => Working = {}
       /\ \A d, e \in Working : d = e
       /\ \A o \in Waiting : o.force => steps = Pending
       /\ \A e \in Working : slot[e].at = "claimed" /\ slot[e].force => steps = Pending
       /\ \A e \in Slots : Stepping(e) => manifest.status # <<"workflow", "COMPLETED">>

\* What the file and a workflow call COMPLETED is fresh; a step the workflow
\* has to run comes before all that are COMPLETED, and after steps that are
\* or that it has to run as well.
ToRun(e) == {i \in slot[e].todo : slot[e].memory[i] # "COMPLETED"}
InSequence(e) ==
  /\ \A i \in Steps : slot[e].memory[i] = "COMPLETED" => i \in fresh
  /\ slot[e].force => ToRun(e) = slot[e].todo
  /\ slot[e].at = "step" => Coming(e) \in ToRun(e)
  /\ \A i \in ToRun(e), h \in Steps :
       /\ h < i => h \in ToRun(e) \/ slot[e].memory[h] = "COMPLETED"
       /\ h > i => slot[e].memory[h] # "COMPLETED"
FreshInv ==
  ~overlapped /\ ~leapt =>
    /\ \A i \in Steps : steps[i] = "COMPLETED" => i \in fresh
    /\ \A e \in Slots : Stepping(e) => InSequence(e)

WorkflowInv == Alone /\ FreshInv /\ WorkflowInOrder

(* What makes a start on unfinished inputs impossible: the summary in the  *)
(* record of an input is that of its files, and interferograms that may be *)
(* executed were prepared from inputs that are still finished; but for the *)
(* records that were overwritten.                                          *)
InputsTrue ==
  /\ \A s \in Inputs \ lost : manifest.stage[s].ready \in {"", disk.ready[s]}
  /\ manifest.status \in {"interferograms"} \X {"SCRIPT_READY", "RUNNING"} =>
       \A s \in Inputs \ lost : disk.ready[s] = "yes"

SbasInv == RecordsInv /\ InputsTrue /\ WorkflowInv

StartsOn(e, k) == slot[e].kind = k /\ slot[e].at = "claimed" /\ slot'[e].at = "executing"

\* The interferograms are started only when the last coregistration and the
\* last RDC DEM have left what they need, unless the record of that stage was
\* overwritten by a thread that had not seen it.
InputsReady ==
  [][\A e \in Slots : StartsOn(e, "interferograms") =>
        \A s \in Inputs : disk.ready[s] = "yes" \/ s \in lost]_vars

\* The same without the reservation: prepare_interferograms refuses with
\* "coregistration summary is not ready; run common-reference coregistration
\* first".
InputsFinished ==
  [][\A e \in Slots : StartsOn(e, "interferograms") =>
        \A s \in Inputs : disk.ready[s] = "yes"]_vars
=============================================================================
