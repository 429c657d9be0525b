--------------------------- MODULE WorkflowProofs ---------------------------
(***************************************************************************)
(* TLAPS proofs about Workflow, for any acyclic graph of steps and any     *)
(* number of executors and clients: while no two transactions overlap, no  *)
(* step starts before its dependencies and none is executed twice.         *)
(***************************************************************************)
EXTENDS Workflow, FiniteSetTheorems, WellFoundedInduction, TLAPS

\* A step depending on a step downstream of s is downstream of s, and s is.
LEMMA DownstreamClosed ==
  ASSUME NEW s \in Steps
  PROVE  /\ s \in Downstream(s)
         /\ Downstream(s) \subseteq Steps
         /\ \A t \in Steps : Deps[t] \cap Downstream(s) # {} => t \in Downstream(s)
<1>1. s \in Downstream(s) /\ Downstream(s) \subseteq Steps
  BY DEF Downstream
<1>2. ASSUME NEW t \in Steps, NEW d \in Deps[t], d \in Downstream(s),
             NEW C \in SUBSET Steps, s \in C, Closed(C)
      PROVE  t \in C
  BY <1>2 DEF Downstream, Closed
<1>3. ASSUME NEW t \in Steps, Deps[t] \cap Downstream(s) # {}
      PROVE  t \in Downstream(s)
  <2>1. PICK d \in Deps[t] : d \in Downstream(s)
    BY <1>3
  <2> QED
    BY <1>2, <2>1 DEF Downstream
<1> QED
  BY <1>1, <1>3

LEMMA InitSerial == Init => SerialInv
<1> SUFFICES ASSUME Init PROVE SerialInv
  OBVIOUS
<1> USE DEF Init
<1>1. TypeOK
  BY DEF TypeOK, RunStatuses, StepStatuses, Report, Retry, NoReport, NoRetry
<1>2. ~OpenTransaction /\ \A e \in Executors : ~Busy(e)
  BY DEF OpenTransaction, Busy, Retrying, NoReport, NoRetry
<1>3. \A c \in Clients : ~Retrying(c)
  BY DEF Retrying, NoRetry
<1>4. CreationOk
  BY <1>2 DEF CreationOk
<1> QED
  BY <1>1, <1>2, <1>3, <1>4
     DEF SerialInv, OneTransaction, ReportOk, RetryOk, Begun

\* An enqueued step is RUNNING with one more job; the others keep both.
LEMMA Enqueuing ==
  ASSUME TypeOK, NEW R \in SUBSET Steps,
         NEW st, st \in [Steps -> StepStatuses]
  PROVE  /\ Enqueued(st, R) \in [Steps -> StepStatuses]
         /\ WithJobs(R) \in [Steps -> Nat]
         /\ \A s \in R : Enqueued(st, R)[s] = "RUNNING"
                           /\ WithJobs(R)[s] = jobs[s] + 1
         /\ \A s \in Steps \ R : Enqueued(st, R)[s] = st[s]
                                   /\ WithJobs(R)[s] = jobs[s]
  BY DEF TypeOK, Enqueued, WithJobs, StepStatuses

LEMMA CreateRunStep == SerialInv /\ CreateRun => SerialInv'
<1> SUFFICES ASSUME SerialInv, CreateRun PROVE SerialInv'
  OBVIOUS
<1>1. /\ run = "NONE" /\ run' = "RUNNING" /\ creating'
      /\ step' = [s \in Steps |-> IF Deps[s] = {} THEN "READY" ELSE "PENDING"]
      /\ UNCHANGED <<jobs, exec, client, retries, lost, overlapped>>
  BY DEF CreateRun
<1>2. \A s \in Steps : jobs[s] = 0
  BY <1>1 DEF SerialInv, CreationOk
<1>3. /\ ~OpenTransaction /\ ~OpenTransaction'
      /\ \A e \in Executors : ~Busy(e)'
      /\ \A c \in Clients : ~Retrying(c)'
  BY <1>1 DEF SerialInv, CreationOk, OpenTransaction, Busy, Retrying
<1>4. TypeOK'
  BY <1>1 DEF CreateRun, SerialInv, TypeOK, RunStatuses, StepStatuses
<1>5. CreationOk'
  BY <1>1, <1>2, <1>3 DEF CreationOk
<1>6. \A t \in Steps : step'[t] \in Begun => Deps[t] = {}
  BY <1>1 DEF Begun
<1> QED
  BY <1>1, <1>2, <1>3, <1>4, <1>5, <1>6
     DEF SerialInv, OneTransaction, ReportOk, RetryOk

LEMMA EnqueueCreatedStep == SerialInv /\ EnqueueCreated => SerialInv'
<1> SUFFICES ASSUME SerialInv, EnqueueCreated PROVE SerialInv'
  OBVIOUS
<1> DEFINE R == CommittedReady
<1>1. /\ creating /\ creating' = FALSE
      /\ step' = Enqueued(step, R) /\ jobs' = WithJobs(R)
      /\ UNCHANGED <<run, exec, client, retries, lost, overlapped>>
  BY DEF EnqueueCreated
<1>2. R \in SUBSET Steps /\ \A s \in R : step[s] = "READY"
  BY DEF CommittedReady
<1> HIDE DEF R
<1>3. /\ run # "NONE"
      /\ \A s \in Steps : step[s] \in {"READY", "PENDING"} /\ jobs[s] = 0
      /\ ~OpenTransaction
  BY <1>1 DEF SerialInv, CreationOk
<1>4. /\ \A e \in Executors : ~Busy(e)'
      /\ \A c \in Clients : ~Retrying(c)'
  BY <1>1, <1>3 DEF OpenTransaction, Busy, Retrying
<1>5. /\ step' \in [Steps -> StepStatuses] /\ jobs' \in [Steps -> Nat]
      /\ \A s \in R : step'[s] = "RUNNING" /\ jobs'[s] = 1
      /\ \A s \in Steps \ R : step'[s] = step[s] /\ jobs'[s] = 0
  <2>1. TypeOK /\ step \in [Steps -> StepStatuses]
    BY DEF SerialInv, TypeOK
  <2> QED
    BY <1>1, <1>2, <1>3, <2>1, Enqueuing
<1>6. TypeOK'
  BY <1>1, <1>5 DEF SerialInv, TypeOK
<1>7. CreationOk'
  BY <1>1, <1>3 DEF CreationOk
<1>8. ASSUME ~overlapped, NEW t \in Steps, step'[t] \in Begun, NEW d \in Deps[t]
      PROVE  step'[d] = "COMPLETED"
  <2>1. d \in Steps
    BY DepsAssumption
  <2>2. step[t] = "READY"
    BY <1>2, <1>3, <1>5, <1>8 DEF Begun
  <2>3. step[d] = "COMPLETED"
    BY <1>8, <2>2 DEF SerialInv, Begun
  <2> QED
    BY <1>3, <2>1, <2>3
<1>9. \A s \in Steps : jobs'[s] <= 1 /\ (jobs'[s] = 1 => step'[s] = "RUNNING")
  BY <1>5
<1> QED
  BY <1>1, <1>4, <1>6, <1>7, <1>8, <1>9
     DEF SerialInv, OneTransaction, ReportOk, RetryOk

LEMMA AdvanceReadStep ==
  ASSUME SerialInv, NEW e \in Executors, NEW s \in Steps, AdvanceRead(e, s)
  PROVE  SerialInv'
<1> DEFINE seen == [step EXCEPT ![s] = "COMPLETED"]
           r == [step |-> s, mark |-> step[s] # "COMPLETED",
                 ready |-> NowReady(seen),
                 close |-> IF NowReady(seen) = {} THEN Closing(seen) ELSE ""]
<1>1. /\ ~Busy(e) /\ jobs[s] > 0
      /\ jobs' = [jobs EXCEPT ![s] = @ - 1]
      /\ exec' = [exec EXCEPT ![e] = r]
      /\ overlapped' = (overlapped \/ OpenTransaction)
      /\ UNCHANGED <<run, step, creating, client, retries, lost>>
  BY DEF AdvanceRead
<1>2. r \in Report
  BY DEF Report, NowReady, Closing
<1>3. /\ r.step = s /\ r.ready = NowReady(seen)
      /\ r.mark = (step[s] # "COMPLETED")
  OBVIOUS
<1>4. \A t \in NowReady(seen) :
        /\ t \in Steps
        /\ step[t] = "PENDING"
        /\ \A d \in Deps[t] : d = s \/ step[d] = "COMPLETED"
  <2>1. step \in [Steps -> StepStatuses]
    BY DEF SerialInv, TypeOK
  <2> QED
    BY <2>1, DepsAssumption DEF NowReady
<1> HIDE DEF r, seen
<1>5. /\ exec' \in [Executors -> Report]
      /\ exec'[e] = r
      /\ \A f \in Executors : f # e => exec'[f] = exec[f]
  BY <1>1, <1>2 DEF SerialInv, TypeOK
<1>6. /\ jobs' \in [Steps -> Nat] /\ jobs'[s] = jobs[s] - 1
      /\ \A t \in Steps : t # s => jobs'[t] = jobs[t]
  BY <1>1 DEF SerialInv, TypeOK
<1>7. run # "NONE" /\ ~creating
  BY <1>1 DEF SerialInv, CreationOk
<1>8. TypeOK'
  BY <1>1, <1>5, <1>6 DEF SerialInv, TypeOK
<1>9. CreationOk'
  BY <1>1, <1>7 DEF CreationOk
<1>10. ASSUME ~overlapped'
       PROVE  /\ OneTransaction'
              /\ \A t \in Steps :
                   jobs'[t] <= 1 /\ (jobs'[t] = 1 => step'[t] = "RUNNING")
              /\ \A t \in Steps : step'[t] \in Begun =>
                   \A d \in Deps[t] : step'[d] = "COMPLETED"
              /\ \A f \in Executors : ReportOk(f)'
              /\ \A c \in Clients : RetryOk(c)'
  <2>1. ~overlapped /\ ~OpenTransaction
    BY <1>1, <1>10
  <2>2. /\ \A f \in Executors : f # e => ~Busy(f)'
        /\ \A c \in Clients : ~Retrying(c)'
    BY <1>1, <1>5, <2>1 DEF OpenTransaction, Busy, Retrying
  <2>3. \A t \in Steps : jobs[t] <= 1 /\ (jobs[t] = 1 => step[t] = "RUNNING")
    BY <2>1 DEF SerialInv
  <2>4. jobs[s] = 1 /\ step[s] = "RUNNING"
    BY <1>1, <2>3 DEF SerialInv, TypeOK
  <2>5. ReportOk(e)'
    <3>1. /\ exec'[e].step = s /\ exec'[e].mark
          /\ exec'[e].ready = NowReady(seen)
      BY <1>3, <1>5, <2>4
    <3>2. step'[s] = "RUNNING" /\ jobs'[s] = 0
      BY <1>1, <1>6, <2>4
    <3>3. \A t \in exec'[e].ready :
            /\ step'[t] = "PENDING"
            /\ \A d \in Deps[t] : d = s \/ step'[d] = "COMPLETED"
      BY <1>1, <1>4, <3>1
    <3> QED
      BY <3>1, <3>2, <3>3 DEF ReportOk
  <2>6. \A f \in Executors : ReportOk(f)'
    BY <2>2, <2>5 DEF ReportOk
  <2>7. \A t \in Steps : jobs'[t] <= 1 /\ (jobs'[t] = 1 => step'[t] = "RUNNING")
    BY <1>1, <1>6, <2>3, <2>4
  <2> QED
    BY <1>1, <2>1, <2>2, <2>6, <2>7 DEF SerialInv, OneTransaction, RetryOk
<1> QED
  BY <1>8, <1>9, <1>10 DEF SerialInv

LEMMA AdvanceCommitStep ==
  ASSUME SerialInv, NEW e \in Executors, AdvanceCommit(e)
  PROVE  SerialInv'
<1> DEFINE s == exec[e].step
           st == [step EXCEPT ![s] = IF exec[e].mark THEN "COMPLETED" ELSE @]
           R == exec[e].ready \cup (CommittedReady \ {s})
<1>1. /\ Busy(e)
      /\ step' = Enqueued(st, R) /\ jobs' = WithJobs(R)
      /\ run' = IF exec[e].close = "" THEN run ELSE exec[e].close
      /\ exec' = [exec EXCEPT ![e] = NoReport]
      /\ UNCHANGED <<creating, client, retries, lost, overlapped>>
  BY DEF AdvanceCommit
<1>2. exec[e] \in Report /\ s \in Steps
  BY <1>1 DEF SerialInv, TypeOK, Report, Busy
<1>3. /\ R \in SUBSET Steps
      /\ \A t \in R : t \in exec[e].ready \/ step[t] = "READY"
  BY <1>2 DEF CommittedReady, Report
<1>4. /\ st \in [Steps -> StepStatuses]
      /\ st[s] = IF exec[e].mark THEN "COMPLETED" ELSE step[s]
      /\ \A t \in Steps : t # s => st[t] = step[t]
  BY <1>2 DEF SerialInv, TypeOK, StepStatuses
<1> HIDE DEF R, st
<1>5. /\ step' \in [Steps -> StepStatuses] /\ jobs' \in [Steps -> Nat]
      /\ \A t \in R : step'[t] = "RUNNING" /\ jobs'[t] = jobs[t] + 1
      /\ \A t \in Steps \ R : step'[t] = st[t] /\ jobs'[t] = jobs[t]
  <2>1. TypeOK
    BY DEF SerialInv
  <2>2. /\ Enqueued(st, R) \in [Steps -> StepStatuses]
        /\ WithJobs(R) \in [Steps -> Nat]
        /\ \A t \in R : /\ Enqueued(st, R)[t] = "RUNNING"
                       /\ WithJobs(R)[t] = jobs[t] + 1
        /\ \A t \in Steps \ R : /\ Enqueued(st, R)[t] = st[t]
                               /\ WithJobs(R)[t] = jobs[t]
    BY <1>3, <1>4, <2>1, Enqueuing
  <2> QED
    BY <1>1, <2>2
<1>6. /\ exec' \in [Executors -> Report]
      /\ exec'[e].step = NoStep
      /\ \A f \in Executors : f # e => exec'[f] = exec[f]
  BY <1>1 DEF SerialInv, TypeOK, NoReport, Report
<1>7. OpenTransaction
  BY <1>1 DEF OpenTransaction
<1>8. run # "NONE" /\ ~creating /\ run' \in RunStatuses /\ run' # "NONE"
  BY <1>1, <1>2, <1>7 DEF SerialInv, CreationOk, TypeOK, Report, RunStatuses
<1>9. TypeOK'
  BY <1>1, <1>5, <1>6, <1>8 DEF SerialInv, TypeOK
<1>10. CreationOk'
  BY <1>1, <1>8 DEF CreationOk
<1>11. ASSUME ~overlapped
       PROVE  /\ OneTransaction'
              /\ \A t \in Steps :
                   jobs'[t] <= 1 /\ (jobs'[t] = 1 => step'[t] = "RUNNING")
              /\ \A t \in Steps : step'[t] \in Begun =>
                   \A d \in Deps[t] : step'[d] = "COMPLETED"
              /\ \A f \in Executors : ReportOk(f)'
              /\ \A c \in Clients : RetryOk(c)'
  <2>1. /\ step[s] = "RUNNING" /\ jobs[s] = 0 /\ exec[e].mark
        /\ \A t \in exec[e].ready :
             step[t] = "PENDING" /\ \A d \in Deps[t] : d = s \/ step[d] = "COMPLETED"
    BY <1>1, <1>11 DEF SerialInv, ReportOk
  <2>2. /\ \A f \in Executors : ~Busy(f)'
        /\ \A c \in Clients : ~Retrying(c)'
    BY <1>1, <1>6, <1>11 DEF SerialInv, OneTransaction, Busy, Retrying
  <2>3. /\ \A t \in Steps : jobs[t] <= 1 /\ (jobs[t] = 1 => step[t] = "RUNNING")
        /\ \A t \in Steps : step[t] \in Begun =>
             \A d \in Deps[t] : step[d] = "COMPLETED"
    BY <1>11 DEF SerialInv
  <2>4. \A t \in R : step[t] \in {"PENDING", "READY"} /\ jobs[t] = 0
    BY <1>3, <2>1, <2>3 DEF SerialInv, TypeOK
  <2>5. /\ s \notin R /\ step'[s] = "COMPLETED"
        /\ \A t \in Steps : step[t] = "COMPLETED" => step'[t] = "COMPLETED"
    BY <1>2, <1>4, <1>5, <2>1, <2>4
  <2>6. \A t \in Steps : jobs'[t] <= 1 /\ (jobs'[t] = 1 => step'[t] = "RUNNING")
    BY <1>4, <1>5, <2>1, <2>3, <2>4, <2>5
  <2>7. ASSUME NEW t \in Steps, step'[t] \in Begun, NEW d \in Deps[t]
        PROVE  step'[d] = "COMPLETED"
    <3>1. d \in Steps
      BY DepsAssumption
    <3>2. CASE t \in exec[e].ready
      BY <2>1, <2>5, <3>1, <3>2
    <3>3. CASE t \notin exec[e].ready
      <4>1. step[t] \in Begun
        BY <1>3, <1>4, <1>5, <2>1, <2>5, <2>7, <3>3 DEF Begun
      <4> QED
        BY <2>3, <2>5, <3>1, <4>1
    <3> QED
      BY <3>2, <3>3
  <2> QED
    BY <2>2, <2>6, <2>7 DEF OneTransaction, ReportOk, RetryOk
<1> QED
  BY <1>1, <1>9, <1>10, <1>11 DEF SerialInv

LEMMA StepFailedStep ==
  ASSUME SerialInv, NEW s \in Steps, StepFailed(s)
  PROVE  SerialInv'
<1>1. /\ jobs[s] > 0
      /\ jobs' = [jobs EXCEPT ![s] = @ - 1]
      /\ step' = [step EXCEPT ![s] = "FAILED"]
      /\ run' = "FAILED"
      /\ UNCHANGED <<creating, exec, client, retries, lost, overlapped>>
  BY DEF StepFailed
<1>2. /\ jobs' \in [Steps -> Nat] /\ jobs'[s] = jobs[s] - 1
      /\ step' \in [Steps -> StepStatuses] /\ step'[s] = "FAILED"
      /\ \A t \in Steps : t # s => jobs'[t] = jobs[t] /\ step'[t] = step[t]
  BY <1>1 DEF SerialInv, TypeOK, StepStatuses
<1>3. run # "NONE" /\ ~creating
  BY <1>1 DEF SerialInv, CreationOk
<1>4. TypeOK'
  BY <1>1, <1>2 DEF SerialInv, TypeOK, RunStatuses
<1>5. CreationOk'
  BY <1>1, <1>3 DEF CreationOk
<1>6. ASSUME ~overlapped
      PROVE  /\ OneTransaction'
             /\ \A t \in Steps :
                  jobs'[t] <= 1 /\ (jobs'[t] = 1 => step'[t] = "RUNNING")
             /\ \A t \in Steps : step'[t] \in Begun =>
                  \A d \in Deps[t] : step'[d] = "COMPLETED"
             /\ \A e \in Executors : ReportOk(e)'
             /\ \A c \in Clients : RetryOk(c)'
  <2>1. /\ \A t \in Steps : jobs[t] <= 1 /\ (jobs[t] = 1 => step[t] = "RUNNING")
        /\ \A t \in Steps : step[t] \in Begun =>
             \A d \in Deps[t] : step[d] = "COMPLETED"
        /\ \A e \in Executors : ReportOk(e)
        /\ \A c \in Clients : RetryOk(c)
    BY <1>6 DEF SerialInv
  <2>2. jobs[s] = 1 /\ step[s] = "RUNNING"
    BY <1>1, <2>1 DEF SerialInv, TypeOK
  <2>3. OneTransaction'
    BY <1>1, <1>6 DEF SerialInv, OneTransaction, Busy, Retrying
  <2>4. \A t \in Steps : jobs'[t] <= 1 /\ (jobs'[t] = 1 => step'[t] = "RUNNING")
    BY <1>2, <2>1, <2>2
  <2>5. ASSUME NEW t \in Steps, step'[t] \in Begun, NEW d \in Deps[t]
        PROVE  step'[d] = "COMPLETED"
    <3>1. d \in Steps /\ step[t] \in Begun
      BY <1>2, <2>2, <2>5, DepsAssumption DEF Begun
    <3> QED
      BY <1>2, <2>1, <2>2, <3>1
  <2>6. ASSUME NEW e \in Executors, Busy(e)' PROVE ReportOk(e)'
    <3> DEFINE q == exec[e].step
    <3>1. /\ Busy(e) /\ exec' = exec
          /\ step[q] = "RUNNING" /\ jobs[q] = 0 /\ exec[e].mark
          /\ \A t \in exec[e].ready :
               /\ step[t] = "PENDING"
               /\ \A d \in Deps[t] : d = q \/ step[d] = "COMPLETED"
      BY <1>1, <2>1, <2>6 DEF ReportOk, Busy
    <3>2. q \in Steps /\ exec[e].ready \subseteq Steps /\ q # s
      <4>1. exec[e] \in Report
        BY DEF SerialInv, TypeOK
      <4>2. q # NoStep
        BY <3>1 DEF Busy
      <4>3. q \in Steps
        BY <4>1, <4>2 DEF Report
      <4>4. exec[e].ready \subseteq Steps
        BY <4>1 DEF Report
      <4>5. q # s
        BY <2>2, <3>1
      <4> QED
        BY <4>3, <4>4, <4>5
    <3>3. \A t \in exec[e].ready : \A d \in Deps[t] : d \in Steps
      BY <3>2, DepsAssumption
    <3>4. \A t \in exec[e].ready :
            /\ step'[t] = "PENDING"
            /\ \A d \in Deps[t] : d = q \/ step'[d] = "COMPLETED"
      BY <1>2, <2>2, <3>1, <3>2, <3>3
    <3> QED
      BY <1>2, <3>1, <3>2, <3>4 DEF ReportOk
  <2>7. \A c \in Clients : ~Retrying(c)'
    BY <1>1, <2>1, <2>2 DEF RetryOk, Retrying
  <2> QED
    BY <2>3, <2>4, <2>5, <2>6, <2>7 DEF ReportOk, RetryOk
<1> QED
  BY <1>1, <1>4, <1>5, <1>6 DEF SerialInv

LEMMA RetryReadStep ==
  ASSUME SerialInv, NEW c \in Clients, NEW s \in Steps, RetryRead(c, s)
  PROVE  SerialInv'
<1> DEFINE r == [step |-> s, reopen |-> run # "RUNNING",
                 reset |-> {t \in Downstream(s) \ {s} : step[t] # "PENDING"}]
<1>1. /\ ~Retrying(c) /\ run # "NONE"
      /\ \A t \in Steps : step[t] # "RUNNING"
      /\ step[s] \in Terminal
      /\ retries' = retries + 1
      /\ client' = [client EXCEPT ![c] = r]
      /\ overlapped' = (overlapped \/ OpenTransaction)
      /\ UNCHANGED <<run, step, jobs, creating, exec, lost>>
  BY DEF RetryRead
<1>2. /\ r \in Retry /\ r.step = s /\ s \notin r.reset
      /\ \A t \in Downstream(s) \ {s} : t \in r.reset \/ step[t] = "PENDING"
      /\ r.reset \subseteq Downstream(s)
  BY DownstreamClosed DEF Retry
<1> HIDE DEF r
<1>3. /\ client' \in [Clients -> Retry] /\ client'[c] = r
      /\ \A d \in Clients : d # c => client'[d] = client[d]
  BY <1>1, <1>2 DEF SerialInv, TypeOK
<1>4. TypeOK'
  BY <1>1, <1>3 DEF SerialInv, TypeOK
<1>5. CreationOk'
  BY <1>1 DEF SerialInv, CreationOk, Terminal
<1>6. ASSUME ~overlapped'
      PROVE  /\ OneTransaction'
             /\ \A e \in Executors : ReportOk(e)'
             /\ \A d \in Clients : RetryOk(d)'
  <2>1. /\ \A e \in Executors : ~Busy(e)'
        /\ \A d \in Clients : d # c => ~Retrying(d)'
    BY <1>1, <1>3, <1>6 DEF OpenTransaction, Busy, Retrying
  <2>2. RetryOk(c)'
    BY <1>1, <1>2, <1>3 DEF RetryOk
  <2> QED
    BY <2>1, <2>2 DEF OneTransaction, ReportOk, RetryOk
<1> QED
  BY <1>1, <1>4, <1>5, <1>6 DEF SerialInv

LEMMA RetryCommitStep ==
  ASSUME SerialInv, NEW c \in Clients, RetryCommit(c)
  PROVE  SerialInv'
<1> DEFINE s == client[c].step
           X == client[c].reset
           st == [t \in Steps |-> IF t \in X THEN "PENDING" ELSE step[t]]
           R == {s} \cup (CommittedReady \ X)
<1>1. /\ Retrying(c)
      /\ step' = Enqueued(st, R) /\ jobs' = WithJobs(R)
      /\ run' = IF client[c].reopen THEN "RUNNING" ELSE run
      /\ client' = [client EXCEPT ![c] = NoRetry]
      /\ UNCHANGED <<creating, exec, retries, lost, overlapped>>
  BY DEF RetryCommit
<1>2. client[c] \in Retry /\ s \in Steps
  BY <1>1 DEF SerialInv, TypeOK, Retry, Retrying
<1>3. /\ R \in SUBSET Steps
      /\ \A t \in R : t = s \/ (step[t] = "READY" /\ t \notin X)
      /\ s \in R
  BY <1>2 DEF CommittedReady
<1>4. /\ st \in [Steps -> StepStatuses]
      /\ \A t \in Steps : st[t] = IF t \in X THEN "PENDING" ELSE step[t]
  BY DEF SerialInv, TypeOK, StepStatuses
<1> HIDE DEF R, st
<1>5. /\ step' \in [Steps -> StepStatuses] /\ jobs' \in [Steps -> Nat]
      /\ \A t \in R : step'[t] = "RUNNING" /\ jobs'[t] = jobs[t] + 1
      /\ \A t \in Steps \ R : step'[t] = st[t] /\ jobs'[t] = jobs[t]
  <2>1. TypeOK
    BY DEF SerialInv
  <2>2. /\ Enqueued(st, R) \in [Steps -> StepStatuses]
        /\ WithJobs(R) \in [Steps -> Nat]
        /\ \A t \in R : /\ Enqueued(st, R)[t] = "RUNNING"
                       /\ WithJobs(R)[t] = jobs[t] + 1
        /\ \A t \in Steps \ R : /\ Enqueued(st, R)[t] = st[t]
                               /\ WithJobs(R)[t] = jobs[t]
    BY <1>3, <1>4, <2>1, Enqueuing
  <2> QED
    BY <1>1, <2>2
<1>6. /\ client' \in [Clients -> Retry]
      /\ client'[c].step = NoStep
      /\ \A d \in Clients : d # c => client'[d] = client[d]
  BY <1>1 DEF SerialInv, TypeOK, NoRetry, Retry
<1>7. run # "NONE" /\ ~creating
  BY <1>1 DEF SerialInv, CreationOk, OpenTransaction
<1>8. TypeOK'
  BY <1>1, <1>5, <1>6 DEF SerialInv, TypeOK, RunStatuses
<1>9. CreationOk'
  BY <1>1, <1>7 DEF CreationOk
<1>10. ASSUME ~overlapped
       PROVE  /\ OneTransaction'
              /\ \A t \in Steps :
                   jobs'[t] <= 1 /\ (jobs'[t] = 1 => step'[t] = "RUNNING")
              /\ \A t \in Steps : step'[t] \in Begun =>
                   \A d \in Deps[t] : step'[d] = "COMPLETED"
              /\ \A e \in Executors : ReportOk(e)'
              /\ \A d \in Clients : RetryOk(d)'
  <2>1. /\ \A t \in Steps : jobs[t] <= 1 /\ (jobs[t] = 1 => step[t] = "RUNNING")
        /\ \A t \in Steps : step[t] \in Begun =>
             \A d \in Deps[t] : step[d] = "COMPLETED"
    BY <1>10 DEF SerialInv
  <2>2. /\ step[s] \in Terminal
        /\ \A t \in Steps : step[t] # "RUNNING"
        /\ s \notin X
        /\ \A t \in Downstream(s) \ {s} : t \in X \/ step[t] = "PENDING"
        /\ X \subseteq Downstream(s)
    BY <1>1, <1>10 DEF SerialInv, RetryOk
  <2>3. \A t \in Steps : jobs[t] = 0
    BY <2>1, <2>2 DEF SerialInv, TypeOK
  <2>4. /\ \A e \in Executors : ~Busy(e)'
        /\ \A d \in Clients : ~Retrying(d)'
    BY <1>1, <1>6, <1>10 DEF SerialInv, OneTransaction, Busy, Retrying
  <2>5. \A t \in Steps : jobs'[t] <= 1 /\ (jobs'[t] = 1 => step'[t] = "RUNNING")
    BY <1>5, <2>3
  <2>6. ASSUME NEW t \in Steps, step'[t] \in Begun, NEW d \in Deps[t]
        PROVE  step'[d] = "COMPLETED"
    <3>1. d \in Steps
      BY DepsAssumption
    <3>2. step[t] \in Begun /\ t \notin X
      <4>1. CASE t = s
        BY <2>2, <4>1 DEF Terminal, Begun
      <4>2. CASE t # s /\ t \in R
        BY <1>3, <4>2 DEF Begun
      <4>3. CASE t \notin R
        BY <1>4, <1>5, <2>6, <4>3 DEF Begun
      <4> QED
        BY <4>1, <4>2, <4>3
    <3>3. step[d] = "COMPLETED"
      BY <2>1, <3>2
    <3>4. d \notin Downstream(s)
      <4>1. CASE t = s
        BY <1>2, <4>1, AcyclicAssumption
      <4>2. CASE t # s
        BY <1>2, <2>2, <3>2, <4>2, DownstreamClosed DEF Begun
      <4> QED
        BY <4>1, <4>2
    <3>5. d \notin X /\ d \notin R
      BY <1>2, <1>3, <2>2, <3>3, <3>4, DownstreamClosed
    <3> QED
      BY <1>4, <1>5, <3>1, <3>3, <3>5
  <2> QED
    BY <2>4, <2>5, <2>6 DEF OneTransaction, ReportOk, RetryOk
<1> QED
  BY <1>1, <1>8, <1>9, <1>10 DEF SerialInv

LEMMA LoseStep ==
  ASSUME SerialInv, LoseCreator \/ LoseReport
  PROVE  SerialInv'
<1>1. CASE LoseCreator
  <2>1. /\ creating' = FALSE /\ lost' = lost + 1
        /\ UNCHANGED <<run, step, jobs, exec, client, retries, overlapped>>
    BY <1>1 DEF LoseCreator
  <2>2. TypeOK'
    <3>1. lost' \in Nat /\ creating' \in BOOLEAN
      <4>1. lost' = lost + 1 /\ lost \in Nat
        BY <2>1 DEF SerialInv, TypeOK
      <4>2. creating' \in BOOLEAN
        BY <2>1
      <4> QED
        BY <4>1, <4>2
    <3>2. UNCHANGED <<run, step, jobs, exec, client, retries, overlapped>>
      BY <2>1
    <3> QED
      BY <3>1, <3>2 DEF SerialInv, TypeOK
  <2>3. CreationOk'
    BY <2>1 DEF SerialInv, CreationOk, OpenTransaction, Busy, Retrying
  <2>4. ~overlapped => /\ OneTransaction'
                       /\ \A e \in Executors : ReportOk(e)'
                       /\ \A c \in Clients : RetryOk(c)'
    BY <2>1 DEF SerialInv, OneTransaction, ReportOk, RetryOk, Busy, Retrying
  <2> QED
    BY <2>1, <2>2, <2>3, <2>4 DEF SerialInv
<1>2. CASE LoseReport /\ UNCHANGED exec
  <2>1. PICK s \in Steps : jobs[s] > 0 /\ jobs' = [jobs EXCEPT ![s] = @ - 1]
    <3>1. ASSUME NEW e \in Executors, Busy(e),
                 exec' = [exec EXCEPT ![e] = NoReport]
          PROVE  FALSE
      <4>1. exec'[e] = NoReport
        BY <3>1 DEF SerialInv, TypeOK
      <4>2. exec[e] = NoReport
        BY <1>2, <4>1
      <4>3. exec[e].step = NoStep
        <5>1. NoReport.step = NoStep
          BY DEF NoReport
        <5> QED
          BY <4>2, <5>1
      <4> QED
        BY <3>1, <4>3 DEF Busy
    <3> QED
      BY <1>2, <3>1 DEF LoseReport
  <2>2. /\ lost' = lost + 1
        /\ UNCHANGED <<run, step, creating, exec, client, retries, overlapped>>
    BY <1>2 DEF LoseReport
  <2>3. /\ jobs' \in [Steps -> Nat]
        /\ \A t \in Steps : /\ jobs'[t] <= jobs[t]
                            /\ jobs[t] = 0 => jobs'[t] = 0
    BY <2>1 DEF SerialInv, TypeOK
  <2>4. TypeOK'
    BY <2>2, <2>3 DEF SerialInv, TypeOK
  <2>5. CreationOk'
    BY <2>2, <2>3 DEF SerialInv, CreationOk, OpenTransaction, Busy, Retrying
  <2>6. ASSUME ~overlapped, NEW e \in Executors PROVE ReportOk(e)'
    <3>1. Busy(e) => exec[e].step \in Steps
      BY DEF SerialInv, TypeOK, Report, Busy
    <3> QED
      BY <2>2, <2>3, <2>6, <3>1 DEF SerialInv, ReportOk, Busy
  <2>7. ASSUME ~overlapped, NEW t \in Steps
        PROVE  jobs'[t] <= 1 /\ (jobs'[t] = 1 => step[t] = "RUNNING")
    BY <2>3, <2>7 DEF SerialInv, TypeOK
  <2>8. ~overlapped => OneTransaction' /\ \A c \in Clients : RetryOk(c)'
    BY <2>2 DEF SerialInv, OneTransaction, RetryOk, Busy, Retrying
  <2> QED
    BY <2>2, <2>4, <2>5, <2>6, <2>7, <2>8 DEF SerialInv
<1>3. CASE LoseReport /\ exec' # exec
  <2>1. PICK e \in Executors : Busy(e) /\ exec' = [exec EXCEPT ![e] = NoReport]
    BY <1>3 DEF LoseReport
  <2>2. /\ lost' = lost + 1
        /\ UNCHANGED <<run, step, jobs, creating, client, retries, overlapped>>
    BY <1>3 DEF LoseReport
  <2>3. /\ exec' \in [Executors -> Report]
        /\ exec'[e].step = NoStep
        /\ \A f \in Executors : f # e => exec'[f] = exec[f]
    BY <2>1 DEF SerialInv, TypeOK, NoReport, Report
  <2>4. TypeOK'
    BY <2>2, <2>3 DEF SerialInv, TypeOK
  <2>5. CreationOk'
    BY <2>1, <2>2 DEF SerialInv, CreationOk, OpenTransaction
  <2>6. \A f \in Executors : Busy(f)' => exec'[f] = exec[f] /\ Busy(f)
    BY <2>3 DEF Busy
  <2>7. ~overlapped => \A f \in Executors : ReportOk(f)'
    BY <2>2, <2>6 DEF SerialInv, ReportOk
  <2>8. ~overlapped => OneTransaction' /\ \A c \in Clients : RetryOk(c)'
    BY <2>2, <2>6 DEF SerialInv, OneTransaction, RetryOk, Retrying
  <2> QED
    BY <2>2, <2>4, <2>5, <2>7, <2>8 DEF SerialInv
<1> QED
  BY <1>1, <1>2, <1>3

LEMMA NextSerial == SerialInv /\ [Next]_vars => SerialInv'
<1> SUFFICES ASSUME SerialInv, [Next]_vars PROVE SerialInv'
  OBVIOUS
<1>1. CASE UNCHANGED vars
  BY <1>1 DEF vars, SerialInv, TypeOK, CreationOk, OneTransaction, ReportOk,
              RetryOk, Busy, Retrying, OpenTransaction
<1>2. CASE Next
  BY <1>2, CreateRunStep, EnqueueCreatedStep, AdvanceReadStep,
     AdvanceCommitStep, StepFailedStep, RetryReadStep, RetryCommitStep, LoseStep
     DEF Next
<1> QED
  BY <1>1, <1>2

-----------------------------------------------------------------------------
(* The second part, ProgressInv, given the first.                          *)

\* A step downstream of s other than s waits for one that is downstream too.
LEMMA DownstreamWaits ==
  ASSUME NEW s \in Steps, NEW t \in Downstream(s), t # s
  PROVE  \E d \in Deps[t] : d \in Downstream(s)
<1> SUFFICES ASSUME Deps[t] \cap Downstream(s) = {} PROVE FALSE
  OBVIOUS
<1> DEFINE C == Downstream(s) \ {t}
<1>1. C \in SUBSET Steps /\ s \in C
  BY DownstreamClosed
<1>2. ASSUME NEW u \in Steps, Deps[u] \cap C # {} PROVE u \in C
  BY <1>2, DownstreamClosed
<1>3. Closed(C)
  BY <1>2 DEF Closed
<1> QED
  BY <1>1, <1>3 DEF Downstream

\* In every set of steps of the graph, one depends on no other of the set.
LEMMA SomeStepIsFirst ==
  ASSUME NEW P \in SUBSET Steps, P # {}
  PROVE  \E t \in P : Deps[t] \cap P = {}
<1> DEFINE Rest(t) == Steps \ Downstream(t)
           T == {Rest(t) : t \in P}
<1>1. T \subseteq FiniteSubsetsOf(Steps) /\ T # {}
  <2>1. T \subseteq SUBSET Steps /\ T # {}
    OBVIOUS
  <2>2. FiniteSubsetsOf(Steps) = SUBSET Steps
    BY StepsAssumption, FS_FiniteSubsetsOfFinite
  <2> QED
    BY <2>1, <2>2
<1>2. \E x \in T : \A y \in T : <<y, x>> \notin StrictSubsetOrdering(Steps)
  BY <1>1, FS_StrictSubsetOrderingWellFounded, WFMin
<1>3. PICK t \in P : \A u \in P :
        <<Rest(u), Rest(t)>> \notin StrictSubsetOrdering(Steps)
  BY <1>2
<1>4. ASSUME NEW d \in Deps[t], d \in P PROVE FALSE
  <2>1. t \in Steps /\ d \in Steps /\ d \notin Downstream(t)
    BY AcyclicAssumption, <1>4
  <2>2. d \in Downstream(d) /\ t \in Downstream(d)
    BY <2>1, DownstreamClosed
  <2>3. Downstream(t) \subseteq Downstream(d)
    BY <2>1, <2>2, DownstreamClosed DEF Downstream, Closed
  <2>4. Rest(d) \subseteq Rest(t) /\ Rest(d) # Rest(t)
    BY <2>1, <2>2, <2>3
  <2>5. Rest(d) \in FiniteSubsetsOf(Steps) /\ Rest(t) \in FiniteSubsetsOf(Steps)
    BY StepsAssumption, FS_FiniteSubsetsOfFinite
  <2>6. <<Rest(d), Rest(t)>> \in StrictSubsetOrdering(Steps)
    BY <2>4, <2>5 DEF StrictSubsetOrdering
  <2> QED
    BY <1>3, <1>4, <2>6
<1> QED
  BY <1>4

LEMMA InitProgress == Init => ProgressInv
<1> SUFFICES ASSUME Init PROVE ProgressInv
  OBVIOUS
<1>1. /\ \A e \in Executors : ~Busy(e)
      /\ \A c \in Clients : ~Retrying(c)
      /\ run = "NONE" /\ \A s \in Steps : step[s] = "NONE"
  BY DEF Init, Busy, Retrying, NoReport, NoRetry
<1> QED
  BY <1>1 DEF ProgressInv, ReportComplete, RunAgrees, NothingForgotten, NowReady

LEMMA CreateRunProgress ==
  ASSUME SerialInv, CreateRun
  PROVE  ProgressInv'
<1>1. /\ run = "NONE" /\ run' = "RUNNING" /\ creating'
      /\ \A s \in Steps : step'[s] = IF Deps[s] = {} THEN "READY" ELSE "PENDING"
      /\ UNCHANGED <<exec, client>>
  BY DEF CreateRun
<1>2. /\ \A e \in Executors : ~Busy(e)'
      /\ \A c \in Clients : ~Retrying(c)'
  BY <1>1 DEF SerialInv, CreationOk, OpenTransaction, Busy, Retrying
<1>3. RunAgrees'
  BY <1>1, <1>2, StepsAssumption DEF RunAgrees
<1>4. NowReady(step)' = {}
  BY <1>1, DepsAssumption DEF NowReady
<1> QED
  BY <1>1, <1>2, <1>3, <1>4 DEF ProgressInv, ReportComplete, NothingForgotten

LEMMA EnqueueCreatedProgress ==
  ASSUME SerialInv, ProgressInv, EnqueueCreated
  PROVE  ProgressInv'
<1> DEFINE R == CommittedReady
<1>1. /\ creating /\ ~creating'
      /\ step' = Enqueued(step, R) /\ jobs' = WithJobs(R)
      /\ UNCHANGED <<run, exec, client, lost, overlapped>>
  BY DEF EnqueueCreated
<1>2. R \in SUBSET Steps /\ \A s \in Steps : s \in R <=> step[s] = "READY"
  BY DEF CommittedReady
<1> HIDE DEF R
<1>3. /\ \A s \in Steps : step[s] \in {"READY", "PENDING"} /\ jobs[s] = 0
      /\ ~OpenTransaction
  BY <1>1 DEF SerialInv, CreationOk
<1>4. /\ \A e \in Executors : ~Busy(e)'
      /\ \A c \in Clients : ~Retrying(c)'
  BY <1>1, <1>3 DEF OpenTransaction, Busy, Retrying
<1>5. \A s \in Steps :
        IF step[s] = "READY" THEN step'[s] = "RUNNING" /\ jobs'[s] = 1
                             ELSE step'[s] = "PENDING"
  BY <1>1, <1>2, <1>3 DEF Enqueued, WithJobs
<1> SUFFICES ASSUME ~overlapped PROVE ProgressInv'
  BY <1>1 DEF ProgressInv
<1>6. RunAgrees /\ NowReady(step) = {}
  BY DEF ProgressInv
<1>7. run # "COMPLETED" /\ RunAgrees'
  BY <1>1, <1>3, <1>4, <1>5, <1>6, StepsAssumption DEF RunAgrees
<1>8. NowReady(step)' = {}
  BY <1>3, <1>5, <1>6, DepsAssumption DEF NowReady
<1>9. NothingForgotten'
  BY <1>5 DEF NothingForgotten
<1> QED
  BY <1>4, <1>7, <1>8, <1>9 DEF ProgressInv, ReportComplete

\* What a report finds out about the run, on the statuses it sees.
LEMMA ClosingMeans ==
  ASSUME NEW seen
  PROVE  /\ (\A t \in Steps : seen[t] = "COMPLETED")
              => NowReady(seen) = {} /\ Closing(seen) = "COMPLETED"
         /\ Closing(seen) = "COMPLETED"
              => \A t \in Steps : seen[t] = "COMPLETED"
<1>1. (\A t \in Steps : seen[t] = "COMPLETED")
        => NowReady(seen) = {} /\ Closing(seen) = "COMPLETED"
  BY DEF NowReady, Closing, Terminal
<1>2. Closing(seen) = "COMPLETED" => \A t \in Steps : seen[t] = "COMPLETED"
  BY DEF Closing, Terminal
<1> QED
  BY <1>1, <1>2

LEMMA AdvanceReadProgress ==
  ASSUME SerialInv, ProgressInv,
         NEW e \in Executors, NEW s \in Steps, AdvanceRead(e, s)
  PROVE  ProgressInv'
<1> DEFINE seen == [step EXCEPT ![s] = "COMPLETED"]
           close == IF NowReady(seen) = {} THEN Closing(seen) ELSE ""
<1>1. /\ ~Busy(e)
      /\ jobs' = [jobs EXCEPT ![s] = @ - 1]
      /\ exec' = [exec EXCEPT ![e] = [step |-> s, mark |-> step[s] # "COMPLETED",
                                      ready |-> NowReady(seen), close |-> close]]
      /\ overlapped' = (overlapped \/ OpenTransaction)
      /\ UNCHANGED <<run, step, creating, client, lost>>
  BY DEF AdvanceRead
<1>2. /\ seen[s] = "COMPLETED"
      /\ \A t \in Steps \ {s} : seen[t] = step[t]
  BY DEF SerialInv, TypeOK
<1> HIDE DEF seen
<1>3. close = "COMPLETED" <=> \A t \in Steps \ {s} : step[t] = "COMPLETED"
  BY <1>2, ClosingMeans
<1>4. /\ exec'[e].step = s /\ exec'[e].ready = NowReady(seen)
      /\ exec'[e].close = close
      /\ \A f \in Executors : f # e => exec'[f] = exec[f]
  BY <1>1 DEF SerialInv, TypeOK
<1> HIDE DEF close
<1> SUFFICES ASSUME ~overlapped, ~OpenTransaction PROVE ProgressInv'
  BY <1>1 DEF ProgressInv
<1>5. /\ \A f \in Executors : f # e => ~Busy(f)'
      /\ \A c \in Clients : ~Retrying(c)'
  BY <1>1, <1>4 DEF OpenTransaction, Busy, Retrying
<1>6. ReportComplete(e)'
  <2>1. [step EXCEPT ![s] = "COMPLETED"] = seen
    BY DEF seen
  <2> QED
    BY <1>1, <1>3, <1>4, <2>1 DEF ReportComplete
<1>7. \A f \in Executors : ReportComplete(f)'
  BY <1>5, <1>6 DEF ReportComplete
<1>8. RunAgrees'
  BY <1>1, <1>5 DEF ProgressInv, RunAgrees
<1>9. NowReady(step)' = {}
  BY <1>1 DEF ProgressInv, NowReady
<1>10. ASSUME lost = 0 PROVE NothingForgotten'
  <2>1. NothingForgotten
    BY <1>10 DEF ProgressInv
  <2>2. ASSUME NEW t \in Steps, t # s, step[t] = "RUNNING" PROVE jobs'[t] = 1
    <3>1. \A f \in Executors : exec[f].step # t
      BY StepsAssumption DEF OpenTransaction, Busy
    <3> QED
      BY <1>1, <2>1, <2>2, <3>1 DEF NothingForgotten, SerialInv, TypeOK
  <2> QED
    BY <1>1, <1>4, <2>1, <2>2 DEF NothingForgotten
<1> QED
  BY <1>1, <1>7, <1>8, <1>9, <1>10 DEF ProgressInv

\* What AdvanceCommit changes while no transactions overlap.
LEMMA CommitEffect ==
  ASSUME SerialInv, NEW e \in Executors, AdvanceCommit(e), ~overlapped,
         NEW s, s = exec[e].step,
         NEW R, R = exec[e].ready \cup (CommittedReady \ {s})
  PROVE  /\ s \in Steps /\ s \notin R /\ R \subseteq Steps
         /\ step[s] = "RUNNING" /\ step'[s] = "COMPLETED"
         /\ \A t \in R : /\ step[t] \in {"PENDING", "READY"}
                         /\ step'[t] = "RUNNING" /\ jobs'[t] = 1
         /\ \A t \in Steps \ R : jobs'[t] = jobs[t]
         /\ \A t \in Steps \ R : t # s => step'[t] = step[t]
<1> DEFINE st == [step EXCEPT ![s] = IF exec[e].mark THEN "COMPLETED" ELSE @]
<1>1. /\ Busy(e)
      /\ step' = Enqueued(st, R) /\ jobs' = WithJobs(R)
  BY DEF AdvanceCommit
<1>2. exec[e] \in Report /\ s \in Steps /\ R \in SUBSET Steps
  BY <1>1 DEF SerialInv, TypeOK, Report, Busy, CommittedReady
<1>3. /\ step[s] = "RUNNING" /\ exec[e].mark
      /\ \A t \in exec[e].ready : step[t] = "PENDING"
  BY <1>1 DEF SerialInv, ReportOk
<1>4. \A t \in R : step[t] \in {"PENDING", "READY"}
  BY <1>3 DEF CommittedReady
<1>5. s \notin R
  BY <1>3, <1>4
<1>6. \A t \in R : jobs[t] = 0
  BY <1>2, <1>4 DEF SerialInv, TypeOK
<1>7. /\ st \in [Steps -> StepStatuses] /\ st[s] = "COMPLETED"
      /\ \A t \in Steps : t # s => st[t] = step[t]
  BY <1>2, <1>3 DEF SerialInv, TypeOK, StepStatuses
<1> HIDE DEF st
<1>8. /\ \A t \in R : step'[t] = "RUNNING" /\ jobs'[t] = jobs[t] + 1
      /\ \A t \in Steps \ R : step'[t] = st[t] /\ jobs'[t] = jobs[t]
  <2>1. /\ \A t \in R : /\ Enqueued(st, R)[t] = "RUNNING"
                        /\ WithJobs(R)[t] = jobs[t] + 1
        /\ \A t \in Steps \ R : /\ Enqueued(st, R)[t] = st[t]
                                /\ WithJobs(R)[t] = jobs[t]
    BY <1>2, <1>7, Enqueuing DEF SerialInv
  <2> QED
    BY <1>1, <2>1
<1> QED
  BY <1>2, <1>3, <1>4, <1>5, <1>6, <1>7, <1>8

LEMMA AdvanceCommitProgress ==
  ASSUME SerialInv, ProgressInv, NEW e \in Executors, AdvanceCommit(e)
  PROVE  ProgressInv'
<1> DEFINE s == exec[e].step
           R == exec[e].ready \cup (CommittedReady \ {s})
<1>1. /\ Busy(e) /\ OpenTransaction
      /\ run' = IF exec[e].close = "" THEN run ELSE exec[e].close
      /\ exec' = [exec EXCEPT ![e] = NoReport]
      /\ UNCHANGED <<creating, client, lost, overlapped>>
  BY DEF AdvanceCommit, OpenTransaction
<1> SUFFICES ASSUME ~overlapped PROVE ProgressInv'
  BY <1>1 DEF ProgressInv
<1>2. /\ s \in Steps /\ s \notin R /\ R \subseteq Steps
      /\ step[s] = "RUNNING" /\ step'[s] = "COMPLETED"
      /\ \A t \in R : /\ step[t] \in {"PENDING", "READY"}
                      /\ step'[t] = "RUNNING" /\ jobs'[t] = 1
      /\ \A t \in Steps \ R : jobs'[t] = jobs[t]
      /\ \A t \in Steps \ R : t # s => step'[t] = step[t]
  <2>1. s = exec[e].step /\ R = exec[e].ready \cup (CommittedReady \ {s})
    OBVIOUS
  <2> HIDE DEF s, R
  <2> QED
    BY <2>1, CommitEffect
<1>3. \A t \in Steps : t \in exec[e].ready \/ step[t] = "READY" => t \in R
  BY <1>2 DEF CommittedReady
<1>4. /\ exec[e].close = "COMPLETED"
           <=> \A t \in Steps \ {s} : step[t] = "COMPLETED"
      /\ NowReady([step EXCEPT ![s] = "COMPLETED"]) \subseteq exec[e].ready
      /\ RunAgrees
  BY <1>1 DEF ProgressInv, ReportComplete
<1>5. /\ \A f \in Executors : exec'[f].step # s => ~Busy(f)'
      /\ \A f \in Executors : ~Busy(f)'
      /\ \A f \in Executors : f # e => exec[f].step = NoStep
      /\ \A c \in Clients : ~Retrying(c)'
  BY <1>1 DEF SerialInv, TypeOK, OneTransaction, Busy, Retrying, NoReport
<1>6. exec[e].close \in {"", "COMPLETED", "FAILED"} /\ run # "NONE"
  BY <1>1 DEF SerialInv, TypeOK, Report, CreationOk
<1> HIDE DEF s, R
<1>7. RunAgrees'
  <2>1. run' = "COMPLETED" => \A t \in Steps : step'[t] = "COMPLETED"
    BY <1>1, <1>2, <1>4, ZenonT(40) DEF RunAgrees
  <2>2. run' = "RUNNING" => \E t \in Steps : step'[t] # "COMPLETED"
    BY <1>1, <1>2, <1>4 DEF RunAgrees
  <2>3. \A t \in Steps : step'[t] # "NONE"
    BY <1>2, <1>4, <1>6 DEF RunAgrees
  <2> QED
    BY <1>5, <2>1, <2>2, <2>3 DEF RunAgrees
<1>8. ASSUME NEW t \in NowReady(step)' PROVE FALSE
  <2>1. /\ t \in Steps /\ step'[t] = "PENDING"
        /\ \A d \in Deps[t] : d \in Steps /\ step'[d] = "COMPLETED"
    BY <1>8, DepsAssumption DEF NowReady
  <2>2. t \notin R /\ t # s /\ step[t] = "PENDING"
    BY <1>2, <2>1
  <2>3. \A d \in Deps[t] : d = s \/ step[d] = "COMPLETED"
    BY <1>2, <2>1
  <2>4. t \in NowReady([step EXCEPT ![s] = "COMPLETED"])
    BY <1>2, <2>1, <2>2, <2>3 DEF NowReady, SerialInv, TypeOK
  <2> QED
    BY <1>3, <1>4, <2>1, <2>2, <2>4
<1>9. ASSUME lost = 0 PROVE NothingForgotten'
  <2>1. \A t \in Steps : step'[t] # "READY"
    BY <1>2, <1>3
  <2>2. ASSUME NEW t \in Steps, step'[t] = "RUNNING" PROVE jobs'[t] = 1
    <3>1. CASE t \in R
      BY <1>2, <3>1
    <3>2. CASE t \notin R
      <4>1. step[t] = "RUNNING" /\ t # s
        BY <1>2, <2>2, <3>2
      <4>2. \A f \in Executors : exec[f].step # t
        BY <1>5, <4>1, StepsAssumption DEF s
      <4>3. jobs[t] = 1
        BY <1>9, <4>1, <4>2 DEF ProgressInv, NothingForgotten
      <4> QED
        BY <1>2, <3>2, <4>3
    <3> QED
      BY <3>1, <3>2
  <2> QED
    BY <2>1, <2>2 DEF NothingForgotten
<1> QED
  BY <1>1, <1>5, <1>7, <1>8, <1>9 DEF ProgressInv, ReportComplete

LEMMA StepFailedProgress ==
  ASSUME SerialInv, ProgressInv, NEW u \in Steps, StepFailed(u)
  PROVE  ProgressInv'
<1>1. /\ jobs[u] > 0
      /\ jobs' = [jobs EXCEPT ![u] = @ - 1]
      /\ step' = [step EXCEPT ![u] = "FAILED"]
      /\ run' = "FAILED"
      /\ UNCHANGED <<creating, exec, client, lost, overlapped>>
  BY DEF StepFailed
<1> SUFFICES ASSUME ~overlapped PROVE ProgressInv'
  BY <1>1 DEF ProgressInv
<1>2. /\ step'[u] = "FAILED"
      /\ \A t \in Steps : t # u => jobs'[t] = jobs[t] /\ step'[t] = step[t]
  BY <1>1 DEF SerialInv, TypeOK
<1>3. jobs[u] = 1 /\ step[u] = "RUNNING" /\ run # "NONE"
  BY <1>1 DEF SerialInv, TypeOK, CreationOk
<1>4. \A c \in Clients : ~Retrying(c)'
  BY <1>1, <1>3 DEF SerialInv, RetryOk, Retrying
<1>5. ASSUME NEW e \in Executors, Busy(e)' PROVE ReportComplete(e)'
  <2> DEFINE s == exec[e].step
  <2>1. /\ Busy(e) /\ exec' = exec /\ s \in Steps
    BY <1>1, <1>5 DEF SerialInv, TypeOK, Report, Busy
  <2>2. s # u
    BY <1>3, <2>1 DEF SerialInv, ReportOk
  <2>3. /\ exec[e].close = "COMPLETED"
             <=> \A t \in Steps \ {s} : step[t] = "COMPLETED"
        /\ NowReady([step EXCEPT ![s] = "COMPLETED"]) \subseteq exec[e].ready
    BY <2>1 DEF ProgressInv, ReportComplete
  <2> HIDE DEF s
  <2>4. /\ exec[e].close # "COMPLETED"
        /\ ~\A t \in Steps \ {s} : step'[t] = "COMPLETED"
    BY <1>2, <1>3, <2>2, <2>3
  <2>5. NowReady([step EXCEPT ![s] = "COMPLETED"])'
          \subseteq NowReady([step EXCEPT ![s] = "COMPLETED"])
    <3>1. ASSUME NEW t \in Steps, [step' EXCEPT ![s] = "COMPLETED"][t] = "PENDING"
          PROVE  [step EXCEPT ![s] = "COMPLETED"][t] = "PENDING"
      <4>1. t # s /\ step'[t] = "PENDING" /\ t \in DOMAIN step
        BY <1>1, <3>1 DEF SerialInv, TypeOK
      <4>2. step[t] = "PENDING"
        BY <1>2, <4>1
      <4> QED
        BY <4>1, <4>2
    <3>2. ASSUME NEW t \in Steps, [step' EXCEPT ![s] = "COMPLETED"][t] = "COMPLETED"
          PROVE  [step EXCEPT ![s] = "COMPLETED"][t] = "COMPLETED"
      <4>1. CASE t = s
        BY <2>1, <4>1 DEF SerialInv, TypeOK
      <4>2. CASE t # s
        <5>1. step'[t] = "COMPLETED" /\ t \in DOMAIN step
          BY <1>1, <3>2, <4>2 DEF SerialInv, TypeOK
        <5>2. step[t] = "COMPLETED"
          BY <1>2, <5>1
        <5> QED
          BY <4>2, <5>1, <5>2
      <4> QED
        BY <4>1, <4>2
    <3>3. s' = s
      BY <2>1 DEF s
    <3> QED
      BY <3>1, <3>2, <3>3, DepsAssumption DEF NowReady
  <2>6. exec'[e].step = s
    BY <2>1 DEF s
  <2>7. s' = s
    BY <2>1 DEF s
  <2> QED
    BY <2>1, <2>3, <2>4, <2>5, <2>6, <2>7 DEF ReportComplete
<1>6. RunAgrees'
  BY <1>1, <1>2, <1>3, <1>4 DEF ProgressInv, RunAgrees
<1>7. NowReady(step)' = {}
  BY <1>2, <1>3, DepsAssumption DEF ProgressInv, NowReady
<1>8. ASSUME lost = 0 PROVE NothingForgotten'
  BY <1>1, <1>2, <1>8 DEF ProgressInv, NothingForgotten
<1> QED
  BY <1>1, <1>5, <1>6, <1>7, <1>8 DEF ProgressInv, ReportComplete

LEMMA RetryReadProgress ==
  ASSUME SerialInv, ProgressInv,
         NEW c \in Clients, NEW s \in Steps, RetryRead(c, s)
  PROVE  ProgressInv'
<1>1. /\ client' = [client EXCEPT ![c] =
           [step |-> s, reopen |-> run # "RUNNING",
            reset |-> {t \in Downstream(s) \ {s} : step[t] # "PENDING"}]]
      /\ overlapped' = (overlapped \/ OpenTransaction)
      /\ UNCHANGED <<run, step, jobs, creating, exec, lost>>
  BY DEF RetryRead
<1> SUFFICES ASSUME ~overlapped, ~OpenTransaction PROVE ProgressInv'
  BY <1>1 DEF ProgressInv
<1>2. /\ client'[c].reopen = (run # "RUNNING")
      /\ \A d \in Clients : d # c => client'[d] = client[d]
  BY <1>1 DEF SerialInv, TypeOK
<1>3. RunAgrees'
  BY <1>1, <1>2 DEF ProgressInv, RunAgrees, Retrying
<1>4. \A e \in Executors : ~Busy(e)'
  BY <1>1 DEF OpenTransaction, Busy
<1> QED
  BY <1>1, <1>3, <1>4
     DEF ProgressInv, ReportComplete, NowReady, NothingForgotten

LEMMA RetryCommitProgress ==
  ASSUME SerialInv, ProgressInv, NEW c \in Clients, RetryCommit(c)
  PROVE  ProgressInv'
<1> DEFINE s == client[c].step
           X == client[c].reset
           R == {s} \cup (CommittedReady \ X)
<1>1. /\ Retrying(c)
      /\ step' = Enqueued([t \in Steps |-> IF t \in X THEN "PENDING" ELSE step[t]], R)
      /\ jobs' = WithJobs(R)
      /\ run' = IF client[c].reopen THEN "RUNNING" ELSE run
      /\ client' = [client EXCEPT ![c] = NoRetry]
      /\ UNCHANGED <<creating, exec, lost, overlapped>>
  BY DEF RetryCommit
<1> SUFFICES ASSUME ~overlapped PROVE ProgressInv'
  BY <1>1 DEF ProgressInv
<1>2. s \in Steps
  BY <1>1 DEF SerialInv, TypeOK, Retry, Retrying
<1>3. /\ \A t \in Steps : step[t] # "RUNNING"
      /\ s \notin X /\ X \subseteq Downstream(s)
      /\ \A t \in Downstream(s) \ {s} : t \in X \/ step[t] = "PENDING"
  BY <1>1 DEF SerialInv, RetryOk
<1>4. \A t \in Steps : jobs[t] = 0
  BY <1>3 DEF SerialInv, TypeOK
<1>5. /\ step'[s] = "RUNNING"
      /\ \A t \in Steps : step'[t] =
           IF t = s \/ (step[t] = "READY" /\ t \notin X) THEN "RUNNING"
           ELSE IF t \in X THEN "PENDING" ELSE step[t]
      /\ \A t \in Steps : step'[t] = "RUNNING" => jobs'[t] = 1
  <2>1. \A t \in Steps : t \in R <=> t = s \/ (step[t] = "READY" /\ t \notin X)
    BY DEF CommittedReady
  <2> HIDE DEF R
  <2> QED
    BY <1>1, <1>2, <1>3, <1>4, <2>1 DEF Enqueued, WithJobs
<1>6. /\ \A e \in Executors : ~Busy(e)'
      /\ \A d \in Clients : ~Retrying(d)'
  BY <1>1 DEF SerialInv, TypeOK, OneTransaction, Busy, Retrying, NoRetry
<1> HIDE DEF s, X, R
<1>7. RunAgrees /\ run # "NONE"
  BY <1>1 DEF SerialInv, CreationOk, OpenTransaction, ProgressInv
<1>8. RunAgrees'
  <2>1. run' # "COMPLETED"
    BY <1>1, <1>7 DEF RunAgrees
  <2>2. \A t \in Steps : step'[t] # "NONE"
    BY <1>5, <1>7 DEF RunAgrees
  <2> QED
    BY <1>2, <1>5, <1>6, <2>1, <2>2 DEF RunAgrees
<1>9. ASSUME NEW t \in NowReady(step)' PROVE FALSE
  <2>1. /\ t \in Steps /\ step'[t] = "PENDING"
        /\ \A d \in Deps[t] : d \in Steps /\ step'[d] = "COMPLETED"
    BY <1>9, DepsAssumption DEF NowReady
  <2>2. t # s /\ \A d \in Deps[t] : d # s /\ d \notin X /\ step[d] = "COMPLETED"
    BY <1>5, <2>1
  <2>3. CASE t \in X
    <3>1. PICK d \in Deps[t] : d \in Downstream(s)
      BY <1>2, <1>3, <2>2, <2>3, DownstreamWaits
    <3> QED
      BY <1>3, <2>2, <3>1
  <2>4. CASE t \notin X
    <3>1. step[t] = "PENDING"
      BY <1>5, <2>1, <2>2, <2>4
    <3> QED
      BY <2>1, <2>2, <3>1 DEF ProgressInv, NowReady
  <2> QED
    BY <2>3, <2>4
<1>10. NothingForgotten'
  BY <1>5 DEF NothingForgotten
<1> QED
  BY <1>6, <1>8, <1>9, <1>10 DEF ProgressInv, ReportComplete

LEMMA LoseProgress ==
  ASSUME SerialInv, ProgressInv, LoseCreator \/ LoseReport
  PROVE  ProgressInv'
<1>1. lost' # 0 /\ UNCHANGED <<run, step, client, overlapped>>
  BY DEF LoseCreator, LoseReport, SerialInv, TypeOK
<1>2. ASSUME NEW e \in Executors, Busy(e)'
      PROVE  Busy(e) /\ exec'[e] = exec[e]
  <2>1. CASE exec' = exec
    BY <1>2, <2>1 DEF Busy
  <2>2. CASE \E f \in Executors : exec' = [exec EXCEPT ![f] = NoReport]
    <3>1. PICK f \in Executors : exec' = [exec EXCEPT ![f] = NoReport]
      BY <2>2
    <3>2. exec \in [Executors -> Report] /\ NoReport.step = NoStep
      BY DEF SerialInv, TypeOK, NoReport
    <3>3. f # e
      BY <1>2, <3>1, <3>2 DEF Busy
    <3>4. exec'[e] = exec[e]
      BY <3>1, <3>2, <3>3
    <3> QED
      BY <1>2, <3>4 DEF Busy
  <2> QED
    BY <2>1, <2>2 DEF LoseCreator, LoseReport
<1>3. ASSUME ~overlapped, NEW e \in Executors PROVE ReportComplete(e)'
  BY <1>1, <1>2, <1>3 DEF ProgressInv, ReportComplete, NowReady
<1>4. RunAgrees => RunAgrees'
  BY <1>1 DEF RunAgrees, Retrying
<1> QED
  BY <1>1, <1>3, <1>4 DEF ProgressInv, NowReady

LEMMA InitInv == Init => WorkflowInv
  BY InitSerial, InitProgress DEF WorkflowInv

LEMMA NextStep == WorkflowInv /\ [Next]_vars => WorkflowInv'
<1> SUFFICES ASSUME SerialInv, ProgressInv, [Next]_vars PROVE WorkflowInv'
  BY DEF WorkflowInv
<1>1. SerialInv'
  BY NextSerial
<1>2. UNCHANGED vars => ProgressInv'
  BY DEF vars, ProgressInv, ReportComplete, RunAgrees, NothingForgotten,
              NowReady, Busy, Retrying
<1>3. Next => ProgressInv'
  BY CreateRunProgress, EnqueueCreatedProgress, AdvanceReadProgress,
     AdvanceCommitProgress, StepFailedProgress, RetryReadProgress,
     RetryCommitProgress, LoseProgress
     DEF Next
<1> QED
  BY <1>1, <1>2, <1>3 DEF WorkflowInv

\* WorkflowInv holds in every reachable state: unless transactions have
\* overlapped, what an open transaction has read is still true, the status of
\* the run agrees with its steps, and no executable step is left behind.
THEOREM WorkflowInvariant == Spec => []WorkflowInv
  BY InitInv, NextStep, PTL DEF Spec

\* In any acyclic workflow, unless two advancing or retrying transactions have
\* overlapped, no step starts before its dependencies have completed, and no
\* step has two jobs queued or reporting, or one while it is not RUNNING.
THEOREM StepsInOrder == Spec => [](DepsRespected /\ OneJobPerStep)
<1>1. WorkflowInv => DepsRespected
  BY DEF WorkflowInv, SerialInv, DepsRespected
<1>2. ASSUME SerialInv, ~overlapped, NEW s \in Steps
      PROVE  /\ jobs[s] <= 1
             /\ \A e, f \in Executors :
                  exec[e].step = s /\ exec[f].step = s => e = f
             /\ jobs[s] = 1 => \A e \in Executors : exec[e].step # s
             /\ jobs[s] = 1 \/ (\E e \in Executors : exec[e].step = s)
                  => step[s] = "RUNNING"
  <2>1. \A e \in Executors : exec[e].step = s => Busy(e)
    BY StepsAssumption DEF Busy
  <2> QED
    BY <1>2, <2>1 DEF SerialInv, OneTransaction, ReportOk
<1>3. WorkflowInv => OneJobPerStep
  BY <1>2 DEF WorkflowInv, OneJobPerStep
<1> QED
  BY <1>1, <1>3, WorkflowInvariant, PTL

\* If no process has died and no transactions have overlapped, a run that is
\* RUNNING with nothing queued or under way has a FAILED step.  Otherwise all
\* its steps would be PENDING or COMPLETED, not all COMPLETED; the graph is
\* acyclic, so a PENDING step would have all its dependencies COMPLETED, and
\* the report of the last of them would have made it READY.  And a run that
\* is COMPLETED has completed all its steps and has no job.
THEOREM RunsEndRight == Spec => [](NoStrandedRun /\ CompletedRunIsDone)
<1>1. ASSUME WorkflowInv, lost = 0, ~overlapped, run = "RUNNING", Quiet,
             \A s \in Steps : step[s] # "FAILED"
      PROVE  FALSE
  <2> DEFINE P == {s \in Steps : step[s] = "PENDING"}
  <2>1. RunAgrees /\ NothingForgotten /\ NowReady(step) = {}
    BY <1>1 DEF WorkflowInv, ProgressInv
  <2>2. ASSUME NEW s \in Steps PROVE step[s] \notin {"READY", "RUNNING", "NONE"}
    <3>1. \A e \in Executors : exec[e].step # s
      BY <1>1, StepsAssumption DEF Quiet, OpenTransaction, Busy
    <3> QED
      BY <1>1, <2>1, <3>1 DEF NothingForgotten, RunAgrees, Quiet
  <2>3. \A s \in Steps : s \in P \/ step[s] = "COMPLETED"
    BY <1>1, <2>2 DEF WorkflowInv, SerialInv, TypeOK, StepStatuses
  <2>4. P # {}
    BY <1>1, <2>1, <2>3 DEF RunAgrees
  <2>5. PICK t \in P : Deps[t] \cap P = {}
    BY <2>4, SomeStepIsFirst
  <2>6. t \in NowReady(step)
    BY <2>3, <2>5, DepsAssumption DEF NowReady
  <2> QED
    BY <2>1, <2>6
<1>2. WorkflowInv => NoStrandedRun
  BY <1>1 DEF NoStrandedRun
<1>3. WorkflowInv => CompletedRunIsDone
  <2> SUFFICES ASSUME WorkflowInv, ~overlapped, run = "COMPLETED",
                      NEW s \in Steps
               PROVE  step[s] = "COMPLETED" /\ jobs[s] = 0
    BY DEF CompletedRunIsDone
  <2>1. step[s] = "COMPLETED"
    BY DEF WorkflowInv, ProgressInv, RunAgrees
  <2> QED
    BY <2>1 DEF WorkflowInv, SerialInv, TypeOK
<1> QED
  BY <1>2, <1>3, WorkflowInvariant, PTL

=============================================================================
