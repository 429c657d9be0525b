--------------------------- MODULE JobQueueProofs ---------------------------
(***************************************************************************)
(* TLAPS proofs about JobQueue, for any set of jobs, workers and slots.    *)
(* QueueInv is inductive; the type invariant and the safety invariants     *)
(* follow from it.  One lemma per group of actions shows that it is kept.  *)
(***************************************************************************)
EXTENDS JobQueue, TLAPS

\* The row a failed attempt leaves is a row of the table without an owner.
LEMMA FailedRow ==
  ASSUME NEW j \in Jobs, NEW a \in Nat
  PROVE  /\ Failed(j, a) \in Row
         /\ Failed(j, a).status
              = IF a + 1 < MaxAttempts[j] THEN "RETRY" ELSE "FAILED"
         /\ Failed(j, a).attempts = a + 1
         /\ Failed(j, a).lockedBy = NoWorker
  BY ParamsAssumption DEF Failed, Row, Statuses

\* The states a loop and a slot return to are well formed and hold no job.
LEMMA Resets ==
  /\ Polling \in Loop /\ Polling.pc = "poll" /\ Polling.job = NoJob
  /\ Down \in Loop /\ Down.pc = "down" /\ Down.job = NoJob
  /\ Idle \in Slot /\ Idle.pc = "idle" /\ Idle.job = NoJob
  BY DEF Polling, Down, Idle, NoStale, Loop, Slot

\* What QueueInv says of the job a loop or a slot holds.
LEMMA Holding ==
  ASSUME QueueInv
  PROVE  /\ \A w \in Workers : loop[w].pc \in {"locked", "reread"}
                                 => loop[w].job \in Jobs
         /\ \A s \in Slots : slot[s].pc # "idle" => slot[s].job \in Jobs
         /\ \A s \in Slots : slot[s].attempts \in Nat
  BY DEF QueueInv, LocksOk, TypeOK, Slot

LEMMA ClaimSelectStep ==
  ASSUME QueueInv, NEW w \in Workers, ClaimSelect(w)
  PROVE  QueueInv'
<1>1. PICK j \in Jobs : /\ Claimable(w, j)
                        /\ loop' = [loop EXCEPT ![w].pc = "locked",
                                                ![w].job = j]
  BY DEF ClaimSelect
<1>2. /\ loop[w].pc = "poll"
      /\ UNCHANGED <<job, slot, faults, claims, misfired>>
  BY DEF ClaimSelect, history
<1>3. TypeOK'
  <2>1. loop' \in [Workers -> Loop]
    BY <1>1, ZenonT(40) DEF QueueInv, TypeOK, Loop
  <2> QED
    BY <1>2, <2>1 DEF QueueInv, TypeOK
<1>4. /\ loop'[w].pc = "locked" /\ loop'[w].job = j
      /\ \A v \in Workers : v # w => loop'[v] = loop[v]
  BY <1>1 DEF QueueInv, TypeOK, Loop
<1>5. LocksOk'
  <2>1. /\ job[j].status \in {"READY", "RETRY"}
        /\ \A v \in Workers : ~(loop[v].pc = "locked" /\ loop[v].job = j)
    BY <1>1 DEF Claimable, RowLocked
  <2> QED
    BY <1>2, <1>4, <2>1 DEF QueueInv, LocksOk
<1>6. \A k \in Jobs : ~misfired'[k] => RowOk(k)' /\ OwnerOk(k)'
  BY <1>2, <1>4 DEF QueueInv, RowOk, OwnerOk
<1> QED
  BY <1>2, <1>3, <1>5, <1>6 DEF QueueInv, LockDiscipline

LEMMA ClaimCommitStep ==
  ASSUME QueueInv, NEW w \in Workers, ClaimCommit(w)
  PROVE  QueueInv'
<1> DEFINE j == loop[w].job
<1>1. /\ j \in Jobs
      /\ job[j].status \in {"READY", "RETRY"}
      /\ UNCHANGED <<slot, faults, misfired>>
  BY DEF ClaimCommit, QueueInv, LocksOk
<1>2. /\ job' \in [Jobs -> Row]
      /\ job'[j].status = "RUNNING" /\ job'[j].lockedBy = w
      /\ job'[j].attempts = job[j].attempts
      /\ \A k \in Jobs : k # j => job'[k] = job[k]
  <2> DEFINE r == [job[j] EXCEPT !.status = "RUNNING",
                                 !.lockedBy = w, !.fresh = TRUE]
  <2>1. job \in [Jobs -> Row]
    BY DEF QueueInv, TypeOK
  <2>2. job[j] \in Row
    BY <1>1, <2>1
  <2>3. r \in Row /\ r.status = "RUNNING" /\ r.lockedBy = w
        /\ r.attempts = job[j].attempts
    BY <2>2 DEF Row, Statuses
  <2>4. job' = [job EXCEPT ![j] = r]
    BY DEF ClaimCommit
  <2> HIDE DEF r
  <2> QED
    BY <1>1, <2>1, <2>3, <2>4
<1>3. /\ loop' \in [Workers -> Loop]
      /\ loop'[w].pc = "reread" /\ loop'[w].job = j
      /\ \A v \in Workers : v # w => loop'[v] = loop[v]
  BY DEF ClaimCommit, QueueInv, TypeOK, Loop
<1>4. /\ claims' \in [Jobs -> Nat]
      /\ ~misfired[j] => claims'[j] = claims[j] + 1
      /\ \A k \in Jobs : k # j => claims'[k] = claims[k]
  BY <1>1 DEF ClaimCommit, QueueInv, TypeOK
<1>5. TypeOK'
  BY <1>1, <1>2, <1>3, <1>4 DEF QueueInv, TypeOK
<1>6. LocksOk'
  BY <1>1, <1>2, <1>3, SMTT(30) DEF QueueInv, LocksOk, ClaimCommit
<1>7. LockDiscipline'
  BY <1>1, <1>2, WorkersAssumption DEF QueueInv, LockDiscipline
<1>8. ASSUME NEW k \in Jobs, ~misfired'[k] PROVE RowOk(k)' /\ OwnerOk(k)'
  <2>1. RowOk(k) /\ OwnerOk(k)
    BY <1>1, <1>8 DEF QueueInv
  <2>2. CASE k = j
    <3>1. RowOk(k)'
      BY <1>1, <1>2, <1>4, <1>8, <2>1, <2>2 DEF RowOk, QueueInv, TypeOK, Row
    <3>2. /\ \A s \in Slots : slot[s].job # j
          /\ \A v \in Workers : ~(loop[v].pc = "reread" /\ loop[v].job = j)
      BY <1>1, <2>1, <2>2 DEF OwnerOk
    <3> QED
      BY <1>1, <1>2, <1>3, <2>2, <3>1, <3>2 DEF OwnerOk
  <2>3. CASE k # j
    BY <1>1, <1>2, <1>3, <1>4, <2>1, <2>3 DEF RowOk, OwnerOk
  <2> QED
    BY <2>2, <2>3
<1> QED
  BY <1>5, <1>6, <1>7, <1>8 DEF QueueInv

LEMMA ClaimRereadStep ==
  ASSUME QueueInv, NEW w \in Workers, ClaimReread(w)
  PROVE  QueueInv'
<1> DEFINE j == loop[w].job
<1>1. /\ loop[w].pc = "reread" /\ j \in Jobs
      /\ UNCHANGED <<job, faults, claims, misfired>>
  BY Holding DEF ClaimReread, history
<1>2. PICK s \in Slots : /\ slot[s].pc = "idle"
                         /\ slot' = [slot EXCEPT ![s] =
                              [pc |-> "run", job |-> j,
                               attempts |-> job[j].attempts]]
  BY DEF ClaimReread, FreeSlots
<1>3. /\ slot' \in [Slots -> Slot]
      /\ slot'[s].pc = "run" /\ slot'[s].job = j
      /\ slot'[s].attempts = job[j].attempts
      /\ \A t \in Slots : t # s => slot'[t] = slot[t]
  BY <1>1, <1>2 DEF QueueInv, TypeOK, Slot, Row
<1>4. /\ loop' \in [Workers -> Loop]
      /\ loop'[w].pc = "poll" /\ loop'[w].job = NoJob
      /\ \A v \in Workers : v # w => loop'[v] = loop[v]
  BY Resets DEF ClaimReread, QueueInv, TypeOK
<1>5. TypeOK'
  BY <1>1, <1>3, <1>4 DEF QueueInv, TypeOK
<1>6. LocksOk'
  BY <1>1, <1>3, <1>4, JobsAssumption DEF QueueInv, LocksOk
<1>7. ASSUME NEW k \in Jobs, ~misfired'[k] PROVE RowOk(k)' /\ OwnerOk(k)'
  <2>1. RowOk(k) /\ OwnerOk(k)
    BY <1>1, <1>7 DEF QueueInv
  <2>2. CASE k = j
    <3>1. /\ job[j].status = "RUNNING"
          /\ \A t \in Slots : slot[t].job # j
          /\ \A v \in Workers :
               loop[v].pc = "reread" /\ loop[v].job = j => v = w
      BY <1>1, <2>1, <2>2 DEF OwnerOk
    <3> QED
      BY <1>1, <1>3, <1>4, <2>1, <2>2, <3>1 DEF RowOk, OwnerOk
  <2>3. CASE k # j
    BY <1>1, <1>3, <1>4, <2>1, <2>3, JobsAssumption DEF RowOk, OwnerOk
  <2> QED
    BY <2>2, <2>3
<1> QED
  BY <1>1, <1>5, <1>6, <1>7 DEF QueueInv, LockDiscipline

LEMMA RecoverSelectStep ==
  ASSUME QueueInv, NEW w \in Workers, RecoverSelect(w)
  PROVE  QueueInv'
<1>1. /\ loop[w].pc = "poll"
      /\ UNCHANGED <<job, slot, faults, claims, misfired>>
  BY DEF RecoverSelect, history
<1> DEFINE seen == [j \in Jobs |-> IF Stale(j) THEN job[j].attempts ELSE -1]
<1>2. seen \in [Jobs -> Nat \cup {-1}]
  BY DEF QueueInv, TypeOK, Row
<1>3. loop' = [loop EXCEPT ![w].pc = "recover", ![w].stale = seen]
  BY DEF RecoverSelect
<1> HIDE DEF seen
<1>4. /\ loop' \in [Workers -> Loop]
      /\ loop'[w].pc = "recover" /\ loop'[w].job = loop[w].job
      /\ \A v \in Workers : v # w => loop'[v] = loop[v]
  BY <1>2, <1>3, ZenonT(40) DEF QueueInv, TypeOK, Loop
<1>5. TypeOK'
  BY <1>1, <1>4 DEF QueueInv, TypeOK
<1>6. LocksOk'
  BY <1>1, <1>4 DEF QueueInv, LocksOk
<1>7. \A k \in Jobs : ~misfired'[k] => RowOk(k)' /\ OwnerOk(k)'
  BY <1>1, <1>4 DEF QueueInv, RowOk, OwnerOk
<1> QED
  BY <1>1, <1>5, <1>6, <1>7 DEF QueueInv, LockDiscipline

\* Without a misfire, a recovery finds the abandoned row or the row that
\* another recovery of the same attempt has left.
LEMMA NoMisfire ==
  ASSUME NEW j \in Jobs, NEW a \in Nat, ~Misfire(j, a)
  PROVE  /\ ~InProgress(j)
         /\ \/ job[j].status = "RUNNING" /\ job[j].attempts = a
            \/ /\ job[j].status = Failed(j, a).status
               /\ job[j].attempts = a + 1
  BY DEF Misfire

LEMMA RecoverApplyStep ==
  ASSUME QueueInv, NEW w \in Workers, RecoverApply(w)
  PROVE  QueueInv'
<1> DEFINE seen == loop[w].stale
<1>1. /\ loop[w].pc = "recover"
      /\ \A j \in Jobs : seen[j] # -1 => ~RowLocked(j)
      /\ job' = [j \in Jobs |-> IF seen[j] # -1 THEN Failed(j, seen[j])
                                               ELSE job[j]]
      /\ misfired' = [j \in Jobs |->
                        misfired[j] \/ (seen[j] # -1 /\ Misfire(j, seen[j]))]
      /\ loop' = [loop EXCEPT ![w] = Polling]
      /\ UNCHANGED <<slot, faults, claims>>
  BY DEF RecoverApply
<1>2. seen \in [Jobs -> Nat \cup {-1}]
  BY DEF QueueInv, TypeOK, Loop
<1> HIDE DEF seen
<1>3. ASSUME NEW j \in Jobs, seen[j] # -1
      PROVE  /\ seen[j] \in Nat
             /\ job'[j] = Failed(j, seen[j])
             /\ job'[j] \in Row
             /\ job'[j].status \in {"RETRY", "FAILED"}
             /\ job'[j].lockedBy = NoWorker
  BY <1>1, <1>2, <1>3, FailedRow
<1>4. ASSUME NEW j \in Jobs, seen[j] = -1 PROVE job'[j] = job[j]
  BY <1>1, <1>4
<1>5. /\ loop' \in [Workers -> Loop]
      /\ loop'[w].pc = "poll" /\ loop'[w].job = NoJob
      /\ \A v \in Workers : v # w => loop'[v] = loop[v]
  BY <1>1, Resets DEF QueueInv, TypeOK
<1>6. TypeOK'
  <2>1. \A j \in Jobs : job'[j] \in Row
    BY <1>3, <1>4 DEF QueueInv, TypeOK
  <2>2. job' \in [Jobs -> Row]
    BY <1>1, <2>1
  <2>3. misfired' \in [Jobs -> BOOLEAN]
    <3>1. \A j \in Jobs : misfired[j] \in BOOLEAN
      BY DEF QueueInv, TypeOK
    <3> QED
      BY <1>1, <3>1
  <2> QED
    BY <1>1, <1>5, <2>2, <2>3 DEF QueueInv, TypeOK
<1>7. LocksOk'
  <2>1. ASSUME NEW v \in Workers, loop[v].pc = "locked"
        PROVE  job'[loop[v].job] = job[loop[v].job]
    <3>1. loop[v].job \in Jobs
      BY <2>1, Holding
    <3> QED
      BY <1>1, <1>4, <2>1, <3>1 DEF RowLocked
  <2> QED
    BY <1>1, <1>5, <2>1, JobsAssumption DEF QueueInv, LocksOk
<1>8. LockDiscipline'
  <2>1. ASSUME NEW j \in Jobs
        PROVE  (job'[j].status = "RUNNING") <=> (job'[j].lockedBy # NoWorker)
    BY <1>3, <1>4 DEF QueueInv, LockDiscipline
  <2> QED
    BY <2>1 DEF LockDiscipline
<1>9. ASSUME NEW k \in Jobs, ~misfired'[k] PROVE RowOk(k)' /\ OwnerOk(k)'
  <2>1. ~misfired[k] /\ (seen[k] # -1 => ~Misfire(k, seen[k]))
    BY <1>1, <1>9
  <2>2. RowOk(k) /\ OwnerOk(k)
    BY <2>1 DEF QueueInv
  <2>3. CASE seen[k] = -1
    BY <1>1, <1>4, <1>5, <2>2, <2>3, JobsAssumption DEF RowOk, OwnerOk
  <2>4. CASE seen[k] # -1
    <3>1. seen[k] \in Nat
      BY <1>3, <2>4
    <3>2. /\ ~InProgress(k)
          /\ \/ job[k].status = "RUNNING" /\ job[k].attempts = seen[k]
             \/ /\ job[k].status = Failed(k, seen[k]).status
                /\ job[k].attempts = seen[k] + 1
      BY <2>1, <2>4, <3>1, NoMisfire
    <3>3. RowOk(k)'
      <4>1. /\ job'[k].attempts = seen[k] + 1
            /\ job'[k].status = IF seen[k] + 1 < MaxAttempts[k]
                                THEN "RETRY" ELSE "FAILED"
            /\ Failed(k, seen[k]).status = job'[k].status
        BY <1>3, <2>4, <3>1, FailedRow
      <4>2. MaxAttempts[k] \in Nat /\ claims'[k] = claims[k]
        BY <1>1, ParamsAssumption
      <4> QED
        BY <2>2, <3>1, <3>2, <4>1, <4>2 DEF RowOk
    <3>4. /\ \A s \in Slots : slot[s].job # k
          /\ \A v \in Workers : ~(loop[v].pc = "reread" /\ loop[v].job = k)
      BY <3>2 DEF InProgress
    <3>5. OwnerOk(k)'
      BY <1>1, <1>5, <3>4, JobsAssumption DEF OwnerOk
    <3> QED
      BY <3>3, <3>5
  <2> QED
    BY <2>3, <2>4
<1> QED
  BY <1>6, <1>7, <1>8, <1>9 DEF QueueInv

\* A loop that gives up, stops or starts holds nothing afterwards.
LEMMA LoopResetStep ==
  ASSUME QueueInv, NEW w \in Workers, RecoverAbort(w) \/ Restart(w)
  PROVE  QueueInv'
<1>1. /\ loop[w].pc \in {"recover", "down"}
      /\ loop' = [loop EXCEPT ![w] = Polling]
      /\ faults' \in Nat
      /\ UNCHANGED <<job, slot, claims, misfired>>
  BY DEF RecoverAbort, Restart, history, QueueInv, TypeOK
<1>2. /\ loop' \in [Workers -> Loop]
      /\ loop'[w].pc = "poll" /\ loop'[w].job = NoJob
      /\ \A v \in Workers : v # w => loop'[v] = loop[v]
  BY <1>1, Resets DEF QueueInv, TypeOK
<1>3. TypeOK'
  BY <1>1, <1>2 DEF QueueInv, TypeOK
<1>4. LocksOk'
  BY <1>1, <1>2, JobsAssumption DEF QueueInv, LocksOk
<1>5. \A k \in Jobs : ~misfired'[k] => RowOk(k)' /\ OwnerOk(k)'
  BY <1>1, <1>2, JobsAssumption DEF QueueInv, RowOk, OwnerOk
<1> QED
  BY <1>1, <1>3, <1>4, <1>5 DEF QueueInv, LockDiscipline

LEMMA CrashStep ==
  ASSUME QueueInv, NEW w \in Workers, Crash(w)
  PROVE  QueueInv'
<1>1. /\ loop' = [loop EXCEPT ![w] = Down]
      /\ slot' = [s \in Slots |-> IF WorkerOf[s] = w THEN Idle ELSE slot[s]]
      /\ faults' \in Nat
      /\ UNCHANGED <<job, claims, misfired>>
  BY DEF Crash, history, QueueInv, TypeOK
<1>2. /\ loop' \in [Workers -> Loop]
      /\ loop'[w].pc = "down" /\ loop'[w].job = NoJob
      /\ \A v \in Workers : v # w => loop'[v] = loop[v]
  BY <1>1, Resets DEF QueueInv, TypeOK
<1>3. /\ slot' \in [Slots -> Slot]
      /\ \A s \in Slots : \/ slot'[s].pc = "idle" /\ slot'[s].job = NoJob
                          \/ slot'[s] = slot[s]
  BY <1>1, Resets DEF QueueInv, TypeOK
<1>4. TypeOK'
  BY <1>1, <1>2, <1>3 DEF QueueInv, TypeOK
<1>5. LocksOk'
  BY <1>1, <1>2, <1>3, JobsAssumption DEF QueueInv, LocksOk
<1>6. \A k \in Jobs : ~misfired'[k] => RowOk(k)' /\ OwnerOk(k)'
  BY <1>1, <1>2, <1>3, JobsAssumption DEF QueueInv, RowOk, OwnerOk
<1> QED
  BY <1>1, <1>4, <1>5, <1>6 DEF QueueInv, LockDiscipline

\* A heartbeat or the clock changes nothing the invariant reads; a created
\* job becomes READY with its attempts unspent.
LEMMA RowTouchStep ==
  ASSUME QueueInv, NEW j \in Jobs,
         CreateJob(j) \/ Due(j) \/ Age(j)
           \/ \E s \in Slots : slot[s].job = j /\ Heartbeat(s)
  PROVE  QueueInv'
<1>1. UNCHANGED <<loop, slot, faults, claims, misfired>>
  BY DEF CreateJob, Due, Age, Heartbeat, history
<1>2. /\ job' \in [Jobs -> Row]
      /\ \A k \in Jobs :
           /\ job'[k].attempts = job[k].attempts
           /\ job'[k].lockedBy = job[k].lockedBy
           /\ \/ job'[k].status = job[k].status
              \/ job[k].status = "ABSENT" /\ job'[k].status = "READY"
  <2> USE DEF QueueInv, TypeOK, Row, Statuses
  <2>1. CASE CreateJob(j)
    <3>1. /\ job[j].status = "ABSENT"
          /\ job' = [job EXCEPT ![j].status = "READY"]
      BY <2>1 DEF CreateJob
    <3> QED
      BY <3>1
  <2>2. CASE Due(j)
    BY <2>2, ZenonT(40) DEF Due
  <2>3. CASE Age(j)
    BY <2>3 DEF Age
  <2>4. CASE \E s \in Slots : slot[s].job = j /\ Heartbeat(s)
    <3>1. job' = [job EXCEPT ![j].fresh = TRUE]
      BY <2>4 DEF Heartbeat
    <3> QED
      BY <3>1, ZenonT(40)
  <2> QED
    BY <2>1, <2>2, <2>3, <2>4
<1>3. TypeOK'
  BY <1>1, <1>2 DEF QueueInv, TypeOK
<1>4. LocksOk'
  BY <1>1, <1>2 DEF QueueInv, LocksOk
<1>5. LockDiscipline'
  BY <1>2 DEF QueueInv, LockDiscipline
<1>6. \A k \in Jobs : ~misfired'[k] => RowOk(k)' /\ OwnerOk(k)'
  BY <1>1, <1>2 DEF QueueInv, RowOk, OwnerOk
<1> QED
  BY <1>3, <1>4, <1>5, <1>6 DEF QueueInv

\* An executor ends without touching the row.
LEMMA SlotEndStep ==
  ASSUME QueueInv, NEW s \in Slots, StepDone(s) \/ MarkFailedRaises(s)
  PROVE  QueueInv'
<1>1. /\ slot' = [slot EXCEPT ![s] = Idle]
      /\ faults' \in Nat
      /\ UNCHANGED <<job, loop, claims, misfired>>
  BY DEF StepDone, MarkFailedRaises, history, QueueInv, TypeOK
<1>2. /\ slot' \in [Slots -> Slot]
      /\ slot'[s].pc = "idle" /\ slot'[s].job = NoJob
      /\ \A t \in Slots : t # s => slot'[t] = slot[t]
  BY <1>1, Resets DEF QueueInv, TypeOK
<1>3. TypeOK'
  BY <1>1, <1>2 DEF QueueInv, TypeOK
<1>4. LocksOk'
  BY <1>1, <1>2, JobsAssumption DEF QueueInv, LocksOk
<1>5. \A k \in Jobs : ~misfired'[k] => RowOk(k)' /\ OwnerOk(k)'
  BY <1>1, <1>2, JobsAssumption DEF QueueInv, RowOk, OwnerOk
<1> QED
  BY <1>1, <1>3, <1>4, <1>5 DEF QueueInv, LockDiscipline

\* An UPDATE of the row of j by its executor leaves all locked rows alone.
LEMMA UnlockedUpdate ==
  ASSUME QueueInv, NEW j \in Jobs, ~RowLocked(j), UNCHANGED loop,
         \A k \in Jobs : k # j => job'[k] = job[k],
         \A s \in Slots : slot'[s].pc # "idle" <=> slot'[s].job \in Jobs
  PROVE  LocksOk'
<1>1. ASSUME NEW v \in Workers, loop[v].pc = "locked"
      PROVE  job'[loop[v].job] = job[loop[v].job]
  BY <1>1, Holding DEF RowLocked
<1> QED
  BY <1>1 DEF QueueInv, LocksOk

LEMMA MarkCompletedStep ==
  ASSUME QueueInv, NEW s \in Slots, MarkCompleted(s)
  PROVE  QueueInv'
<1> DEFINE j == slot[s].job
<1>1. /\ slot[s].pc = "run" /\ j \in Jobs /\ ~RowLocked(j)
      /\ UNCHANGED <<loop, faults, claims, misfired>>
  BY Holding DEF MarkCompleted, history
<1>2. /\ job' \in [Jobs -> Row]
      /\ job'[j].status = "COMPLETED" /\ job'[j].lockedBy = NoWorker
      /\ job'[j].attempts = job[j].attempts
      /\ \A k \in Jobs : k # j => job'[k] = job[k]
  <2> DEFINE r == [job[j] EXCEPT !.status = "COMPLETED",
                                 !.lockedBy = NoWorker, !.fresh = FALSE]
  <2>1. job \in [Jobs -> Row]
    BY DEF QueueInv, TypeOK
  <2>2. job[j] \in Row
    BY <1>1, <2>1
  <2>3. r \in Row /\ r.status = "COMPLETED" /\ r.lockedBy = NoWorker
        /\ r.attempts = job[j].attempts
    BY <2>2 DEF Row, Statuses
  <2>4. job' = [job EXCEPT ![j] = r]
    BY DEF MarkCompleted
  <2> HIDE DEF r
  <2> QED
    BY <1>1, <2>1, <2>3, <2>4
<1>3. /\ slot' \in [Slots -> Slot]
      /\ \A t \in Slots : t # s => slot'[t] = slot[t]
      /\ \/ slot'[s].pc = "idle" /\ slot'[s].job = NoJob
         \/ /\ slot'[s].pc = "step" /\ slot'[s].job = j
            /\ slot'[s].attempts = slot[s].attempts
  <2>1. CASE j \in WorkflowJobs
    BY <1>1, <2>1 DEF MarkCompleted, QueueInv, TypeOK, Slot
  <2>2. CASE j \notin WorkflowJobs
    BY <1>1, <2>2, Resets DEF MarkCompleted, QueueInv, TypeOK
  <2> QED
    BY <2>1, <2>2
<1>4. TypeOK'
  BY <1>1, <1>2, <1>3 DEF QueueInv, TypeOK
<1>5. LocksOk'
  <2>1. \A t \in Slots : slot'[t].pc # "idle" <=> slot'[t].job \in Jobs
    BY <1>1, <1>3, JobsAssumption DEF QueueInv, LocksOk
  <2> QED
    BY <1>1, <1>2, <2>1, UnlockedUpdate
<1>6. LockDiscipline'
  BY <1>2 DEF QueueInv, LockDiscipline
<1>7. ASSUME NEW k \in Jobs, ~misfired'[k] PROVE RowOk(k)' /\ OwnerOk(k)'
  <2>1. RowOk(k) /\ OwnerOk(k)
    BY <1>1, <1>7 DEF QueueInv
  <2>2. CASE k = j
    <3>1. /\ job[j].status = "RUNNING" /\ slot[s].attempts = job[j].attempts
          /\ \A t \in Slots : slot[t].job = j => t = s
          /\ \A w \in Workers : ~(loop[w].pc = "reread" /\ loop[w].job = j)
      BY <1>1, <2>1, <2>2 DEF OwnerOk
    <3> QED
      BY <1>1, <1>2, <1>3, <2>1, <2>2, <3>1, JobsAssumption
         DEF RowOk, OwnerOk
  <2>3. CASE k # j
    BY <1>1, <1>2, <1>3, <2>1, <2>3, JobsAssumption DEF RowOk, OwnerOk
  <2> QED
    BY <2>2, <2>3
<1> QED
  BY <1>4, <1>5, <1>6, <1>7 DEF QueueInv

LEMMA MarkFailedStep ==
  ASSUME QueueInv, NEW s \in Slots, MarkFailed(s)
  PROVE  QueueInv'
<1> DEFINE j == slot[s].job
           a == slot[s].attempts
<1>1. /\ slot[s].pc \in {"run", "step"} /\ j \in Jobs /\ a \in Nat
      /\ ~RowLocked(j)
      /\ UNCHANGED <<loop, faults, claims, misfired>>
  BY Holding DEF MarkFailed, history
<1>2. /\ job' \in [Jobs -> Row]
      /\ job'[j] = Failed(j, a)
      /\ \A k \in Jobs : k # j => job'[k] = job[k]
  BY <1>1, FailedRow DEF MarkFailed, QueueInv, TypeOK
<1>3. /\ job'[j].status = IF a + 1 < MaxAttempts[j] THEN "RETRY" ELSE "FAILED"
      /\ job'[j].attempts = a + 1
      /\ job'[j].lockedBy = NoWorker
  BY <1>1, <1>2, FailedRow
<1>4. /\ slot' \in [Slots -> Slot]
      /\ slot'[s].pc = "idle" /\ slot'[s].job = NoJob
      /\ \A t \in Slots : t # s => slot'[t] = slot[t]
  BY Resets DEF MarkFailed, QueueInv, TypeOK
<1>5. TypeOK'
  BY <1>1, <1>2, <1>4 DEF QueueInv, TypeOK
<1>6. LocksOk'
  <2>1. \A t \in Slots : slot'[t].pc # "idle" <=> slot'[t].job \in Jobs
    BY <1>4, JobsAssumption DEF QueueInv, LocksOk
  <2> QED
    BY <1>1, <1>2, <2>1, UnlockedUpdate
<1>7. LockDiscipline'
  BY <1>2, <1>3 DEF QueueInv, LockDiscipline
<1>8. ASSUME NEW k \in Jobs, ~misfired'[k] PROVE RowOk(k)' /\ OwnerOk(k)'
  <2>1. RowOk(k) /\ OwnerOk(k)
    BY <1>1, <1>8 DEF QueueInv
  <2>2. CASE k = j
    <3>1. /\ job[j].status \in {"RUNNING", "COMPLETED"}
          /\ a = job[j].attempts
          /\ \A t \in Slots : slot[t].job = j => t = s
          /\ \A w \in Workers : ~(loop[w].pc = "reread" /\ loop[w].job = j)
      BY <1>1, <2>1, <2>2 DEF OwnerOk
    <3>2. RowOk(k)'
      <4>1. MaxAttempts[j] \in Nat /\ claims[j] \in Nat
        BY <1>1, ParamsAssumption DEF QueueInv, TypeOK
      <4> QED
        BY <1>1, <1>3, <2>1, <2>2, <3>1, <4>1 DEF RowOk
    <3> QED
      BY <1>1, <1>4, <2>2, <3>1, <3>2, JobsAssumption DEF OwnerOk
  <2>3. CASE k # j
    BY <1>1, <1>2, <1>4, <2>1, <2>3, JobsAssumption DEF RowOk, OwnerOk
  <2> QED
    BY <2>2, <2>3
<1> QED
  BY <1>5, <1>6, <1>7, <1>8 DEF QueueInv

-----------------------------------------------------------------------------

LEMMA QueueInvInit == Init => QueueInv
<1> SUFFICES ASSUME Init PROVE QueueInv
  OBVIOUS
<1> USE Resets, JobsAssumption, ParamsAssumption
<1>1. TypeOK
  BY DEF Init, TypeOK, Row, Statuses
<1>2. LocksOk
  BY DEF Init, LocksOk
<1>3. LockDiscipline
  BY DEF Init, LockDiscipline
<1>4. \A j \in Jobs : RowOk(j) /\ OwnerOk(j)
  BY DEF Init, RowOk, OwnerOk
<1> QED
  BY <1>1, <1>2, <1>3, <1>4 DEF QueueInv

LEMMA QueueInvStep == QueueInv /\ [Next]_vars => QueueInv'
<1> SUFFICES ASSUME QueueInv, [Next]_vars PROVE QueueInv'
  OBVIOUS
<1>1. ASSUME NEW w \in Workers, LoopStep(w) PROVE QueueInv'
  BY <1>1, ClaimSelectStep, ClaimCommitStep, ClaimRereadStep,
     RecoverSelectStep, RecoverApplyStep, LoopResetStep, CrashStep
     DEF LoopStep
<1>2. ASSUME NEW s \in Slots, SlotStep(s) PROVE QueueInv'
  <2>1. CASE Heartbeat(s)
    <3>1. slot[s].job \in Jobs
      BY <2>1, Holding DEF Heartbeat
    <3> QED
      BY <2>1, <3>1, RowTouchStep
  <2> QED
    BY <1>2, <2>1, MarkCompletedStep, SlotEndStep, MarkFailedStep
       DEF SlotStep
<1>3. ASSUME NEW j \in Jobs, CreateJob(j) \/ Due(j) \/ Age(j) PROVE QueueInv'
  BY <1>3, RowTouchStep
<1>4. CASE UNCHANGED vars
  BY <1>4 DEF vars, QueueInv, TypeOK, LocksOk, LockDiscipline, RowOk, OwnerOk
<1> QED
  BY <1>1, <1>2, <1>3, <1>4 DEF Next

\* QueueInv holds in every reachable state: the strengthening that makes the
\* guarantees of the queue inductive.
THEOREM QueueInvariant == Spec => []QueueInv
  BY QueueInvInit, QueueInvStep, PTL DEF Spec

\* The rows of system_jobs, the loops and the slots stay well formed.
THEOREM TypeCorrect == Spec => []TypeOK
  BY QueueInvariant, PTL DEF QueueInv

\* A row has an owner exactly while it is RUNNING, in every interleaving of
\* claims, recoveries and late outcomes.
THEOREM OwnedWhileRunning == Spec => []LockDiscipline
<1>1. QueueInv => LockDiscipline
  BY DEF QueueInv
<1> QED
  BY <1>1, QueueInvariant, PTL

\* Unless a recovery has hit a live executor, no job has two executors, and
\* attempts count claims exactly: no job runs more than max_attempts times, and
\* none fails before.
THEOREM ExecutedInTurn == Spec => [](SingleExecutor /\ AttemptsExact)
<1>1. QueueInv => SingleExecutor
  BY DEF QueueInv, OwnerOk, SingleExecutor, Executors
<1>2. ASSUME QueueInv, NEW j \in Jobs, ~misfired[j]
      PROVE  /\ claims[j] = job[j].attempts
                  + (IF job[j].status \in {"RUNNING", "COMPLETED"}
                     THEN 1 ELSE 0)
             /\ claims[j] <= MaxAttempts[j]
             /\ job[j].status = "FAILED" => job[j].attempts = MaxAttempts[j]
  <2>1. RowOk(j) /\ job[j].attempts \in Nat /\ MaxAttempts[j] \in Nat
    BY <1>2, ParamsAssumption DEF QueueInv, TypeOK, Row
  <2> QED
    BY <2>1 DEF RowOk
<1>3. QueueInv => AttemptsExact
  BY <1>2 DEF AttemptsExact
<1> QED
  BY <1>1, <1>3, QueueInvariant, PTL

\* A step takes a job out of FAILED or COMPLETED only where TerminalKept says.
LEMMA TerminalStep == QueueInv /\ Next => \A j \in Jobs : TerminalKept(j)
<1> SUFFICES ASSUME QueueInv, Next, NEW j \in Jobs, ~misfired'[j],
                    job[j].status \in {"FAILED", "COMPLETED"},
                    job'[j].status # job[j].status
             PROVE  \E s \in Slots : /\ job[j].status = "COMPLETED"
                                     /\ slot[s].pc = "step" /\ slot[s].job = j
  BY DEF TerminalKept
<1>1. job \in [Jobs -> Row]
  BY DEF QueueInv, TypeOK
<1>2. ASSUME NEW w \in Workers, LoopStep(w) PROVE FALSE
  <2>1. CASE ClaimCommit(w)
    <3>1. loop[w].job # j
      BY <2>1 DEF ClaimCommit, QueueInv, LocksOk
    <3> QED
      BY <1>1, <2>1, <3>1, Holding DEF ClaimCommit
  <2>2. CASE RecoverApply(w)
    <3> DEFINE seen == loop[w].stale
    <3>1. seen \in [Jobs -> Nat \cup {-1}]
      BY DEF QueueInv, TypeOK, Loop
    <3> HIDE DEF seen
    <3>2. /\ job'[j] = IF seen[j] # -1 THEN Failed(j, seen[j]) ELSE job[j]
          /\ seen[j] # -1 => ~Misfire(j, seen[j])
      BY <2>2 DEF RecoverApply, seen
    <3>3. seen[j] # -1 => /\ seen[j] \in Nat
                          /\ \/ job[j].status = "RUNNING"
                             \/ job[j].status = Failed(j, seen[j]).status
      BY <3>1, <3>2, NoMisfire
    <3> QED
      BY <3>2, <3>3
  <2> QED
    BY <1>2, <2>1, <2>2
       DEF LoopStep, ClaimSelect, ClaimReread, RecoverSelect, RecoverAbort,
           Crash, Restart
<1>3. ASSUME NEW s \in Slots, SlotStep(s)
      PROVE  job[j].status = "COMPLETED" /\ slot[s].pc = "step"
               /\ slot[s].job = j
  <2>1. CASE Heartbeat(s)
    <3>1. job' = [job EXCEPT ![slot[s].job].fresh = TRUE]
      BY <2>1 DEF Heartbeat
    <3> QED
      BY <1>1, <3>1 DEF Row
  <2>2. CASE MarkCompleted(s) \/ MarkFailed(s)
    <3>1. slot[s].job = j /\ slot[s].pc \in {"run", "step"}
      BY <1>1, <2>2 DEF MarkCompleted, MarkFailed
    <3>2. ~misfired[j]
      BY <2>2 DEF MarkCompleted, MarkFailed, history
    <3>3. job[j].status = IF slot[s].pc = "run" THEN "RUNNING" ELSE "COMPLETED"
      BY <3>1, <3>2 DEF QueueInv, OwnerOk
    <3> QED
      BY <3>1, <3>3
  <2> QED
    BY <1>3, <2>1, <2>2 DEF SlotStep, StepDone, MarkFailedRaises
<1>4. ASSUME NEW k \in Jobs, CreateJob(k) \/ Due(k) \/ Age(k) PROVE FALSE
  <2>1. CASE CreateJob(k)
    BY <1>1, <2>1 DEF CreateJob
  <2>2. CASE Due(k) \/ Age(k)
    BY <1>1, <2>2 DEF Due, Age, Row
  <2> QED
    BY <1>4, <2>1, <2>2
<1> QED
  BY <1>2, <1>3, <1>4 DEF Next

\* FAILED and COMPLETED are final, but for a recovery that hits a live
\* executor and for the executor that cannot advance the workflow.
THEOREM TerminalStability == Spec => TerminalStable
<1>1. QueueInv /\ [Next]_vars => [\A j \in Jobs : TerminalKept(j)]_vars
  BY TerminalStep
<1> QED
  BY <1>1, QueueInvariant, PTL DEF Spec, TerminalStable

=============================================================================
