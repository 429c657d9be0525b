-------------------------- MODULE DinsarRunProofs --------------------------
(***************************************************************************)
(* Proofs about DinsarRun: the inductive invariant, that a cancellation is *)
(* heeded, that a run is judged by its items, that the engine lock keeps   *)
(* the promise of EngineMutex and the runs that of ProductionRun.  The     *)
(* invariant is a conjunction over the runs, and every action is an action *)
(* of one run: each of its parts is shown for that run (XKeeps and         *)
(* XOutcome for an action X, OpenStep), and FrameStep, OthersKeep and      *)
(* OthersOpen do the other runs.                                           *)
(***************************************************************************)
EXTENDS DinsarRun, FiniteSetTheorems, TLAPS

\* WorkInv of one run.
Local(r) ==
  /\ holder = r <=> exec[r].at \in Inside /\ r \notin lost
  /\ r \in lost => exec[r].at \notin Early
  /\ exec[r].at \in Early => exec[r].k = 1
  /\ exec[r].at \in Early \cup Inside =>
       \A i \in ItemsOf(r) :
         /\ i < exec[r].k => item[r][i] \in {"COMPLETED", "FAILED"}
         /\ i > exec[r].k => item[r][i] = "PENDING"
  /\ exec[r].at \in Early \cup {"looping", "checked"} =>
       (exec[r].k \in ItemsOf(r) => item[r][exec[r].k] = "PENDING")
  /\ exec[r].at \in {"checked"} \cup Engaged => exec[r].k \in ItemsOf(r)
  /\ exec[r].at \in Engaged => item[r][exec[r].k] = "RUNNING"
  /\ \A i \in ItemsOf(r) : item[r][i] = "RUNNING" =>
       r \in crashed \/ (exec[r].at \in Engaged /\ exec[r].k = i)
  /\ task[r] = "NONE" => job[r] = "NONE"
  /\ job[r] \in {"NONE", "READY"} =>
       /\ exec[r].at = "idle" /\ r \notin lost /\ late[r] = 0
       /\ \A i \in ItemsOf(r) : item[r][i] = "PENDING"
  /\ late[r] # 0 => late[r] = 1 /\ run[r].cancel /\ exec[r].at # "checked"
  /\ exec[r].at = "reporting" => exec[r].view.status \in FinalStatuses

AllLocal == \A r \in Runs : Local(r)

LEMMA ByRun ==
  WorkInv <=> TypeOK /\ AllLocal
<1>1. ASSUME WorkInv PROVE \A r \in Runs : Local(r)
  <2> SUFFICES ASSUME NEW r \in Runs PROVE Local(r)
      OBVIOUS
  <2>1. (holder = r <=> exec[r].at \in Inside /\ r \notin lost)
        /\ (r \in lost => exec[r].at \notin Early)
    BY <1>1 DEF WorkInv, LockMatches, Connected, Early
  <2>2. (task[r] = "NONE" => job[r] = "NONE")
        /\ (late[r] # 0 => late[r] = 1 /\ run[r].cancel /\ exec[r].at # "checked")
        /\ (exec[r].at = "reporting" => exec[r].view.status \in FinalStatuses)
        /\ (job[r] \in {"NONE", "READY"} =>
             /\ exec[r].at = "idle" /\ r \notin lost /\ late[r] = 0
             /\ \A i \in ItemsOf(r) : item[r][i] = "PENDING")
        /\ \A i \in ItemsOf(r) : item[r][i] = "RUNNING" =>
             r \in crashed \/ (exec[r].at \in Engaged /\ exec[r].k = i)
    BY <1>1 DEF WorkInv, Untouched, FlagStays, JudgedFirst, NoGhostItem
  <2> QED BY <1>1, <2>1, <2>2 DEF WorkInv, InOrder, Local, Early
<1>2. ASSUME \A r \in Runs : Local(r), TypeOK PROVE WorkInv
  <2>1. LockMatches BY <1>2 DEF LockMatches, Local
  <2>2. Connected BY <1>2 DEF Connected, Local, TypeOK, Early
  <2>3. InOrder BY <1>2 DEF InOrder, Local, Early
  <2>4. NoGhostItem BY <1>2 DEF NoGhostItem, Local
  <2>5. Untouched BY <1>2 DEF Untouched, Local
  <2>6. FlagStays BY <1>2 DEF FlagStays, Local
  <2>7. JudgedFirst BY <1>2 DEF JudgedFirst, Local
  <2> QED BY <1>2, <2>1, <2>2, <2>3, <2>4, <2>5, <2>6, <2>7 DEF WorkInv
<1> QED BY <1>1, <1>2 DEF WorkInv, AllLocal

\* What a step leaves alone of the runs other than r.
Frame(r) ==
  \A q \in Runs \ {r} :
    /\ exec'[q] = exec[q] /\ item'[q] = item[q] /\ task'[q] = task[q]
    /\ job'[q] = job[q] /\ late'[q] = late[q] /\ run'[q] = run[q]
    /\ holder' = q <=> holder = q
    /\ q \in lost' <=> q \in lost
    /\ q \in crashed => q \in crashed'

LEMMA FrameStep ==
  ASSUME WorkInv, NEW r \in Runs, TypeOK', Frame(r), Local(r)'
  PROVE  WorkInv'
<1>1. ASSUME NEW q \in Runs PROVE Local(q)'
  <2>1. CASE q = r BY <2>1
  <2>2. CASE q # r
    <3>1. Local(q) BY ByRun DEF AllLocal
    <3>2. ItemsOf(q)' = ItemsOf(q) BY DEF ItemsOf
    <3> QED BY <2>2, <3>1, <3>2 DEF Local, Frame
  <2> QED BY <2>1, <2>2
<1>2. AllLocal' BY <1>1 DEF AllLocal
<1>3. TypeOK' /\ AllLocal' => WorkInv' BY ByRun, PTL
<1> QED BY <1>2, <1>3

-----------------------------------------------------------------------------
(* Rows and coroutines                                                     *)

LEMMA RowKept ==
  ASSUME NEW row \in Row, NEW seen \in Row, NEW new \in Row
  PROVE  /\ Merged(row, seen, new) \in Row
         /\ row.cancel /\ (new.cancel \/ new.cancel = seen.cancel)
              => Merged(row, seen, new).cancel
BY DEF Merged, Row

LEMMA NumberType ==
  ASSUME NEW r \in Runs, NEW s PROVE Number(r, s) \in Nat
<1>1. IsFiniteSet(ItemsOf(r)) BY RunsAssumption, FS_Interval DEF ItemsOf
<1>2. IsFiniteSet(Having(r, s)) BY <1>1, FS_Subset DEF Having
<1> QED BY <1>2, FS_CardinalityType DEF Number

LEMMA CountedRow ==
  ASSUME NEW r \in Runs, NEW row \in Row
  PROVE  /\ Counted(r, row) \in Row
         /\ Counted(r, row).cancel = row.cancel
         /\ Counted(r, row).status = row.status
<1>1. Number(r, "COMPLETED") \in Nat /\ Number(r, "FAILED") \in Nat BY NumberType
<1> HIDE DEF Number
<1> QED BY <1>1 DEF Counted, Row

LEMMA GotoStep ==
  ASSUME TypeOK, NEW r \in Runs, NEW place \in Places, Goto(r, place)
  PROVE  /\ exec' \in [Runs -> Coroutine]
         /\ exec'[r].at = place /\ exec'[r].k = exec[r].k
         /\ exec'[r].view = exec[r].view
         /\ \A q \in Runs \ {r} : exec'[q] = exec[q]
<1>1. exec \in [Runs -> Coroutine] BY DEF TypeOK
<1>2. PICK c \in Coroutine : c = exec[r] BY <1>1
<1>3. [c EXCEPT !.at = place] \in Coroutine BY DEF Coroutine
<1>4. exec' = [exec EXCEPT ![r] = [c EXCEPT !.at = place]] BY <1>2 DEF Goto
<1>5. [c EXCEPT !.at = place].at = place /\ [c EXCEPT !.at = place].k = c.k
      /\ [c EXCEPT !.at = place].view = c.view
  BY DEF Coroutine
<1> QED BY <1>1, <1>2, <1>3, <1>4, <1>5

LEMMA CommitStep ==
  ASSUME TypeOK, NEW r \in Runs, NEW place \in Places, NEW new \in Row,
         new.cancel \/ new.cancel = exec[r].view.cancel,
         Commit(r, new, place)
  PROVE  /\ exec' \in [Runs -> Coroutine] /\ run' \in [Runs -> Row]
         /\ exec'[r].at = place /\ exec'[r].k = exec[r].k
         /\ exec'[r].view = new /\ run'[r] = Merged(run[r], exec[r].view, new)
         /\ run[r].cancel => run'[r].cancel
         /\ \A q \in Runs \ {r} : exec'[q] = exec[q] /\ run'[q] = run[q]
<1>1. exec \in [Runs -> Coroutine] /\ run \in [Runs -> Row] BY DEF TypeOK
<1>2. PICK c \in Coroutine : c = exec[r] BY <1>1
<1>3. c.view \in Row BY DEF Coroutine
<1> DEFINE m == Merged(run[r], c.view, new)
           e == [c EXCEPT !.at = place, !.view = new]
<1>4. m \in Row /\ (run[r].cancel => m.cancel) BY <1>1, <1>2, <1>3, RowKept
<1>5. e \in Coroutine /\ e.at = place /\ e.k = c.k /\ e.view = new BY DEF Coroutine
<1>6. exec' = [exec EXCEPT ![r] = e] /\ run' = [run EXCEPT ![r] = m]
  BY <1>2 DEF Commit
<1>7. m = Merged(run[r], exec[r].view, new) BY <1>2
<1> HIDE DEF m, e
<1> QED BY <1>1, <1>2, <1>4, <1>5, <1>6, <1>7

LEMMA RefreshedRow ==
  ASSUME TypeOK, NEW r \in Runs
  PROVE  /\ Refreshed(r) \in Row
         /\ Refreshed(r).cancel = Cancelled(r)
         /\ Cancelled(r) \in BOOLEAN
         /\ run[r].cancel => Cancelled(r)
<1>1. PICK w \in Row : w = run[r] BY DEF TypeOK
<1>2. w.cancel \in BOOLEAN BY DEF Row
<1>3. Cancelled(r) \in BOOLEAN BY <1>1, <1>2 DEF Cancelled
<1> QED BY <1>1, <1>3 DEF Refreshed, Row, Cancelled

LEMMA RefreshStep ==
  ASSUME TypeOK, NEW r \in Runs, NEW place \in Places, Refresh(r, place)
  PROVE  /\ exec' \in [Runs -> Coroutine] /\ run' \in [Runs -> Row]
         /\ exec'[r].at = place /\ exec'[r].k = exec[r].k
         /\ exec'[r].view = Refreshed(r) /\ run'[r] = Refreshed(r)
         /\ run[r].cancel => run'[r].cancel
         /\ \A q \in Runs \ {r} : exec'[q] = exec[q] /\ run'[q] = run[q]
<1>1. exec \in [Runs -> Coroutine] /\ run \in [Runs -> Row] BY DEF TypeOK
<1>2. PICK c \in Coroutine : c = exec[r] BY <1>1
<1>3. PICK v \in Row : v = Refreshed(r) /\ (run[r].cancel => v.cancel)
  BY RefreshedRow
<1> DEFINE e == [c EXCEPT !.at = place, !.view = v]
<1>5. e \in Coroutine /\ e.at = place /\ e.k = c.k /\ e.view = v BY DEF Coroutine
<1>6. exec' = [exec EXCEPT ![r] = e] /\ run' = [run EXCEPT ![r] = v]
  BY <1>2, <1>3 DEF Refresh
<1> HIDE DEF e
<1> QED BY <1>1, <1>2, <1>3, <1>5, <1>6


-----------------------------------------------------------------------------
(* The actions of one run                                                  *)

\* A step after which the controller is neither before the lock nor inside.
LEMMA Outward ==
  ASSUME NEW r \in Runs, Local(r),
         item'[r] = item[r], late'[r] = late[r], r \in crashed => r \in crashed',
         run[r].cancel => run'[r].cancel,
         exec'[r].at \notin Early \cup Inside,
         exec'[r].at = "reporting" => exec'[r].view.status \in FinalStatuses,
         exec[r].at \notin Engaged \/ r \in crashed',
         holder' # r, task'[r] # "NONE", job'[r] \notin {"NONE", "READY"}
  PROVE  Local(r)'
<1>1. exec'[r].at \notin Engaged /\ exec'[r].at # "checked"
  BY DEF Inside, Engaged
<1>2. \A i \in ItemsOf(r) : item'[r][i] = "RUNNING" => r \in crashed'
  BY DEF Local
<1>3. late'[r] # 0 => late'[r] = 1 /\ run'[r].cancel BY DEF Local
<1> QED BY <1>1, <1>2, <1>3 DEF Local, Early, Inside, ItemsOf

\* A controller at work has a job and a task.
LEMMA AtWork ==
  ASSUME NEW r \in Runs, Local(r), exec[r].at # "idle"
  PROVE  task[r] # "NONE" /\ job[r] \notin {"NONE", "READY"}
BY DEF Local

Listing == [of: Runs \cup {NoRun}, at: {"loaded", "closing", "counted"}, seen: Row, new: Row]

LEMMA IdleType == Idle \in Coroutine /\ NoListing \in Listing
<1>1. NewRow("NONE") \in Row BY DEF NewRow, Row, Statuses
<1>2. "idle" \in Places BY DEF Places
<1> QED BY <1>1, <1>2 DEF Idle, NoListing, Coroutine, Listing

LEMMA CreateKeeps ==
  ASSUME WorkInv, NEW r \in Runs, Create(r) PROVE WorkInv'
<1> USE DEF Create, Outside, history
<1>1. TypeOK /\ Local(r) BY ByRun DEF AllLocal
<1>2. NewRow("PENDING") \in Row BY DEF NewRow, Row, Statuses
<1>3. TypeOK'
  <2>1. run' \in [Runs -> Row] BY <1>1, <1>2 DEF TypeOK
  <2>2. task' \in [Runs -> Statuses] BY <1>1 DEF TypeOK, Statuses
  <2>3. job' \in [Runs -> JobStatuses] BY <1>1 DEF TypeOK, JobStatuses
  <2> QED BY <1>1, <2>1, <2>2, <2>3 DEF TypeOK, ItemsOf
<1>4. Frame(r) BY <1>1 DEF Frame, TypeOK
<1>5. Local(r)'
  <2>1. job[r] = "NONE" BY <1>1 DEF Local
  <2>2. task'[r] = "PENDING" /\ job'[r] = "READY" BY <1>1 DEF TypeOK
  <2> QED BY <1>1, <2>1, <2>2 DEF Local, ItemsOf
<1> QED BY <1>3, <1>4, <1>5, FrameStep

LEMMA ClaimKeeps ==
  ASSUME WorkInv, NEW r \in Runs, Claim(r) PROVE WorkInv'
<1> USE DEF Claim, Outside, history
<1>1. TypeOK /\ Local(r) BY ByRun DEF AllLocal
<1> DEFINE e == [Idle EXCEPT !.at = "claimed", !.view = run[r]]
<1>2. e \in Coroutine /\ e.at = "claimed" /\ e.k = 1
  <2>1. PICK c \in Coroutine : c = Idle /\ c.k = 1
    BY IdleType DEF Idle
  <2>2. run[r] \in Row /\ "claimed" \in Places BY <1>1 DEF TypeOK, Places
  <2> QED BY <2>1, <2>2 DEF Coroutine
<1>3. exec' = [exec EXCEPT ![r] = e] OBVIOUS
<1> HIDE DEF e
<1>4. TypeOK'
  <2>1. exec' \in [Runs -> Coroutine] BY <1>1, <1>2, <1>3 DEF TypeOK
  <2>2. job' \in [Runs -> JobStatuses] BY <1>1 DEF TypeOK, JobStatuses
  <2> QED BY <1>1, <2>1, <2>2 DEF TypeOK, ItemsOf
<1>5. Frame(r) BY <1>1, <1>3 DEF Frame, TypeOK
<1>6. Local(r)'
  <2>1. job'[r] = "RUNNING" /\ exec'[r] = e BY <1>1, <1>3 DEF TypeOK
  <2>2. exec'[r].at = "claimed" /\ exec'[r].k = 1 BY <2>1, <1>2
  <2>3. \A i \in ItemsOf(r) : i \in Nat /\ ~(i < 1)
    BY RunsAssumption DEF ItemsOf
  <2>4. (\A i \in ItemsOf(r) : item'[r][i] = "PENDING") /\ r \notin lost'
    BY <1>1 DEF Local
  <2>5. late'[r] = 0 /\ task'[r] # "NONE" /\ exec[r].at = "idle"
    BY <1>1 DEF Local
  <2>6. holder' # r BY <1>1, <2>5 DEF Local, Inside
  <2> QED BY <2>1, <2>2, <2>3, <2>4, <2>5, <2>6 DEF Local, ItemsOf, Inside, Engaged
<1> QED BY <1>4, <1>5, <1>6, FrameStep

\* A step that leaves the controller where it is.
LEMMA InPlace ==
  ASSUME NEW r \in Runs, Local(r),
         item'[r] = item[r], late'[r] = late[r],
         exec'[r].at = exec[r].at, exec'[r].k = exec[r].k,
         exec'[r].view = exec[r].view,
         r \in crashed => r \in crashed', r \in lost' <=> r \in lost,
         run[r].cancel => run'[r].cancel,
         holder' = r <=> holder = r,
         \/ task'[r] = task[r]
         \/ task'[r] # "NONE",
         \/ job'[r] = job[r]
         \/ job'[r] \notin {"NONE", "READY"} /\ task'[r] # "NONE"
  PROVE  Local(r)'
BY DEF Local, ItemsOf

\* From one place before the lock to the next one.
LEMMA BeforeLock ==
  ASSUME NEW r \in Runs, Local(r),
         item'[r] = item[r], late' = late, lost' = lost, crashed' = crashed,
         exec[r].at \in Early, exec'[r].at \in Early, exec'[r].k = exec[r].k,
         run[r].cancel => run'[r].cancel,
         holder' = holder, job' = job, task'[r] # "NONE"
  PROVE  Local(r)'
<1>1. exec'[r].at \notin Inside \cup Engaged /\ exec[r].at \notin Inside \cup Engaged
  BY DEF Early, Inside, Engaged
<1>2. exec'[r].at \notin {"checked", "idle", "reporting"} /\ exec[r].at # "idle"
  BY DEF Early
<1> QED BY <1>1, <1>2 DEF Local, ItemsOf

LEMMA StartTaskKeeps ==
  ASSUME WorkInv, NEW r \in Runs, StartTask(r) PROVE WorkInv'
<1> USE DEF StartTask, Outside, history, Quietly
<1>1. TypeOK /\ Local(r) BY ByRun DEF AllLocal
<1>2. "starting" \in Places BY DEF Places
<1>3. /\ exec' \in [Runs -> Coroutine]
      /\ exec'[r].at = "starting" /\ exec'[r].k = exec[r].k
      /\ \A q \in Runs \ {r} : exec'[q] = exec[q]
  BY <1>1, <1>2, GotoStep
<1>4. task' \in [Runs -> Statuses] /\ task'[r] = "RUNNING"
  BY <1>1 DEF TypeOK, Statuses
<1>5. TypeOK' BY <1>1, <1>3, <1>4 DEF TypeOK, ItemsOf
<1>6. Frame(r) BY <1>1, <1>3 DEF Frame, TypeOK
<1>7. Local(r)' BY <1>1, <1>3, <1>4, BeforeLock DEF Early
<1> QED BY <1>5, <1>6, <1>7, FrameStep

LEMMA StartRunKeeps ==
  ASSUME WorkInv, NEW r \in Runs, StartRun(r) PROVE WorkInv'
<1> USE DEF StartRun, Outside, history, Quietly
<1>1. TypeOK /\ Local(r) BY ByRun DEF AllLocal
<1>2. PICK v \in Row : v = exec[r].view BY <1>1 DEF TypeOK, Coroutine
<1>3. [v EXCEPT !.status = "RUNNING"] \in Row
      /\ [v EXCEPT !.status = "RUNNING"].cancel = v.cancel
  BY DEF Row, Statuses
<1>4. "waiting" \in Places BY DEF Places
<1>5. /\ exec' \in [Runs -> Coroutine] /\ run' \in [Runs -> Row]
      /\ exec'[r].at = "waiting" /\ exec'[r].k = exec[r].k
      /\ run[r].cancel => run'[r].cancel
      /\ \A q \in Runs \ {r} : exec'[q] = exec[q] /\ run'[q] = run[q]
  <2> DEFINE n == Counted(r, [v EXCEPT !.status = "RUNNING"])
  <2>1. n \in Row /\ n.cancel = v.cancel BY <1>1, <1>2, <1>3, CountedRow
  <2>2. Commit(r, n, "waiting") BY <1>2
  <2> HIDE DEF n, StartRun
  <2> QED BY <1>1, <1>2, <1>4, <2>1, <2>2, CommitStep
<1>6. TypeOK' BY <1>1, <1>5 DEF TypeOK, ItemsOf
<1>7. Frame(r) BY <1>5 DEF Frame
<1>8. task[r] # "NONE" BY <1>1, AtWork
<1>9. Local(r)' BY <1>1, <1>5, <1>8, BeforeLock DEF Early
<1> QED BY <1>6, <1>7, <1>9, FrameStep

LEMMA AcquireKeeps ==
  ASSUME WorkInv, NEW r \in Runs, Acquire(r) PROVE WorkInv'
<1> USE DEF Acquire, Outside, history, Quietly
<1>1. TypeOK /\ Local(r) BY ByRun DEF AllLocal
<1>2. "looping" \in Places BY DEF Places, Inside
<1>3. /\ exec' \in [Runs -> Coroutine]
      /\ exec'[r].at = "looping" /\ exec'[r].k = exec[r].k
      /\ \A q \in Runs \ {r} : exec'[q] = exec[q]
  BY <1>1, <1>2, GotoStep
<1>4. TypeOK' BY <1>1, <1>3 DEF TypeOK, ItemsOf
<1>5. Frame(r) BY <1>3, RunsAssumption DEF Frame
<1>6. Local(r)'
  <2>1. task[r] # "NONE" /\ job[r] \notin {"NONE", "READY"} BY <1>1, AtWork
  <2>2. exec[r].at \in Early /\ exec[r].at \notin Inside \cup Engaged
    BY DEF Early, Inside, Engaged
  <2>3. exec'[r].at \in Inside /\ exec'[r].at \notin Early \cup Engaged
    BY <1>3 DEF Early, Inside, Engaged
  <2> QED BY <1>1, <1>3, <2>1, <2>2, <2>3 DEF Local, ItemsOf
<1> QED BY <1>4, <1>5, <1>6, FrameStep

\* From place to place inside, at the same item.
LEMMA CheckKeeps ==
  ASSUME WorkInv, NEW r \in Runs, Check(r) PROVE WorkInv'
<1> USE DEF Check, Outside, history, Quietly
<1>1. TypeOK /\ Local(r) BY ByRun DEF AllLocal
<1> DEFINE p == IF Cancelled(r) THEN "leaving" ELSE "checked"
<1>2. p \in Places BY DEF Places, Inside
<1>3. /\ exec' \in [Runs -> Coroutine] /\ run' \in [Runs -> Row]
      /\ exec'[r].at = p /\ exec'[r].k = exec[r].k
      /\ run[r].cancel => run'[r].cancel
      /\ \A q \in Runs \ {r} : exec'[q] = exec[q] /\ run'[q] = run[q]
  BY <1>1, <1>2, RefreshStep
<1>4. TypeOK' BY <1>1, <1>3 DEF TypeOK, ItemsOf
<1>5. Frame(r) BY <1>3 DEF Frame
<1>6. Local(r)'
  <2>1. task[r] # "NONE" /\ job[r] \notin {"NONE", "READY"} BY <1>1, AtWork
  <2>2. exec[r].at = "looping" /\ exec[r].at \in Inside
        /\ exec[r].at \notin Early \cup Engaged
    BY DEF Early, Inside, Engaged
  <2>3. exec'[r].at \in Inside /\ exec'[r].at \notin Early \cup Engaged \cup {"reporting"}
    BY <1>3 DEF Early, Inside, Engaged
  <2>4. p = "checked" => ~run[r].cancel BY RefreshedRow, <1>1
  <2>5. p = "checked" => late[r] = 0 BY <1>1, <2>4 DEF Local
  <2>6. exec[r].k \in ItemsOf(r) /\ item[r][exec[r].k] = "PENDING"
    BY <1>1, <2>2 DEF Local
  <2> HIDE DEF p
  <2> QED BY <1>1, <1>3, <2>1, <2>2, <2>3, <2>5, <2>6 DEF Local, ItemsOf
<1> QED BY <1>4, <1>5, <1>6, FrameStep

-----------------------------------------------------------------------------
(* The items                                                               *)

\* The item at hand gets a status.
ItemStep(r, s) == item' = [item EXCEPT ![r][exec[r].k] = s]

LEMMA ItemType ==
  ASSUME TypeOK, NEW r \in Runs, NEW s \in ItemStatuses, ItemStep(r, s),
         exec[r].k \in ItemsOf(r)
  PROVE  /\ \A q \in Runs : item'[q] \in [ItemsOf(q) -> ItemStatuses]
         /\ DOMAIN item' = Runs
         /\ \A q \in Runs \ {r} : item'[q] = item[q]
         /\ item'[r][exec[r].k] = s
         /\ \A i \in ItemsOf(r) : i # exec[r].k => item'[r][i] = item[r][i]
<1>1. item'[r] = [item[r] EXCEPT ![exec[r].k] = s] BY DEF TypeOK, ItemStep
<1>2. item[r] \in [ItemsOf(r) -> ItemStatuses] BY DEF TypeOK
<1>3. item'[r] \in [ItemsOf(r) -> ItemStatuses] BY <1>1, <1>2
<1>4. DOMAIN item' = Runs /\ \A q \in Runs \ {r} : item'[q] = item[q]
  BY DEF TypeOK, ItemStep
<1> QED BY <1>1, <1>2, <1>3, <1>4 DEF TypeOK

LEMMA ItemNumbers == \A r \in Runs : \A i \in ItemsOf(r) : i \in Nat /\ i > 0
BY RunsAssumption DEF ItemsOf

LEMMA BeginKeeps ==
  ASSUME WorkInv, NEW r \in Runs, Begin(r) PROVE WorkInv'
<1> USE DEF Begin, Outside, history
<1>1. TypeOK /\ Local(r) BY ByRun DEF AllLocal
<1>2. PICK c \in Coroutine : c = exec[r] BY <1>1 DEF TypeOK
<1>3. PICK v \in Row : v = c.view BY DEF Coroutine
<1> DEFINE n == [v EXCEPT !.status = "RUNNING"]
           m == Merged(run[r], v, n)
           e == [c EXCEPT !.at = "executing", !.view = n]
<1>4. n \in Row /\ n.cancel = v.cancel BY DEF Row, Statuses
<1>5. m \in Row /\ (run[r].cancel => m.cancel)
  BY <1>1, <1>4, RowKept DEF TypeOK
<1>6. "executing" \in Places BY DEF Places, Inside
<1>7. e \in Coroutine /\ e.at = "executing" /\ e.k = c.k BY <1>4, <1>6 DEF Coroutine
<1>8. exec' = [exec EXCEPT ![r] = e] BY <1>2, <1>3
<1>9. run' = [run EXCEPT ![r] = m] BY <1>2, <1>3
<1>10. UNCHANGED <<engine, task, job, holder, admin, lister, events, crashed, lost, presumed,
                   outdated>>
       /\ late' = IF run[r].cancel THEN [late EXCEPT ![r] = @ + 1] ELSE late
  OBVIOUS
<1>12. exec[r].at = "checked" /\ exec[r].k \in ItemsOf(r) BY <1>1 DEF Local
<1>13. "RUNNING" \in ItemStatuses /\ ItemStep(r, "RUNNING")
  BY DEF ItemStatuses, ItemStep
<1> HIDE DEF n, m, e, Begin
<1>11. /\ exec' \in [Runs -> Coroutine] /\ exec'[r].at = "executing"
       /\ exec'[r].k = exec[r].k /\ \A q \in Runs \ {r} : exec'[q] = exec[q]
       /\ run' \in [Runs -> Row] /\ (run[r].cancel => run'[r].cancel)
       /\ \A q \in Runs \ {r} : run'[q] = run[q]
  BY <1>1, <1>2, <1>5, <1>7, <1>8, <1>9 DEF TypeOK
<1>14. /\ \A q \in Runs : item'[q] \in [ItemsOf(q) -> ItemStatuses]
       /\ DOMAIN item' = Runs
       /\ \A q \in Runs \ {r} : item'[q] = item[q]
       /\ item'[r][exec[r].k] = "RUNNING"
       /\ \A i \in ItemsOf(r) : i # exec[r].k => item'[r][i] = item[r][i]
  BY <1>1, <1>12, <1>13, ItemType
<1>15. late[r] = 0 BY <1>1, <1>12 DEF Local
<1>16. late' \in [Runs -> Nat] /\ (\A q \in Runs \ {r} : late'[q] = late[q])
       /\ (late'[r] = 0 \/ (late'[r] = 1 /\ run[r].cancel))
  <2>1. late \in [Runs -> Nat] BY <1>1 DEF TypeOK
  <2>2. CASE run[r].cancel
    <3>1. late' = [late EXCEPT ![r] = 1] BY <1>10, <1>15, <2>2
    <3> QED BY <2>1, <2>2, <3>1
  <2>3. CASE ~run[r].cancel
    <3>1. late' = late BY <1>10, <2>3
    <3> QED BY <1>15, <2>1, <3>1
  <2> QED BY <2>2, <2>3
<1>17. TypeOK' BY <1>1, <1>10, <1>11, <1>14, <1>16 DEF TypeOK, ItemsOf
<1>18. Frame(r) BY <1>10, <1>11, <1>14, <1>16 DEF Frame
<1>19. Local(r)'
  <2>1. task[r] # "NONE" /\ job[r] \notin {"NONE", "READY"} BY <1>1, <1>12, AtWork
  <2>2. exec[r].at \in Inside /\ exec[r].at \notin Early \cup Engaged
    BY <1>12 DEF Early, Inside, Engaged
  <2>3. exec'[r].at \in Inside /\ exec'[r].at \notin Early /\ exec'[r].at \in Engaged
    BY <1>11 DEF Early, Inside, Engaged
  <2>4. \A i \in ItemsOf(r) :
          /\ i < exec[r].k => item'[r][i] \in {"COMPLETED", "FAILED"}
          /\ i > exec[r].k => item'[r][i] = "PENDING"
          /\ item'[r][i] = "RUNNING" => i = exec[r].k \/ r \in crashed
    <3>1. exec[r].k \in Nat BY <1>12, ItemNumbers
    <3> QED BY <1>1, <1>14, <2>2, <3>1, ItemNumbers DEF Local
  <2> QED BY <1>1, <1>10, <1>11, <1>12, <1>14, <1>16, <2>1, <2>2, <2>3, <2>4
          DEF Local, ItemsOf
<1> QED BY <1>17, <1>18, <1>19, FrameStep

\* The item at hand ends, and the controller goes on to the next one.
LEMMA NextItem ==
  ASSUME TypeOK, NEW r \in Runs, Local(r), NEW s \in {"COMPLETED", "FAILED"},
         ItemStep(r, s), exec[r].at \in Engaged,
         exec'[r].at = "looping", exec'[r].k = exec[r].k + 1,
         run[r].cancel => run'[r].cancel,
         UNCHANGED <<task, job, holder, lost, crashed, late>>
  PROVE  Local(r)'
<1>1. exec[r].at # "idle" /\ exec[r].at \in Inside /\ exec[r].at \notin Early
  BY DEF Engaged, Inside, Early
<1>2. exec'[r].at \in Inside /\ exec'[r].at \notin Early \cup Engaged
  BY DEF Engaged, Inside, Early
<1>3. exec[r].k \in ItemsOf(r) BY DEF Local
<1>4. s \in ItemStatuses BY DEF ItemStatuses, ItemTerminal
<1>5. /\ item'[r][exec[r].k] = s
      /\ \A i \in ItemsOf(r) : i # exec[r].k => item'[r][i] = item[r][i]
  BY <1>3, <1>4, ItemType
<1>6. task[r] # "NONE" /\ job[r] \notin {"NONE", "READY"} BY <1>1, AtWork
<1>7. exec[r].k \in Nat BY <1>3, ItemNumbers
<1>8. \A i \in ItemsOf(r) :
        /\ i < exec'[r].k => item'[r][i] \in {"COMPLETED", "FAILED"}
        /\ i > exec[r].k => item'[r][i] = "PENDING"
        /\ item'[r][i] = "RUNNING" => r \in crashed
  BY <1>1, <1>5, <1>7, ItemNumbers DEF Local
<1>9. \A i \in ItemsOf(r) : i >= exec'[r].k => item'[r][i] = "PENDING"
  BY <1>7, <1>8, ItemNumbers
<1>10. exec'[r].k \in Nat BY <1>7
<1>11. (exec'[r].k \in ItemsOf(r) => item'[r][exec'[r].k] = "PENDING")
       /\ \A i \in ItemsOf(r) : i > exec'[r].k => item'[r][i] = "PENDING"
  BY <1>9, <1>10, ItemNumbers
<1> QED BY <1>1, <1>2, <1>6, <1>8, <1>11 DEF Local, ItemsOf

\* The session counts the items and writes what it has counted.
LEMMA CountStep ==
  ASSUME TypeOK, NEW r \in Runs,
         run' = [run EXCEPT ![r] = Merged(@, exec[r].view, Counted(r, exec[r].view))]
  PROVE  /\ run' \in [Runs -> Row]
         /\ run[r].cancel => run'[r].cancel
         /\ \A q \in Runs \ {r} : run'[q] = run[q]
<1>1. PICK v \in Row : v = exec[r].view BY DEF TypeOK, Coroutine
<1>2. PICK n \in Row : n = Counted(r, v) /\ n.cancel = v.cancel BY CountedRow
<1>3. run \in [Runs -> Row] BY DEF TypeOK
<1>4. PICK m \in Row : m = Merged(run[r], v, n) /\ (run[r].cancel => m.cancel)
  BY <1>2, <1>3, RowKept
<1>5. run' = [run EXCEPT ![r] = m] BY <1>1, <1>2, <1>4
<1> QED BY <1>3, <1>4, <1>5

LEMMA ItemDoneKeeps ==
  ASSUME WorkInv, NEW r \in Runs, ItemDone(r) PROVE WorkInv'
<1> USE DEF ItemDone, Outside, history, Quietly
<1>1. TypeOK /\ Local(r) BY ByRun DEF AllLocal
<1>2. PICK c \in Coroutine : c = exec[r] BY <1>1 DEF TypeOK
<1>3. PICK v \in Row : v = Counted(r, c.view) BY CountedRow DEF Coroutine
<1> DEFINE e == [c EXCEPT !.at = "looping", !.view = v, !.k = c.k + 1, !.some = TRUE,
                          !.pid = FALSE]
<1>4. "looping" \in Places BY DEF Places, Inside
<1>5. e \in Coroutine /\ e.at = "looping" /\ e.k = c.k + 1
  <2>1. c.k + 1 \in Nat BY DEF Coroutine
  <2>2. PICK n \in Nat : n = c.k + 1 BY <2>1
  <2> QED BY <1>4, <2>2 DEF Coroutine
<1>6. exec' = [exec EXCEPT ![r] = e] BY <1>2, <1>3
<1>7. run' = [run EXCEPT ![r] = Merged(@, exec[r].view, Counted(r, exec[r].view))]
      /\ ItemStep(r, "COMPLETED") /\ exec[r].at \in Engaged
      /\ UNCHANGED <<engine, task, job, holder, admin, lister, events, history>>
  BY DEF ItemStep, Engaged
<1> HIDE DEF e, ItemDone
<1>8. exec' \in [Runs -> Coroutine] /\ exec'[r].at = "looping"
      /\ exec'[r].k = exec[r].k + 1 /\ \A q \in Runs \ {r} : exec'[q] = exec[q]
  BY <1>1, <1>2, <1>5, <1>6 DEF TypeOK
<1>9. /\ run' \in [Runs -> Row] /\ (run[r].cancel => run'[r].cancel)
      /\ \A q \in Runs \ {r} : run'[q] = run[q]
  BY <1>1, <1>7, CountStep
<1>10. exec[r].k \in ItemsOf(r) BY <1>1, <1>7 DEF Local
<1>11. /\ \A q \in Runs : item'[q] \in [ItemsOf(q) -> ItemStatuses]
       /\ DOMAIN item' = Runs /\ \A q \in Runs \ {r} : item'[q] = item[q]
  BY <1>1, <1>7, <1>10, ItemType DEF ItemStatuses, ItemTerminal
<1>12. TypeOK' BY <1>1, <1>7, <1>8, <1>9, <1>11 DEF TypeOK, ItemsOf
<1>13. Frame(r) BY <1>7, <1>8, <1>9, <1>11 DEF Frame
<1>14. Local(r)' BY <1>1, <1>7, <1>8, <1>9, NextItem
<1> QED BY <1>12, <1>13, <1>14, FrameStep

LEMMA FailItemKeeps ==
  ASSUME WorkInv, NEW r \in Runs, FailItem(r) PROVE WorkInv'
<1> USE DEF FailItem, Outside, history, Quietly
<1>1. TypeOK /\ Local(r) BY ByRun DEF AllLocal
<1>2. PICK c \in Coroutine : c = exec[r] BY <1>1 DEF TypeOK
<1>3. PICK v \in Row : v = Counted(r, c.view) BY CountedRow DEF Coroutine
<1> DEFINE e == [c EXCEPT !.at = "looping", !.view = v, !.k = c.k + 1]
<1>4. "looping" \in Places BY DEF Places, Inside
<1>5. e \in Coroutine /\ e.at = "looping" /\ e.k = c.k + 1
  <2>1. c.k + 1 \in Nat BY DEF Coroutine
  <2>2. PICK n \in Nat : n = c.k + 1 BY <2>1
  <2> QED BY <1>4, <2>2 DEF Coroutine
<1>6. exec' = [exec EXCEPT ![r] = e] BY <1>2, <1>3
<1>7. run' = [run EXCEPT ![r] = Merged(@, exec[r].view, Counted(r, exec[r].view))]
      /\ ItemStep(r, "FAILED") /\ exec[r].at \in Engaged
      /\ UNCHANGED <<engine, task, job, holder, admin, lister, events, history>>
  BY DEF ItemStep, Engaged
<1> HIDE DEF e, FailItem
<1>8. exec' \in [Runs -> Coroutine] /\ exec'[r].at = "looping"
      /\ exec'[r].k = exec[r].k + 1 /\ \A q \in Runs \ {r} : exec'[q] = exec[q]
  BY <1>1, <1>2, <1>5, <1>6 DEF TypeOK
<1>9. /\ run' \in [Runs -> Row] /\ (run[r].cancel => run'[r].cancel)
      /\ \A q \in Runs \ {r} : run'[q] = run[q]
  BY <1>1, <1>7, CountStep
<1>10. exec[r].k \in ItemsOf(r) BY <1>1, <1>7 DEF Local
<1>11. /\ \A q \in Runs : item'[q] \in [ItemsOf(q) -> ItemStatuses]
       /\ DOMAIN item' = Runs /\ \A q \in Runs \ {r} : item'[q] = item[q]
  BY <1>1, <1>7, <1>10, ItemType DEF ItemStatuses, ItemTerminal
<1>12. TypeOK' BY <1>1, <1>7, <1>8, <1>9, <1>11 DEF TypeOK, ItemsOf
<1>13. Frame(r) BY <1>7, <1>8, <1>9, <1>11 DEF Frame
<1>14. Local(r)' BY <1>1, <1>7, <1>8, <1>9, NextItem
<1> QED BY <1>12, <1>13, <1>14, FrameStep

LEMMA ItemRaisesKeeps ==
  ASSUME WorkInv, NEW r \in Runs, ItemRaises(r) PROVE WorkInv'
<1> USE DEF ItemRaises, Outside, history, Quietly
<1>1. TypeOK /\ Local(r) BY ByRun DEF AllLocal
<1>2. PICK c \in Coroutine : c = exec[r] BY <1>1 DEF TypeOK
<1>3. PICK v \in Row : v = Refreshed(r) /\ (run[r].cancel => v.cancel)
  BY <1>1, RefreshedRow
<1> DEFINE p == IF Cancelled(r) THEN "cancelling" ELSE "failing"
           e == [c EXCEPT !.at = p, !.view = v, !.pid = FALSE, !.killed = FALSE]
<1>4. p \in Places /\ p \in Engaged BY DEF Places, Inside, Engaged
<1>5. e \in Coroutine /\ e.at = p /\ e.k = c.k BY <1>4 DEF Coroutine
<1>6. exec' = [exec EXCEPT ![r] = e] /\ run' = [run EXCEPT ![r] = v] BY <1>2, <1>3
<1>7. exec[r].at = "executing"
      /\ UNCHANGED <<engine, item, task, job, holder, admin, lister, events, history>>
  OBVIOUS
<1> HIDE DEF p, e, ItemRaises
<1>8. /\ exec' \in [Runs -> Coroutine] /\ exec'[r].at \in Engaged
      /\ exec'[r].k = exec[r].k /\ \A q \in Runs \ {r} : exec'[q] = exec[q]
      /\ run' \in [Runs -> Row] /\ (run[r].cancel => run'[r].cancel)
      /\ \A q \in Runs \ {r} : run'[q] = run[q]
  BY <1>1, <1>2, <1>3, <1>4, <1>5, <1>6 DEF TypeOK
<1>9. TypeOK' BY <1>1, <1>7, <1>8 DEF TypeOK, ItemsOf
<1>10. Frame(r) BY <1>7, <1>8 DEF Frame
<1>11. Local(r)'
  <2>1. task[r] # "NONE" /\ job[r] \notin {"NONE", "READY"} BY <1>1, <1>7, AtWork
  <2>2. exec[r].at \in Inside /\ exec[r].at \in Engaged /\ exec[r].at \notin Early
    BY <1>7 DEF Early, Inside, Engaged
  <2>3. exec'[r].at \in Inside /\ exec'[r].at \notin Early \cup {"looping", "checked", "idle", "reporting"}
    BY <1>8 DEF Early, Inside, Engaged
  <2> QED BY <1>1, <1>7, <1>8, <2>1, <2>2, <2>3 DEF Local, ItemsOf
<1> QED BY <1>9, <1>10, <1>11, FrameStep

LEMMA CancelItemKeeps ==
  ASSUME WorkInv, NEW r \in Runs, CancelItem(r) PROVE WorkInv'
<1> USE DEF CancelItem, Outside, history, Quietly
<1>1. TypeOK /\ Local(r) BY ByRun DEF AllLocal
<1>2. PICK v \in Row : v = exec[r].view BY <1>1 DEF TypeOK, Coroutine
<1>3. [v EXCEPT !.status = "CANCELLED", !.cancel = TRUE] \in Row
      /\ [v EXCEPT !.status = "CANCELLED", !.cancel = TRUE].cancel
  BY DEF Row, Statuses, FinalStatuses
<1>4. "leaving" \in Places BY DEF Places, Inside
<1>5. exec[r].at = "cancelling" /\ ItemStep(r, "CANCELLED")
      /\ UNCHANGED <<engine, task, job, holder, admin, lister, events, history>>
  BY DEF ItemStep
<1>6. /\ exec' \in [Runs -> Coroutine] /\ run' \in [Runs -> Row]
      /\ exec'[r].at = "leaving" /\ exec'[r].k = exec[r].k
      /\ run[r].cancel => run'[r].cancel
      /\ \A q \in Runs \ {r} : exec'[q] = exec[q] /\ run'[q] = run[q]
  BY <1>1, <1>2, <1>3, <1>4, CountedRow, CommitStep, ZenonT(40)
<1> HIDE DEF CancelItem
<1>7. exec[r].k \in ItemsOf(r) BY <1>1, <1>5 DEF Local, Engaged
<1>8. /\ \A q \in Runs : item'[q] \in [ItemsOf(q) -> ItemStatuses]
      /\ DOMAIN item' = Runs /\ \A q \in Runs \ {r} : item'[q] = item[q]
      /\ item'[r][exec[r].k] = "CANCELLED"
      /\ \A i \in ItemsOf(r) : i # exec[r].k => item'[r][i] = item[r][i]
  BY <1>1, <1>5, <1>7, ItemType DEF ItemStatuses, ItemTerminal
<1>9. TypeOK' BY <1>1, <1>5, <1>6, <1>8 DEF TypeOK, ItemsOf
<1>10. Frame(r) BY <1>5, <1>6, <1>8 DEF Frame
<1>11. Local(r)'
  <2>1. task[r] # "NONE" /\ job[r] \notin {"NONE", "READY"} BY <1>1, <1>5, AtWork
  <2>2. exec[r].at \in Inside /\ exec[r].at \in Engaged /\ exec[r].at \notin Early
    BY <1>5 DEF Early, Inside, Engaged
  <2>3. exec'[r].at \in Inside
        /\ exec'[r].at \notin Early \cup {"looping", "checked", "idle"} \cup Engaged
    BY <1>6 DEF Early, Inside, Engaged
  <2>4. \A i \in ItemsOf(r) :
          /\ i < exec[r].k => item'[r][i] \in {"COMPLETED", "FAILED"}
          /\ i > exec[r].k => item'[r][i] = "PENDING"
          /\ item'[r][i] = "RUNNING" => r \in crashed
    <3>1. exec[r].k \in Nat BY <1>7, ItemNumbers
    <3> QED BY <1>1, <1>8, <2>2, <3>1, ItemNumbers DEF Local
  <2> QED BY <1>1, <1>5, <1>6, <2>1, <2>2, <2>3, <2>4 DEF Local, ItemsOf
<1> QED BY <1>9, <1>10, <1>11, FrameStep

-----------------------------------------------------------------------------
(* After the items                                                         *)

Beyond == Places \ (Inside \cup Early \cup {"idle"})

LEMMA BeyondPlaces ==
  Beyond = {"publishing", "closing", "finalizing", "reporting", "returned",
            "raised", "excusing", "failed", "settling"}
BY DEF Beyond, Places, Inside, Early

\* A step of a controller that is past the lock, to a place past the lock or
\* to its end.
LEMMA BeyondLock ==
  ASSUME NEW r \in Runs, Local(r),
         exec[r].at \in Beyond, exec'[r].at \in Beyond \cup {"idle"},
         exec'[r].at = "reporting" => exec'[r].view.status \in FinalStatuses,
         run[r].cancel => run'[r].cancel,
         task'[r] = task[r] \/ task'[r] # "NONE",
         job'[r] = job[r] \/ job'[r] \in {"COMPLETED", "FAILED"},
         UNCHANGED <<item, holder, history>>
  PROVE  Local(r)'
<1>1. exec[r].at \notin Early \cup Inside \cup Engaged \cup {"idle"}
  BY DEF Beyond, Early, Inside, Engaged
<1>2. exec'[r].at \notin Early \cup Inside
  BY DEF Beyond, Early, Inside
<1>3. task[r] # "NONE" /\ job[r] \notin {"NONE", "READY"} BY <1>1, AtWork
<1>4. holder # r BY <1>1 DEF Local
<1> QED BY <1>1, <1>2, <1>3, <1>4, Outward DEF history

LEMMA ReleaseKeeps ==
  ASSUME WorkInv, NEW r \in Runs, Release(r) PROVE WorkInv'
<1> USE DEF Release, Outside, history, Quietly
<1>1. TypeOK /\ Local(r) BY ByRun DEF AllLocal
<1> DEFINE p == IF r \in lost THEN "raised"
                ELSE IF exec[r].some THEN "publishing" ELSE "closing"
<1>2. p \in Beyond /\ p \in Places BY BeyondPlaces DEF Beyond
<1>3. /\ exec' \in [Runs -> Coroutine]
      /\ exec'[r].at = p /\ exec'[r].k = exec[r].k
      /\ \A q \in Runs \ {r} : exec'[q] = exec[q]
  BY <1>1, <1>2, GotoStep
<1>4. exec[r].at \in {"leaving", "looping"} BY DEF Done
<1>5. exec[r].at \in Inside /\ exec[r].at \notin Engaged /\ exec[r].at # "idle"
  BY <1>4 DEF Inside, Engaged
<1>6. /\ holder' \in Runs \cup {NoRun} /\ holder' # r
      /\ \A q \in Runs \ {r} : holder' = q <=> holder = q
  BY <1>1, <1>5, RunsAssumption DEF TypeOK, Local
<1>7. UNCHANGED <<engine, run, item, task, job, admin, lister, events, history>>
  OBVIOUS
<1> HIDE DEF p, Release
<1>8. TypeOK' BY <1>1, <1>3, <1>6, <1>7 DEF TypeOK, ItemsOf
<1>9. Frame(r) BY <1>3, <1>6, <1>7 DEF Frame
<1>10. Local(r)'
  <2>1. exec'[r].at \notin Early \cup Inside BY <1>2, <1>3 DEF Beyond
  <2>3. exec'[r].at # "reporting" BY <1>3 DEF p
  <2>2. task[r] # "NONE" /\ job[r] \notin {"NONE", "READY"} BY <1>1, <1>5, AtWork
  <2> QED BY <1>1, <1>5, <1>6, <1>7, <2>1, <2>2, <2>3, Outward
<1> QED BY <1>8, <1>9, <1>10, FrameStep

\* What the steps after the lock have in common.
LEMMA AfterLock ==
  ASSUME WorkInv, NEW r \in Runs,
         exec[r].at \in Beyond,
         exec' \in [Runs -> Coroutine], exec'[r].at \in Beyond \cup {"idle"},
         exec'[r].at = "reporting" => exec'[r].view.status \in FinalStatuses,
         \A q \in Runs \ {r} : exec'[q] = exec[q] /\ run'[q] = run[q],
         run' \in [Runs -> Row], run[r].cancel => run'[r].cancel,
         \/ task' = task
         \/ \E s \in Statuses \ {"NONE"} : task' = [task EXCEPT ![r] = s],
         \/ job' = job
         \/ \E s \in {"COMPLETED", "FAILED"} : job' = [job EXCEPT ![r] = s],
         UNCHANGED <<item, holder, Outside, history>>
  PROVE  WorkInv'
<1>1. TypeOK /\ Local(r) BY ByRun DEF AllLocal
<1>2. task \in [Runs -> Statuses] /\ job \in [Runs -> JobStatuses]
  BY <1>1 DEF TypeOK
<1>3. /\ task' \in [Runs -> Statuses]
      /\ task'[r] = task[r] \/ task'[r] # "NONE"
      /\ \A q \in Runs \ {r} : task'[q] = task[q]
  <2>1. CASE task' = task BY <1>2, <2>1
  <2>2. CASE \E s \in Statuses \ {"NONE"} : task' = [task EXCEPT ![r] = s]
    BY <1>2, <2>2
  <2> QED BY <2>1, <2>2
<1>4. /\ job' \in [Runs -> JobStatuses]
      /\ job'[r] = job[r] \/ job'[r] \in {"COMPLETED", "FAILED"}
      /\ \A q \in Runs \ {r} : job'[q] = job[q]
  <2>1. CASE job' = job BY <1>2, <2>1
  <2>2. CASE \E s \in {"COMPLETED", "FAILED"} : job' = [job EXCEPT ![r] = s]
    BY <1>2, <2>2 DEF JobStatuses
  <2> QED BY <2>1, <2>2
<1>5. TypeOK' BY <1>1, <1>3, <1>4 DEF TypeOK, Outside, history, ItemsOf
<1>6. Frame(r) BY <1>3, <1>4 DEF Frame, history
<1>7. Local(r)' BY <1>1, <1>3, <1>4, BeyondLock
<1> QED BY <1>5, <1>6, <1>7, FrameStep

LEMMA PublishKeeps ==
  ASSUME WorkInv, NEW r \in Runs, Publish(r) PROVE WorkInv'
<1>1. TypeOK BY DEF WorkInv
<1>2. "closing" \in Places BY BeyondPlaces DEF Beyond
<1>3. /\ exec' \in [Runs -> Coroutine] /\ exec'[r].at = "closing"
      /\ \A q \in Runs \ {r} : exec'[q] = exec[q]
  BY <1>1, <1>2, GotoStep DEF Publish
<1>4. run' \in [Runs -> Row] BY <1>1 DEF Publish, TypeOK
<1> QED BY <1>3, <1>4, AfterLock, BeyondPlaces DEF Publish, Quietly

LEMMA PublishFailsKeeps ==
  ASSUME WorkInv, NEW r \in Runs, PublishFails(r) PROVE WorkInv'
<1>1. TypeOK BY DEF WorkInv
<1>2. PICK c \in Coroutine : c = exec[r] BY <1>1 DEF TypeOK
<1>3. PICK p \in Beyond : p = IF engine = "wsl" THEN "closing" ELSE "raised"
  BY BeyondPlaces
<1>5. p \in Places BY DEF Beyond
<1>6. [c EXCEPT !.at = p, !.error = engine = "wsl"] \in Coroutine
      /\ [c EXCEPT !.at = p, !.error = engine = "wsl"].at = p
  BY <1>5 DEF Coroutine
<1>7. exec' = [exec EXCEPT ![r] = [c EXCEPT !.at = p, !.error = engine = "wsl"]]
  BY <1>2, <1>3 DEF PublishFails
<1>8. /\ exec' \in [Runs -> Coroutine] /\ exec'[r].at = p
      /\ \A q \in Runs \ {r} : exec'[q] = exec[q]
  BY <1>1, <1>6, <1>7 DEF TypeOK
<1>9. run' \in [Runs -> Row] BY <1>1 DEF PublishFails, TypeOK
<1> QED BY <1>8, <1>9, AfterLock, BeyondPlaces DEF PublishFails, Quietly

LEMMA JudgeKeeps ==
  ASSUME WorkInv, NEW r \in Runs, Judge(r) PROVE WorkInv'
<1>1. TypeOK BY DEF WorkInv
<1>2. "finalizing" \in Places BY BeyondPlaces DEF Beyond
<1>3. Refresh(r, "finalizing") BY DEF Judge, Refresh
<1>4. /\ exec' \in [Runs -> Coroutine] /\ run' \in [Runs -> Row]
      /\ exec'[r].at = "finalizing"
      /\ run[r].cancel => run'[r].cancel
      /\ \A q \in Runs \ {r} : exec'[q] = exec[q] /\ run'[q] = run[q]
  BY <1>1, <1>2, <1>3, RefreshStep
<1> QED BY <1>4, AfterLock, BeyondPlaces DEF Judge, Quietly

\* A commit of the run that changes its status and counts its items.
LEMMA CloseStep ==
  ASSUME TypeOK, NEW r \in Runs, NEW place \in Places, NEW s \in Statuses,
         Commit(r, Counted(r, [exec[r].view EXCEPT !.status = s]), place)
  PROVE  /\ exec' \in [Runs -> Coroutine] /\ run' \in [Runs -> Row]
         /\ exec'[r].at = place /\ exec'[r].view.status = s
         /\ run[r].cancel => run'[r].cancel
         /\ \A q \in Runs \ {r} : exec'[q] = exec[q] /\ run'[q] = run[q]
<1>1. PICK v \in Row : v = exec[r].view BY DEF TypeOK, Coroutine
<1> DEFINE w == [v EXCEPT !.status = s]
           n == Counted(r, w)
<1>2. w \in Row /\ w.cancel = v.cancel /\ w.status = s BY DEF Row
<1> HIDE DEF w
<1>3. n \in Row /\ n.cancel = v.cancel /\ n.status = s BY <1>2, CountedRow
<1>4. Commit(r, n, place) BY <1>1 DEF w
<1> HIDE DEF n
<1> QED BY <1>1, <1>3, <1>4, CommitStep

LEMMA FinalizeKeeps ==
  ASSUME WorkInv, NEW r \in Runs, Finalize(r) PROVE WorkInv'
<1>1. TypeOK BY DEF WorkInv
<1>2. "reporting" \in Places BY BeyondPlaces DEF Beyond
<1>3. PICK s \in FinalStatuses : s = Judged(r, exec[r].view, exec[r].error)
  BY DEF Judged, FinalStatuses
<1>4. /\ exec' \in [Runs -> Coroutine] /\ run' \in [Runs -> Row]
      /\ exec'[r].at = "reporting" /\ exec'[r].view.status = s
      /\ run[r].cancel => run'[r].cancel
      /\ \A q \in Runs \ {r} : exec'[q] = exec[q] /\ run'[q] = run[q]
  BY <1>1, <1>2, <1>3, CloseStep DEF Finalize, Statuses
<1> QED BY <1>4, AfterLock, BeyondPlaces DEF Finalize, Quietly

LEMMA ReportKeeps ==
  ASSUME WorkInv, NEW r \in Runs, Report(r) PROVE WorkInv'
<1>1. TypeOK /\ Local(r) BY ByRun DEF AllLocal
<1> DEFINE p == IF exec[r].view.status = "FAILED" THEN "raised" ELSE "returned"
<1>2. p \in Places /\ p \in Beyond BY BeyondPlaces DEF Beyond
<1>3. /\ exec' \in [Runs -> Coroutine] /\ exec'[r].at = p
      /\ \A q \in Runs \ {r} : exec'[q] = exec[q]
  BY <1>1, <1>2, GotoStep DEF Report
<1>4. run' \in [Runs -> Row] BY <1>1 DEF Report, TypeOK
<1>5. exec[r].view.status \in FinalStatuses BY <1>1 DEF Local, Report
<1>6. \E s \in Statuses \ {"NONE"} : task' = [task EXCEPT ![r] = s]
  BY <1>5 DEF Report, Statuses, FinalStatuses
<1> QED BY <1>2, <1>3, <1>4, <1>6, AfterLock, BeyondPlaces DEF Report, Quietly

LEMMA ToIdle ==
  ASSUME TypeOK, NEW r \in Runs, exec' = [exec EXCEPT ![r] = Idle]
  PROVE  /\ exec' \in [Runs -> Coroutine] /\ exec'[r].at = "idle"
         /\ \A q \in Runs \ {r} : exec'[q] = exec[q]
<1>1. Idle \in Coroutine /\ Idle.at = "idle" BY IdleType DEF Idle
<1> QED BY <1>1 DEF TypeOK

LEMMA ReturnKeeps ==
  ASSUME WorkInv, NEW r \in Runs, Return(r) PROVE WorkInv'
<1>1. TypeOK BY DEF WorkInv
<1>2. /\ exec' \in [Runs -> Coroutine] /\ exec'[r].at = "idle"
      /\ \A q \in Runs \ {r} : exec'[q] = exec[q]
  BY <1>1, ToIdle DEF Return
<1>3. run' \in [Runs -> Row] BY <1>1 DEF Return, TypeOK
<1> QED BY <1>2, <1>3, AfterLock, BeyondPlaces DEF Return

LEMMA LoadFailedKeeps ==
  ASSUME WorkInv, NEW r \in Runs, LoadFailed(r) PROVE WorkInv'
<1>1. TypeOK BY DEF WorkInv
<1>2. PICK c \in Coroutine : c = exec[r] BY <1>1 DEF TypeOK
<1>3. PICK w \in Row : w = run[r] BY <1>1 DEF TypeOK
<1>4. PICK p \in Beyond :
        p = IF w.status \in FinalStatuses THEN "failed" ELSE "excusing"
  BY BeyondPlaces
<1>5. [c EXCEPT !.view = w, !.at = p] \in Coroutine
      /\ [c EXCEPT !.view = w, !.at = p].at = p
  BY DEF Coroutine, Beyond
<1>6. exec' = [exec EXCEPT ![r] = [c EXCEPT !.view = w, !.at = p]]
  BY <1>2, <1>3, <1>4 DEF LoadFailed
<1>7. /\ exec' \in [Runs -> Coroutine] /\ exec'[r].at = p
      /\ \A q \in Runs \ {r} : exec'[q] = exec[q]
  BY <1>1, <1>5, <1>6 DEF TypeOK
<1>8. run' \in [Runs -> Row] BY <1>1 DEF LoadFailed, TypeOK
<1> QED BY <1>7, <1>8, AfterLock, BeyondPlaces DEF LoadFailed, Quietly

LEMMA ExcuseKeeps ==
  ASSUME WorkInv, NEW r \in Runs, Excuse(r) PROVE WorkInv'
<1>1. TypeOK BY DEF WorkInv
<1>2. "failed" \in Places /\ "FAILED" \in Statuses
  BY BeyondPlaces DEF Beyond, Statuses, FinalStatuses
<1>3. /\ exec' \in [Runs -> Coroutine] /\ run' \in [Runs -> Row]
      /\ exec'[r].at = "failed"
      /\ run[r].cancel => run'[r].cancel
      /\ \A q \in Runs \ {r} : exec'[q] = exec[q] /\ run'[q] = run[q]
  BY <1>1, <1>2, CloseStep DEF Excuse
<1> QED BY <1>3, AfterLock, BeyondPlaces DEF Excuse, Quietly

LEMMA FailTaskKeeps ==
  ASSUME WorkInv, NEW r \in Runs, FailTask(r) PROVE WorkInv'
<1>1. TypeOK BY DEF WorkInv
<1>2. "settling" \in Places BY BeyondPlaces DEF Beyond
<1>3. /\ exec' \in [Runs -> Coroutine] /\ exec'[r].at = "settling"
      /\ \A q \in Runs \ {r} : exec'[q] = exec[q]
  BY <1>1, <1>2, GotoStep DEF FailTask
<1>4. run' \in [Runs -> Row] BY <1>1 DEF FailTask, TypeOK
<1>5. \E s \in Statuses \ {"NONE"} : task' = [task EXCEPT ![r] = s]
  <2>1. PICK s \in Statuses \ {"NONE"} : s = IF task[r] \in FinalStatuses THEN task[r] ELSE "FAILED"
    BY DEF Statuses, FinalStatuses
  <2> QED BY <2>1 DEF FailTask
<1> QED BY <1>3, <1>4, <1>5, AfterLock, BeyondPlaces DEF FailTask, Quietly

LEMMA SettleKeeps ==
  ASSUME WorkInv, NEW r \in Runs, Settle(r) PROVE WorkInv'
<1>1. TypeOK BY DEF WorkInv
<1>2. /\ exec' \in [Runs -> Coroutine] /\ exec'[r].at = "idle"
      /\ \A q \in Runs \ {r} : exec'[q] = exec[q]
  BY <1>1, ToIdle DEF Settle
<1>3. run' \in [Runs -> Row] BY <1>1 DEF Settle, TypeOK
<1>4. \E s \in Statuses \ {"NONE"} : task' = [task EXCEPT ![r] = s]
  <2>1. PICK s \in Statuses \ {"NONE"} : s = IF task[r] = "CANCELLED" THEN task[r] ELSE "FAILED"
    BY DEF Statuses, FinalStatuses
  <2> QED BY <2>1 DEF Settle
<1> QED BY <1>2, <1>3, <1>4, AfterLock, BeyondPlaces DEF Settle

-----------------------------------------------------------------------------
(* Faults and clients                                                      *)

LEMMA CrashKeeps ==
  ASSUME WorkInv, NEW r \in Runs, Crash(r) PROVE WorkInv'
<1> USE DEF Crash
<1>1. TypeOK /\ Local(r) BY ByRun DEF AllLocal
<1>2. /\ exec' \in [Runs -> Coroutine] /\ exec'[r].at = "idle"
      /\ \A q \in Runs \ {r} : exec'[q] = exec[q]
  BY <1>1, ToIdle
<1>3. /\ holder' \in Runs \cup {NoRun} /\ holder' # r
      /\ \A q \in Runs \ {r} : holder' = q <=> holder = q
  BY <1>1, RunsAssumption DEF TypeOK
<1>4. events' \in Nat /\ crashed' \subseteq Runs
  <2>1. events \in Nat /\ crashed \subseteq Runs BY <1>1 DEF TypeOK
  <2>2. events' \in Nat BY <2>1
  <2> QED BY <2>1, <2>2
<1>5. TypeOK' BY <1>1, <1>2, <1>3, <1>4 DEF TypeOK, ItemsOf
<1>6. Frame(r) BY <1>2, <1>3 DEF Frame
<1>7. Local(r)'
  <2>1. task[r] # "NONE" /\ job[r] \notin {"NONE", "READY"} BY <1>1, AtWork
  <2>2. exec'[r].at \notin Early \cup Inside /\ exec'[r].at # "reporting"
    BY <1>2 DEF Early, Inside
  <2> QED BY <1>1, <1>3, <2>1, <2>2, Outward
<1> QED BY <1>5, <1>6, <1>7, FrameStep

LEMMA RecoverKeeps ==
  ASSUME WorkInv, NEW r \in Runs, Recover(r) PROVE WorkInv'
<1> USE DEF Recover
<1>1. TypeOK /\ Local(r) BY ByRun DEF AllLocal
<1>2. task' \in [Runs -> Statuses] /\ task'[r] = "FAILED"
  BY <1>1 DEF TypeOK, Statuses, FinalStatuses
<1>3. job' \in [Runs -> JobStatuses] /\ job'[r] = "FAILED"
  BY <1>1 DEF TypeOK, JobStatuses
<1>4. events' \in Nat /\ presumed' \subseteq Runs
  <2>1. events \in Nat /\ presumed \subseteq Runs BY <1>1 DEF TypeOK
  <2>2. events' \in Nat BY <2>1
  <2> QED BY <2>1, <2>2
<1>5. TypeOK' BY <1>1, <1>2, <1>3, <1>4 DEF TypeOK, ItemsOf
<1>6. Frame(r) BY <1>1 DEF Frame, TypeOK
<1>7. Local(r)' BY <1>1, <1>2, <1>3, InPlace
<1> QED BY <1>5, <1>6, <1>7, FrameStep

LEMMA LoseConnectionKeeps ==
  ASSUME WorkInv, NEW r \in Runs, LoseConnection(r) PROVE WorkInv'
<1>1. TypeOK /\ Local(r) BY ByRun DEF AllLocal
<1>2. /\ r \notin lost /\ lost' = lost \cup {r} /\ events' = events + 1
      /\ holder' = IF holder = r THEN NoRun ELSE holder
      /\ exec[r].at \in Inside \cup {"waiting"}
      /\ UNCHANGED <<engine, run, item, task, job, admin, lister, crashed, presumed, late,
                     outdated>>
  BY DEF LoseConnection
<1>3. /\ holder' \in Runs \cup {NoRun} /\ holder' # r
      /\ \A q \in Runs \ {r} : holder' = q <=> holder = q
  BY <1>1, <1>2, RunsAssumption DEF TypeOK
<1>4. events' \in Nat /\ lost' \subseteq Runs
  <2>1. events \in Nat /\ lost \subseteq Runs BY <1>1 DEF TypeOK
  <2>2. events' \in Nat BY <1>2, <2>1
  <2> QED BY <1>2, <2>1, <2>2
<1>5. task[r] # "NONE" /\ job[r] \notin {"NONE", "READY"}
  BY <1>1, <1>2, AtWork DEF Inside
<1>6. CASE exec[r].at = "waiting"
  <2>1. "raised" \in Places BY BeyondPlaces DEF Beyond
  <2>2. Goto(r, "raised") BY <1>6 DEF LoseConnection
  <2>3. /\ exec' \in [Runs -> Coroutine] /\ exec'[r].at = "raised"
        /\ \A q \in Runs \ {r} : exec'[q] = exec[q]
    BY <1>1, <2>1, <2>2, GotoStep
  <2>4. TypeOK' BY <1>1, <1>2, <1>3, <1>4, <2>3 DEF TypeOK, ItemsOf
  <2>5. Frame(r) BY <1>2, <1>3, <2>3 DEF Frame
  <2>6. exec'[r].at \notin Early \cup Inside /\ exec'[r].at # "reporting"
        /\ exec[r].at \notin Engaged
    BY <1>6, <2>3 DEF Early, Inside, Engaged
  <2>7. Local(r)' BY <1>1, <1>2, <1>3, <1>5, <2>6, Outward
  <2> QED BY <2>4, <2>5, <2>7, FrameStep
<1>7. CASE exec[r].at \in Inside
  <2>1. exec[r].at \notin Early \cup {"idle", "reporting"} BY <1>7 DEF Inside, Early
  <2>2. exec' = exec BY <2>1 DEF LoseConnection, Early
  <2>3. TypeOK' BY <1>1, <1>2, <1>3, <1>4, <2>2 DEF TypeOK, ItemsOf
  <2>4. Frame(r) BY <1>2, <1>3, <2>2 DEF Frame
  <2>5. Local(r)' BY <1>1, <1>2, <1>3, <1>5, <2>1, <2>2 DEF Local, ItemsOf
  <2> QED BY <2>3, <2>4, <2>5, FrameStep
<1> QED BY <1>2, <1>6, <1>7

LEMMA RegisterPidKeeps ==
  ASSUME WorkInv, NEW r \in Runs, RegisterPid(r) PROVE WorkInv'
<1> USE DEF RegisterPid, Outside, history, Quietly
<1>1. TypeOK /\ Local(r) BY ByRun DEF AllLocal
<1>2. PICK c \in Coroutine : c = exec[r] BY <1>1 DEF TypeOK
<1> DEFINE e == [c EXCEPT !.pid = TRUE]
<1>3. e \in Coroutine /\ e.at = c.at /\ e.k = c.k /\ e.view = c.view
  BY DEF Coroutine
<1>4. exec' = [exec EXCEPT ![r] = e] BY <1>2
<1> HIDE DEF e
<1>5. exec' \in [Runs -> Coroutine] /\ exec'[r] = e
      /\ \A q \in Runs \ {r} : exec'[q] = exec[q]
  <2> HIDE DEF RegisterPid
  <2>1. exec \in [Runs -> Coroutine] BY <1>1 DEF TypeOK
  <2> QED BY <1>3, <1>4, <2>1
<1>6. TypeOK' BY <1>1, <1>5 DEF TypeOK, ItemsOf
<1>7. Frame(r) BY <1>5 DEF Frame
<1>8. Local(r)' BY <1>1, <1>2, <1>3, <1>5, InPlace
<1> QED BY <1>6, <1>7, <1>8, FrameStep

LEMMA FlagKeeps ==
  ASSUME WorkInv, NEW r \in Runs, Flag(r) PROVE WorkInv'
<1> USE DEF Flag, Controllers, history
<1>1. TypeOK /\ Local(r) BY ByRun DEF AllLocal
<1>2. PICK w \in Row : w = run[r] BY <1>1 DEF TypeOK
<1> DEFINE v == [w EXCEPT !.cancel = TRUE]
<1>3. v \in Row /\ v.cancel BY DEF Row
<1>4. run' = run \/ run' = [run EXCEPT ![r] = v] BY <1>2
<1> HIDE DEF v
<1>5. /\ run' \in [Runs -> Row] /\ (run[r].cancel => run'[r].cancel)
      /\ \A q \in Runs \ {r} : run'[q] = run[q]
  <2>1. run \in [Runs -> Row] BY <1>1 DEF TypeOK
  <2> HIDE DEF Flag
  <2>2. CASE run' = run BY <2>1, <2>2
  <2>3. CASE run' = [run EXCEPT ![r] = v] BY <1>3, <2>1, <2>3
  <2> QED BY <1>4, <2>2, <2>3
<1>6. admin' \in [Runs -> {"", "flagged", "killed"}] BY <1>1 DEF TypeOK
<1>7. events' \in Nat
  <2>1. events \in Nat BY <1>1 DEF TypeOK
  <2>2. events' = events + 1 OBVIOUS
  <2> HIDE DEF Flag
  <2> QED BY <2>1, <2>2
<1>8. TypeOK' BY <1>1, <1>5, <1>6, <1>7 DEF TypeOK, ItemsOf
<1>9. Frame(r) BY <1>5 DEF Frame
<1>10. Local(r)' BY <1>1, <1>5, InPlace
<1> QED BY <1>8, <1>9, <1>10, FrameStep

LEMMA KillKeeps ==
  ASSUME WorkInv, NEW r \in Runs, Kill(r) PROVE WorkInv'
<1> USE DEF Kill, Controllers, history
<1>1. TypeOK /\ Local(r) BY ByRun DEF AllLocal
<1>2. PICK c \in Coroutine : c = exec[r] BY <1>1 DEF TypeOK
<1> DEFINE e == [c EXCEPT !.killed = TRUE]
<1>3. e \in Coroutine /\ e.at = c.at /\ e.k = c.k /\ e.view = c.view
  BY DEF Coroutine
<1>4. exec' = exec \/ exec' = [exec EXCEPT ![r] = e] BY <1>2
<1> HIDE DEF e
<1>5. /\ exec' \in [Runs -> Coroutine]
      /\ exec'[r].at = exec[r].at /\ exec'[r].k = exec[r].k
      /\ exec'[r].view = exec[r].view
      /\ \A q \in Runs \ {r} : exec'[q] = exec[q]
  BY <1>1, <1>2, <1>3, <1>4, ZenonT(40) DEF TypeOK
<1>6. admin' \in [Runs -> {"", "flagged", "killed"}] BY <1>1 DEF TypeOK
<1>7. TypeOK' BY <1>1, <1>5, <1>6 DEF TypeOK, ItemsOf
<1>8. Frame(r) BY <1>5 DEF Frame
<1>9. Local(r)' BY <1>1, <1>5, InPlace
<1> QED BY <1>7, <1>8, <1>9, FrameStep

LEMMA CancelTaskKeeps ==
  ASSUME WorkInv, NEW r \in Runs, CancelTask(r) PROVE WorkInv'
<1> USE DEF CancelTask, Controllers, history
<1>1. TypeOK /\ Local(r) BY ByRun DEF AllLocal
<1>2. /\ task' \in [Runs -> Statuses] /\ task'[r] = "CANCELLED"
      /\ \A q \in Runs \ {r} : task'[q] = task[q]
  BY <1>1 DEF TypeOK, Statuses, FinalStatuses
<1>3. admin' \in [Runs -> {"", "flagged", "killed"}] BY <1>1 DEF TypeOK
<1>4. TypeOK' BY <1>1, <1>2, <1>3 DEF TypeOK, ItemsOf
<1>5. Frame(r) BY <1>2 DEF Frame
<1>6. Local(r)' BY <1>1, <1>2, InPlace
<1> QED BY <1>4, <1>5, <1>6, FrameStep

\* The steps of a listing before its commit.
LEMMA ListReadKeeps ==
  ASSUME WorkInv, NEW r \in Runs, ListLoad(r) \/ ListTask(r) \/ ListCount(r)
  PROVE  WorkInv'
<1> USE DEF Controllers, history
<1>1. TypeOK /\ Local(r) BY ByRun DEF AllLocal
<1>2. PICK w \in Row, v \in Row, n \in Row :
        w = run[r] /\ v = lister.seen /\ n = lister.new
  BY <1>1 DEF TypeOK
<1>3. UNCHANGED <<run, task, exec, admin, events, Controllers>>
  BY DEF ListLoad, ListTask, ListCount
<1>4. ASSUME ListLoad(r) PROVE lister' \in Listing
  <2>1. lister' = [of |-> r, at |-> "loaded", seen |-> w, new |-> w]
    BY <1>2, <1>4 DEF ListLoad
  <2> HIDE DEF ListLoad, ListTask, ListCount
  <2>2. [of |-> r, at |-> "loaded", seen |-> w, new |-> w] \in Listing BY DEF Listing
  <2> QED BY <2>1, <2>2
<1>5. ASSUME ListTask(r) PROVE lister' \in Listing
  <2>1. PICK t \in Statuses : t = task[r] BY <1>1 DEF TypeOK
  <2> DEFINE m == [v EXCEPT !.status = t, !.cancel = v.cancel \/ t = "CANCELLED"]
  <2>2. m \in Row BY DEF Row
  <2>3. lister' = NoListing \/ lister' = [lister EXCEPT !.at = "closing", !.new = m]
    BY <1>2, <1>5, <2>1 DEF ListTask
  <2> HIDE DEF m
  <2>4. lister \in Listing BY <1>1 DEF TypeOK, Listing
  <2>5. [lister EXCEPT !.at = "closing", !.new = m] \in Listing
    BY <2>2, <2>4 DEF Listing
  <2> QED BY <2>3, <2>5, IdleType
<1>6. ASSUME ListCount(r) PROVE lister' \in Listing
  <2>1. PICK m \in Row : m = Counted(r, n) BY CountedRow, ZenonT(40)
  <2>2. lister' = [lister EXCEPT !.at = "counted", !.new = m]
    BY <1>2, <1>6, <2>1 DEF ListCount
  <2>3. lister \in Listing BY <1>1 DEF TypeOK, Listing
  <2>4. [lister EXCEPT !.at = "counted", !.new = m] \in Listing BY <2>3 DEF Listing
  <2> QED BY <2>2, <2>4
<1>7. lister' \in Listing BY <1>4, <1>5, <1>6
<1>8. TypeOK' BY <1>1, <1>3, <1>7 DEF TypeOK, ItemsOf, Listing
<1>9. Frame(r) BY <1>3 DEF Frame
<1>10. Local(r)' BY <1>1, <1>3, InPlace
<1> QED BY <1>8, <1>9, <1>10, FrameStep

\* Its commit, which does not take a flag back.
LEMMA ListCloseKeeps ==
  ASSUME WorkInv, NEW r \in Runs, ListingFits(r), ListClose(r) PROVE WorkInv'
<1> USE DEF Controllers, history
<1>1. TypeOK /\ Local(r) BY ByRun DEF AllLocal
<1>2. PICK v \in Row, w \in Row : v = lister.seen /\ w = lister.new BY <1>1 DEF TypeOK
<1>3. v.cancel \in BOOLEAN /\ w.cancel \in BOOLEAN BY DEF Row
<1>4. w.cancel \/ w.cancel = v.cancel BY <1>2, <1>3 DEF ListingFits, ListClose
<1>5. PICK m \in Row : m = Merged(run[r], v, w) /\ (run[r].cancel => m.cancel)
  BY <1>1, <1>4, RowKept DEF TypeOK
<1>6. run' = [run EXCEPT ![r] = m] BY <1>2, <1>5 DEF ListClose
<1>7. /\ lister' = NoListing /\ outdated' \in {outdated, outdated \cup {r}}
      /\ UNCHANGED <<engine, item, job, holder, task, exec, admin, events, crashed, lost,
                     presumed, late>>
  BY DEF ListClose
<1>8. /\ run' \in [Runs -> Row] /\ (run[r].cancel => run'[r].cancel)
      /\ \A q \in Runs \ {r} : run'[q] = run[q]
  BY <1>1, <1>5, <1>6 DEF TypeOK
<1>9. outdated' \subseteq Runs BY <1>1, <1>7 DEF TypeOK
<1>10. TypeOK' BY <1>1, <1>7, <1>8, <1>9, IdleType DEF TypeOK, ItemsOf, Listing
<1>11. Frame(r) BY <1>7, <1>8 DEF Frame
<1>12. Local(r)' BY <1>1, <1>7, <1>8, InPlace
<1> QED BY <1>10, <1>11, <1>12, FrameStep

-----------------------------------------------------------------------------
(* The invariant                                                           *)

LEMMA InitWork == Init => WorkInv
<1> SUFFICES ASSUME Init PROVE WorkInv OBVIOUS
<1>1. Idle \in Coroutine /\ NoListing \in Listing BY IdleType
<1>2. NewRow("NONE") \in Row BY DEF NewRow, Row, Statuses
<1>3. /\ "NONE" \in Statuses /\ "NONE" \in JobStatuses /\ "PENDING" \in ItemStatuses
      /\ "" \in {"", "flagged", "killed"}
  BY DEF Statuses, JobStatuses, ItemStatuses
<1>4. TypeOK
  <2>1. run \in [Runs -> Row] /\ exec \in [Runs -> Coroutine]
        /\ lister \in Listing
    BY <1>1, <1>2 DEF Init
  <2>2. \A r \in Runs : item[r] \in [ItemsOf(r) -> ItemStatuses]
    BY <1>3 DEF Init
  <2>3. task \in [Runs -> Statuses] /\ job \in [Runs -> JobStatuses]
    BY <1>3 DEF Init
  <2> QED BY <2>1, <2>2, <2>3 DEF Init, TypeOK, Listing
<1>5. ASSUME NEW r \in Runs PROVE Local(r)
  <2>1. exec[r].at = "idle" /\ exec[r].at \notin Early \cup Inside \cup Engaged
    BY DEF Init, Idle, Early, Inside, Engaged
  <2>2. \A i \in ItemsOf(r) : item[r][i] = "PENDING" BY DEF Init
  <2>3. holder # r BY RunsAssumption DEF Init
  <2>4. task[r] = "NONE" /\ job[r] = "NONE" /\ late[r] = 0 /\ lost = {} BY DEF Init
  <2> QED BY <2>1, <2>2, <2>3, <2>4 DEF Local
<1> QED BY <1>4, <1>5, ByRun DEF AllLocal

LEMMA NextWork == DinsarInv /\ [Next]_vars => WorkInv'
<1> SUFFICES ASSUME WorkInv, \A r \in Runs : ListingFits(r), [Next]_vars PROVE WorkInv'
  BY DEF DinsarInv, OutcomeInv
<1>1. CASE UNCHANGED vars
  <2> USE <1>1 DEF vars, history
  <2>1. TypeOK' BY DEF WorkInv, TypeOK, ItemsOf
  <2>2. AllLocal' BY ByRun DEF AllLocal, Local, ItemsOf
  <2>3. TypeOK' /\ AllLocal' => WorkInv' BY ByRun, PTL
  <2> QED BY <2>1, <2>2, <2>3
<1>2. ASSUME NEW r \in Runs, Create(r) PROVE WorkInv' BY <1>2, CreateKeeps
<1>3. ASSUME NEW r \in Runs, Work(r) PROVE WorkInv'
  BY <1>3, ClaimKeeps, StartTaskKeeps, StartRunKeeps, AcquireKeeps, CheckKeeps,
     BeginKeeps, ItemDoneKeeps, ItemRaisesKeeps, FailItemKeeps, CancelItemKeeps,
     ReleaseKeeps, PublishKeeps, JudgeKeeps, FinalizeKeeps, ReportKeeps,
     ReturnKeeps, LoadFailedKeeps, ExcuseKeeps, FailTaskKeeps, SettleKeeps
  DEF Work
<1>4. ASSUME NEW r \in Runs, RegisterPid(r) PROVE WorkInv'
  BY <1>4, RegisterPidKeeps
<1>5. ASSUME NEW r \in Runs, Fault(r) PROVE WorkInv'
  BY <1>5, CrashKeeps, RecoverKeeps, LoseConnectionKeeps, PublishFailsKeeps DEF Fault
<1>6. ASSUME NEW r \in Runs, Client(r) PROVE WorkInv'
  BY <1>6, FlagKeeps, KillKeeps, CancelTaskKeeps, ListReadKeeps, ListCloseKeeps
  DEF Client, List
<1> QED BY <1>1, <1>2, <1>3, <1>4, <1>5, <1>6 DEF Next

-----------------------------------------------------------------------------
(* Refinement of EngineMutex                                               *)

Working == {r \in Runs : exec[r].at \in Inside}

\* A step of the run r that leaves alone who works with the engine, or is r's
\* own coming or leaving.
LEMMA OwnStep ==
  ASSUME WorkInv, NEW r \in Runs, \A q \in Runs \ {r} : exec'[q] = exec[q],
         lost' = lost,
         exec'[r].at \in Inside => exec[r].at \in Inside \/ holder = NoRun
  PROVE  [Lock!Next]_<<Working, lost # {}>>
<1>1. CASE exec'[r].at \in Inside <=> exec[r].at \in Inside
  <2>1. Working' = Working BY <1>1 DEF Working
  <2> QED BY <2>1
<1>2. CASE exec'[r].at \notin Inside /\ exec[r].at \in Inside
  <2>1. Working' = Working \ {r} /\ r \in Working BY <1>2 DEF Working
  <2> QED BY <2>1 DEF Lock!Next, Lock!Leave, Working
<1>3. CASE exec'[r].at \in Inside /\ exec[r].at \notin Inside
  <2>1. Working' = Working \cup {r} /\ r \notin Working BY <1>3 DEF Working
  <2>2. holder = NoRun BY <1>3
  <2>3. ASSUME lost = {} PROVE Working = {}
    BY <2>2, <2>3, RunsAssumption DEF WorkInv, LockMatches, Working
  <2> QED BY <2>1, <2>3 DEF Lock!Next, Lock!Enter, Working
<1> QED BY <1>1, <1>2, <1>3

\* The steps that leave the lock and the controllers inside alone.
LEMMA OtherSteps ==
  ASSUME WorkInv, NEW r \in Runs,
         \/ Create(r) \/ Claim(r) \/ StartTask(r) \/ StartRun(r) \/ Release(r)
         \/ Publish(r) \/ Judge(r) \/ Finalize(r) \/ Report(r) \/ Return(r)
         \/ LoadFailed(r) \/ Excuse(r) \/ FailTask(r) \/ Settle(r)
         \/ Crash(r) \/ Recover(r) \/ PublishFails(r) \/ Client(r) \/ RegisterPid(r)
  PROVE  /\ \A q \in Runs \ {r} : exec'[q] = exec[q]
         /\ lost' = lost
         /\ exec'[r].at \in Inside => exec[r].at \in Inside
<1> USE DEF Quietly, Outside, history, Controllers
<1>1. TypeOK BY DEF WorkInv
<1>2. exec \in [Runs -> Coroutine] BY <1>1 DEF TypeOK
<1>3. PICK c \in Coroutine : c = exec[r] BY <1>2
<1>4. \A p : [c EXCEPT !.at = p].at = p BY DEF Coroutine
<1>5. \A p, v : [c EXCEPT !.at = p, !.view = v].at = p
             /\ [c EXCEPT !.view = v, !.at = p].at = p
             /\ [c EXCEPT !.at = p, !.error = v].at = p
  BY DEF Coroutine
<1>6. CASE Create(r) \/ Recover(r) \/ Flag(r) \/ CancelTask(r) \/ List(r)
  BY <1>6 DEF Create, Recover, Flag, CancelTask, List, ListLoad, ListTask, ListCount, ListClose
<1>7. CASE Return(r) \/ Settle(r) \/ Crash(r)
  BY <1>2, <1>7, ToIdle, <1>1 DEF Return, Settle, Crash, Inside
<1>8. CASE Kill(r) \/ RegisterPid(r)
  <2>1. /\ [c EXCEPT !.killed = TRUE].at = c.at
        /\ [c EXCEPT !.pid = TRUE].at = c.at
    BY DEF Coroutine
  <2>2. exec' = exec \/ exec' = [exec EXCEPT ![r] = [c EXCEPT !.killed = TRUE]]
        \/ exec' = [exec EXCEPT ![r] = [c EXCEPT !.pid = TRUE]]
    BY <1>3, <1>8 DEF Kill, RegisterPid
  <2>3. lost' = lost BY <1>8 DEF Kill, RegisterPid
  <2> QED BY <1>2, <1>3, <2>1, <2>2, <2>3
<1>9. CASE Claim(r)
  <2>1. exec' = [exec EXCEPT ![r] = [Idle EXCEPT !.at = "claimed", !.view = run[r]]]
        /\ lost' = lost
    BY <1>9 DEF Claim
  <2>2. PICK d \in Coroutine : d = Idle BY IdleType
  <2>3. [d EXCEPT !.at = "claimed", !.view = run[r]].at = "claimed" BY DEF Coroutine
  <2>4. exec'[r].at = "claimed" BY <1>2, <2>1, <2>2, <2>3
  <2> QED BY <1>2, <2>1, <2>4 DEF Inside
<1>10. CASE StartTask(r) \/ Release(r) \/ Publish(r) \/ Report(r) \/ FailTask(r)
  <2>1. \E p \in Places \ Inside : exec' = [exec EXCEPT ![r] = [c EXCEPT !.at = p]]
    BY <1>3, <1>10 DEF StartTask, Release, Publish, Report, FailTask, Goto, Places, Inside
  <2>2. lost' = lost BY <1>10 DEF StartTask, Release, Publish, Report, FailTask
  <2> QED BY <1>2, <1>3, <1>4, <2>1, <2>2
<1>11. CASE StartRun(r) \/ Judge(r) \/ Finalize(r) \/ Excuse(r)
  <2>1. \E p \in Places \ Inside : \E v :
          exec' = [exec EXCEPT ![r] = [c EXCEPT !.at = p, !.view = v]]
    <3>1. "waiting" \in Places \ Inside /\ "finalizing" \in Places \ Inside
          /\ "reporting" \in Places \ Inside /\ "failed" \in Places \ Inside
      BY DEF Places, Inside
    <3> QED BY <1>3, <1>11, <3>1 DEF StartRun, Judge, Finalize, Excuse, Commit
  <2>2. lost' = lost BY <1>11 DEF StartRun, Judge, Finalize, Excuse
  <2> QED BY <1>2, <1>3, <1>5, <2>1, <2>2
<1>12. CASE LoadFailed(r)
  <2>1. PICK p \in Places \ Inside :
          p = IF run[r].status \in FinalStatuses THEN "failed" ELSE "excusing"
    BY DEF Places, Inside
  <2>2. exec' = [exec EXCEPT ![r] = [c EXCEPT !.view = run[r], !.at = p]] /\ lost' = lost
    BY <1>3, <1>12, <2>1 DEF LoadFailed
  <2> QED BY <1>2, <1>3, <1>5, <2>1, <2>2
<1>13. CASE PublishFails(r)
  <2>1. PICK p \in Places \ Inside : p = IF engine = "wsl" THEN "closing" ELSE "raised"
    BY DEF Places, Inside
  <2>2. exec' = [exec EXCEPT ![r] = [c EXCEPT !.at = p, !.error = engine = "wsl"]]
        /\ lost' = lost
    BY <1>3, <1>13, <2>1 DEF PublishFails
  <2> QED BY <1>2, <1>3, <1>5, <2>1, <2>2
<1> QED BY <1>6, <1>7, <1>8, <1>9, <1>10, <1>11, <1>12, <1>13 DEF Client

\* The steps of a controller that works with the engine, or gets to.
LEMMA EngineSteps ==
  ASSUME WorkInv, NEW r \in Runs,
         \/ Acquire(r) \/ Check(r) \/ Begin(r) \/ ItemDone(r) \/ ItemRaises(r)
         \/ FailItem(r) \/ CancelItem(r)
  PROVE  /\ \A q \in Runs \ {r} : exec'[q] = exec[q]
         /\ lost' = lost
         /\ exec'[r].at \in Inside => exec[r].at \in Inside \/ holder = NoRun
<1> USE DEF Quietly, history
<1>1. exec \in [Runs -> Coroutine] BY DEF WorkInv, TypeOK
<1>2. lost' = lost
  BY DEF Acquire, Check, Begin, ItemDone, ItemRaises, FailItem, CancelItem
<1>3. exec[r].at \in Inside \/ holder = NoRun
  BY DEF Acquire, Check, Begin, ItemDone, ItemRaises, FailItem, CancelItem, Inside
<1>4. \E e : exec' = [exec EXCEPT ![r] = e]
  BY DEF Acquire, Check, Begin, ItemDone, ItemRaises, FailItem, CancelItem,
     Goto, Refresh, Commit
<1> QED BY <1>1, <1>2, <1>3, <1>4

LEMMA LockStep ==
  WorkInv /\ [Next]_vars => [Lock!Next]_<<Working, lost # {}>>
<1> SUFFICES ASSUME WorkInv, [Next]_vars
             PROVE  [Lock!Next]_<<Working, lost # {}>>
    OBVIOUS
<1>1. CASE UNCHANGED vars
  BY <1>1 DEF vars, history, Working
<1>2. ASSUME NEW r \in Runs, LoseConnection(r)
      PROVE  [Lock!Next]_<<Working, lost # {}>>
  <2>1. \A q \in Runs : exec'[q].at \in Inside <=> exec[q].at \in Inside
    <3>1. exec \in [Runs -> Coroutine] BY DEF WorkInv, TypeOK
    <3>2. CASE exec' = exec BY <3>2
    <3>3. CASE exec[r].at = "waiting" /\ exec' = [exec EXCEPT ![r].at = "raised"]
      <4>1. PICK c \in Coroutine : c = exec[r] BY <3>1
      <4>2. [c EXCEPT !.at = "raised"].at = "raised" BY DEF Coroutine
      <4>3. exec'[r].at = "raised" BY <3>1, <3>3, <4>1, <4>2
      <4> QED BY <3>1, <3>3, <4>3 DEF Inside
    <3> QED BY <1>2, <3>2, <3>3 DEF LoseConnection, Goto
  <2>2. Working' = Working BY <2>1 DEF Working
  <2>3. (lost # {})' = TRUE BY <1>2 DEF LoseConnection
  <2> QED BY <2>2, <2>3 DEF Lock!Next, Lock!Breach, Working
<1>3. ASSUME NEW r \in Runs,
             \/ Acquire(r) \/ Check(r) \/ Begin(r) \/ ItemDone(r) \/ ItemRaises(r)
             \/ FailItem(r) \/ CancelItem(r)
      PROVE  [Lock!Next]_<<Working, lost # {}>>
  BY <1>3, EngineSteps, OwnStep
<1>4. ASSUME NEW r \in Runs,
             \/ Create(r) \/ Claim(r) \/ StartTask(r) \/ StartRun(r) \/ Release(r)
             \/ Publish(r) \/ Judge(r) \/ Finalize(r) \/ Report(r) \/ Return(r)
             \/ LoadFailed(r) \/ Excuse(r) \/ FailTask(r) \/ Settle(r)
             \/ Crash(r) \/ Recover(r) \/ PublishFails(r) \/ Client(r) \/ RegisterPid(r)
      PROVE  [Lock!Next]_<<Working, lost # {}>>
  <2>1. /\ \A q \in Runs \ {r} : exec'[q] = exec[q]
        /\ lost' = lost
        /\ exec'[r].at \in Inside => exec[r].at \in Inside
    BY <1>4, OtherSteps
  <2> QED BY <2>1, OwnStep
<1> QED BY <1>1, <1>2, <1>3, <1>4 DEF Next, Work, Fault

-----------------------------------------------------------------------------
(* The outcome: counting and writing                                       *)

OutcomeOf(r) == SeenInRow(r) /\ StatusFits(r) /\ ItemsCounted(r) /\ CountersSettle(r)

LEMMA NumberPositive ==
  ASSUME NEW r \in Runs, NEW s
  PROVE  Number(r, s) \in Nat /\ (Number(r, s) > 0 <=> Having(r, s) # {})
<1>1. IsFiniteSet(ItemsOf(r)) BY RunsAssumption, FS_Interval DEF ItemsOf
<1>2. IsFiniteSet(Having(r, s)) BY <1>1, FS_Subset DEF Having
<1>3. Number(r, s) \in Nat BY <1>2, FS_CardinalityType DEF Number
<1>4. Number(r, s) = 0 <=> Having(r, s) = {} BY <1>2, FS_EmptySet DEF Number
<1> HIDE DEF Number
<1> QED BY <1>3, <1>4

\* What a step that leaves the items of r alone keeps.
LEMMA SameItems ==
  ASSUME NEW r \in Runs, item'[r] = item[r]
  PROVE  \A s : Having(r, s)' = Having(r, s) /\ Number(r, s)' = Number(r, s)
<1>1. ASSUME NEW s PROVE Having(r, s)' = Having(r, s) BY DEF Having, ItemsOf
<1> QED BY <1>1 DEF Number

\* A counter is written as it was loaded, or as the items are counted now.
CountedBy(r, new, old) ==
  /\ new.completed \in {old.completed, Number(r, "COMPLETED")}
  /\ new.failed \in {old.failed, Number(r, "FAILED")}

\* What a commit may do to a row, whatever was loaded: the flag stays, a counter
\* is counted, and a failure is not forgotten.
LEMMA Written ==
  ASSUME NEW r \in Runs, NEW row \in Row, NEW seen \in Row, NEW new \in Row,
         Backed(r, row), new.cancel \/ new.cancel = seen.cancel,
         CountedBy(r, new, seen)
  PROVE  /\ Merged(row, seen, new) \in Row
         /\ row.cancel => Merged(row, seen, new).cancel
         /\ row.failed > 0 => Merged(row, seen, new).failed > 0
         /\ CountedBy(r, Merged(row, seen, new), row)
         /\ Backed(r, Merged(row, seen, new))
         /\ (seen.cancel => row.cancel) => (new.cancel => Merged(row, seen, new).cancel)
         /\ (seen.failed > 0 => row.failed > 0) =>
              (new.failed > 0 => Merged(row, seen, new).failed > 0)
         /\ Backed(r, seen) => Backed(r, new)
         /\ Merged(row, seen, new).status =
              IF new.status = seen.status THEN row.status ELSE new.status
<1> DEFINE m == Merged(row, seen, new)
           c == Number(r, "COMPLETED")
           f == Number(r, "FAILED")
<1>1. /\ c \in Nat /\ (c > 0 <=> Having(r, "COMPLETED") # {})
      /\ f \in Nat /\ (f > 0 <=> Having(r, "FAILED") # {})
  BY NumberPositive
<1>2. m \in Row /\ (row.cancel => m.cancel) BY RowKept
<1>3. /\ m.status = IF new.status = seen.status THEN row.status ELSE new.status
      /\ m.cancel = IF new.cancel = seen.cancel THEN row.cancel ELSE new.cancel
      /\ m.completed = IF new.completed = seen.completed THEN row.completed ELSE new.completed
      /\ m.failed = IF new.failed = seen.failed THEN row.failed ELSE new.failed
  BY DEF Merged
<1>4. /\ row.failed \in Nat /\ seen.failed \in Nat /\ new.failed \in Nat
      /\ row.completed \in Nat /\ seen.completed \in Nat /\ new.completed \in Nat
      /\ row.cancel \in BOOLEAN /\ seen.cancel \in BOOLEAN /\ new.cancel \in BOOLEAN
  BY DEF Row
<1>5. new.completed \in {seen.completed, c} /\ new.failed \in {seen.failed, f}
  BY DEF CountedBy
<1>6. CountedBy(r, m, row)
  <2>1. m.completed \in {row.completed, c} /\ m.failed \in {row.failed, f}
    BY <1>3, <1>5
  <2> QED BY <2>1 DEF CountedBy
<1>7. row.failed > 0 => f > 0 BY <1>1 DEF Backed
<1>8. row.failed > 0 => m.failed > 0
  <2> HIDE DEF m, f
  <2> QED BY <1>1, <1>3, <1>4, <1>5, <1>7
<1>9. (seen.failed > 0 => row.failed > 0) => (new.failed > 0 => m.failed > 0)
  <2> HIDE DEF m, f
  <2> QED BY <1>1, <1>3, <1>4, <1>5
<1>10. (seen.cancel => row.cancel) => (new.cancel => m.cancel)
  <2> HIDE DEF m, f
  <2> QED BY <1>3, <1>4
<1>11. Backed(r, seen) => Backed(r, new)
  BY <1>1, <1>4, <1>5 DEF Backed
<1>12. Backed(r, m)
  <2> HIDE DEF m, c, f
  <2>1. m.completed \in {row.completed, c} /\ m.failed \in {row.failed, f}
    BY <1>3, <1>5
  <2> QED BY <1>1, <2>1 DEF Backed
<1> QED BY <1>2, <1>3, <1>6, <1>8, <1>9, <1>10, <1>11, <1>12

\* The same of a commit whose counts are older.
LEMMA OldWritten ==
  ASSUME NEW r \in Runs, NEW row \in Row, NEW seen \in Row, NEW new \in Row,
         Backed(r, row), Backed(r, new),
         seen.cancel => new.cancel, seen.failed > 0 => new.failed > 0
  PROVE  /\ Merged(row, seen, new) \in Row
         /\ row.cancel => Merged(row, seen, new).cancel
         /\ row.failed > 0 => Merged(row, seen, new).failed > 0
         /\ Backed(r, Merged(row, seen, new))
         /\ CountedBy(r, new, seen) => CountedBy(r, Merged(row, seen, new), row)
         /\ (seen.cancel => row.cancel) => (new.cancel => Merged(row, seen, new).cancel)
         /\ Merged(row, seen, new).status =
              IF new.status = seen.status THEN row.status ELSE new.status
<1> DEFINE m == Merged(row, seen, new)
<1>1. /\ row.failed \in Nat /\ seen.failed \in Nat /\ new.failed \in Nat
      /\ row.cancel \in BOOLEAN /\ seen.cancel \in BOOLEAN /\ new.cancel \in BOOLEAN
  BY DEF Row
<1>2. m \in Row /\ (row.cancel => m.cancel)
  <2>1. new.cancel \/ new.cancel = seen.cancel BY <1>1
  <2> QED BY <2>1, RowKept
<1>3. /\ m.status = IF new.status = seen.status THEN row.status ELSE new.status
      /\ m.cancel = IF new.cancel = seen.cancel THEN row.cancel ELSE new.cancel
      /\ m.completed = IF new.completed = seen.completed THEN row.completed ELSE new.completed
      /\ m.failed = IF new.failed = seen.failed THEN row.failed ELSE new.failed
  BY DEF Merged
<1> HIDE DEF m
<1>4. row.failed > 0 => m.failed > 0 BY <1>1, <1>3
<1>5. (seen.cancel => row.cancel) => (new.cancel => m.cancel) BY <1>1, <1>3
<1>6. Backed(r, m)
  <2>1. m.completed \in {row.completed, new.completed} /\ m.failed \in {row.failed, new.failed}
    BY <1>3
  <2> QED BY <2>1 DEF Backed
<1>7. CountedBy(r, new, seen) => CountedBy(r, m, row)
  <2> HIDE DEF Number
  <2> QED BY <1>3 DEF CountedBy
<1> QED BY <1>2, <1>3, <1>4, <1>5, <1>6, <1>7 DEF m

\* Counted as a write of Written.
LEMMA CountedWrite ==
  ASSUME NEW r \in Runs, NEW seen \in Row, NEW row \in Row
  PROVE  CountedBy(r, Counted(r, row), seen)
<1>1. Counted(r, row).completed = Number(r, "COMPLETED")
      /\ Counted(r, row).failed = Number(r, "FAILED")
  BY DEF Counted, Row
<1> HIDE DEF Counted
<1> QED BY <1>1 DEF CountedBy

-----------------------------------------------------------------------------
(* The outcome: what a step of a run does to each part of it               *)

\* The row of r is written by a commit, which counts the items but for that of a
\* listing that has counted before.
RowWritten(r) ==
  /\ run'[r] \in Row
  /\ run[r].cancel => run'[r].cancel
  /\ run[r].failed > 0 => run'[r].failed > 0
  /\ Backed(r, run'[r])
  /\ CountedBy(r, run'[r], run[r]) \/ r \in outdated'
  /\ run'[r].status = "CANCELLED" => run'[r].cancel
  /\ task[r] # "NONE" \/ run'[r].status = run[r].status

\* The view of its controller is kept or taken from the row.
ViewWritten(r) ==
  exec'[r].at # "idle" =>
    \/ exec[r].at # "idle" /\ exec'[r].view = exec[r].view
    \/ /\ exec'[r].view.cancel => run'[r].cancel
       /\ exec'[r].view.failed > 0 => run'[r].failed > 0
       /\ Backed(r, exec'[r].view)

Grown(r) ==
  \A s \in {"COMPLETED", "FAILED"} : Having(r, s) # {} => Having(r, s)' # {}

LEMMA SeenKeeps ==
  ASSUME TypeOK, NEW r \in Runs, SeenInRow(r), Grown(r), RowWritten(r), ViewWritten(r),
         exec'[r].at = "leaving" => exec[r].at = "leaving" \/ run'[r].cancel,
         task'[r] = task[r] \/ task'[r] # "NONE"
  PROVE  SeenInRow(r)'
<1>2. PICK w : w = run'[r] OBVIOUS
<1>3. PICK v : v = exec'[r].view OBVIOUS
<1>4. Having(r, "COMPLETED") # {} => Having(r, "COMPLETED")' # {}
  BY DEF Grown
<1>5. Having(r, "FAILED") # {} => Having(r, "FAILED")' # {}
  BY DEF Grown
<1>6. Backed(r, w)'
  <2>1. Backed(r, w) BY <1>2 DEF RowWritten
  <2> QED BY <2>1, <1>4, <1>5 DEF Backed
<1>7. ASSUME exec'[r].at # "idle"
      PROVE  (v.cancel => w.cancel) /\ (v.failed > 0 => w.failed > 0) /\ Backed(r, v)'
  <2>1. (v.cancel => w.cancel) /\ (v.failed > 0 => w.failed > 0) /\ Backed(r, v)
    BY <1>2, <1>3, <1>7 DEF ViewWritten, RowWritten, SeenInRow
  <2> QED BY <2>1, <1>4, <1>5 DEF Backed
<1>9. task'[r] = "NONE" => run'[r].status = "NONE"
  BY DEF SeenInRow, RowWritten
<1>10. exec'[r].at = "leaving" => run'[r].cancel
  BY DEF SeenInRow, RowWritten
<1>11. run'[r].status = "CANCELLED" => run'[r].cancel
  BY DEF RowWritten
<1> HIDE DEF RowWritten, ViewWritten, Grown
<1> QED BY <1>2, <1>3, <1>6, <1>7, <1>9, <1>10, <1>11 DEF SeenInRow, Backed

\* Before the run is judged nobody calls it COMPLETED, and its items do not
\* matter; later they do not change.
LEMMA StatusKeeps ==
  ASSUME NEW r \in Runs, StatusFits(r),
         \/ item'[r] = item[r] /\ engine' = engine
         \/ exec[r].at \in Unjudged,
         \/ run'[r].status = run[r].status \/ run'[r].status \notin Good
         \/ Fits(r, run'[r].status) /\ ~Open(r),
         task'[r] = task[r] \/ task'[r] \notin Good,
         exec'[r].at = "reporting" =>
           exec[r].at = "reporting" /\ exec'[r].view = exec[r].view,
         exec'[r].at \in Unjudged => exec[r].at \in Unjudged \/ job[r] \in {"NONE", "READY"},
         job'[r] \in {"NONE", "READY"} => job[r] \in {"NONE", "READY"}
  PROVE  StatusFits(r)'
<1>1. PICK w, t : w = run'[r].status /\ t = task'[r] OBVIOUS
<1>2. (w \in Good => Fits(r, w)) /\ (t \in Good => Fits(r, t))
  BY <1>1 DEF StatusFits
<1>3. exec'[r].at \in Unjudged \/ job'[r] \in {"NONE", "READY"} =>
        w \notin Good /\ t \notin Good
  BY <1>1 DEF StatusFits, Open
<1>4. exec[r].at \in Unjudged => w \notin Good /\ t \notin Good
  BY <1>1 DEF StatusFits, Open
<1>5. ASSUME NEW s, s \notin Good PROVE Fits(r, s)'
  BY <1>5 DEF Fits, Good
<1>6. ASSUME NEW s, Fits(r, s), item'[r] = item[r] /\ engine' = engine
      PROVE  Fits(r, s)'
  <2>1. \A q : Having(r, q)' = Having(r, q) BY <1>6, SameItems
  <2> QED BY <1>6, <2>1 DEF Fits, ItemsOf
<1>7. Fits(r, w)' /\ Fits(r, t)'
  <2>1. CASE item'[r] = item[r] /\ engine' = engine
    BY <1>2, <1>5, <1>6, <2>1
  <2>2. CASE exec[r].at \in Unjudged
    BY <1>4, <1>5, <2>2
  <2> QED BY <2>1, <2>2
<1>8. ASSUME exec'[r].at = "reporting" PROVE Fits(r, exec[r].view.status)'
  <2>1. PICK s : s = exec'[r].view.status OBVIOUS
  <2>2. Fits(r, s) BY <1>8, <2>1 DEF StatusFits
  <2>3. exec[r].at \notin Unjudged
    BY <1>8 DEF Unjudged, Early, Inside
  <2>4. Fits(r, s)' BY <1>6, <2>2, <2>3
  <2> QED BY <2>1, <2>4 DEF Fits
<1> QED BY <1>1, <1>3, <1>7, <1>8 DEF StatusFits, Fits, Open

\* Unless the controller goes on to judge the run, or to the next item.
LEMMA ItemsKeep ==
  ASSUME TypeOK, NEW r \in Runs, ItemsCounted(r), item'[r] = item[r], RowWritten(r),
         exec'[r].at \in Early \cup Inside =>
           \/ exec'[r].k = 1
           \/ exec[r].at \in Early \cup Inside /\ exec'[r].k = exec[r].k,
         exec'[r].at \in {"publishing", "closing", "finalizing"} =>
           exec'[r].at = exec[r].at /\ exec'[r].view = exec[r].view
  PROVE  ItemsCounted(r)'
<1>1. ASSUME exec'[r].at \in Early \cup Inside
      PROVE  /\ exec'[r].k > 0
             /\ \A i \in ItemsOf(r) :
                  i < exec'[r].k - 1 /\ item'[r][i] = "FAILED" => run'[r].failed > 0
  <2>1. CASE exec'[r].k = 1
    BY <2>1, ItemNumbers
  <2>2. CASE exec[r].at \in Early \cup Inside /\ exec'[r].k = exec[r].k
    BY <2>2 DEF ItemsCounted, RowWritten
  <2> QED BY <1>1, <2>1, <2>2
<1>2. exec'[r].at \in {"publishing", "closing"} =>
        run'[r].cancel \/ Finished(r, run[r].failed)'
  BY DEF ItemsCounted, RowWritten, Finished, ItemsOf
<1>3. exec'[r].at = "finalizing" =>
        exec'[r].view.cancel \/ Finished(r, exec[r].view.failed)'
  BY DEF ItemsCounted, Finished, ItemsOf
<1> QED BY <1>1, <1>2, <1>3 DEF ItemsCounted, ItemsOf

LEMMA CountersKeep ==
  ASSUME NEW r \in Runs, CountersSettle(r), item'[r] = item[r], RowWritten(r),
         r \in outdated => r \in outdated',
         exec'[r].at \in {"finalizing", "reporting", "returned"} =>
           exec'[r].at = exec[r].at /\ exec'[r].view = exec[r].view,
         job'[r] = "COMPLETED" =>
           job[r] = "COMPLETED" /\ (exec[r].at = "idle" => exec'[r].at = "idle")
  PROVE  CountersSettle(r)'
<1>1. \A s : Number(r, s)' = Number(r, s) BY SameItems
<1> HIDE DEF Number
<1> QED BY <1>1 DEF CountersSettle, RowWritten, CountedBy

-----------------------------------------------------------------------------
(* The outcome: the other runs                                             *)

\* What a step of r leaves alone of the others.
Apart(r) ==
  /\ engine' = engine
  /\ \A q \in Runs \ {r} :
       /\ exec'[q] = exec[q] /\ item'[q] = item[q] /\ task'[q] = task[q]
       /\ job'[q] = job[q] /\ run'[q] = run[q]
       /\ lister'.of = q => lister' = lister
       /\ q \in outdated' <=> q \in outdated

StepOf(r) == Create(r) \/ Work(r) \/ RegisterPid(r) \/ Fault(r) \/ Client(r)

LEMMA OthersStep ==
  ASSUME TypeOK, NEW r \in Runs, StepOf(r) PROVE Apart(r)
<1> USE DEF StepOf, Work, Fault, Client, Quietly, Outside, Controllers, history,
        Create, Claim, StartTask, StartRun, Acquire, Check, Begin, ItemDone,
        ItemRaises, FailItem, CancelItem, Release, Publish, Judge, Finalize, Report,
        Return, LoadFailed, Excuse, FailTask, Settle, Crash, Recover, LoseConnection,
        PublishFails, RegisterPid, Flag, Kill, CancelTask, List, ListLoad, ListTask,
        ListCount, ListClose, Goto, Commit, Refresh
<1>1. engine' = engine OBVIOUS
<1>2. exec' = exec \/ \E e : exec' = [exec EXCEPT ![r] = e] OBVIOUS
<1>3. item' = item \/ \E e : item' = [item EXCEPT ![r] = e] OBVIOUS
<1>4. task' = task \/ \E e : task' = [task EXCEPT ![r] = e] OBVIOUS
<1>5. job' = job \/ \E e : job' = [job EXCEPT ![r] = e] OBVIOUS
<1>6. run' = run \/ \E e : run' = [run EXCEPT ![r] = e] OBVIOUS
<1>7. lister' = lister \/ lister'.of = r \/ lister' = NoListing
  <2>1. \/ lister' = lister \/ ListLoad(r) \/ lister' = NoListing
        \/ ListTask(r) \/ ListCount(r)
    <3> HIDE DEF ListLoad, ListTask, ListCount
    <3> QED OBVIOUS
  <2> HIDE DEF StepOf
  <2>2. ASSUME ListLoad(r) PROVE lister'.of = r
    <3>1. lister' = [of |-> r, at |-> "loaded", seen |-> run[r], new |-> run[r]] BY <2>2
    <3> HIDE DEF ListLoad
    <3> QED BY <3>1
  <2>3. ASSUME ListTask(r) \/ ListCount(r) PROVE lister'.of = r \/ lister' = NoListing
    <3>1. \/ lister' = NoListing
          \/ \E a, n : lister' = [lister EXCEPT !.at = a, !.new = n]
      BY <2>3
    <3>2. lister \in Listing /\ lister.of = r BY <2>3 DEF TypeOK, Listing
    <3> HIDE DEF ListTask, ListCount
    <3> QED BY <3>1, <3>2 DEF Listing
  <2> HIDE DEF ListLoad, ListTask, ListCount
  <2> QED BY <2>1, <2>2, <2>3
<1>9. outdated' = outdated \/ outdated' = outdated \cup {r} OBVIOUS
<1> HIDE DEF StepOf
<1>8. \A q \in Runs \ {r} : lister'.of = q => lister' = lister
  BY <1>7, RunsAssumption DEF NoListing
<1> QED BY <1>1, <1>2, <1>3, <1>4, <1>5, <1>6, <1>8, <1>9 DEF Apart, TypeOK

LEMMA OthersKeep ==
  ASSUME NEW r \in Runs, NEW q \in Runs \ {r}, OutcomeOf(q), Apart(r)
  PROVE  OutcomeOf(q)'
<1>1. /\ exec'[q] = exec[q] /\ item'[q] = item[q] /\ task'[q] = task[q]
      /\ job'[q] = job[q] /\ run'[q] = run[q] /\ engine' = engine
      /\ q \in outdated' <=> q \in outdated
  BY DEF Apart
<1>2. \A s : Having(q, s)' = Having(q, s) /\ Number(q, s)' = Number(q, s)
  BY <1>1, SameItems
<1> HIDE DEF Having, Number
<1>3. SeenInRow(q)'
  BY <1>1, <1>2 DEF OutcomeOf, SeenInRow, Backed
<1>4. StatusFits(q)'
  BY <1>1, <1>2 DEF OutcomeOf, StatusFits, Open, Fits, ItemsOf
<1>5. ItemsCounted(q)'
  BY <1>1 DEF OutcomeOf, ItemsCounted, Finished, ItemsOf
<1>6. CountersSettle(q)'
  BY <1>1, <1>2 DEF OutcomeOf, CountersSettle
<1> QED BY <1>3, <1>4, <1>5, <1>6 DEF OutcomeOf

-----------------------------------------------------------------------------
(* The outcome: the steps of the run itself                                *)

LEMMA RowUntouched ==
  ASSUME TypeOK, NEW r \in Runs, SeenInRow(r), run'[r] = run[r]
  PROVE  RowWritten(r)
<1>1. run[r] \in Row BY DEF TypeOK
<1> QED BY <1>1 DEF RowWritten, CountedBy, SeenInRow

\* A commit of the controller, which knows of no cancellation and no failure
\* that is not in the row.
LEMMA Committing ==
  ASSUME TypeOK, NEW r \in Runs, SeenInRow(r), exec[r].at # "idle", task[r] # "NONE",
         NEW new \in Row, new.cancel \/ new.cancel = exec[r].view.cancel,
         CountedBy(r, new, exec[r].view),
         \/ new.status = exec[r].view.status
         \/ new.status = "CANCELLED" => new.cancel,
         run'[r] = Merged(run[r], exec[r].view, new), exec'[r].view = new
  PROVE  /\ RowWritten(r) /\ ViewWritten(r)
         /\ run'[r].status = IF new.status = exec[r].view.status
                             THEN run[r].status ELSE new.status
         /\ new.cancel => run'[r].cancel
<1>1. PICK row \in Row, seen \in Row : row = run[r] /\ seen = exec[r].view
  BY DEF TypeOK, Coroutine
<1>2. /\ Backed(r, row) /\ Backed(r, seen)
      /\ seen.cancel => row.cancel
      /\ seen.failed > 0 => row.failed > 0
      /\ row.status = "CANCELLED" => row.cancel
  BY <1>1 DEF SeenInRow
<1>3. PICK m \in Row : m = Merged(row, seen, new) BY RowKept
<1>4. /\ row.cancel => m.cancel
      /\ row.failed > 0 => m.failed > 0
      /\ CountedBy(r, m, row)
      /\ new.cancel => m.cancel
      /\ new.failed > 0 => m.failed > 0
      /\ Backed(r, new) /\ Backed(r, m)
      /\ m.status = IF new.status = seen.status THEN row.status ELSE new.status
  <2>1. new.cancel \/ new.cancel = seen.cancel BY <1>1
  <2>2. CountedBy(r, new, seen) BY <1>1
  <2> HIDE DEF Merged, CountedBy, Backed
  <2>3. row \in Row /\ seen \in Row /\ Backed(r, row) BY <1>1, <1>2
  <2>4. /\ row.cancel => Merged(row, seen, new).cancel
        /\ row.failed > 0 => Merged(row, seen, new).failed > 0
        /\ CountedBy(r, Merged(row, seen, new), row)
        /\ (seen.cancel => row.cancel) => (new.cancel => Merged(row, seen, new).cancel)
        /\ (seen.failed > 0 => row.failed > 0) =>
              (new.failed > 0 => Merged(row, seen, new).failed > 0)
        /\ Backed(r, seen) => Backed(r, new)
        /\ Backed(r, Merged(row, seen, new))
        /\ Merged(row, seen, new).status =
              IF new.status = seen.status THEN row.status ELSE new.status
    BY <2>1, <2>2, <2>3, Written
  <2> QED BY <1>2, <1>3, <2>4
<1>5. run'[r] = m BY <1>1, <1>3
<1>6. m.status = "CANCELLED" => m.cancel BY <1>1, <1>2, <1>4
<1> QED BY <1>1, <1>4, <1>5, <1>6 DEF RowWritten, ViewWritten

\* A refresh, which may find the task cancelled.
LEMMA Refreshing ==
  ASSUME TypeOK, NEW r \in Runs, SeenInRow(r),
         run'[r] = Refreshed(r), exec'[r].view = Refreshed(r)
  PROVE  /\ RowWritten(r) /\ ViewWritten(r)
         /\ run'[r].status = run[r].status
         /\ run'[r].failed = run[r].failed /\ run'[r].completed = run[r].completed
         /\ run'[r].cancel = Cancelled(r)
<1>1. PICK w \in Row : w = run[r] BY DEF TypeOK
<1>2. PICK c \in BOOLEAN : c = Cancelled(r) /\ (w.cancel => c) BY <1>1, RefreshedRow
<1> DEFINE n == [w EXCEPT !.cancel = c]
<1>3. /\ n \in Row /\ n.status = w.status /\ n.cancel = c
      /\ n.completed = w.completed /\ n.failed = w.failed
  BY DEF Row
<1>4. run'[r] = n /\ exec'[r].view = n BY <1>1, <1>2 DEF Refreshed
<1> HIDE DEF n
<1>5. Backed(r, n) BY <1>1, <1>3 DEF SeenInRow, Backed
<1> QED BY <1>1, <1>2, <1>3, <1>4, <1>5 DEF RowWritten, ViewWritten, CountedBy, SeenInRow

\* The controller stays, gives up, is at work as before, or starts.
Moved(r) ==
  \/ exec'[r].at = exec[r].at /\ exec'[r].k = exec[r].k /\ exec'[r].view = exec[r].view
  \/ /\ exec'[r].at \in {"idle", "raised", "excusing", "failed", "settling"}
     /\ exec[r].at # "idle"
  \/ /\ exec'[r].at \in Early \cup Inside /\ exec[r].at \in Early \cup Inside
     /\ exec'[r].k = exec[r].k
     /\ exec'[r].at = "leaving" => run'[r].cancel
  \/ exec'[r].at \in Early /\ exec'[r].k = 1 /\ job[r] = "READY" /\ job'[r] = "RUNNING"

LEMMA Steady ==
  ASSUME TypeOK, NEW r \in Runs, OutcomeOf(r),
         item'[r] = item[r], engine' = engine,
         RowWritten(r), ViewWritten(r), Moved(r), r \in outdated => r \in outdated',
         \/ run'[r].status = run[r].status \/ run'[r].status \notin Good
         \/ Fits(r, run'[r].status) /\ ~Open(r),
         task'[r] = task[r] \/ task'[r] \notin Good \cup {"NONE"},
         job'[r] = job[r] \/ job'[r] \in {"RUNNING", "FAILED"}
  PROVE  OutcomeOf(r)'
<1>1. SeenInRow(r) /\ StatusFits(r) /\ ItemsCounted(r) /\ CountersSettle(r)
  BY DEF OutcomeOf
<1>2. Grown(r) BY SameItems DEF Grown
<1>3. exec'[r].at = "leaving" => exec[r].at = "leaving" \/ run'[r].cancel
  BY DEF Moved, Early
<1>4. SeenInRow(r)' BY <1>1, <1>2, <1>3, SeenKeeps
<1>5. exec'[r].at \in {"publishing", "closing", "finalizing", "reporting", "returned"} =>
        exec'[r].at = exec[r].at /\ exec'[r].view = exec[r].view
  BY DEF Moved, Early, Inside
<1>6. exec'[r].at \in Unjudged => exec[r].at \in Unjudged \/ job[r] \in {"NONE", "READY"}
  BY DEF Moved, Early, Inside, Unjudged
<1>7. StatusFits(r)' BY <1>1, <1>5, <1>6, StatusKeeps
<1>8. exec'[r].at \in Early \cup Inside =>
        \/ exec'[r].k = 1
        \/ exec[r].at \in Early \cup Inside /\ exec'[r].k = exec[r].k
  BY DEF Moved, Early, Inside
<1>9. ItemsCounted(r)' BY <1>1, <1>5, <1>8, ItemsKeep
<1>10. job'[r] = "COMPLETED" =>
         job[r] = "COMPLETED" /\ (exec[r].at = "idle" => exec'[r].at = "idle")
  BY DEF Moved, Early, Inside
<1>11. CountersSettle(r)' BY <1>1, <1>5, <1>10, CountersKeep
<1> QED BY <1>4, <1>7, <1>9, <1>11 DEF OutcomeOf

\* WorkInv as far as the outcome needs it.
LEMMA OfRun ==
  ASSUME WorkInv, NEW r \in Runs
  PROVE  /\ TypeOK /\ Local(r)
         /\ run[r] \in Row
         /\ exec[r].at # "idle" => task[r] # "NONE" /\ job[r] \notin {"NONE", "READY"}
<1>1. TypeOK /\ Local(r) BY ByRun DEF AllLocal
<1>2. run[r] \in Row BY <1>1 DEF TypeOK
<1> QED BY <1>1, <1>2, AtWork

\* The steps of the administrator, of recovery and of the engine's process.
LEMMA BystanderOutcome ==
  ASSUME WorkInv, NEW r \in Runs, OutcomeOf(r),
         Flag(r) \/ Kill(r) \/ RegisterPid(r) \/ CancelTask(r) \/ Recover(r)
  PROVE  OutcomeOf(r)'
<1> USE DEF Quietly, Outside, history, Controllers
<1>1. TypeOK /\ SeenInRow(r) /\ run[r] \in Row BY OfRun DEF OutcomeOf
<1>2. item' = item /\ engine' = engine /\ outdated' = outdated
  BY DEF Flag, Kill, RegisterPid, CancelTask, Recover
<1>3. PICK c \in Coroutine : c = exec[r] BY <1>1 DEF TypeOK
<1>4. exec'[r].at = exec[r].at /\ exec'[r].k = exec[r].k /\ exec'[r].view = exec[r].view
  <2> DEFINE d == [c EXCEPT !.killed = TRUE]
             e == [c EXCEPT !.pid = TRUE]
  <2>1. exec' = exec \/ exec' = [exec EXCEPT ![r] = d] \/ exec' = [exec EXCEPT ![r] = e]
    BY <1>3 DEF Flag, Kill, RegisterPid, CancelTask, Recover
  <2>2. /\ d.at = c.at /\ d.k = c.k /\ d.view = c.view
        /\ e.at = c.at /\ e.k = c.k /\ e.view = c.view
    BY DEF Coroutine
  <2> HIDE DEF d, e
  <2> QED BY <1>1, <1>3, <2>1, <2>2 DEF TypeOK
<1>5. RowWritten(r) /\ run'[r].status = run[r].status
  <2>1. CASE run' = run BY <1>1, <2>1, RowUntouched
  <2>2. CASE run' = [run EXCEPT ![r].cancel = TRUE]
    <3>1. PICK w \in Row : w = run[r] BY <1>1
    <3> DEFINE n == [w EXCEPT !.cancel = TRUE]
    <3>2. /\ n \in Row /\ n.cancel /\ n.status = w.status
          /\ n.completed = w.completed /\ n.failed = w.failed
      BY DEF Row
    <3>3. run'[r] = n BY <1>1, <2>2, <3>1 DEF TypeOK
    <3> HIDE DEF n
    <3>4. Backed(r, n) BY <1>1, <3>1, <3>2 DEF SeenInRow, Backed
    <3>5. CountedBy(r, n, w) BY <3>2 DEF CountedBy
    <3>6. n.status = "CANCELLED" => n.cancel BY <3>2
    <3> QED BY <3>1, <3>2, <3>3, <3>4, <3>5, <3>6 DEF RowWritten
  <2> QED BY <2>1, <2>2 DEF Flag, Kill, RegisterPid, CancelTask, Recover
<1>6. ViewWritten(r) BY <1>4 DEF ViewWritten
<1>7. task'[r] = task[r] \/ task'[r] \notin Good \cup {"NONE"}
  BY <1>1 DEF TypeOK, Good, Flag, Kill, RegisterPid, CancelTask, Recover
<1>8. job'[r] = job[r] \/ job'[r] = "FAILED"
  BY <1>1 DEF TypeOK, Flag, Kill, RegisterPid, CancelTask, Recover
<1> QED BY <1>1, <1>2, <1>4, <1>5, <1>6, <1>7, <1>8, Steady DEF Moved

\* A listing closes the run with the status that its task had.
LEMMA ListCloseOutcome ==
  ASSUME WorkInv, NEW r \in Runs, OutcomeOf(r), ListingFits(r), ListClose(r)
  PROVE  OutcomeOf(r)'
<1>1. TypeOK /\ SeenInRow(r) /\ run[r] \in Row BY OfRun DEF OutcomeOf
<1>2. UNCHANGED <<task, exec, item, engine, job>> BY DEF ListClose
<1>3. PICK row \in Row, seen \in Row, new \in Row :
        row = run[r] /\ seen = lister.seen /\ new = lister.new
  BY <1>1 DEF TypeOK
<1>4. /\ seen.cancel => row.cancel /\ new.cancel
      /\ task[r] # "NONE"
      /\ Backed(r, row) /\ Backed(r, new)
      /\ seen.failed > 0 => new.failed > 0
      /\ new.status \in FinalStatuses /\ Fits(r, new.status)
      /\ new.status = "CANCELLED" => new.cancel
      /\ Open(r) => new.status \notin Good
  BY <1>1, <1>3 DEF ListingFits, ListClose, SeenInRow
<1>5. PICK m \in Row : m = Merged(row, seen, new)
  BY <1>4, OldWritten
<1>6. /\ row.cancel => m.cancel
      /\ row.failed > 0 => m.failed > 0
      /\ Backed(r, m)
      /\ CountedBy(r, new, seen) => CountedBy(r, m, row)
      /\ new.cancel => m.cancel
      /\ m.status = IF new.status = seen.status THEN row.status ELSE new.status
  BY <1>4, <1>5, OldWritten
<1>7. run'[r] = m BY <1>1, <1>3, <1>5 DEF ListClose, TypeOK
<1>8. /\ r \in outdated => r \in outdated'
      /\ CountedBy(r, new, seen) \/ r \in outdated'
  <2> HIDE DEF Number
  <2> QED BY <1>3 DEF ListClose, Miscounted, CountedBy
<1>9. RowWritten(r)
  <2>1. m.status = "CANCELLED" => m.cancel
    BY <1>1, <1>3, <1>4, <1>6 DEF SeenInRow
  <2> HIDE DEF CountedBy, Backed
  <2> QED BY <1>3, <1>4, <1>6, <1>7, <1>8, <2>1 DEF RowWritten
<1>10. \/ run'[r].status = run[r].status \/ run'[r].status \notin Good
       \/ Fits(r, run'[r].status) /\ ~Open(r)
  <2> HIDE DEF Fits, Open
  <2> QED BY <1>3, <1>4, <1>6, <1>7
<1>11. ViewWritten(r) BY <1>2 DEF ViewWritten
<1>12. Moved(r) BY <1>2 DEF Moved
<1> QED BY <1>1, <1>2, <1>8, <1>9, <1>10, <1>11, <1>12, Steady

\* Before, it only reads.
LEMMA ListReadOutcome ==
  ASSUME WorkInv, NEW r \in Runs, OutcomeOf(r), ListLoad(r) \/ ListTask(r) \/ ListCount(r)
  PROVE  OutcomeOf(r)'
<1>1. TypeOK /\ SeenInRow(r) BY OfRun DEF OutcomeOf
<1>2. UNCHANGED <<run, task, exec, item, engine, job, outdated>>
  BY DEF ListLoad, ListTask, ListCount, Controllers, history
<1>3. RowWritten(r) BY <1>1, <1>2, RowUntouched
<1>4. ViewWritten(r) BY <1>2 DEF ViewWritten
<1>5. Moved(r) BY <1>2 DEF Moved
<1> QED BY <1>1, <1>2, <1>3, <1>4, <1>5, Steady

LEMMA ClaimOutcome ==
  ASSUME WorkInv, NEW r \in Runs, OutcomeOf(r), Claim(r) PROVE OutcomeOf(r)'
<1> USE DEF Outside, history
<1>1. TypeOK /\ SeenInRow(r) BY OfRun DEF OutcomeOf
<1>2. UNCHANGED <<run, item, task, engine, lister, outdated>> /\ job[r] = "READY" /\ job'[r] = "RUNNING"
  BY <1>1 DEF Claim, TypeOK
<1>3. exec'[r].at = "claimed" /\ exec'[r].k = 1 /\ exec'[r].view = run[r]
  <2>1. PICK c \in Coroutine, w \in Row : c = Idle /\ c.k = 1 /\ w = run[r]
    BY <1>1, IdleType DEF Idle, TypeOK
  <2> DEFINE e == [c EXCEPT !.at = "claimed", !.view = w]
  <2>2. e.at = "claimed" /\ e.k = 1 /\ e.view = w BY <2>1 DEF Coroutine
  <2>3. exec' = [exec EXCEPT ![r] = e] BY <2>1 DEF Claim
  <2> HIDE DEF e
  <2> QED BY <1>1, <2>1, <2>2, <2>3 DEF TypeOK
<1>4. RowWritten(r) BY <1>1, <1>2, RowUntouched
<1>5. ViewWritten(r) BY <1>1, <1>2, <1>3 DEF ViewWritten, SeenInRow
<1> QED BY <1>1, <1>2, <1>3, <1>4, <1>5, Steady DEF Moved, Early

\* The steps that only take the controller to its next place, and its task to a
\* status that claims nothing of the items.
LEMMA GotoOutcome ==
  ASSUME WorkInv, NEW r \in Runs, OutcomeOf(r),
         StartTask(r) \/ Acquire(r) \/ FailTask(r)
  PROVE  OutcomeOf(r)'
<1> USE DEF Quietly, Outside, history
<1>1. TypeOK /\ SeenInRow(r) BY OfRun DEF OutcomeOf
<1>2. UNCHANGED <<run, item, engine, lister, outdated, job>> BY DEF StartTask, Acquire, FailTask
<1>3. PICK place \in {"starting", "looping", "settling"} :
        /\ Goto(r, place)
        /\ place # "settling" => exec[r].at \in Early
        /\ exec[r].at # "idle"
  BY DEF StartTask, Acquire, FailTask, Early
<1>4. exec'[r].at = place /\ exec'[r].k = exec[r].k /\ exec'[r].view = exec[r].view
  BY <1>1, <1>3, GotoStep DEF Places, Inside
<1>5. RowWritten(r) BY <1>1, <1>2, RowUntouched
<1>6. ViewWritten(r) BY <1>3, <1>4 DEF ViewWritten
<1>7. task'[r] = task[r] \/ task'[r] \notin Good \cup {"NONE"}
  BY <1>1 DEF TypeOK, Good, StartTask, Acquire, FailTask
<1>8. Moved(r) BY <1>3, <1>4 DEF Moved, Early, Inside
<1> QED BY <1>1, <1>2, <1>5, <1>6, <1>7, <1>8, Steady

LEMMA LoseConnectionOutcome ==
  ASSUME WorkInv, NEW r \in Runs, OutcomeOf(r), LoseConnection(r) PROVE OutcomeOf(r)'
<1>1. TypeOK /\ SeenInRow(r) BY OfRun DEF OutcomeOf
<1>2. UNCHANGED <<run, item, engine, lister, outdated, job, task>> BY DEF LoseConnection
<1>3. exec[r].at # "idle" BY DEF LoseConnection, Inside
<1>4. exec' = exec \/ Goto(r, "raised") BY DEF LoseConnection
<1>5. exec'[r].view = exec[r].view /\ (exec' = exec \/ exec'[r].at = "raised")
  BY <1>1, <1>4, GotoStep DEF Places
<1>6. RowWritten(r) BY <1>1, <1>2, RowUntouched
<1>7. ViewWritten(r) BY <1>3, <1>5 DEF ViewWritten
<1>8. Moved(r) BY <1>3, <1>5 DEF Moved
<1> QED BY <1>1, <1>2, <1>6, <1>7, <1>8, Steady

LEMMA SettleOutcome ==
  ASSUME WorkInv, NEW r \in Runs, OutcomeOf(r), Settle(r) \/ Crash(r)
  PROVE  OutcomeOf(r)'
<1> USE DEF Outside, history
<1>1. TypeOK /\ SeenInRow(r) BY OfRun DEF OutcomeOf
<1>2. UNCHANGED <<run, item, engine, lister, outdated>> /\ exec[r].at # "idle"
  BY DEF Settle, Crash
<1>3. exec'[r].at = "idle" BY <1>1, ToIdle DEF Settle, Crash
<1>4. RowWritten(r) BY <1>1, <1>2, RowUntouched
<1>5. ViewWritten(r) BY <1>3 DEF ViewWritten
<1>6. task'[r] = task[r] \/ task'[r] \notin Good \cup {"NONE"}
  BY <1>1 DEF TypeOK, Good, Settle, Crash
<1>7. job'[r] = job[r] \/ job'[r] = "FAILED" BY <1>1 DEF TypeOK, Settle, Crash
<1> QED BY <1>1, <1>2, <1>3, <1>4, <1>5, <1>6, <1>7, Steady DEF Moved

LEMMA LoadFailedOutcome ==
  ASSUME WorkInv, NEW r \in Runs, OutcomeOf(r), LoadFailed(r) PROVE OutcomeOf(r)'
<1> USE DEF Quietly, Outside, history
<1>1. TypeOK /\ SeenInRow(r) BY OfRun DEF OutcomeOf
<1>2. UNCHANGED <<run, item, task, engine, lister, outdated, job>> /\ exec[r].at = "raised"
  BY DEF LoadFailed
<1>3. exec'[r].at \in {"failed", "excusing"} /\ exec'[r].view = run[r]
  <2>1. PICK c \in Coroutine, w \in Row, p \in {"failed", "excusing"} :
          /\ c = exec[r] /\ w = run[r]
          /\ p = IF run[r].status \in FinalStatuses THEN "failed" ELSE "excusing"
    BY <1>1 DEF TypeOK
  <2> DEFINE e == [c EXCEPT !.view = w, !.at = p]
  <2>2. e.at = p /\ e.view = w BY DEF Coroutine
  <2>3. exec' = [exec EXCEPT ![r] = e] BY <2>1 DEF LoadFailed
  <2> HIDE DEF e
  <2> QED BY <1>1, <2>1, <2>2, <2>3 DEF TypeOK
<1>4. RowWritten(r) BY <1>1, <1>2, RowUntouched
<1>5. ViewWritten(r) BY <1>1, <1>2, <1>3 DEF ViewWritten, SeenInRow
<1> QED BY <1>1, <1>2, <1>3, <1>4, <1>5, Steady DEF Moved

\* A commit that sets the status to s and counts the items.
LEMMA Closing ==
  ASSUME WorkInv, NEW r \in Runs, OutcomeOf(r), NEW place \in Places, exec[r].at # "idle",
         NEW s \in Statuses, s # "CANCELLED" \/ exec[r].view.cancel,
         Commit(r, Counted(r, [exec[r].view EXCEPT !.status = s]), place)
  PROVE  /\ exec'[r].at = place /\ exec'[r].k = exec[r].k
         /\ exec'[r].view = Counted(r, [exec[r].view EXCEPT !.status = s])
         /\ exec'[r].view.status = s
         /\ RowWritten(r) /\ ViewWritten(r)
         /\ run'[r].status = IF s = exec[r].view.status THEN run[r].status ELSE s
         /\ run'[r].completed = IF exec[r].view.completed = Number(r, "COMPLETED")
                                THEN run[r].completed ELSE Number(r, "COMPLETED")
         /\ run'[r].failed = IF exec[r].view.failed = Number(r, "FAILED")
                             THEN run[r].failed ELSE Number(r, "FAILED")
<1>1. /\ TypeOK /\ SeenInRow(r) /\ task[r] # "NONE"
  BY OfRun DEF OutcomeOf
<1>2. PICK v \in Row : v = exec[r].view BY <1>1 DEF TypeOK, Coroutine
<1> DEFINE w == [v EXCEPT !.status = s]
<1>3. w \in Row /\ w.cancel = v.cancel /\ w.status = s BY DEF Row
<1> HIDE DEF w
<1>4. PICK n \in Row : n = Counted(r, w) /\ n.cancel = v.cancel /\ n.status = s
                       /\ CountedBy(r, n, v)
                       /\ n.completed = Number(r, "COMPLETED")
                       /\ n.failed = Number(r, "FAILED")
  <2>1. Counted(r, w).completed = Number(r, "COMPLETED")
        /\ Counted(r, w).failed = Number(r, "FAILED")
    BY <1>3 DEF Counted, Row
  <2> QED BY <1>3, <2>1, CountedRow, CountedWrite
<1>5. Commit(r, n, place) /\ n = Counted(r, [exec[r].view EXCEPT !.status = s])
  BY <1>2, <1>4 DEF w
<1>6. /\ exec'[r].at = place /\ exec'[r].k = exec[r].k /\ exec'[r].view = n
      /\ run'[r] = Merged(run[r], exec[r].view, n)
  BY <1>1, <1>2, <1>4, <1>5, CommitStep
<1>7. /\ n.cancel \/ n.cancel = exec[r].view.cancel
      /\ CountedBy(r, n, exec[r].view)
      /\ n.status = "CANCELLED" => n.cancel
  BY <1>2, <1>4
<1>8. /\ RowWritten(r) /\ ViewWritten(r)
      /\ run'[r].status = IF n.status = exec[r].view.status
                          THEN run[r].status ELSE n.status
  BY <1>1, <1>4, <1>6, <1>7, Committing
<1>9. /\ run'[r].completed = IF n.completed = exec[r].view.completed
                             THEN run[r].completed ELSE n.completed
      /\ run'[r].failed = IF n.failed = exec[r].view.failed
                          THEN run[r].failed ELSE n.failed
  BY <1>6 DEF Merged
<1> HIDE DEF Number
<1> QED BY <1>4, <1>5, <1>6, <1>8, <1>9

LEMMA StartRunOutcome ==
  ASSUME WorkInv, NEW r \in Runs, OutcomeOf(r), StartRun(r) PROVE OutcomeOf(r)'
<1> USE DEF Quietly, Outside, history
<1>1. TypeOK BY OfRun
<1>2. UNCHANGED <<item, task, engine, lister, outdated, job>> /\ exec[r].at = "starting"
      /\ Commit(r, Counted(r, [exec[r].view EXCEPT !.status = "RUNNING"]), "waiting")
  BY DEF StartRun
<1>3. /\ exec'[r].at = "waiting" /\ exec'[r].k = exec[r].k
      /\ RowWritten(r) /\ ViewWritten(r)
      /\ run'[r].status \in {run[r].status, "RUNNING"}
  BY <1>2, Closing DEF Places, Statuses
<1> QED BY <1>1, <1>2, <1>3, Steady DEF Moved, Early, Good

LEMMA ExcuseOutcome ==
  ASSUME WorkInv, NEW r \in Runs, OutcomeOf(r), Excuse(r) PROVE OutcomeOf(r)'
<1> USE DEF Quietly, Outside, history
<1>1. TypeOK BY OfRun
<1>2. UNCHANGED <<item, task, engine, lister, outdated, job>> /\ exec[r].at = "excusing"
      /\ Commit(r, Counted(r, [exec[r].view EXCEPT !.status = "FAILED"]), "failed")
  BY DEF Excuse
<1>3. /\ exec'[r].at = "failed" /\ RowWritten(r) /\ ViewWritten(r)
      /\ run'[r].status \in {run[r].status, "FAILED"}
  <2>1. "failed" \in Places /\ "FAILED" \in Statuses /\ exec[r].at # "idle"
    BY <1>2 DEF Places, Statuses, FinalStatuses
  <2>2. "FAILED" # "CANCELLED" OBVIOUS
  <2> HIDE DEF Quietly, Outside, history
  <2> QED BY <1>2, <2>1, <2>2, Closing
<1> QED BY <1>1, <1>2, <1>3, Steady DEF Moved, Good

LEMMA CheckOutcome ==
  ASSUME WorkInv, NEW r \in Runs, OutcomeOf(r), Check(r) PROVE OutcomeOf(r)'
<1> USE DEF Quietly, Outside, history
<1>1. TypeOK /\ SeenInRow(r) BY OfRun DEF OutcomeOf
<1>2. UNCHANGED <<item, task, engine, lister, outdated, job>> /\ exec[r].at = "looping" BY DEF Check
<1>3. PICK p \in {"leaving", "checked"} : p = IF Cancelled(r) THEN "leaving" ELSE "checked"
  OBVIOUS
<1>4. /\ exec'[r].at = p /\ exec'[r].k = exec[r].k
      /\ exec'[r].view = Refreshed(r) /\ run'[r] = Refreshed(r)
  BY <1>1, <1>3, RefreshStep DEF Check, Places, Inside
<1>5. /\ RowWritten(r) /\ ViewWritten(r) /\ run'[r].status = run[r].status
      /\ run'[r].cancel = Cancelled(r)
  BY <1>1, <1>4, Refreshing
<1>6. Moved(r) BY <1>2, <1>3, <1>4, <1>5 DEF Moved, Inside
<1> QED BY <1>1, <1>2, <1>5, <1>6, Steady

LEMMA ItemRaisesOutcome ==
  ASSUME WorkInv, NEW r \in Runs, OutcomeOf(r), ItemRaises(r) PROVE OutcomeOf(r)'
<1> USE DEF Quietly, Outside, history
<1>1. TypeOK /\ SeenInRow(r) BY OfRun DEF OutcomeOf
<1>2. UNCHANGED <<item, task, engine, lister, outdated, job>> /\ exec[r].at = "executing"
  BY DEF ItemRaises
<1>3. PICK p \in {"cancelling", "failing"}, c \in Coroutine, v \in Row :
        /\ p = IF Cancelled(r) THEN "cancelling" ELSE "failing"
        /\ c = exec[r] /\ v = Refreshed(r)
  BY <1>1, RefreshedRow DEF TypeOK
<1> DEFINE e == [c EXCEPT !.at = p, !.view = v, !.pid = FALSE, !.killed = FALSE]
<1>4. e.at = p /\ e.k = c.k /\ e.view = v BY DEF Coroutine
<1>5. exec' = [exec EXCEPT ![r] = e] /\ run' = [run EXCEPT ![r] = v]
  BY <1>3 DEF ItemRaises
<1> HIDE DEF e
<1>6. /\ exec'[r].at = p /\ exec'[r].k = exec[r].k
      /\ exec'[r].view = Refreshed(r) /\ run'[r] = Refreshed(r)
  BY <1>1, <1>3, <1>4, <1>5 DEF TypeOK
<1>7. /\ RowWritten(r) /\ ViewWritten(r) /\ run'[r].status = run[r].status
  BY <1>1, <1>6, Refreshing
<1>8. Moved(r) BY <1>2, <1>3, <1>6 DEF Moved, Inside
<1> QED BY <1>1, <1>2, <1>7, <1>8, Steady

LEMMA CreateOutcome ==
  ASSUME WorkInv, NEW r \in Runs, OutcomeOf(r), Create(r) PROVE OutcomeOf(r)'
<1> USE DEF Outside, history
<1>1. TypeOK /\ SeenInRow(r) BY OfRun DEF OutcomeOf
<1>2. UNCHANGED <<item, exec, engine, lister, outdated>> /\ task[r] = "NONE" /\ exec[r].at = "idle"
  BY OfRun DEF Create
<1>3. PICK w \in Row : /\ w = NewRow("PENDING") /\ w.status = "PENDING" /\ ~w.cancel
                       /\ w.completed = 0 /\ w.failed = 0
  <2>1. NewRow("PENDING") \in Row BY DEF NewRow, Row, Statuses
  <2>2. /\ NewRow("PENDING").status = "PENDING" /\ NewRow("PENDING").cancel = FALSE
        /\ NewRow("PENDING").completed = 0 /\ NewRow("PENDING").failed = 0
    BY DEF NewRow
  <2> QED BY <2>1, <2>2
<1>4. run'[r] = w /\ task'[r] = "PENDING" /\ job'[r] = "READY"
  BY <1>1, <1>3 DEF Create, TypeOK
<1>5. SeenInRow(r)'
  BY <1>1, <1>2, <1>3, <1>4 DEF SeenInRow, Backed
<1>6. StatusFits(r)'
  BY <1>2, <1>3, <1>4 DEF StatusFits, Fits, Good
<1>7. ItemsCounted(r)' /\ CountersSettle(r)'
  BY <1>2, <1>4 DEF ItemsCounted, CountersSettle, Early, Inside
<1> QED BY <1>5, <1>6, <1>7 DEF OutcomeOf

-----------------------------------------------------------------------------
(* The outcome: the items                                                  *)

\* A step of the loop that gives the item at hand the status s.
LEMMA ItemOutcome ==
  ASSUME WorkInv, NEW r \in Runs, OutcomeOf(r), NEW s \in ItemStatuses, ItemStep(r, s),
         exec[r].at \in {"checked"} \cup Engaged, exec'[r].at \in Inside,
         RowWritten(r), ViewWritten(r), run'[r].status = run[r].status \/ run'[r].status \notin Good,
         exec'[r].at = "leaving" => run'[r].cancel,
         \/ exec'[r].k = exec[r].k
         \/ exec'[r].k = exec[r].k + 1 /\ exec'[r].view.failed = Number(r, "FAILED"),
         UNCHANGED <<task, job, engine, lister, outdated>>
  PROVE  OutcomeOf(r)'
<1>1. TypeOK /\ Local(r) BY OfRun
<1>2. SeenInRow(r) /\ StatusFits(r) /\ ItemsCounted(r) /\ CountersSettle(r) BY DEF OutcomeOf
<1>3. /\ exec[r].k \in ItemsOf(r) /\ exec[r].k \in Nat /\ exec[r].k > 0
      /\ item[r][exec[r].k] \in {"PENDING", "RUNNING"}
  BY <1>1, ItemNumbers DEF Local
<1>4. \A i \in ItemsOf(r) : i # exec[r].k => item'[r][i] = item[r][i]
  BY <1>1, <1>3, ItemType
<1>5. Grown(r)
  BY <1>3, <1>4 DEF Grown, Having, ItemsOf
<1>6. SeenInRow(r)' BY <1>1, <1>2, <1>5, SeenKeeps
<1>7. StatusFits(r)'
  <2>1. exec[r].at \in Unjudged /\ exec'[r].at # "reporting"
    BY DEF Unjudged, Engaged, Inside
  <2> QED BY <1>2, <2>1, StatusKeeps
<1>8. ItemsCounted(r)'
  <2>1. /\ exec'[r].at \notin {"publishing", "closing", "finalizing", "idle"}
        /\ exec[r].at \in Early \cup Inside
    BY DEF Inside, Engaged
  <2>2. exec'[r].k > 0 BY <1>3
  <2>3. ASSUME NEW i \in ItemsOf(r), i < exec'[r].k - 1, item'[r][i] = "FAILED"
        PROVE  run'[r].failed > 0
    <3>1. i \in Nat /\ i # exec[r].k BY <1>3, <2>3, ItemNumbers
    <3>2. item[r][i] = "FAILED" BY <1>4, <2>3, <3>1
    <3>3. CASE exec'[r].k = exec[r].k
      BY <1>2, <2>1, <2>3, <3>2, <3>3 DEF ItemsCounted, RowWritten
    <3>4. CASE exec'[r].view.failed = Number(r, "FAILED")
      <4>1. Number(r, "FAILED") > 0 BY <3>2, NumberPositive DEF Having
      <4> QED BY <1>6, <2>1, <3>4, <4>1 DEF SeenInRow
    <3> QED BY <3>3, <3>4
  <2> QED BY <2>1, <2>2, <2>3 DEF ItemsCounted, ItemsOf
<1>9. CountersSettle(r)'
  <2>1. exec'[r].at \notin {"finalizing", "reporting", "returned"} /\ exec[r].at # "idle"
    BY DEF Inside, Engaged
  <2> QED BY <1>2, <2>1 DEF CountersSettle
<1> QED BY <1>6, <1>7, <1>8, <1>9 DEF OutcomeOf

LEMMA BeginOutcome ==
  ASSUME WorkInv, NEW r \in Runs, OutcomeOf(r), Begin(r) PROVE OutcomeOf(r)'
<1> USE DEF Outside, history
<1>1. TypeOK /\ SeenInRow(r) BY OfRun DEF OutcomeOf
<1>2. UNCHANGED <<task, job, engine, lister, outdated>> /\ exec[r].at = "checked" /\ ItemStep(r, "RUNNING")
  BY DEF Begin, ItemStep
<1>3. PICK c \in Coroutine, v \in Row : c = exec[r] /\ v = c.view
  BY <1>1 DEF TypeOK, Coroutine
<1> DEFINE n == [v EXCEPT !.status = "RUNNING"]
           e == [c EXCEPT !.at = "executing", !.view = n]
<1>4. /\ n \in Row /\ n.cancel = v.cancel /\ n.status = "RUNNING"
      /\ n.completed = v.completed /\ n.failed = v.failed
  BY DEF Row, Statuses
<1>5. e.at = "executing" /\ e.view = n /\ e.k = c.k BY DEF Coroutine
<1>6. exec' = [exec EXCEPT ![r] = e] /\ run' = [run EXCEPT ![r] = Merged(@, v, n)]
  BY <1>3 DEF Begin
<1> HIDE DEF n, e
<1>7. /\ exec'[r].at = "executing" /\ exec'[r].view = n /\ exec'[r].k = exec[r].k
      /\ run'[r] = Merged(run[r], exec[r].view, n)
  BY <1>1, <1>3, <1>5, <1>6 DEF TypeOK
<1>8. /\ task[r] # "NONE" /\ exec[r].at # "idle"
      /\ n.cancel \/ n.cancel = exec[r].view.cancel
      /\ CountedBy(r, n, exec[r].view)
      /\ n.status = "CANCELLED" => n.cancel
  BY <1>2, <1>3, <1>4, OfRun DEF CountedBy
<1>9. RowWritten(r) /\ ViewWritten(r) /\ run'[r].status \in {run[r].status, "RUNNING"}
  BY <1>1, <1>4, <1>7, <1>8, Committing
<1> QED BY <1>2, <1>7, <1>9, ItemOutcome DEF ItemStatuses, Inside, Good

\* The two ends of an item after which the next one is taken.
LEMMA EndOutcome ==
  ASSUME WorkInv, NEW r \in Runs, OutcomeOf(r), ItemDone(r) \/ FailItem(r)
  PROVE  OutcomeOf(r)'
<1> USE DEF Quietly, Outside, history
<1>1. TypeOK /\ SeenInRow(r) BY OfRun DEF OutcomeOf
<1>2. PICK s \in {"COMPLETED", "FAILED"} : ItemStep(r, s)
  BY DEF ItemDone, FailItem, ItemStep
<1>3. UNCHANGED <<task, job, engine, lister, outdated>> /\ exec[r].at \in Engaged
  BY DEF ItemDone, FailItem, Engaged
<1>4. PICK c \in Coroutine, v \in Row : c = exec[r] /\ v = c.view
  BY <1>1 DEF TypeOK, Coroutine
<1>5. PICK n \in Row : n = Counted(r, v) /\ n.cancel = v.cancel /\ n.status = v.status
                       /\ CountedBy(r, n, v) /\ n.failed = Number(r, "FAILED")
  <2>1. Counted(r, v).failed = Number(r, "FAILED") BY DEF Counted, Row
  <2> QED BY <2>1, CountedRow, CountedWrite
<1> DEFINE d == [c EXCEPT !.at = "looping", !.view = n, !.k = c.k + 1, !.some = TRUE,
                          !.pid = FALSE]
           e == [c EXCEPT !.at = "looping", !.view = n, !.k = c.k + 1]
<1>6. /\ d.at = "looping" /\ d.view = n /\ d.k = c.k + 1
      /\ e.at = "looping" /\ e.view = n /\ e.k = c.k + 1
  BY DEF Coroutine
<1>7. exec' = [exec EXCEPT ![r] = d] \/ exec' = [exec EXCEPT ![r] = e]
  BY <1>4, <1>5 DEF ItemDone, FailItem
<1>8. run' = [run EXCEPT ![r] = Merged(@, v, n)]
  BY <1>4, <1>5 DEF ItemDone, FailItem
<1> HIDE DEF d, e
<1>9. /\ exec'[r].at = "looping" /\ exec'[r].view = n /\ exec'[r].k = exec[r].k + 1
      /\ run'[r] = Merged(run[r], exec[r].view, n)
  BY <1>1, <1>4, <1>6, <1>7, <1>8 DEF TypeOK
<1>10. /\ task[r] # "NONE" /\ exec[r].at # "idle"
       /\ n.cancel = exec[r].view.cancel
       /\ CountedBy(r, n, exec[r].view)
       /\ n.status = exec[r].view.status
  BY <1>3, <1>4, <1>5, OfRun DEF Engaged
<1>11. RowWritten(r) /\ ViewWritten(r) /\ run'[r].status = run[r].status
  BY <1>1, <1>5, <1>9, <1>10, Committing
<1> QED BY <1>2, <1>3, <1>5, <1>9, <1>11, ItemOutcome DEF ItemStatuses, ItemTerminal, Inside

LEMMA CancelItemOutcome ==
  ASSUME WorkInv, NEW r \in Runs, OutcomeOf(r), CancelItem(r) PROVE OutcomeOf(r)'
<1> USE DEF Quietly, Outside, history
<1>1. TypeOK /\ SeenInRow(r) BY OfRun DEF OutcomeOf
<1>2. UNCHANGED <<task, job, engine, lister, outdated>> /\ exec[r].at = "cancelling"
      /\ ItemStep(r, "CANCELLED")
  BY DEF CancelItem, ItemStep
<1>3. PICK v \in Row : v = exec[r].view BY <1>1 DEF TypeOK, Coroutine
<1> DEFINE w == [v EXCEPT !.status = "CANCELLED", !.cancel = TRUE]
<1>4. w \in Row /\ w.status = "CANCELLED" /\ w.cancel
  BY DEF Row, Statuses, FinalStatuses
<1> HIDE DEF w
<1>5. PICK n \in Row : n = Counted(r, w) /\ n.cancel /\ n.status = "CANCELLED"
                       /\ CountedBy(r, n, v)
  BY <1>4, CountedRow, CountedWrite
<1>6. Commit(r, n, "leaving") BY <1>3, <1>5 DEF CancelItem, w
<1>7. /\ exec'[r].at = "leaving" /\ exec'[r].view = n /\ exec'[r].k = exec[r].k
      /\ run'[r] = Merged(run[r], exec[r].view, n)
  BY <1>1, <1>5, <1>6, CommitStep DEF Places, Inside
<1>8. task[r] # "NONE" /\ exec[r].at # "idle" /\ CountedBy(r, n, exec[r].view)
  BY <1>2, <1>3, <1>5, OfRun
<1>9. /\ RowWritten(r) /\ ViewWritten(r) /\ run'[r].status \in {run[r].status, "CANCELLED"}
      /\ run'[r].cancel
  BY <1>1, <1>5, <1>7, <1>8, Committing
<1> QED BY <1>2, <1>7, <1>9, ItemOutcome
        DEF ItemStatuses, ItemTerminal, Inside, Engaged, Good

-----------------------------------------------------------------------------
(* The outcome: the end of the run                                         *)

\* A step past the items that leaves the row alone; what the run is judged by,
\* and its counters, have to be looked at.
LEMMA Onward ==
  ASSUME WorkInv, NEW r \in Runs, OutcomeOf(r), run'[r] = run[r],
         UNCHANGED <<item, engine, lister, outdated>>, exec[r].at # "idle",
         exec'[r].at = "idle" \/ exec'[r].view = exec[r].view,
         exec'[r].at \notin {"leaving", "reporting"},
         exec'[r].at \in Unjudged => exec[r].at \in Unjudged,
         task'[r] = task[r] \/ task'[r] \notin Good \cup {"NONE"},
         job'[r] \notin {"NONE", "READY"},
         ItemsCounted(r)', CountersSettle(r)'
  PROVE  OutcomeOf(r)'
<1>1. TypeOK /\ SeenInRow(r) /\ StatusFits(r) BY OfRun DEF OutcomeOf
<1>2. RowWritten(r) BY <1>1, RowUntouched
<1>3. ViewWritten(r) BY DEF ViewWritten
<1>4. Grown(r) BY SameItems DEF Grown
<1>5. SeenInRow(r)' BY <1>1, <1>2, <1>3, <1>4, SeenKeeps
<1>6. StatusFits(r)' BY <1>1, StatusKeeps
<1> QED BY <1>5, <1>6 DEF OutcomeOf

\* The loop is left because of a cancellation that is in the row, or because all
\* items are done; only the failure of the last one may not be in the counter.
LEMMA LoopDone ==
  ASSUME WorkInv, NEW r \in Runs, OutcomeOf(r), Done(r)
  PROVE  run[r].cancel \/ Finished(r, run[r].failed)
<1>1. CASE exec[r].at = "leaving" BY <1>1 DEF OutcomeOf, SeenInRow
<1>2. CASE exec[r].at = "looping" /\ exec[r].k \notin ItemsOf(r)
  <2>1. TypeOK /\ Local(r) BY OfRun
  <2>2. exec[r].at \in Inside BY <1>2 DEF Inside
  <2>3. exec[r].k > 0 /\ exec[r].k \in Nat
    BY <2>1, <2>2 DEF OutcomeOf, ItemsCounted, TypeOK, Coroutine
  <2>4. exec[r].k > Size[r] /\ Size[r] \in Nat
    BY <1>2, <2>3, RunsAssumption DEF ItemsOf
  <2>5. \A i \in ItemsOf(r) :
          i \in Nat /\ i < exec[r].k /\ (i < Size[r] => i < exec[r].k - 1)
    BY <2>3, <2>4 DEF ItemsOf
  <2> QED BY <2>1, <2>2, <2>5 DEF Local, Finished, OutcomeOf, ItemsCounted
<1> QED BY <1>1, <1>2 DEF Done

LEMMA ReleaseOutcome ==
  ASSUME WorkInv, NEW r \in Runs, OutcomeOf(r), Release(r) PROVE OutcomeOf(r)'
<1> USE DEF Quietly, Outside, history
<1>1. TypeOK /\ Done(r) BY OfRun DEF Release
<1>2. UNCHANGED <<run, item, task, job, engine, lister, outdated>> BY DEF Release
<1>3. PICK p \in {"raised", "publishing", "closing"} : Goto(r, p) BY DEF Release
<1>4. exec'[r].at = p /\ exec'[r].view = exec[r].view
  BY <1>1, <1>3, GotoStep DEF Places
<1>5. exec[r].at \in Unjudged /\ exec[r].at # "idle"
  BY <1>1 DEF Done, Unjudged, Inside
<1>6. job[r] \notin {"NONE", "READY"} BY <1>5, OfRun
<1>7. ItemsCounted(r)'
  <2>1. run[r].cancel \/ Finished(r, run[r].failed) BY <1>1, LoopDone
  <2>2. run'[r].cancel \/ Finished(r, run[r].failed)'
    BY <1>2, <2>1 DEF Finished, ItemsOf
  <2> QED BY <1>4, <2>2 DEF ItemsCounted, Early, Inside
<1>8. CountersSettle(r)'
  BY <1>2, <1>4, <1>5 DEF CountersSettle, OutcomeOf
<1> QED BY <1>2, <1>4, <1>5, <1>6, <1>7, <1>8, Onward

LEMMA PublishOutcome ==
  ASSUME WorkInv, NEW r \in Runs, OutcomeOf(r), Publish(r) \/ PublishFails(r)
  PROVE  OutcomeOf(r)'
<1> USE DEF Quietly, Outside, history
<1>1. TypeOK BY OfRun
<1>2. UNCHANGED <<run, item, task, job, engine, lister, outdated>> /\ exec[r].at = "publishing"
  BY DEF Publish, PublishFails
<1>3. exec'[r].at \in {"closing", "raised"} /\ exec'[r].view = exec[r].view
  <2>1. PICK c \in Coroutine : c = exec[r] BY <1>1 DEF TypeOK
  <2>2. ASSUME PublishFails(r)
        PROVE  exec'[r].at \in {"closing", "raised"} /\ exec'[r].view = exec[r].view
    <3>1. PICK p \in {"closing", "raised"}, b \in BOOLEAN :
            p = (IF engine = "wsl" THEN "closing" ELSE "raised") /\ b = (engine = "wsl")
      OBVIOUS
    <3> DEFINE e == [c EXCEPT !.at = p, !.error = b]
    <3>2. e.at = p /\ e.view = c.view BY DEF Coroutine
    <3>3. exec' = [exec EXCEPT ![r] = e] BY <2>1, <2>2, <3>1 DEF PublishFails
    <3> HIDE DEF e
    <3> QED BY <1>1, <2>1, <3>1, <3>2, <3>3 DEF TypeOK
  <2>3. ASSUME Publish(r)
        PROVE  exec'[r].at \in {"closing", "raised"} /\ exec'[r].view = exec[r].view
    BY <1>1, <2>3, GotoStep DEF Publish, Places
  <2> QED BY <2>2, <2>3
<1>4. job[r] \notin {"NONE", "READY"} BY <1>2, OfRun
<1>5. ItemsCounted(r)'
  <2>1. run'[r].cancel \/ Finished(r, run[r].failed)'
    BY <1>2 DEF OutcomeOf, ItemsCounted, Finished, ItemsOf
  <2> QED BY <1>3, <2>1 DEF ItemsCounted, Early, Inside
<1>6. CountersSettle(r)'
  BY <1>2, <1>3 DEF CountersSettle, OutcomeOf
<1> QED BY <1>2, <1>3, <1>4, <1>5, <1>6, Onward DEF Unjudged

LEMMA JudgeOutcome ==
  ASSUME WorkInv, NEW r \in Runs, OutcomeOf(r), Judge(r) PROVE OutcomeOf(r)'
<1> USE DEF Quietly, Outside, history
<1>1. TypeOK /\ SeenInRow(r) /\ StatusFits(r) BY OfRun DEF OutcomeOf
<1>2. UNCHANGED <<item, task, job, engine, lister, outdated>> /\ exec[r].at = "closing"
  BY DEF Judge
<1>3. /\ exec'[r].at = "finalizing"
      /\ exec'[r].view = Refreshed(r) /\ run'[r] = Refreshed(r)
  BY <1>1, RefreshStep DEF Judge, Refresh, Places
<1>4. /\ RowWritten(r) /\ ViewWritten(r) /\ run'[r].status = run[r].status
      /\ run'[r].failed = run[r].failed /\ run'[r].completed = run[r].completed
      /\ run'[r].cancel = Cancelled(r)
  BY <1>1, <1>3, Refreshing
<1>5. Grown(r) BY <1>2, SameItems DEF Grown
<1>6. SeenInRow(r)' BY <1>1, <1>2, <1>3, <1>4, <1>5, SeenKeeps
<1>7. StatusFits(r)' BY <1>1, <1>2, <1>3, <1>4, StatusKeeps DEF Unjudged
<1>8. ItemsCounted(r)'
  <2>1. run'[r].cancel \/ Finished(r, run[r].failed)
    BY <1>2, <1>4 DEF OutcomeOf, ItemsCounted, Cancelled
  <2>2. exec'[r].view.cancel = run'[r].cancel /\ exec'[r].view.failed = run[r].failed
    BY <1>3, <1>4
  <2>3. exec'[r].view.cancel \/ Finished(r, exec[r].view.failed)'
    BY <1>2, <2>1, <2>2 DEF Finished, ItemsOf
  <2> QED BY <1>3, <2>3 DEF ItemsCounted, Early, Inside
<1>9. CountersSettle(r)'
  <2>1. job[r] # "COMPLETED" BY <1>2 DEF OutcomeOf, CountersSettle
  <2> QED BY <1>2, <1>3, <2>1 DEF CountersSettle
<1> QED BY <1>6, <1>7, <1>8, <1>9 DEF OutcomeOf

\* The judgement is right, although the ENVI controller only looks at counters.
LEMMA JudgedFits ==
  ASSUME TypeOK, NEW r \in Runs, NEW row \in Row, NEW error,
         Backed(r, row), row.cancel \/ Finished(r, row.failed)
  PROVE  /\ Fits(r, Judged(r, row, error))
         /\ Judged(r, row, error) = "CANCELLED" => row.cancel
<1>1. /\ Number(r, "FAILED") \in Nat /\ (Number(r, "FAILED") > 0 <=> Having(r, "FAILED") # {})
      /\ Number(r, "COMPLETED") \in Nat
      /\ Number(r, "COMPLETED") > 0 <=> Having(r, "COMPLETED") # {}
  BY NumberPositive
<1>2. /\ Counted(r, row).failed = Number(r, "FAILED")
      /\ Counted(r, row).completed = Number(r, "COMPLETED")
  BY DEF Counted, Row
<1>3. row.failed \in Nat /\ row.completed \in Nat BY DEF Row
<1> DEFINE s == Judged(r, row, error)
<1>4. ASSUME s = "COMPLETED"
      PROVE  \A i \in ItemsOf(r) :
               \/ item[r][i] = "COMPLETED"
               \/ item[r][i] = "FAILED" /\ engine = "envi" /\ i = Size[r]
  <2>1. ~row.cancel /\ Finished(r, row.failed)
    BY <1>4 DEF Judged
  <2>2. CASE engine = "wsl"
    <3>1. ~(Number(r, "FAILED") > 0) BY <1>1, <1>2, <1>4, <2>2 DEF Judged
    <3>2. Having(r, "FAILED") = {} BY <1>1, <3>1
    <3> QED BY <2>1, <3>2 DEF Having, Finished
  <2>3. CASE engine = "envi"
    <3>1. ~(row.failed > 0) BY <1>3, <1>4, <2>3 DEF Judged
    <3>2. \A i \in ItemsOf(r) : i < Size[r] \/ i = Size[r]
      BY RunsAssumption DEF ItemsOf
    <3> QED BY <2>1, <2>3, <3>1, <3>2 DEF Finished
  <2> QED BY <2>2, <2>3 DEF TypeOK
<1>5. ASSUME s = "PARTIAL_SUCCESS"
      PROVE  /\ Having(r, "FAILED") # {} /\ Having(r, "COMPLETED") # {}
             /\ \A i \in ItemsOf(r) : item[r][i] \in ItemTerminal
  <2>0. \A i \in ItemsOf(r) : item[r][i] \in ItemTerminal
    BY <1>5 DEF Judged, Finished, ItemTerminal
  <2>1. CASE engine = "wsl"
    BY <1>1, <1>2, <1>5, <2>0, <2>1 DEF Judged
  <2>2. CASE engine = "envi"
    <3>1. row.failed > 0 /\ row.completed > 0 BY <1>5, <2>2 DEF Judged
    <3> QED BY <2>0, <3>1 DEF Backed
  <2> QED BY <2>1, <2>2 DEF TypeOK
<1>6. s = "CANCELLED" => row.cancel BY DEF Judged
<1> HIDE DEF s
<1> QED BY <1>4, <1>5, <1>6 DEF Fits, s

LEMMA FinalizeOutcome ==
  ASSUME WorkInv, NEW r \in Runs, OutcomeOf(r), Finalize(r) PROVE OutcomeOf(r)'
<1> USE DEF Quietly, Outside, history
<1>1. TypeOK /\ SeenInRow(r) /\ StatusFits(r) BY OfRun DEF OutcomeOf
<1>2. UNCHANGED <<item, task, job, engine, lister, outdated>> /\ exec[r].at = "finalizing"
  BY DEF Finalize
<1>3. PICK s \in FinalStatuses : s = Judged(r, exec[r].view, exec[r].error)
  BY DEF Judged, FinalStatuses
<1>4. PICK v \in Row : v = exec[r].view BY <1>1 DEF TypeOK, Coroutine
<1>5. Backed(r, v) /\ (v.cancel \/ Finished(r, v.failed))
  BY <1>1, <1>2, <1>4 DEF SeenInRow, OutcomeOf, ItemsCounted
<1>6. Fits(r, s) /\ (s = "CANCELLED" => exec[r].view.cancel)
  BY <1>1, <1>3, <1>4, <1>5, JudgedFits
<1>7. /\ exec'[r].at = "reporting" /\ exec'[r].view.status = s
      /\ RowWritten(r) /\ ViewWritten(r)
      /\ run'[r].status = IF s = exec[r].view.status THEN run[r].status ELSE s
      /\ run'[r].completed = IF exec[r].view.completed = Number(r, "COMPLETED")
                             THEN run[r].completed ELSE Number(r, "COMPLETED")
      /\ run'[r].failed = IF exec[r].view.failed = Number(r, "FAILED")
                          THEN run[r].failed ELSE Number(r, "FAILED")
  <2>1. s \in Statuses /\ "reporting" \in Places BY DEF Statuses, Places
  <2>2. Commit(r, Counted(r, [exec[r].view EXCEPT !.status = s]), "reporting")
    BY <1>3 DEF Finalize
  <2>3. s # "CANCELLED" \/ exec[r].view.cancel BY <1>6
  <2> QED BY <1>2, <2>1, <2>2, <2>3, Closing
<1>8. \A q : Having(r, q)' = Having(r, q) /\ Number(r, q)' = Number(r, q)
  BY <1>2, SameItems
<1>9. SeenInRow(r)'
  <2>1. Grown(r) BY <1>8 DEF Grown
  <2> QED BY <1>1, <1>2, <1>7, <2>1, SeenKeeps
<1>10. StatusFits(r)'
  <2>1. PICK w : w = run'[r].status OBVIOUS
  <2>2. Fits(r, w) BY <1>1, <1>6, <1>7, <2>1 DEF StatusFits
  <2>3. Fits(r, w)' /\ Fits(r, s)' BY <1>2, <1>6, <1>8, <2>2 DEF Fits, ItemsOf
  <2>4. Fits(r, task[r])' BY <1>1, <1>2, <1>8 DEF StatusFits, Fits, ItemsOf
  <2>5. exec'[r].at \notin Unjudged /\ job'[r] \notin {"NONE", "READY"}
    BY <1>2, <1>7, OfRun DEF Unjudged, Early, Inside
  <2> QED BY <1>7, <2>1, <2>3, <2>4, <2>5 DEF StatusFits, Fits, Open
<1>11. ItemsCounted(r)' BY <1>7 DEF ItemsCounted, Early, Inside
<1>12. CountersSettle(r)'
  <2>1. /\ job[r] # "COMPLETED"
        /\ r \notin outdated =>
             /\ run[r].completed \in {exec[r].view.completed, Number(r, "COMPLETED")}
             /\ run[r].failed \in {exec[r].view.failed, Number(r, "FAILED")}
    BY <1>2 DEF OutcomeOf, CountersSettle
  <2>2. r \notin outdated =>
          /\ run'[r].completed = Number(r, "COMPLETED")
          /\ run'[r].failed = Number(r, "FAILED")
    BY <1>7, <2>1
  <2> HIDE DEF Number
  <2> QED BY <1>2, <1>7, <1>8, <2>1, <2>2 DEF CountersSettle
<1> QED BY <1>9, <1>10, <1>11, <1>12 DEF OutcomeOf

LEMMA ReportOutcome ==
  ASSUME WorkInv, NEW r \in Runs, OutcomeOf(r), Report(r) PROVE OutcomeOf(r)'
<1> USE DEF Quietly, Outside, history
<1>1. TypeOK /\ SeenInRow(r) /\ StatusFits(r) BY OfRun DEF OutcomeOf
<1>2. UNCHANGED <<run, item, job, engine, lister, outdated>> /\ exec[r].at = "reporting"
  BY DEF Report
<1>3. PICK s \in FinalStatuses : s = exec[r].view.status
  BY <1>2, OfRun DEF Local
<1>4. task'[r] = s BY <1>1, <1>3 DEF Report, TypeOK
<1>5. exec'[r].at \in {"raised", "returned"} /\ exec'[r].view = exec[r].view
  <2>1. PICK p \in {"raised", "returned"} : Goto(r, p) BY DEF Report
  <2> QED BY <1>1, <2>1, GotoStep DEF Places
<1>6. \A q : Having(r, q)' = Having(r, q) /\ Number(r, q)' = Number(r, q)
  BY <1>2, SameItems
<1>7. SeenInRow(r)'
  <2>1. Grown(r) BY <1>6 DEF Grown
  <2>2. RowWritten(r) BY <1>1, <1>2, RowUntouched
  <2>3. ViewWritten(r) BY <1>2, <1>5 DEF ViewWritten
  <2>4. task'[r] # "NONE" BY <1>4 DEF FinalStatuses
  <2> QED BY <1>1, <1>2, <1>5, <2>1, <2>2, <2>3, <2>4, SeenKeeps
<1>8. StatusFits(r)'
  <2>1. Fits(r, s) BY <1>1, <1>2, <1>3 DEF StatusFits
  <2>2. Fits(r, s)' BY <1>2, <1>6, <2>1 DEF Fits, ItemsOf
  <2>3. Fits(r, run[r].status)' BY <1>1, <1>2, <1>6 DEF StatusFits, Fits, ItemsOf
  <2>4. exec'[r].at \notin Unjudged /\ job'[r] \notin {"NONE", "READY"}
    BY <1>2, <1>5, OfRun DEF Unjudged, Early, Inside
  <2> QED BY <1>4, <1>5, <2>2, <2>3, <2>4 DEF StatusFits, Fits, Open
<1>9. ItemsCounted(r)' BY <1>5 DEF ItemsCounted, Early, Inside
<1>10. CountersSettle(r)'
  <2> HIDE DEF Number
  <2> QED BY <1>2, <1>5, <1>6 DEF CountersSettle, OutcomeOf
<1> QED BY <1>7, <1>8, <1>9, <1>10 DEF OutcomeOf

LEMMA ReturnOutcome ==
  ASSUME WorkInv, NEW r \in Runs, OutcomeOf(r), Return(r) PROVE OutcomeOf(r)'
<1> USE DEF Outside, history
<1>1. TypeOK BY OfRun
<1>2. UNCHANGED <<run, item, task, engine, lister, outdated>> /\ exec[r].at = "returned"
      /\ job'[r] = "COMPLETED"
  BY <1>1 DEF Return, TypeOK
<1>3. exec'[r].at = "idle" BY <1>1, ToIdle DEF Return
<1>4. ItemsCounted(r)' BY <1>3 DEF ItemsCounted, Early, Inside
<1>5. CountersSettle(r)'
  <2>1. \A q : Number(r, q)' = Number(r, q) BY <1>2, SameItems
  <2> HIDE DEF Number
  <2> QED BY <1>2, <1>3, <2>1 DEF CountersSettle, OutcomeOf
<1> QED BY <1>2, <1>3, <1>4, <1>5, Onward DEF Unjudged, Early, Inside

LEMMA StepOutcome ==
  ASSUME WorkInv, NEW r \in Runs, OutcomeOf(r), ListingFits(r), StepOf(r)
  PROVE  OutcomeOf(r)'
<1>1. CASE Create(r) BY <1>1, CreateOutcome
<1>2. CASE Work(r)
  BY <1>2, ClaimOutcome, GotoOutcome, StartRunOutcome, CheckOutcome, BeginOutcome,
     EndOutcome, ItemRaisesOutcome, CancelItemOutcome, ReleaseOutcome, PublishOutcome,
     JudgeOutcome, FinalizeOutcome, ReportOutcome, ReturnOutcome, LoadFailedOutcome,
     ExcuseOutcome, SettleOutcome
  DEF Work
<1>3. CASE Fault(r)
  BY <1>3, SettleOutcome, BystanderOutcome, LoseConnectionOutcome, PublishOutcome DEF Fault
<1>4. CASE RegisterPid(r) \/ Client(r)
  BY <1>4, BystanderOutcome, ListReadOutcome, ListCloseOutcome DEF Client, List
<1> QED BY <1>1, <1>2, <1>3, <1>4 DEF StepOf

-----------------------------------------------------------------------------
(* The run stays open until it is judged                                   *)

\* The steps that may close a run.
Closes(r) ==
  CancelItem(r) \/ Finalize(r) \/ Excuse(r) \/ (ListClose(r) /\ run'[r].status = lister.new.status)

\* A run that was not created can only be created.
LEMMA OnlyCreate ==
  ASSUME WorkInv, NEW r \in Runs, OutcomeOf(r), Uncreated(r), ListingFits(r), StepOf(r),
         task[r] = "NONE"
  PROVE  Create(r)
<1>1. /\ exec[r].at = "idle" /\ job[r] = "NONE" /\ run[r].status = "NONE"
      /\ lister.of # r /\ admin[r] = ""
  BY OfRun DEF OutcomeOf, SeenInRow, Uncreated, ListingFits, Local
<1>2. ~Work(r)
  BY <1>1 DEF Work, Claim, StartTask, StartRun, Acquire, Check, Begin, ItemDone, ItemRaises,
     FailItem, CancelItem, Release, Done, Publish, Judge, Finalize, Report, Return,
     LoadFailed, Excuse, FailTask, Settle
<1>3. ~RegisterPid(r) /\ ~Fault(r)
  BY <1>1 DEF RegisterPid, Fault, Crash, Recover, LoseConnection, PublishFails, Inside
<1>4. ~Client(r)
  BY <1>1 DEF Client, Flag, Kill, CancelTask, List, ListLoad, ListTask, ListCount, ListClose
<1> QED BY <1>2, <1>3, <1>4 DEF StepOf

\* What a commit of new over seen does to the status and to the flag.
LEMMA MergeStep ==
  ASSUME TypeOK, NEW r \in Runs, NEW seen \in Row, NEW new \in Row,
         new.cancel \/ new.cancel = seen.cancel,
         run'[r] = Merged(run[r], seen, new)
  PROVE  /\ run[r].cancel => run'[r].cancel
         /\ run'[r].status = IF new.status = seen.status THEN run[r].status ELSE new.status
<1>1. PICK row \in Row : row = run[r] BY DEF TypeOK
<1>2. PICK m \in Row : m = Merged(row, seen, new) /\ (row.cancel => m.cancel)
  BY RowKept
<1>3. m.status = IF new.status = seen.status THEN row.status ELSE new.status
  BY <1>2 DEF Merged
<1>4. run'[r] = m BY <1>1, <1>2
<1> QED BY <1>1, <1>2, <1>3, <1>4

\* The same of a commit that counts, for a status s and a flag c.
LEMMA CountedMerge ==
  ASSUME TypeOK, NEW r \in Runs, NEW seen \in Row, NEW s \in Statuses, NEW c \in BOOLEAN,
         c \/ c = seen.cancel,
         run' = [run EXCEPT ![r] =
                   Merged(@, seen, Counted(r, [seen EXCEPT !.status = s, !.cancel = c]))]
  PROVE  /\ run[r].cancel => run'[r].cancel
         /\ run'[r].status \in {run[r].status, s}
<1> DEFINE w == [seen EXCEPT !.status = s, !.cancel = c]
<1>1. w \in Row /\ w.cancel = c /\ w.status = s BY DEF Row
<1> HIDE DEF w
<1>2. PICK n \in Row : n = Counted(r, w) /\ n.cancel = c /\ n.status = s
  BY <1>1, CountedRow
<1>3. run'[r] = Merged(run[r], seen, n) BY <1>2 DEF w, TypeOK
<1>4. n \in Row /\ seen \in Row /\ (n.cancel \/ n.cancel = seen.cancel) BY <1>2
<1>5. /\ run[r].cancel => run'[r].cancel
      /\ run'[r].status = IF n.status = seen.status THEN run[r].status ELSE n.status
  BY <1>3, <1>4, MergeStep, ZenonT(40)
<1> QED BY <1>2, <1>5

\* The steps of a controller that commits a status of its own.
LEMMA StatusStep ==
  ASSUME WorkInv, NEW r \in Runs, OutcomeOf(r),
         StartRun(r) \/ Finalize(r) \/ Excuse(r) \/ CancelItem(r)
  PROVE  /\ run[r].cancel => run'[r].cancel
         /\ \/ run'[r].status = run[r].status
            \/ StartRun(r) /\ run'[r].status = "RUNNING"
            \/ Closes(r) /\ run'[r].status \in FinalStatuses
<1>1. TypeOK BY OfRun
<1>2. PICK v \in Row : v = exec[r].view BY <1>1 DEF TypeOK, Coroutine
<1>3. ASSUME NEW s \in Statuses, NEW p,
             Commit(r, Counted(r, [exec[r].view EXCEPT !.status = s]), p)
      PROVE  (run[r].cancel => run'[r].cancel) /\ run'[r].status \in {run[r].status, s}
  <2>1. v.cancel \in BOOLEAN /\ [v EXCEPT !.status = s] = [v EXCEPT !.status = s, !.cancel = v.cancel]
    BY DEF Row
  <2>2. run' = [run EXCEPT ![r] =
                  Merged(@, v, Counted(r, [v EXCEPT !.status = s, !.cancel = v.cancel]))]
    BY <1>2, <1>3, <2>1 DEF Commit
  <2> QED BY <1>1, <2>1, <2>2, CountedMerge
<1>4. CASE StartRun(r)
  <2>1. "RUNNING" \in Statuses BY DEF Statuses
  <2> QED BY <1>3, <1>4, <2>1 DEF StartRun
<1>5. CASE Finalize(r)
  <2>1. PICK s \in FinalStatuses : s = Judged(r, exec[r].view, exec[r].error)
    BY DEF Judged, FinalStatuses
  <2>2. s \in Statuses BY DEF Statuses
  <2> QED BY <1>3, <1>5, <2>1, <2>2 DEF Finalize, Closes
<1>6. CASE Excuse(r)
  <2>1. "FAILED" \in Statuses /\ "FAILED" \in FinalStatuses BY DEF Statuses, FinalStatuses
  <2> QED BY <1>3, <1>6, <2>1 DEF Excuse, Closes
<1>7. CASE CancelItem(r)
  <2>1. "CANCELLED" \in Statuses /\ "CANCELLED" \in FinalStatuses BY DEF Statuses, FinalStatuses
  <2>2. run' = [run EXCEPT ![r] =
                  Merged(@, v, Counted(r, [v EXCEPT !.status = "CANCELLED", !.cancel = TRUE]))]
    BY <1>2, <1>7 DEF CancelItem, Commit
  <2>3. (run[r].cancel => run'[r].cancel) /\ run'[r].status \in {run[r].status, "CANCELLED"}
    BY <1>1, <2>1, <2>2, CountedMerge
  <2> QED BY <1>7, <2>1, <2>3 DEF Closes
<1> QED BY <1>4, <1>5, <1>6, <1>7

\* The other steps of a controller that commit, or refresh the row.
LEMMA ItemRowStep ==
  ASSUME WorkInv, NEW r \in Runs,
         \/ Begin(r) \/ ItemDone(r) \/ FailItem(r)
         \/ Check(r) \/ ItemRaises(r) \/ Judge(r)
  PROVE  /\ run[r].cancel => run'[r].cancel
         /\ \/ run'[r].status = run[r].status
            \/ Begin(r) /\ run'[r].status = "RUNNING"
<1>1. TypeOK BY OfRun
<1>2. PICK v \in Row : v = exec[r].view BY <1>1 DEF TypeOK, Coroutine
<1>3. CASE Begin(r)
  <2> DEFINE n == [v EXCEPT !.status = "RUNNING"]
  <2>1. n \in Row /\ n.cancel = v.cancel /\ n.status = "RUNNING"
    BY DEF Row, Statuses
  <2>2. run'[r] = Merged(run[r], v, n) BY <1>1, <1>2, <1>3 DEF Begin, TypeOK
  <2> HIDE DEF n
  <2>3. /\ run[r].cancel => run'[r].cancel
        /\ run'[r].status = IF n.status = v.status THEN run[r].status ELSE n.status
    BY <1>1, <2>1, <2>2, MergeStep
  <2> QED BY <1>3, <2>1, <2>3
<1>4. CASE ItemDone(r) \/ FailItem(r)
  <2>1. PICK n \in Row : n = Counted(r, v) /\ n.cancel = v.cancel /\ n.status = v.status
    BY CountedRow
  <2>2. run'[r] = Merged(run[r], v, n)
    BY <1>1, <1>2, <1>4, <2>1 DEF ItemDone, FailItem, TypeOK
  <2>3. n \in Row /\ v \in Row /\ (n.cancel \/ n.cancel = v.cancel) BY <2>1
  <2>4. /\ run[r].cancel => run'[r].cancel
        /\ run'[r].status = IF n.status = v.status THEN run[r].status ELSE n.status
    BY <1>1, <2>2, <2>3, MergeStep
  <2> QED BY <2>1, <2>4
<1>5. CASE Check(r) \/ ItemRaises(r) \/ Judge(r)
  <2>1. run' = [run EXCEPT ![r] = Refreshed(r)]
    BY <1>5 DEF Check, Refresh, ItemRaises, Judge
  <2>2. PICK w \in Row : w = run[r] BY <1>1 DEF TypeOK
  <2>3. run'[r] = [w EXCEPT !.cancel = Cancelled(r)] BY <1>1, <2>1, <2>2 DEF TypeOK, Refreshed
  <2>4. /\ [w EXCEPT !.cancel = Cancelled(r)].status = w.status
        /\ [w EXCEPT !.cancel = Cancelled(r)].cancel = Cancelled(r)
    BY DEF Row
  <2> QED BY <2>2, <2>3, <2>4 DEF Cancelled
<1> QED BY <1>3, <1>4, <1>5

\* A listing gives the run the status that its task had.
LEMMA ListingStep ==
  ASSUME WorkInv, NEW r \in Runs, ListingFits(r), ListClose(r)
  PROVE  /\ run[r].cancel => run'[r].cancel
         /\ \/ run'[r].status = run[r].status
            \/ run'[r].status = lister.new.status /\ run'[r].status \in FinalStatuses
<1>1. TypeOK BY OfRun
<1>2. PICK v \in Row, w \in Row : v = lister.seen /\ w = lister.new BY <1>1 DEF TypeOK
<1>3. v.cancel \in BOOLEAN /\ w.cancel \in BOOLEAN BY DEF Row
<1>4. (w.cancel \/ w.cancel = v.cancel) /\ w.status \in FinalStatuses
  BY <1>2, <1>3 DEF ListingFits, ListClose
<1>5. run'[r] = Merged(run[r], v, w) BY <1>1, <1>2 DEF ListClose, TypeOK
<1>6. /\ run[r].cancel => run'[r].cancel
      /\ run'[r].status = IF w.status = v.status THEN run[r].status ELSE w.status
  BY <1>1, <1>4, <1>5, MergeStep
<1> QED BY <1>2, <1>4, <1>6

\* What a step does to the flag and to the status of its run.
LEMMA RowStep ==
  ASSUME WorkInv, NEW r \in Runs, OutcomeOf(r), Uncreated(r), ListingFits(r), StepOf(r)
  PROVE  /\ run[r].cancel => run'[r].cancel
         /\ \/ run'[r].status = run[r].status
            \/ Create(r) /\ run'[r].status = "PENDING"
            \/ (StartRun(r) \/ Begin(r)) /\ run'[r].status = "RUNNING"
            \/ Closes(r) /\ run'[r].status \in FinalStatuses
<1>1. TypeOK BY OfRun
<1>2. CASE Create(r)
  <2>1. run'[r] = NewRow("PENDING") BY <1>1, <1>2 DEF Create, TypeOK
  <2>2. ~run[r].cancel BY <1>2 DEF Create, Uncreated
  <2> QED BY <1>2, <2>1, <2>2 DEF NewRow
<1>3. CASE StartRun(r) \/ Finalize(r) \/ Excuse(r) \/ CancelItem(r)
  BY <1>3, StatusStep
<1>4. CASE Begin(r) \/ ItemDone(r) \/ FailItem(r) \/ Check(r) \/ ItemRaises(r) \/ Judge(r)
  BY <1>4, ItemRowStep
<1>5. CASE ListClose(r)
  BY <1>5, ListingStep DEF Closes
<1>6. CASE Flag(r)
  <2>1. PICK w \in Row : w = run[r] BY <1>1 DEF TypeOK
  <2>2. [w EXCEPT !.cancel = TRUE].status = w.status /\ [w EXCEPT !.cancel = TRUE].cancel
    BY DEF Row
  <2>3. run' = run \/ run' = [run EXCEPT ![r] = [w EXCEPT !.cancel = TRUE]]
    BY <1>6, <2>1 DEF Flag
  <2> QED BY <1>1, <2>1, <2>2, <2>3 DEF TypeOK
<1>7. CASE \/ Claim(r) \/ StartTask(r) \/ Acquire(r) \/ Release(r) \/ Publish(r) \/ Report(r)
           \/ Return(r) \/ LoadFailed(r) \/ FailTask(r) \/ Settle(r) \/ RegisterPid(r)
           \/ Fault(r) \/ Kill(r) \/ CancelTask(r)
           \/ ListLoad(r) \/ ListTask(r) \/ ListCount(r)
  <2>1. run' = run
    BY <1>7 DEF Claim, StartTask, Acquire, Release, Publish, Report, Return, LoadFailed, FailTask,
       Settle, RegisterPid, Fault, Crash, Recover, LoseConnection, PublishFails, Kill,
       CancelTask, ListLoad, ListTask, ListCount
  <2> QED BY <2>1
<1> QED BY <1>2, <1>3, <1>4, <1>5, <1>6, <1>7 DEF StepOf, Work, Client, List

\* The steps of the end of a run.
Ends(r) == Finalize(r) \/ Report(r) \/ Excuse(r) \/ FailTask(r) \/ Settle(r)

\* Where a step that leaves the controller before the judgement has found it.
LEMMA FormerPlace ==
  ASSUME WorkInv, NEW r \in Runs, StepOf(r), exec'[r].at \in Unjudged
  PROVE  Open(r) /\ ~Finalize(r)
<1>1. TypeOK /\ exec \in [Runs -> Coroutine] BY OfRun DEF TypeOK
<1>2. PICK c \in Coroutine : c = exec[r] BY <1>1
<1>3. \A p, v : /\ [c EXCEPT !.at = p].at = p
                /\ [c EXCEPT !.at = p, !.view = v].at = p
                /\ [c EXCEPT !.view = v, !.at = p].at = p
  BY DEF Coroutine
<1>4. ASSUME Report(r) \/ FailTask(r) \/ Finalize(r) \/ Excuse(r) \/ LoadFailed(r) PROVE FALSE
  <2>1. \E p \in Places \ Unjudged : \E v :
          \/ exec' = [exec EXCEPT ![r] = [c EXCEPT !.at = p]]
          \/ exec' = [exec EXCEPT ![r] = [c EXCEPT !.at = p, !.view = v]]
          \/ exec' = [exec EXCEPT ![r] = [c EXCEPT !.view = v, !.at = p]]
    <3>1. {"raised", "returned", "settling", "reporting", "failed", "excusing"}
            \subseteq Places \ Unjudged
      BY DEF Places, Unjudged, Early, Inside
    <3>2. CASE Report(r)
      <4>1. \E p \in {"raised", "returned"} : Goto(r, p) BY <3>2 DEF Report
      <4> QED BY <1>2, <3>1, <4>1 DEF Goto
    <3>3. CASE FailTask(r) BY <1>2, <3>1, <3>3 DEF FailTask, Goto
    <3>4. CASE Finalize(r) \/ Excuse(r) BY <1>2, <3>1, <3>4 DEF Finalize, Excuse, Commit
    <3>5. CASE LoadFailed(r)
      <4>1. \E p \in {"failed", "excusing"} :
              exec' = [exec EXCEPT ![r] = [c EXCEPT !.view = run[r], !.at = p]]
        BY <1>2, <3>5 DEF LoadFailed
      <4> QED BY <3>1, <4>1
    <3> QED BY <1>4, <3>2, <3>3, <3>4, <3>5
  <2>2. PICK p \in Places \ Unjudged : \E v :
          \/ exec' = [exec EXCEPT ![r] = [c EXCEPT !.at = p]]
          \/ exec' = [exec EXCEPT ![r] = [c EXCEPT !.at = p, !.view = v]]
          \/ exec' = [exec EXCEPT ![r] = [c EXCEPT !.view = v, !.at = p]]
    BY <2>1
  <2>3. \E e : exec' = [exec EXCEPT ![r] = e] /\ e.at = p BY <1>3, <2>2
  <2>4. exec'[r].at = p BY <1>1, <2>3
  <2> QED BY <2>4
<1>5. ASSUME Return(r) \/ Settle(r) \/ Crash(r) PROVE FALSE
  BY <1>1, <1>5, ToIdle DEF Return, Settle, Crash, Unjudged, Early, Inside
<1>6. CASE Claim(r) BY <1>4, <1>6 DEF Claim, Open
<1>7. CASE \/ StartTask(r) \/ StartRun(r) \/ Acquire(r) \/ Check(r) \/ Begin(r) \/ ItemDone(r)
           \/ ItemRaises(r) \/ FailItem(r) \/ CancelItem(r) \/ Release(r) \/ Publish(r)
           \/ PublishFails(r) \/ Judge(r)
  <2>1. exec[r].at \in Unjudged
    BY <1>7 DEF StartTask, StartRun, Acquire, Check, Begin, ItemDone, ItemRaises, FailItem,
       CancelItem, Release, Done, Publish, PublishFails, Judge, Unjudged, Early, Inside
  <2> QED BY <1>4, <2>1 DEF Open
<1>8. CASE Create(r) \/ Recover(r) \/ Flag(r) \/ CancelTask(r) \/ List(r)
  <2>1. exec' = exec
    BY <1>8 DEF Create, Recover, Flag, CancelTask, List, ListLoad, ListTask, ListCount, ListClose
  <2> QED BY <1>4, <2>1 DEF Open
<1>9. CASE LoseConnection(r)
  <2>1. exec[r].at \in Unjudged
    BY <1>9 DEF LoseConnection, Unjudged, Early
  <2> QED BY <1>4, <2>1 DEF Open
<1>10. CASE Kill(r) \/ RegisterPid(r)
  <2>1. exec' = exec \/ exec[r].at = "executing" BY <1>10 DEF Kill, RegisterPid
  <2> QED BY <1>4, <2>1 DEF Open, Unjudged, Inside
<1> QED
  BY <1>4, <1>5, <1>6, <1>7, <1>8, <1>9, <1>10 DEF StepOf, Work, Fault, Client

\* A run that stays open was open, and its end has not been taken up.
LEMMA WasOpen ==
  ASSUME WorkInv, NEW r \in Runs, StepOf(r), Open(r)'
  PROVE  Open(r) /\ ~Ends(r)
<1>1. TypeOK /\ Local(r) BY OfRun
<1>2. ASSUME Ends(r) PROVE exec[r].at # "idle" /\ job[r] \notin {"NONE", "READY"}
  <2>1. exec[r].at # "idle" BY <1>2 DEF Ends, Finalize, Report, Excuse, FailTask, Settle
  <2> QED BY <2>1, OfRun
<1>3. ASSUME job'[r] \in {"NONE", "READY"} PROVE job[r] \in {"NONE", "READY"}
  <2>1. CASE job' = job BY <1>3, <2>1
  <2>2. CASE Create(r) BY <1>1, <2>2 DEF Create, Local
  <2>3. CASE Claim(r) \/ Return(r) \/ Settle(r) \/ Recover(r)
    BY <1>1, <1>3, <2>3 DEF Claim, Return, Settle, Recover, TypeOK
  <2> QED
    BY <2>1, <2>2, <2>3 DEF StepOf, Work, Fault, Client, StartTask, StartRun, Acquire, Check,
       Begin, ItemDone, ItemRaises, FailItem, CancelItem, Release, Publish, Judge, Finalize,
       Report, LoadFailed, Excuse, FailTask, Crash, LoseConnection, PublishFails, RegisterPid,
       Flag, Kill, CancelTask, List, ListLoad, ListTask, ListCount, ListClose, Quietly,
       Controllers
<1>4. CASE exec'[r].at \in Unjudged
  <2>1. Open(r) /\ ~Finalize(r) BY <1>4, FormerPlace
  <2>2. ~Report(r) /\ ~Excuse(r) /\ ~FailTask(r) /\ ~Settle(r)
    BY <1>2, <2>1 DEF Ends, Open, Report, Excuse, FailTask, Settle, Unjudged, Early, Inside
  <2> QED BY <2>1, <2>2 DEF Ends
<1>5. CASE job'[r] \in {"NONE", "READY"}
  BY <1>2, <1>3, <1>5 DEF Open
<1> QED BY <1>4, <1>5 DEF Open

\* What a step does to the task of its run.
LEMMA TaskStep ==
  ASSUME WorkInv, NEW r \in Runs, StepOf(r), task'[r] # task[r]
  PROVE  task'[r] # "NONE" /\ (task'[r] = "FAILED" => Ends(r) \/ Recover(r))
<1>1. TypeOK /\ Local(r) BY OfRun
<1>2. CASE Create(r) \/ StartTask(r) \/ CancelTask(r) \/ Recover(r)
  BY <1>1, <1>2 DEF Create, StartTask, CancelTask, Recover, TypeOK
<1>3. CASE Report(r)
  <2>1. task'[r] = exec[r].view.status /\ exec[r].view.status \in FinalStatuses
    BY <1>1, <1>3 DEF Report, TypeOK, Local
  <2> QED BY <1>3, <2>1 DEF FinalStatuses, Ends
<1>4. CASE FailTask(r) \/ Settle(r)
  <2>1. task'[r] \in {task[r], "FAILED"} BY <1>1, <1>4 DEF FailTask, Settle, TypeOK
  <2> QED BY <1>4, <2>1 DEF Ends
<1>5. CASE task' = task BY <1>5
<1> QED
  BY <1>2, <1>3, <1>4, <1>5 DEF StepOf, Work, Fault, Client, Claim, StartRun, Acquire, Check,
     Begin, ItemDone, ItemRaises, FailItem, CancelItem, Release, Publish, Judge, Finalize,
     Return, LoadFailed, Excuse, Crash, LoseConnection, PublishFails, RegisterPid,
     Flag, Kill, List, ListLoad, ListTask, ListCount, ListClose

\* Presumptions grow, and only by the recovery of the run's own job.
LEMMA PresumedStep ==
  ASSUME TypeOK, NEW r \in Runs, StepOf(r)
  PROVE  /\ presumed' = presumed \/ (Recover(r) /\ presumed' = presumed \cup {r})
         /\ admin' = admin \/ \E a : admin' = [admin EXCEPT ![r] = a]
<1> USE DEF StepOf, Work, Fault, Client, Quietly, Outside, Controllers, history,
        Create, Claim, StartTask, StartRun, Acquire, Check, Begin, ItemDone,
        ItemRaises, FailItem, CancelItem, Release, Publish, Judge, Finalize, Report,
        Return, LoadFailed, Excuse, FailTask, Settle, Crash, LoseConnection,
        PublishFails, RegisterPid, Flag, Kill, CancelTask, List, ListLoad, ListTask,
        ListCount, ListClose
<1>1. presumed' = presumed \/ Recover(r) OBVIOUS
<1>2. Recover(r) => presumed' = presumed \cup {r} /\ admin' = admin BY DEF Recover
<1>3. admin' = admin \/ \E a : admin' = [admin EXCEPT ![r] = a] BY <1>2
<1> QED BY <1>1, <1>2, <1>3

LEMMA CancelPlace ==
  ASSUME TypeOK, NEW r \in Runs, CancelItem(r) PROVE exec'[r].at = "leaving"
<1>1. exec \in [Runs -> Coroutine] BY DEF TypeOK
<1>2. PICK c \in Coroutine : c = exec[r] BY <1>1
<1>3. \A v : [c EXCEPT !.at = "leaving", !.view = v].at = "leaving" BY DEF Coroutine
<1>4. \E v : exec' = [exec EXCEPT ![r] = [c EXCEPT !.at = "leaving", !.view = v]]
  BY <1>2 DEF CancelItem, Commit
<1> QED BY <1>1, <1>3, <1>4

LEMMA OpenStep ==
  ASSUME WorkInv, NEW r \in Runs, OutcomeOf(r), OutcomeOf(r)', StillOpen(r), Uncreated(r),
         ListingFits(r), StepOf(r)
  PROVE  StillOpen(r)'
<1> SUFFICES ASSUME Open(r)', r \notin presumed'
             PROVE  task'[r] # "FAILED" /\ (run'[r].status \in FinalStatuses => run'[r].cancel)
  BY DEF StillOpen, Open
<1>1. TypeOK BY OfRun
<1>2. Open(r) /\ ~Ends(r) BY WasOpen
<1>3. r \notin presumed /\ ~Recover(r)
  <2>1. ~Recover(r) BY DEF Recover
  <2>2. presumed' = presumed BY <1>1, <2>1, PresumedStep
  <2> QED BY <2>1, <2>2
<1>4. task[r] # "FAILED" /\ (run[r].status \in FinalStatuses => run[r].cancel)
  BY <1>2, <1>3 DEF StillOpen, Open
<1>5. task'[r] # "FAILED" BY <1>2, <1>3, <1>4, TaskStep
<1>6. ASSUME run'[r].status \in FinalStatuses PROVE run'[r].cancel
  <2>1. CASE run'[r].status = run[r].status BY <1>4, <1>6, <2>1, RowStep
  <2>2. CASE run'[r].status = "CANCELLED" BY <2>2 DEF OutcomeOf, SeenInRow
  <2>3. CASE ListClose(r) /\ run'[r].status = lister.new.status
    <3>1. lister.new.status \notin Good \cup {"FAILED"}
      BY <1>2, <1>3, <2>3 DEF ListingFits, ListClose
    <3> QED BY <1>6, <2>2, <2>3, <3>1 DEF FinalStatuses, Good
  <2>4. CASE CancelItem(r)
    <3>1. exec'[r].at = "leaving" BY <1>1, <2>4, CancelPlace
    <3> QED BY <3>1 DEF OutcomeOf, SeenInRow
  <2> QED BY <1>2, <1>6, <2>1, <2>2, <2>3, <2>4, RowStep DEF Closes, Ends, FinalStatuses
<1> QED BY <1>5, <1>6

LEMMA UncreatedStep ==
  ASSUME WorkInv, NEW r \in Runs, OutcomeOf(r), Uncreated(r), ListingFits(r), StepOf(r)
  PROVE  Uncreated(r)'
<1>1. TypeOK BY OfRun
<1>2. CASE task[r] = "NONE"
  <2>1. Create(r) BY <1>2, OnlyCreate
  <2>2. task'[r] = "PENDING" /\ run'[r] = NewRow("PENDING")
    BY <1>1, <2>1 DEF Create, TypeOK
  <2>3. NewRow("PENDING").status = "PENDING" BY DEF NewRow
  <2>4. run'[r].status = "PENDING" BY <2>2, <2>3
  <2> QED BY <2>2, <2>4 DEF Uncreated
<1>3. CASE task[r] # "NONE"
  <2>1. task'[r] # "NONE" BY <1>3, TaskStep
  <2>2. run[r].status # "NONE" BY <1>3 DEF Uncreated
  <2>3. run'[r].status # "NONE" BY <2>2, RowStep DEF FinalStatuses
  <2> QED BY <2>1, <2>3 DEF Uncreated
<1> QED BY <1>2, <1>3

-----------------------------------------------------------------------------
(* What a listing is about to write                                        *)

\* Items that have ended stay as they are, and none is touched once the
\* controller has gone through them.
LEMMA ItemsGrow ==
  ASSUME WorkInv, NEW r \in Runs, StepOf(r)
  PROVE  Grown(r) /\ (item' = item \/ Open(r))
<1>1. TypeOK /\ Local(r) BY OfRun
<1>2. CASE item' = item
  BY <1>2, SameItems DEF Grown
<1>3. CASE Begin(r) \/ ItemDone(r) \/ FailItem(r) \/ CancelItem(r)
  <2>1. PICK s \in ItemStatuses : ItemStep(r, s)
    <3>1. {"RUNNING", "COMPLETED", "FAILED", "CANCELLED"} \subseteq ItemStatuses
      BY DEF ItemStatuses, ItemTerminal
    <3> QED BY <1>3, <3>1 DEF Begin, ItemDone, FailItem, CancelItem, ItemStep
  <2>2. exec[r].at \in {"checked"} \cup Engaged
    BY <1>3 DEF Begin, ItemDone, FailItem, CancelItem, Engaged
  <2>3. exec[r].k \in ItemsOf(r) /\ item[r][exec[r].k] \in {"PENDING", "RUNNING"}
    BY <1>1, <2>2 DEF Local
  <2>4. \A i \in ItemsOf(r) : i # exec[r].k => item'[r][i] = item[r][i]
    BY <1>1, <2>1, <2>3, ItemType
  <2>5. Grown(r) BY <2>3, <2>4 DEF Grown, Having, ItemsOf
  <2> QED BY <2>2, <2>5 DEF Open, Unjudged, Engaged, Inside
<1> QED
  BY <1>2, <1>3 DEF StepOf, Work, Fault, Client, Create, Claim, StartTask,
     StartRun, Acquire, Check, ItemRaises, Release, Publish, Judge, Finalize, Report, Return,
     LoadFailed, Excuse, FailTask, Settle, Crash, Recover, LoseConnection, PublishFails,
     RegisterPid, Flag, Kill, CancelTask, List, ListLoad, ListTask, ListCount, ListClose,
     Controllers

\* A step beside the listing.
LEMMA ListingBeside ==
  ASSUME WorkInv, NEW r \in Runs, OutcomeOf(r), Uncreated(r), ListingFits(r), StepOf(r),
         lister' = lister
  PROVE  ListingFits(r)'
<1> SUFFICES ASSUME lister.of = r PROVE ListingFits(r)'
  BY DEF ListingFits
<1>1. TypeOK BY OfRun
<1>2. PICK v, n, a : v = lister.seen /\ n = lister.new /\ a = lister.at OBVIOUS
<1>3. /\ v.cancel => run[r].cancel /\ n.cancel
      /\ task[r] # "NONE"
      /\ Backed(r, v) /\ Backed(r, n)
      /\ v.failed > 0 => n.failed > 0
      /\ a # "loaded" =>
           /\ n.status \in FinalStatuses /\ Fits(r, n.status)
           /\ n.status = "CANCELLED" => n.cancel
           /\ Open(r) => n.status \notin Good
           /\ Open(r) /\ r \notin presumed => n.status # "FAILED"
  BY <1>2 DEF ListingFits
<1>4. run[r].cancel => run'[r].cancel BY RowStep
<1>5. task'[r] # "NONE" BY <1>3, TaskStep
<1>6. Grown(r) /\ (item' = item \/ Open(r)) BY ItemsGrow
<1>7. Backed(r, v)' /\ Backed(r, n)' BY <1>3, <1>6 DEF Backed, Grown
<1>8. Open(r)' => Open(r) BY WasOpen
<1>9. r \notin presumed' => r \notin presumed BY <1>1, PresumedStep
<1>10. ASSUME a # "loaded" PROVE Fits(r, n.status)'
  <2>1. CASE n.status \notin Good BY <2>1 DEF Fits, Good
  <2>2. CASE ~Open(r)
    <3>1. item' = item BY <1>6, <2>2
    <3>2. \A q : Having(r, q)' = Having(r, q) BY <3>1, SameItems
    <3>3. engine' = engine BY <1>1, OthersStep DEF Apart
    <3> HIDE DEF Having
    <3> QED BY <1>3, <1>10, <3>1, <3>2, <3>3 DEF Fits, ItemsOf
  <2> QED BY <1>3, <1>10, <2>1, <2>2
<1> HIDE DEF Backed, Fits, Open
<1> QED BY <1>2, <1>3, <1>4, <1>5, <1>7, <1>8, <1>9, <1>10 DEF ListingFits

\* The steps of the listing itself, up to its commit.
LEMMA ListingReads ==
  ASSUME WorkInv, NEW r \in Runs, OutcomeOf(r), StillOpen(r), Uncreated(r), ListingFits(r),
         ListLoad(r) \/ ListTask(r) \/ ListCount(r)
  PROVE  ListingFits(r)'
<1>1. /\ TypeOK /\ SeenInRow(r) /\ StatusFits(r) BY OfRun DEF OutcomeOf
<1>2. UNCHANGED <<run, task, exec, item, engine, job, presumed>>
  BY DEF ListLoad, ListTask, ListCount, Controllers, history
<1>3. PICK w \in Row, v \in Row, n \in Row :
        w = run[r] /\ v = lister.seen /\ n = lister.new
  BY <1>1 DEF TypeOK
<1>4. /\ \A q : Backed(r, q)' <=> Backed(r, q)
      /\ \A q : Fits(r, q)' <=> Fits(r, q)
      /\ Open(r)' <=> Open(r)
  <2>1. \A q : Having(r, q)' = Having(r, q) BY <1>2, SameItems
  <2> HIDE DEF Having
  <2>2. ASSUME NEW q PROVE Backed(r, q)' <=> Backed(r, q) BY <2>1 DEF Backed
  <2>3. ASSUME NEW q PROVE Fits(r, q)' <=> Fits(r, q) BY <1>2, <2>1 DEF Fits, ItemsOf
  <2> QED BY <1>2, <2>2, <2>3 DEF Open
<1>5. CASE ListLoad(r)
  <2>1. lister' = [of |-> r, at |-> "loaded", seen |-> w, new |-> w]
        /\ w.status \in {"PENDING", "RUNNING"}
    BY <1>3, <1>5 DEF ListLoad
  <2>2. Backed(r, w) /\ task[r] # "NONE" BY <1>1, <1>3, <2>1 DEF SeenInRow
  <2>3. Backed(r, w)' BY <1>4, <2>2
  <2> HIDE DEF Backed, Fits, Open
  <2> QED BY <1>2, <1>3, <2>1, <2>2, <2>3 DEF ListingFits
<1>6. CASE ListTask(r) /\ lister' # NoListing
  <2>1. PICK t \in Statuses : t = task[r] BY <1>1 DEF TypeOK
  <2> DEFINE m == [v EXCEPT !.status = t, !.cancel = v.cancel \/ t = "CANCELLED"]
  <2>2. /\ m.status = t /\ m.cancel = (v.cancel \/ t = "CANCELLED")
        /\ m.completed = v.completed /\ m.failed = v.failed
    BY DEF Row
  <2>3. /\ lister' = [lister EXCEPT !.at = "closing", !.new = m]
        /\ lister.of = r /\ t \in FinalStatuses
    BY <1>3, <1>6, <2>1 DEF ListTask
  <2> HIDE DEF m
  <2>4. lister'.at = "closing" /\ lister'.new = m /\ lister'.seen = v /\ lister'.of = r
    BY <1>1, <1>3, <2>3 DEF TypeOK
  <2>5. /\ v.cancel => run[r].cancel
        /\ task[r] # "NONE" /\ Backed(r, v)
    BY <1>3, <2>3 DEF ListingFits
  <2>6. /\ Fits(r, t)
        /\ Open(r) => t \notin Good
        /\ Open(r) /\ r \notin presumed => t # "FAILED"
    BY <1>1, <2>1 DEF StatusFits, StillOpen
  <2>7. Backed(r, v)' /\ Backed(r, m)'
    <3>1. Backed(r, m) BY <2>2, <2>5 DEF Backed
    <3> QED BY <1>4, <2>5, <3>1
  <2>8. v.cancel \in BOOLEAN BY DEF Row
  <2>9. Fits(r, t)' BY <1>4, <2>6
  <2> HIDE DEF Backed, Fits, Open
  <2> QED BY <1>2, <1>4, <2>1, <2>2, <2>3, <2>4, <2>5, <2>6, <2>7, <2>8, <2>9 DEF ListingFits
<1>7. CASE ListCount(r)
  <2>1. PICK m \in Row : /\ m = Counted(r, n) /\ m.cancel = n.cancel /\ m.status = n.status
                         /\ m.completed = Number(r, "COMPLETED")
                         /\ m.failed = Number(r, "FAILED")
    <3>1. Counted(r, n).completed = Number(r, "COMPLETED")
          /\ Counted(r, n).failed = Number(r, "FAILED")
      BY DEF Counted, Row
    <3> QED BY <3>1, CountedRow
  <2>2. lister' = [lister EXCEPT !.at = "counted", !.new = m]
        /\ lister.of = r /\ lister.at = "closing"
    BY <1>3, <1>7, <2>1 DEF ListCount
  <2>3. lister'.at = "counted" /\ lister'.new = m /\ lister'.seen = v /\ lister'.of = r
    BY <1>1, <1>3, <2>2 DEF TypeOK
  <2>4. /\ v.cancel => run[r].cancel /\ n.cancel
        /\ task[r] # "NONE" /\ Backed(r, v)
        /\ n.status \in FinalStatuses /\ Fits(r, n.status)
        /\ n.status = "CANCELLED" => n.cancel
        /\ Open(r) => n.status \notin Good
        /\ Open(r) /\ r \notin presumed => n.status # "FAILED"
    BY <1>3, <2>2 DEF ListingFits
  <2>5. Backed(r, m) /\ (v.failed > 0 => m.failed > 0)
    BY <2>1, <2>4, NumberPositive DEF Backed
  <2>6. Backed(r, v)' /\ Backed(r, m)' /\ Fits(r, n.status)' BY <1>4, <2>4, <2>5
  <2> HIDE DEF Backed, Fits, Open, Number
  <2> QED BY <1>2, <1>4, <2>1, <2>3, <2>4, <2>5, <2>6 DEF ListingFits
<1>8. CASE lister' = NoListing
  BY <1>8, RunsAssumption DEF ListingFits, NoListing
<1> QED BY <1>5, <1>6, <1>7, <1>8

LEMMA ListingKeeps ==
  ASSUME WorkInv, NEW r \in Runs, OutcomeOf(r), StillOpen(r), Uncreated(r), ListingFits(r),
         StepOf(r)
  PROVE  ListingFits(r)'
<1>1. CASE ListLoad(r) \/ ListTask(r) \/ ListCount(r) BY <1>1, ListingReads
<1>2. CASE ListClose(r)
  <2>1. lister' = NoListing BY <1>2 DEF ListClose
  <2> QED BY <2>1, RunsAssumption DEF ListingFits, NoListing
<1>3. CASE lister' = lister BY <1>3, ListingBeside
<1> QED
  BY <1>1, <1>2, <1>3 DEF StepOf, Work, Fault, Client, List, Quietly, Outside, Create, Claim,
     StartTask, StartRun, Acquire, Check, Begin, ItemDone, ItemRaises, FailItem, CancelItem,
     Release, Publish, Judge, Finalize, Report, Return, LoadFailed, Excuse, FailTask, Settle,
     Crash, Recover, LoseConnection, PublishFails, RegisterPid, Flag, Kill, CancelTask

\* The other runs stay as they are.
LEMMA OthersOpen ==
  ASSUME TypeOK, NEW r \in Runs, StepOf(r), NEW q \in Runs \ {r}, Apart(r),
         StillOpen(q), Uncreated(q), ListingFits(q)
  PROVE  StillOpen(q)' /\ Uncreated(q)' /\ ListingFits(q)'
<1>1. exec'[q] = exec[q] /\ task'[q] = task[q] /\ job'[q] = job[q] /\ run'[q] = run[q]
  BY DEF Apart
<1>2. (q \in presumed' <=> q \in presumed) /\ admin'[q] = admin[q]
  <2>1. presumed' = presumed \/ presumed' = presumed \cup {r} BY PresumedStep
  <2>2. admin' = admin \/ \E a : admin' = [admin EXCEPT ![r] = a] BY PresumedStep
  <2> QED BY <2>1, <2>2 DEF TypeOK
<1>3. StillOpen(q)' /\ Uncreated(q)' BY <1>1, <1>2 DEF StillOpen, Uncreated, Open
<1>4. /\ item'[q] = item[q] /\ engine' = engine
      /\ lister'.of = q => lister' = lister
  BY DEF Apart
<1>5. \A s : Having(q, s)' = Having(q, s) BY <1>4, SameItems
<1> HIDE DEF Having
<1>6. ListingFits(q)'
  BY <1>1, <1>2, <1>4, <1>5 DEF ListingFits, Backed, Fits, Open, ItemsOf
<1> QED BY <1>3, <1>6

-----------------------------------------------------------------------------
(* The invariant                                                           *)

LEMMA InitDinsar == Init => DinsarInv
<1> SUFFICES ASSUME Init, NEW r \in Runs
             PROVE  OutcomeOf(r) /\ StillOpen(r) /\ Uncreated(r) /\ ListingFits(r)
  BY InitWork DEF DinsarInv, OutcomeInv, OutcomeOf
<1>1. /\ run[r].status = "NONE" /\ run[r].completed = 0 /\ run[r].failed = 0
      /\ task[r] = "NONE" /\ job[r] = "NONE" /\ exec[r].at = "idle"
  BY DEF Init, NewRow, Idle
<1>2. lister.of # r BY RunsAssumption DEF Init, NoListing
<1>3. OutcomeOf(r)
  BY <1>1, <1>2 DEF OutcomeOf, SeenInRow, StatusFits, ItemsCounted, CountersSettle,
     Fits, Backed, Good, Early, Inside
<1>4. ~run[r].cancel /\ admin[r] = ""
  BY DEF Init, NewRow
<1>5. StillOpen(r) /\ Uncreated(r) /\ ListingFits(r)
  BY <1>1, <1>2, <1>4 DEF StillOpen, Uncreated, ListingFits, FinalStatuses
<1> QED BY <1>3, <1>5

LEMMA NextKeeps == DinsarInv /\ [Next]_vars => DinsarInv'
<1> SUFFICES ASSUME DinsarInv, [Next]_vars PROVE OutcomeInv'
  BY NextWork DEF DinsarInv
<1> DEFINE Rest(q) == StillOpen(q) /\ Uncreated(q) /\ ListingFits(q)
<1>1. WorkInv /\ \A q \in Runs : OutcomeOf(q) /\ Rest(q)
  BY DEF DinsarInv, OutcomeInv, OutcomeOf
<1>2. CASE UNCHANGED vars
  <2> USE <1>2 DEF vars, history
  <2>1. ASSUME NEW q \in Runs PROVE OutcomeOf(q)'
    <3>1. \A s : Having(q, s)' = Having(q, s) /\ Number(q, s)' = Number(q, s)
      BY SameItems
    <3>2. OutcomeOf(q) BY <1>1
    <3> HIDE DEF Having, Number
    <3> QED BY <3>1, <3>2 DEF OutcomeOf, SeenInRow, StatusFits, ItemsCounted, CountersSettle,
               Fits, Backed, Finished, Open, ItemsOf
  <2>2. ASSUME NEW q \in Runs PROVE Rest(q)'
    <3>1. \A s : Having(q, s)' = Having(q, s) BY SameItems
    <3>2. Rest(q) BY <1>1
    <3> HIDE DEF Having
    <3> QED BY <3>1, <3>2 DEF StillOpen, Uncreated, ListingFits, Fits, Backed, Open, ItemsOf
  <2> QED BY <2>1, <2>2 DEF OutcomeInv, OutcomeOf
<1>3. ASSUME NEW r \in Runs, StepOf(r) PROVE OutcomeInv'
  <2>1. OutcomeOf(r)' BY <1>1, <1>3, StepOutcome
  <2>2. Apart(r) /\ TypeOK BY <1>1, <1>3, OthersStep DEF WorkInv
  <2>3. \A q \in Runs \ {r} : OutcomeOf(q)' BY <1>1, <2>2, OthersKeep
  <2>4. Rest(r)' BY <1>1, <1>3, <2>1, OpenStep, UncreatedStep, ListingKeeps
  <2>5. \A q \in Runs \ {r} : Rest(q)' BY <1>1, <1>3, <2>2, OthersOpen
  <2>6. \A q \in Runs : OutcomeOf(q)' /\ Rest(q)'
    BY <2>1, <2>3, <2>4, <2>5
  <2> QED BY <2>6 DEF OutcomeInv, OutcomeOf
<1> QED BY <1>2, <1>3 DEF Next, StepOf

-----------------------------------------------------------------------------
(* Refinement of ProductionRun                                             *)

\* What ProductionRun lets a step of r do to its status and to one of its items.
StatusMoves(r) ==
  \/ run'[r].status = run[r].status
  \/ run[r].status = "NONE" /\ run'[r].status = "PENDING"
  \/ run[r].status = "PENDING" /\ run'[r].status = "RUNNING"
  \/ /\ run[r].status \in FinalStatuses /\ run'[r].status = "RUNNING"
     /\ run[r].cancel \/ r \in presumed
  \/ /\ run'[r].status \in FinalStatuses
     /\ Fits(r, run[r].status)'
     /\ run'[r].status = "CANCELLED" => run'[r].cancel
ItemMoves(r, i) ==
  \E y \in ItemStatuses :
    /\ item' = [item EXCEPT ![r][i] = y]
    /\ \/ item[r][i] = "PENDING" /\ y = "RUNNING"
       \/ /\ item[r][i] = "RUNNING" /\ y \in ItemTerminal
          /\ y = "CANCELLED" => run'[r].cancel

\* A column of the rows after a step that has left the others alone.
LEMMA ColumnWritten ==
  ASSUME NEW r \in Runs, Apart(r)
  PROVE  /\ [q \in Runs |-> run[q].status]' =
              [[q \in Runs |-> run[q].status] EXCEPT ![r] = run'[r].status]
         /\ [q \in Runs |-> run[q].cancel]' =
              [[q \in Runs |-> run[q].cancel] EXCEPT ![r] = run'[r].cancel]
<1>1. \A q \in Runs \ {r} : run'[q] = run[q] BY DEF Apart
<1> QED BY <1>1

\* Steps that do no more than that are steps of ProductionRun.
LEMMA PromiseItems ==
  ASSUME TypeOK, NEW r \in Runs, item' = item \/ \E i \in ItemsOf(r) : ItemMoves(r, i)
  PROVE  Promise!ItemMove(r)
<1>1. CASE item' = item BY <1>1 DEF Promise!ItemMove
<1>2. ASSUME NEW i \in ItemsOf(r), ItemMoves(r, i) PROVE Promise!ItemMove(r)
  <2>1. PICK y \in ItemStatuses :
          /\ item' = [item EXCEPT ![r][i] = y]
          /\ \/ item[r][i] = "PENDING" /\ y = "RUNNING"
             \/ /\ item[r][i] = "RUNNING" /\ y \in ItemTerminal
                /\ y = "CANCELLED" => run'[r].cancel
    BY <1>2 DEF ItemMoves
  <2>2. Promise!Becomes(r, i, y) BY <2>1 DEF Promise!Becomes
  <2>3. i \in DOMAIN item[r] BY DEF TypeOK
  <2>4. CASE item[r][i] = "PENDING" /\ y = "RUNNING"
    BY <2>2, <2>3, <2>4 DEF Promise!ItemMove, Promise!Begin
  <2>5. CASE /\ item[r][i] = "RUNNING" /\ y \in ItemTerminal
             /\ y = "CANCELLED" => run'[r].cancel
    <3>1. Promise!End(r, i, y)
      BY <2>2, <2>5 DEF Promise!End
    <3>2. y \in Promise!Ended BY <2>5 DEF Promise!Ended, ItemTerminal
    <3> QED BY <2>3, <3>1, <3>2 DEF Promise!ItemMove
  <2> QED BY <2>1, <2>4, <2>5
<1> QED BY <1>1, <1>2

LEMMA PromiseStatus ==
  ASSUME TypeOK, TypeOK', NEW r \in Runs, Apart(r), StatusMoves(r)
  PROVE  Promise!StatusMove(r)
<1>1. PICK s : s = run'[r].status OBVIOUS
<1>2. Promise!Called(r, s) BY <1>1, ColumnWritten DEF Promise!Called
<1>3. CASE run'[r].status = run[r].status
  <2>1. [q \in Runs |-> run[q].status]' = [q \in Runs |-> run[q].status]
    BY <1>3 DEF Apart
  <2> QED BY <2>1 DEF Promise!StatusMove
<1>4. CASE run[r].status = "NONE" /\ run'[r].status = "PENDING"
  BY <1>1, <1>2, <1>4 DEF Promise!StatusMove, Promise!Create
<1>5. CASE run[r].status = "PENDING" /\ run'[r].status = "RUNNING"
  BY <1>1, <1>2, <1>5 DEF Promise!StatusMove, Promise!Start
<1>6. CASE /\ run[r].status \in FinalStatuses /\ run'[r].status = "RUNNING"
           /\ run[r].cancel \/ r \in presumed
  <2>1. Promise!Reopen(r)
    BY <1>1, <1>2, <1>6 DEF Promise!Reopen, Promise!Final, FinalStatuses
  <2> QED BY <2>1 DEF Promise!StatusMove
<1>7. CASE /\ run'[r].status \in FinalStatuses
           /\ Fits(r, run[r].status)'
           /\ run'[r].status = "CANCELLED" => run'[r].cancel
  <2>1. /\ s = "COMPLETED" => \A i \in ItemsOf(r) :
             \/ item'[r][i] = "COMPLETED"
             \/ item'[r][i] = "FAILED" /\ engine' = "envi" /\ i = Size[r]
        /\ s = "PARTIAL_SUCCESS" =>
             /\ \E i \in ItemsOf(r) : item'[r][i] = "FAILED"
             /\ \E i \in ItemsOf(r) : item'[r][i] = "COMPLETED"
             /\ \A i \in ItemsOf(r) : item'[r][i] \in ItemTerminal
        /\ s = "CANCELLED" => run'[r].cancel
    BY <1>1, <1>7 DEF Fits, Having, ItemsOf
  <2>2. DOMAIN item'[r] = ItemsOf(r) BY DEF TypeOK, ItemsOf
  <2>3. s = "PARTIAL_SUCCESS" =>
          {"COMPLETED", "FAILED"} \subseteq {item'[r][i] : i \in DOMAIN item'[r]}
    BY <2>1, <2>2
  <2>4. [q \in Runs |-> run[q].cancel]'[r] = run'[r].cancel OBVIOUS
  <2>5. [q \in Runs |-> IF engine = "envi" THEN {Size[q]} ELSE {}]'[r] =
          IF engine' = "envi" THEN {Size[r]} ELSE {}
    OBVIOUS
  <2>6. Promise!Justified(r, s)'
    BY <2>1, <2>2, <2>3, <2>4, <2>5 DEF Promise!Justified, Promise!Ended, ItemTerminal
  <2>7. Promise!Close(r, s) BY <1>2, <2>6 DEF Promise!Close
  <2> QED BY <1>1, <1>7, <2>7 DEF Promise!StatusMove, Promise!Final, FinalStatuses
<1> QED BY <1>3, <1>4, <1>5, <1>6, <1>7 DEF StatusMoves

LEMMA PromiseStep ==
  ASSUME TypeOK, TypeOK', NEW r \in Runs, Apart(r), StatusMoves(r),
         item' = item \/ \E i \in ItemsOf(r) : ItemMoves(r, i),
         run[r].cancel => run'[r].cancel,
         presumed' \in {presumed, presumed \cup {r}}
  PROVE  Promise!Next
<1>1. Promise!ItemMove(r) BY PromiseItems
<1>2. Promise!StatusMove(r) BY PromiseStatus
<1> DEFINE flags == [q \in Runs |-> run[q].cancel]
<1>3. flags' \in {flags, [flags EXCEPT ![r] = TRUE]}
  <2>1. flags' = [flags EXCEPT ![r] = run'[r].cancel] BY ColumnWritten
  <2>2. run[r].cancel \in BOOLEAN /\ run'[r].cancel \in BOOLEAN BY DEF TypeOK, Row
  <2>3. CASE run'[r].cancel = TRUE BY <2>1, <2>3
  <2>4. CASE run'[r].cancel = run[r].cancel BY <2>1, <2>4
  <2> QED BY <2>2, <2>3, <2>4
<1>4. [q \in Runs |-> IF engine = "envi" THEN {Size[q]} ELSE {}]' =
        [q \in Runs |-> IF engine = "envi" THEN {Size[q]} ELSE {}]
  BY DEF Apart
<1> QED BY <1>1, <1>2, <1>3, <1>4 DEF Promise!Next

\* The status after a step.
LEMMA RunStatusMoves ==
  ASSUME DinsarInv, DinsarInv', NEW r \in Runs, StepOf(r)
  PROVE  StatusMoves(r)
<1>1. /\ WorkInv /\ TypeOK /\ OutcomeOf(r) /\ StillOpen(r) /\ Uncreated(r)
      /\ ListingFits(r) /\ OutcomeOf(r)'
  BY DEF DinsarInv, WorkInv, OutcomeInv, OutcomeOf
<1>2. CASE Create(r) /\ run'[r].status = "PENDING"
  BY <1>1, <1>2 DEF Create, OutcomeOf, SeenInRow, StatusMoves
<1>3. CASE (StartRun(r) \/ Begin(r)) /\ run'[r].status = "RUNNING"
  <2>1. exec[r].at \in Unjudged /\ exec[r].at # "idle"
    BY <1>3 DEF StartRun, Begin, Unjudged, Early, Inside
  <2>2. run[r].status # "NONE"
    BY <1>1, <2>1, OfRun DEF Uncreated
  <2>3. run[r].status \in Statuses BY <1>1 DEF TypeOK, Row
  <2>4. run[r].status \in FinalStatuses => run[r].cancel \/ r \in presumed
    BY <1>1, <2>1 DEF StillOpen, Open
  <2> QED BY <1>3, <2>2, <2>3, <2>4 DEF StatusMoves, Statuses
<1>4. CASE run'[r].status \in FinalStatuses
  <2>1. Fits(r, run[r].status)' BY <1>1 DEF OutcomeOf, StatusFits
  <2>2. run'[r].status = "CANCELLED" => run'[r].cancel BY <1>1 DEF OutcomeOf, SeenInRow
  <2> QED BY <1>4, <2>1, <2>2 DEF StatusMoves
<1>5. CASE run'[r].status = run[r].status BY <1>5 DEF StatusMoves
<1> QED BY <1>1, <1>2, <1>3, <1>4, <1>5, RowStep

\* The items after a step.
LEMMA RunItemMoves ==
  ASSUME DinsarInv, DinsarInv', NEW r \in Runs, StepOf(r)
  PROVE  item' = item \/ \E i \in ItemsOf(r) : ItemMoves(r, i)
<1>1. TypeOK /\ Local(r) /\ OutcomeOf(r)'
  BY OfRun DEF DinsarInv, OutcomeInv, OutcomeOf
<1>2. CASE Begin(r)
  <2>1. exec[r].k \in ItemsOf(r) /\ item[r][exec[r].k] = "PENDING"
    BY <1>1, <1>2 DEF Begin, Local
  <2>2. item' = [item EXCEPT ![r][exec[r].k] = "RUNNING"] /\ "RUNNING" \in ItemStatuses
    BY <1>2 DEF Begin, ItemStatuses
  <2> QED BY <2>1, <2>2 DEF ItemMoves
<1>3. ASSUME exec[r].at \in Engaged, NEW s \in ItemTerminal, s = "CANCELLED" => run'[r].cancel,
             item' = [item EXCEPT ![r][exec[r].k] = s]
      PROVE  \E i \in ItemsOf(r) : ItemMoves(r, i)
  <2>1. exec[r].k \in ItemsOf(r) /\ item[r][exec[r].k] = "RUNNING"
    BY <1>1, <1>3 DEF Local
  <2>2. s \in ItemStatuses BY DEF ItemStatuses
  <2> QED BY <1>3, <2>1, <2>2 DEF ItemMoves
<1>4. CASE ItemDone(r)
  BY <1>3, <1>4 DEF ItemDone, Engaged, ItemTerminal
<1>5. CASE FailItem(r)
  BY <1>3, <1>5 DEF FailItem, Engaged, ItemTerminal
<1>6. CASE CancelItem(r)
  <2>1. exec'[r].at = "leaving" BY <1>1, <1>6, CancelPlace
  <2>2. run'[r].cancel BY <1>1, <2>1 DEF OutcomeOf, SeenInRow
  <2> QED BY <1>3, <1>6, <2>2 DEF CancelItem, Engaged, ItemTerminal
<1>7. CASE item' = item BY <1>7
<1> QED
  BY <1>2, <1>4, <1>5, <1>6, <1>7 DEF StepOf, Work, Fault, Client, Create, Claim, StartTask,
     StartRun, Acquire, Check, ItemRaises, Release, Publish, Judge, Finalize, Report, Return,
     LoadFailed, Excuse, FailTask, Settle, Crash, Recover, LoseConnection, PublishFails,
     RegisterPid, Flag, Kill, CancelTask, List, ListLoad, ListTask, ListCount, ListClose,
     Controllers

\* Every step of the runs is a step of ProductionRun, or changes nothing there.
LEMMA PromiseSimulated ==
  ASSUME DinsarInv, DinsarInv', [Next]_vars
  PROVE  [Promise!Next]_(Promise!vars)
<1>1. ASSUME NEW r \in Runs, StepOf(r) PROVE Promise!Next
  <2>1. /\ WorkInv /\ TypeOK /\ OutcomeOf(r) /\ Uncreated(r) /\ ListingFits(r)
        /\ TypeOK'
    BY DEF DinsarInv, WorkInv, OutcomeInv, OutcomeOf
  <2>2. run[r].cancel => run'[r].cancel BY <1>1, <2>1, RowStep
  <2>3. Apart(r) BY <1>1, <2>1, OthersStep
  <2>4. presumed' \in {presumed, presumed \cup {r}} BY <1>1, <2>1, PresumedStep
  <2>5. StatusMoves(r) BY <1>1, RunStatusMoves
  <2>6. item' = item \/ \E i \in ItemsOf(r) : ItemMoves(r, i) BY <1>1, RunItemMoves
  <2> QED BY <2>1, <2>2, <2>3, <2>4, <2>5, <2>6, PromiseStep
<1>2. ASSUME UNCHANGED vars PROVE UNCHANGED Promise!vars
  BY <1>2 DEF vars, history, Promise!vars
<1> QED BY <1>1, <1>2 DEF Next, StepOf

LEMMA PromiseInit == Init => Promise!Init
<1> SUFFICES ASSUME Init PROVE Promise!Init
  OBVIOUS
<1>1. \A r \in Runs : run[r].status = "NONE" /\ run[r].cancel = FALSE
  BY DEF Init, NewRow
<1>2. \A r \in Runs : DOMAIN item[r] = ItemsOf(r) /\ \A i \in ItemsOf(r) : item[r][i] = "PENDING"
  BY DEF Init
<1>3. presumed = {} BY DEF Init
<1> QED BY <1>1, <1>2, <1>3 DEF Promise!Init

\* What the controllers, the lock, the rows and the views of the rows agree
\* upon: whoever works with the engine holds the lock or has lost its connection,
\* the items are taken in order, the flag of a cancelled run stays set, and what
\* a session or the row says of the items is true of them, or will be corrected
\* by a commit that is still to come.
THEOREM DinsarInvariant == Spec => []DinsarInv
BY InitDinsar, NextKeeps, PTL DEF Spec

\* Whoever closes a run, its controller (finalize_run), the wrapper of it or a
\* listing (list_runs), the run is called COMPLETED or PARTIAL_SUCCESS only with
\* the items for it, but for the last item of an ENVI run, and CANCELLED only if
\* it was to be cancelled; and the counters of a run whose job completed are
\* those of its items, although refresh_run_counters counts before the flush.
THEOREM RunsJudgedRight == Spec => [](RunOutcome /\ CountersTrue)
<1>1. DinsarInv => RunOutcome
  BY DEF DinsarInv, OutcomeInv, SeenInRow, StatusFits, RunOutcome
<1>2. DinsarInv => CountersTrue
  BY DEF DinsarInv, OutcomeInv, CountersSettle, CountersTrue
<1> QED BY <1>1, <1>2, DinsarInvariant, PTL

\* A force-cancel is heeded: at most one item, the one that was being started,
\* begins after the flag of its run was set (_refresh_cancel_state).
THEOREM CancelIsHeeded == Spec => []CancelHeeded
<1>1. DinsarInv => CancelHeeded
  <2> SUFFICES ASSUME WorkInv, NEW r \in Runs PROVE late[r] <= 1
      BY DEF CancelHeeded, DinsarInv
  <2>1. late[r] = 0 \/ late[r] = 1 BY DEF WorkInv, FlagStays
  <2> QED BY <2>1
<1> QED BY <1>1, DinsarInvariant, PTL

\* The advisory lock implements a mutual exclusion of the controllers: two of
\* them work with an engine only after a connection was lost, whatever becomes
\* of their tasks, jobs and workers.
THEOREM EngineExclusive == Spec => OneAtATime
<1>1. Init => Lock!Init
  <2> SUFFICES ASSUME Init PROVE Lock!Init OBVIOUS
  <2>1. \A r \in Runs : exec[r].at \notin Inside BY DEF Init, Idle, Inside
  <2>2. {r \in Runs : exec[r].at \in Inside} = {} BY <2>1
  <2>3. (lost # {}) = FALSE BY DEF Init
  <2> QED BY <2>2, <2>3 DEF Lock!Init
<1>2. DinsarInv /\ [Next]_vars => [Lock!Next]_<<Working, lost # {}>>
  BY LockStep DEF DinsarInv
<1> QED BY <1>1, <1>2, DinsarInvariant, PTL DEF Spec, OneAtATime, Lock!Spec, Working

\* The controllers, the wrapper, the listings and the force-cancels implement
\* ProductionRun: an item begins once and ends once, COMPLETED and PARTIAL_SUCCESS
\* are what the items call for, a request is not forgotten, and only the run that
\* was flagged, or whose job was recovered under a live controller, is set RUNNING
\* again after it was closed (mark_run_started, begin_item_execution).
THEOREM DinsarKeepsPromise == Spec => PromiseKept
<1>1. Init => Promise!Init
  BY PromiseInit
<1>2. DinsarInv /\ DinsarInv' /\ [Next]_vars => [Promise!Next]_(Promise!vars)
  BY PromiseSimulated
<1> QED
  BY <1>1, <1>2, DinsarInvariant, PTL DEF Spec, PromiseKept, Promise!Spec

=============================================================================
