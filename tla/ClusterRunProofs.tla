------------------------- MODULE ClusterRunProofs -------------------------
(***************************************************************************)
(* For every number of items, attempts, crashes, failed downloads and      *)
(* cancellations, a cluster run is closed only when all its items are      *)
(* terminal, with the status they call for, and it keeps what              *)
(* ProductionRun promises.                                                 *)
(*                                                                         *)
(* Every step but those of the administrator and of the listing belongs to *)
(* one item i: it gives new values to the coroutine, the upload and the    *)
(* row of i only.  LocalStep says what these values have to satisfy.       *)
(***************************************************************************)
EXTENDS ClusterRun, TLAPS

\* What a coroutine c, or an upload u, may be if its item is y.
CoroutineOk(c, y) ==
  /\ c \in Coroutine
  /\ c.at \in Before =>
       c.item \in {"PENDING", "RUNNING"} /\ (c.item = "PENDING" <=> y = "PENDING")
  /\ y = "PENDING" => c.at \notin Begun
  /\ c.at = "decided" /\ c.final # "" => AllTerminal
  /\ c.at = "settling" => c.final # ""
UploadOk(u, y) ==
  /\ u \in Upload
  /\ y = "PENDING" => u.at = "idle"
  /\ u.at = "decided" /\ u.final # "" => AllTerminal

\* What the row of i may become.
ItemOk(i, y) == y \in ItemStatuses /\ (item[i] \in ItemTerminal => y \in ItemTerminal)

\* What the run may become.
RunOk ==
  /\ run' \in [status: RunStatuses, cancel: BOOLEAN]
  /\ run'.status \in FinalStatuses => run.status \in FinalStatuses \/ AllTerminal

\* The listing is not concerned; the other variables only have their types.
RestOk ==
  /\ UNCHANGED <<lister, reconciled>>
  /\ task' \in RunStatuses
  /\ job' \in [Items -> JobRow]
  /\ admin' \in BOOLEAN
  /\ crashes' \in Nat /\ cancels' \in Nat /\ fetchFails' \in Nat
  /\ undelivered' \subseteq Items /\ unpublished' \subseteq Items

\* A step of one item keeps the invariant and reopens no item.
LEMMA LocalStep ==
  ASSUME ClosingInv, NEW i \in Items, NEW c, NEW u, NEW y,
         CoroutineOk(c, y), UploadOk(u, y), ItemOk(i, y), RunOk, RestOk,
         exec' = [exec EXCEPT ![i] = c], server' = [server EXCEPT ![i] = u],
         item' = [item EXCEPT ![i] = y]
  PROVE  ClosingInv' /\ \A k \in Items : item[k] \in ItemTerminal => item'[k] \in ItemTerminal
<1>1. /\ exec \in [Items -> Coroutine] /\ server \in [Items -> Upload]
      /\ item \in [Items -> ItemStatuses]
  BY DEF ClosingInv, TypeOK
<1>2. /\ exec'[i] = c /\ server'[i] = u /\ item'[i] = y
      /\ \A k \in Items : k # i => exec'[k] = exec[k] /\ server'[k] = server[k] /\ item'[k] = item[k]
  BY <1>1
<1>3. \A k \in Items : item[k] \in ItemTerminal => item'[k] \in ItemTerminal
  BY <1>2 DEF ItemOk
<1>4. AllTerminal => AllTerminal'
  BY <1>3 DEF AllTerminal
<1>5. TypeOK'
  <2>1. exec' \in [Items -> Coroutine]
    BY <1>1 DEF CoroutineOk
  <2>2. server' \in [Items -> Upload]
    BY <1>1 DEF UploadOk
  <2>3. item' \in [Items -> ItemStatuses]
    BY <1>1 DEF ItemOk
  <2> QED
    BY <2>1, <2>2, <2>3 DEF RunOk, RestOk, TypeOK, ClosingInv
<1>6. ASSUME NEW k \in Items
      PROVE  CoroutineOk(exec[k], item[k]) /\ UploadOk(server[k], item[k])
  BY <1>1 DEF ClosingInv, ViewOfItem, DecidedIsDone, SettlesToFinal, CoroutineOk, UploadOk
<1>7. ASSUME NEW k \in Items
      PROVE  CoroutineOk(exec'[k], item'[k]) /\ UploadOk(server'[k], item'[k])
  <2>1. CASE k = i
    BY <1>2, <2>1
  <2>2. CASE k # i
    BY <1>2, <1>6, <2>2
  <2> QED
    BY <2>1, <2>2
<1>9. ViewOfItem'
  BY <1>7 DEF CoroutineOk, UploadOk, ViewOfItem
<1>10. DecidedIsDone'
  BY <1>4, <1>7 DEF CoroutineOk, UploadOk, DecidedIsDone
<1>11. SettlesToFinal'
  BY <1>7 DEF CoroutineOk, SettlesToFinal
<1>8. ClosedRunIsDone'
  BY <1>4 DEF RunOk, RestOk, ClosingInv, ClosedRunIsDone
<1> QED
  BY <1>3, <1>5, <1>8, <1>9, <1>10, <1>11 DEF ClosingInv

\* What the invariant says of one item.
LEMMA ItemFacts ==
  ASSUME ClosingInv, NEW i \in Items
  PROVE  /\ CoroutineOk(exec[i], item[i]) /\ UploadOk(server[i], item[i])
         /\ ItemOk(i, item[i])
         /\ exec = [exec EXCEPT ![i] = exec[i]] /\ server = [server EXCEPT ![i] = server[i]]
         /\ item = [item EXCEPT ![i] = item[i]]
<1>1. /\ exec \in [Items -> Coroutine] /\ server \in [Items -> Upload]
      /\ item \in [Items -> ItemStatuses]
  BY DEF ClosingInv, TypeOK
<1> QED
  BY <1>1 DEF ClosingInv, ViewOfItem, DecidedIsDone, SettlesToFinal, CoroutineOk,
              UploadOk, ItemOk

\* An untouched run, task, job or counter keeps its type.
LEMMA Untouched ==
  ASSUME ClosingInv
  PROVE  /\ UNCHANGED run => RunOk
         /\ UNCHANGED <<task, job, admin, lister, history, crashes, cancels, fetchFails>> => RestOk
  BY DEF ClosingInv, TypeOK, RunOk, RestOk, history

\* Writing the status of the run: RUNNING always, an outcome if it was decided.
LEMMA RunWritten ==
  ASSUME ClosingInv, NEW seen, NEW new \in RunStatuses,
         new \in FinalStatuses => AllTerminal, WriteRun(seen, new)
  PROVE  RunOk
<1>1. run \in [status: RunStatuses, cancel: BOOLEAN]
  BY DEF ClosingInv, TypeOK
<1>2. run' = run \/ run' = [run EXCEPT !.status = new]
  BY DEF WriteRun
<1>3. CASE run' = run
  BY <1>1, <1>3 DEF RunOk
<1>4. CASE run' = [run EXCEPT !.status = new]
  <2>1. run'.status = new
    BY <1>1, <1>4
  <2>2. run' \in [status: RunStatuses, cancel: BOOLEAN]
    BY <1>1, <1>4
  <2> QED
    BY <2>1, <2>2 DEF RunOk
<1> QED
  BY <1>2, <1>3, <1>4

\* Writing a terminal status to the item of i.
LEMMA ItemWritten ==
  ASSUME ClosingInv, NEW i \in Items, NEW seen, NEW new \in ItemTerminal,
         WriteItem(i, seen, new)
  PROVE  \E y : /\ item' = [item EXCEPT ![i] = y] /\ ItemOk(i, y)
                /\ y = item[i] \/ y = new
  <1>1. item = [item EXCEPT ![i] = item[i]] /\ ItemOk(i, item[i])
    BY ItemFacts
  <1>2. ItemOk(i, new)
    BY DEF ItemOk, ItemStatuses
  <1> QED
    BY <1>1, <1>2 DEF WriteItem

\* An outcome other than None says that all items are terminal.
LEMMA OutcomeMeansDone ==
  ASSUME NEW error, NEW cancel
  PROVE  /\ Outcome(error, cancel) \in {""} \cup FinalStatuses
         /\ Outcome(error, cancel) # "" => AllTerminal
  BY DEF Outcome, FinalStatuses

-----------------------------------------------------------------------------
(* The steps of one item                                                   *)

ItemStep(i) ==
  Advance(i) \/ Serve(i) \/ FetchFails(i) \/ KeepAlive(i) \/ LocalFails(i)
  \/ RemoteFails(i) \/ ServerEnds(i) \/ Crash(i)

\* What LocalStep asks for, with witnesses for c, u and y.
Local(i) ==
  /\ RunOk /\ RestOk
  /\ \E c, u, y : /\ CoroutineOk(c, y) /\ UploadOk(u, y) /\ ItemOk(i, y)
                 /\ exec' = [exec EXCEPT ![i] = c]
                 /\ server' = [server EXCEPT ![i] = u]
                 /\ item' = [item EXCEPT ![i] = y]

\* A step that only moves the coroutine of i, or not even that.
LEMMA CoroutineMoves ==
  ASSUME ClosingInv, NEW i \in Items, NEW c, CoroutineOk(c, item[i]),
         exec' = [exec EXCEPT ![i] = c], UNCHANGED <<item, server>>, RunOk, RestOk
  PROVE  Local(i)
<1>1. UploadOk(server[i], item[i]) /\ ItemOk(i, item[i])
      /\ server' = [server EXCEPT ![i] = server[i]] /\ item' = [item EXCEPT ![i] = item[i]]
  BY ItemFacts
<1> QED
  BY <1>1 DEF Local

LEMMA IdleFact == Idle \in Coroutine /\ Idle.at = "idle" /\ Idle.item = "PENDING"
  BY DEF Idle, Coroutine, Places, RunStatuses, ItemStatuses, FinalStatuses

LEMMA NoUploadFact == NoUpload \in Upload /\ NoUpload.at = "idle"
  BY DEF NoUpload, Upload, ServerStates, RunStatuses, ItemStatuses, FinalStatuses

\* A coroutine whose place changes to one where nothing is remembered.
Plain == Places \ (Before \cup Begun \cup {"decided", "settling"})

LEMMA PlainOk ==
  ASSUME NEW c \in Coroutine, NEW y, c.at \in Plain
  PROVE  CoroutineOk(c, y)
  BY DEF Plain, CoroutineOk, Places, Before, Begun

LEMMA JobOk ==
  ASSUME ClosingInv, NEW i \in Items
  PROVE  /\ Attempted(i) \in JobRow
         /\ [job EXCEPT ![i].status = "RUNNING"] \in [Items -> JobRow]
         /\ [job EXCEPT ![i].status = "COMPLETED"] \in [Items -> JobRow]
         /\ [job EXCEPT ![i] = Attempted(i)] \in [Items -> JobRow]
<1>1. job \in [Items -> JobRow]
  BY DEF ClosingInv, TypeOK
<1>2. Attempted(i) \in JobRow
  <2>1. job[i] \in JobRow /\ job[i].attempts \in Nat
    BY <1>1 DEF JobRow
  <2>2. job[i].attempts + 1 \in Nat
    BY <2>1
  <2>3. PICK s \in {"READY", "FAILED"} :
          s = IF job[i].attempts + 1 >= MaxAttempts THEN "FAILED" ELSE "READY"
    OBVIOUS
  <2>4. PICK n \in Nat : n = job[i].attempts + 1
    BY <2>2
  <2>5. Attempted(i) = [job[i] EXCEPT !.attempts = n, !.status = s]
    BY <2>3, <2>4 DEF Attempted
  <2>6. [job[i] EXCEPT !.attempts = n, !.status = s] \in JobRow
    BY <2>1 DEF JobRow
  <2> QED
    BY <2>5, <2>6
<1>3. /\ [job EXCEPT ![i].status = "RUNNING"] \in [Items -> JobRow]
      /\ [job EXCEPT ![i].status = "COMPLETED"] \in [Items -> JobRow]
  BY <1>1 DEF JobRow
<1> QED
  BY <1>1, <1>2, <1>3

\* Moving the coroutine of i to a place where it remembers what it did, with
\* the same view.
LEMMA GotoOk ==
  ASSUME ClosingInv, NEW i \in Items, NEW place \in Places,
         \/ place \in Before /\ exec[i].at \in Before
         \/ place \in Begun /\ exec[i].at \in Begun
         \/ place \in Plain
  PROVE  /\ CoroutineOk([exec[i] EXCEPT !.at = place], item[i])
         /\ Goto(i, place) => exec' = [exec EXCEPT ![i] = [exec[i] EXCEPT !.at = place]]
<1>1. exec \in [Items -> Coroutine]
  BY DEF ClosingInv, TypeOK
<1>2. PICK c : c = [exec[i] EXCEPT !.at = place]
  OBVIOUS
<1>3. c \in Coroutine /\ c.at = place /\ c.item = exec[i].item
  BY <1>1, <1>2 DEF Coroutine
<1>4. CoroutineOk(exec[i], item[i])
  BY ItemFacts
<1>5. CoroutineOk(c, item[i])
  BY <1>3, <1>4 DEF CoroutineOk, Plain, Places, Before, Begun
<1> QED
  BY <1>2, <1>5 DEF Goto

\* The handler opens an item: what it loads is true of the row.
LEMMA OpenLocal ==
  ASSUME ClosingInv, NEW i \in Items, Open(i)
  PROVE  Local(i)
<1> DEFINE c == [Idle EXCEPT !.at = IF item[i] \in ItemTerminal THEN "marked" ELSE "opened",
                             !.hush = item[i] \in ItemTerminal,
                             !.run = run.status, !.cancel = run.cancel, !.item = item[i]]
<1>1. /\ run.status \in RunStatuses /\ run.cancel \in BOOLEAN
      /\ item[i] \in ItemStatuses /\ (item[i] \in ItemTerminal) \in BOOLEAN
  <2>1. /\ run \in [status: RunStatuses, cancel: BOOLEAN]
        /\ item \in [Items -> ItemStatuses]
    BY DEF ClosingInv, TypeOK
  <2>2. (item[i] \in ItemTerminal) \in BOOLEAN
    OBVIOUS
  <2> QED
    BY <2>1, <2>2
<1>2. /\ c \in Coroutine /\ c.item = item[i]
      /\ c.at = IF item[i] \in ItemTerminal THEN "marked" ELSE "opened"
  BY <1>1 DEF Idle, Coroutine, Places, FinalStatuses
<1>3. CoroutineOk(c, item[i])
  BY <1>1, <1>2 DEF CoroutineOk, Before, Begun, ItemStatuses, ItemTerminal
<1>4. exec' = [exec EXCEPT ![i] = c] /\ UNCHANGED <<item, server, run>>
  BY DEF Open, Outside
<1>5. RunOk
  BY <1>4, Untouched
<1>6. RestOk
  <2>1. job' \in [Items -> JobRow]
    BY JobOk DEF Open
  <2> QED
    BY <2>1 DEF Open, Outside, history, ClosingInv, TypeOK, RestOk
<1> HIDE DEF c
<1> QED
  BY <1>3, <1>4, <1>5, <1>6, CoroutineMoves

\* The steps that only move the coroutine of i, or end it.
LEMMA QuietLocal ==
  ASSUME ClosingInv, NEW i \in Items,
         Fetch(i) \/ FetchFails(i) \/ Clear(i) \/ StartTask(i) \/ KeepAlive(i)
         \/ Report(i) \/ Return(i) \/ MarkFailed(i) \/ Settle(i) \/ Crash(i)
  PROVE  Local(i)
<1>1. exec[i] \in Coroutine /\ exec[i].at \in Places
      /\ exec[i].final \in {""} \cup FinalStatuses
  BY DEF ClosingInv, TypeOK, Coroutine
<1>2. UNCHANGED <<run, item, server>>
  BY DEF Fetch, FetchFails, Clear, StartTask, KeepAlive, Report, Return, MarkFailed,
         Settle, Crash, Outside
<1>3. RunOk
  BY <1>2, Untouched
<1>4. CoroutineOk(Idle, item[i])
  BY IdleFact DEF CoroutineOk, Before, Begun
<1>5. \E c : CoroutineOk(c, item[i]) /\ exec' = [exec EXCEPT ![i] = c]
  <2>1. CASE Fetch(i) \/ Clear(i)
    <3>1. PICK p \in {"fetched", "cleared"} : exec[i].at \in Before /\ Goto(i, p)
      BY <2>1 DEF Fetch, Clear, Before
    <3>2. p \in Before /\ p \in Places
      BY DEF Before, Places
    <3> QED
      BY <3>1, <3>2, GotoOk
  <2>2. CASE StartTask(i)
    <3>1. PICK p \in {"starting", "started"} : exec[i].at \in Before /\ Goto(i, p)
      BY <2>2 DEF StartTask, Before
    <3>2. p \in Before /\ p \in Places
      BY DEF Before, Places
    <3> QED
      BY <3>1, <3>2, GotoOk
  <2>3. CASE FetchFails(i)
    <3>1. "raised" \in Plain /\ Goto(i, "raised")
      BY <2>3 DEF FetchFails, Plain, Places, Before, Begun
    <3> QED
      BY <3>1, GotoOk DEF Plain
  <2>4. CASE KeepAlive(i)
    BY <2>4, ItemFacts DEF KeepAlive
  <2>5. CASE Report(i)
    <3>1. "returned" \in Plain /\ Goto(i, "returned")
      BY <2>5 DEF Report, Plain, Places, Before, Begun
    <3> QED
      BY <3>1, GotoOk DEF Plain
  <2>6. CASE MarkFailed(i)
    <3>1. "judging" \in Plain
      BY DEF Plain, Places, Before, Begun
    <3>2. Goto(i, "judging") \/ exec' = [exec EXCEPT ![i] = Idle]
      BY <2>6 DEF MarkFailed
    <3> QED
      BY <1>4, <3>1, <3>2, GotoOk DEF Plain
  <2>7. CASE Return(i) \/ Settle(i) \/ Crash(i)
    BY <1>4, <2>7 DEF Return, Settle, Crash
  <2> QED
    BY <2>1, <2>2, <2>3, <2>4, <2>5, <2>6, <2>7
<1>6. RestOk
  <2>1. job' \in [Items -> JobRow]
    <3>1. job \in [Items -> JobRow]
      BY DEF ClosingInv, TypeOK
    <3>2. \/ UNCHANGED job
          \/ job' = [job EXCEPT ![i].status = "COMPLETED"]
          \/ job' = [job EXCEPT ![i] = Attempted(i)]
      BY DEF Fetch, FetchFails, Clear, StartTask, KeepAlive, Report, Return,
             MarkFailed, Settle, Crash
    <3> QED
      BY <3>1, <3>2, JobOk
  <2>2. task' \in RunStatuses
    <3>1. Settle(i) => exec[i].final \in FinalStatuses
      BY <1>1, ItemFacts DEF Settle, CoroutineOk
    <3> QED
      BY <1>1, <3>1 DEF Fetch, FetchFails, Clear, StartTask, KeepAlive, Report, Return,
         MarkFailed, Settle, Crash, RunStatusFor, RunStatuses, ClosingInv, TypeOK
  <2>3. /\ UNCHANGED <<admin, lister, cancels, unpublished, reconciled>>
        /\ undelivered' \in {undelivered, undelivered \cup {i}}
        /\ crashes' \in {crashes, crashes + 1} /\ fetchFails' \in {fetchFails, fetchFails + 1}
    BY DEF Fetch, FetchFails, Clear, StartTask, KeepAlive, Report, Return, MarkFailed,
           Settle, Crash, Outside, history, GivenUp
  <2>4. crashes' \in Nat /\ fetchFails' \in Nat
    <3>1. crashes \in Nat /\ fetchFails \in Nat
      BY DEF ClosingInv, TypeOK
    <3> QED
      BY <2>3, <3>1
  <2> QED
    BY <2>1, <2>2, <2>3, <2>4 DEF ClosingInv, TypeOK, RestOk
<1> QED
  BY <1>2, <1>3, <1>5, <1>6, CoroutineMoves

\* CancelItem and RemoteClose give the item a terminal status.
LEMMA ClosingLocal ==
  ASSUME ClosingInv, NEW i \in Items,
         CancelItem(i) \/ LocalDone(i) \/ LocalFails(i) \/ RemoteClose(i)
  PROVE  Local(i)
<1>1. exec[i] \in Coroutine
  BY DEF ClosingInv, TypeOK
<1>2. PICK y : item' = [item EXCEPT ![i] = y] /\ ItemOk(i, y)
               /\ (y = item[i] \/ y \in ItemTerminal)
  <2>1. UNCHANGED item \/ \E new \in ItemTerminal : WriteItem(i, exec[i].item, new)
    BY DEF CancelItem, LocalDone, LocalFails, RemoteClose, ItemTerminal
  <2> QED
    BY <2>1, ItemWritten, ItemFacts
<1>3. UploadOk(server[i], y)
  BY <1>2, ItemFacts DEF UploadOk, ItemTerminal
<1>4. PICK c : exec' = [exec EXCEPT ![i] = c] /\ c \in Coroutine /\ c.at = "marked"
  <2>1. CASE CancelItem(i)
    <3>1. PICK c : c = [exec[i] EXCEPT !.at = "marked", !.hush = TRUE, !.cancel = TRUE]
      OBVIOUS
    <3>2. c \in Coroutine /\ c.at = "marked"
      BY <1>1, <3>1 DEF Coroutine, Places
    <3>3. exec' = [exec EXCEPT ![i] = c]
      <4>1. exec \in [Items -> Coroutine]
        BY DEF ClosingInv, TypeOK
      <4> QED
        BY <2>1, <3>1, <4>1, <1>1 DEF CancelItem, Coroutine
    <3> QED
      BY <3>2, <3>3
  <2>2. CASE LocalDone(i)
    <3>1. PICK error \in BOOLEAN :
            exec' = [exec EXCEPT ![i] = [exec[i] EXCEPT !.at = "marked",
                                         !.item = "COMPLETED", !.error = error]]
      BY <2>2 DEF LocalDone
    <3>2. PICK c : c = [exec[i] EXCEPT !.at = "marked", !.item = "COMPLETED", !.error = error]
      OBVIOUS
    <3>3. c \in Coroutine /\ c.at = "marked"
      BY <1>1, <3>2 DEF Coroutine, Places, ItemStatuses, ItemTerminal
    <3> QED
      BY <3>1, <3>2, <3>3
  <2>3. CASE LocalFails(i)
    <3>1. PICK c : c = [exec[i] EXCEPT !.at = "marked", !.item = "FAILED"]
      OBVIOUS
    <3>2. c \in Coroutine /\ c.at = "marked"
      BY <1>1, <3>1 DEF Coroutine, Places, ItemStatuses, ItemTerminal
    <3> QED
      BY <2>3, <3>1, <3>2 DEF LocalFails
  <2>4. CASE RemoteClose(i)
    <3>1. PICK c : c = [exec[i] EXCEPT !.at = "marked"]
      OBVIOUS
    <3>2. c \in Coroutine /\ c.at = "marked"
      BY <1>1, <3>1 DEF Coroutine, Places
    <3>3. exec' = [exec EXCEPT ![i] = c]
      BY <2>4, <3>1 DEF RemoteClose, Goto
    <3> QED
      BY <3>2, <3>3
  <2> QED
    BY <2>1, <2>2, <2>3, <2>4
<1>5. CoroutineOk(c, y)
  BY <1>4, PlainOk DEF Plain, Before, Begun, Places
<1>6. RunOk
  BY Untouched DEF CancelItem, LocalDone, LocalFails, RemoteClose, RunOk, ClosingInv, TypeOK
<1>7. RestOk /\ UNCHANGED server
  <2>1. /\ unpublished' \subseteq Items
        /\ UNCHANGED <<task, job, admin, lister, undelivered, reconciled, crashes, cancels,
                       fetchFails, server>>
    BY DEF CancelItem, LocalDone, LocalFails, RemoteClose, Outside, Bounds, history,
           ClosingInv, TypeOK
  <2> QED
    BY <2>1 DEF RestOk, ClosingInv, TypeOK
<1>8. server' = [server EXCEPT ![i] = server[i]]
  BY <1>7, ItemFacts
<1> QED
  BY <1>2, <1>3, <1>4, <1>5, <1>6, <1>7, <1>8 DEF Local

\* StartRun and Begin: the run is RUNNING, and the item if it was PENDING.
LEMMA StartRunLocal ==
  ASSUME ClosingInv, NEW i \in Items, StartRun(i)
  PROVE  Local(i)
<1>1. exec[i] \in Coroutine /\ exec \in [Items -> Coroutine]
  BY DEF ClosingInv, TypeOK
<1>2. PICK c : c = [exec[i] EXCEPT !.at = "started", !.run = "RUNNING"]
  OBVIOUS
<1>3. c \in Coroutine /\ c.at = "started" /\ c.item = exec[i].item
  BY <1>1, <1>2 DEF Coroutine, Places, RunStatuses
<1>4. exec' = [exec EXCEPT ![i] = c]
  BY <1>1, <1>2 DEF StartRun, Coroutine
<1>5. CoroutineOk(c, item[i])
  BY <1>3, ItemFacts DEF CoroutineOk, StartRun, Before, Begun
<1>6. RunOk
  BY RunWritten DEF StartRun, RunStatuses, FinalStatuses
<1>7. RestOk /\ UNCHANGED <<item, server>>
  BY Untouched DEF StartRun, Outside
<1> QED
  BY <1>4, <1>5, <1>6, <1>7, CoroutineMoves

LEMMA BeginLocal ==
  ASSUME ClosingInv, NEW i \in Items, Begin(i)
  PROVE  Local(i)
<1>1. exec[i] \in Coroutine /\ CoroutineOk(exec[i], item[i]) /\ exec[i].at \in Before
  BY ItemFacts DEF ClosingInv, TypeOK, Begin, Before
<1>2. PICK c : c = [exec[i] EXCEPT !.at = "executing", !.run = "RUNNING", !.item = "RUNNING"]
  OBVIOUS
<1>3. c \in Coroutine /\ c.at = "executing"
  BY <1>1, <1>2 DEF Coroutine, Places, RunStatuses, ItemStatuses
<1>4. exec' = [exec EXCEPT ![i] = c]
  BY <1>2 DEF Begin
<1>5. PICK y : /\ item' = [item EXCEPT ![i] = y] /\ ItemOk(i, y) /\ y # "PENDING"
               /\ UploadOk(server[i], y)
  <2>1. CASE exec[i].item = "RUNNING"
    <3>1. UNCHANGED item
      BY <2>1 DEF Begin, WriteItem
    <3>2. item[i] # "PENDING"
      BY <1>1, <2>1 DEF CoroutineOk
    <3> QED
      BY <3>1, <3>2, ItemFacts
  <2>2. CASE exec[i].item = "PENDING"
    <3>1. item[i] = "PENDING" /\ item' = [item EXCEPT ![i] = "RUNNING"]
      BY <1>1, <2>2 DEF CoroutineOk, Begin, WriteItem
    <3>2. ItemOk(i, "RUNNING") /\ UploadOk(server[i], "RUNNING")
      BY <3>1, ItemFacts DEF ItemOk, UploadOk, ItemStatuses, ItemTerminal
    <3> QED
      BY <3>1, <3>2
  <2> QED
    BY <1>1, <2>1, <2>2 DEF CoroutineOk
<1>6. CoroutineOk(c, y)
  BY <1>3, <1>5 DEF CoroutineOk, Before
<1>7. RunOk
  BY RunWritten DEF Begin, RunStatuses, FinalStatuses
<1>8. RestOk /\ UNCHANGED server
  BY Untouched DEF Begin, Outside
<1> QED
  BY <1>4, <1>5, <1>6, <1>7, <1>8, ItemFacts DEF Local

\* Send and Answered: an upload is begun for an item that has begun, or ended.
LEMMA TransferLocal ==
  ASSUME ClosingInv, NEW i \in Items, Send(i) \/ Answered(i)
  PROVE  Local(i)
<1>1. PICK p \in {"uploading", "marked"} :
        /\ Goto(i, p)
        /\ p = "uploading" => exec[i].at \in Begun
  BY DEF Send, Answered, Begun
<1>2. CoroutineOk([exec[i] EXCEPT !.at = p], item[i])
      /\ exec' = [exec EXCEPT ![i] = [exec[i] EXCEPT !.at = p]]
  <2>1. p \in Places /\ (p = "uploading" => p \in Begun) /\ (p = "marked" => p \in Plain)
    BY DEF Places, Plain, Before, Begun
  <2> QED
    BY <1>1, <2>1, GotoOk
<1>3. PICK u : server' = [server EXCEPT ![i] = u] /\ UploadOk(u, item[i])
  <2>1. CASE Send(i)
    <3>1. item[i] # "PENDING" /\ item[i] \in ItemStatuses
      BY <2>1, ItemFacts DEF Send, CoroutineOk, Begun, ItemOk
    <3>2. PICK u : u = [NoUpload EXCEPT !.at = "received", !.item = item[i]]
      OBVIOUS
    <3>3. u \in Upload /\ u.at = "received"
      BY <3>1, <3>2 DEF NoUpload, Upload, ServerStates, RunStatuses, FinalStatuses
    <3> QED
      BY <2>1, <3>1, <3>2, <3>3 DEF Send, UploadOk
  <2>2. CASE Answered(i)
    BY <2>2, NoUploadFact DEF Answered, UploadOk
  <2> QED
    BY <2>1, <2>2
<1>4. RunOk /\ RestOk
  BY Untouched DEF Send, Answered, Bounds
<1>5. item' = [item EXCEPT ![i] = item[i]] /\ ItemOk(i, item[i])
  BY ItemFacts DEF Send, Answered
<1> QED
  BY <1>2, <1>3, <1>4, <1>5 DEF Local

\* RemoteFails: the refreshed item has begun.
LEMMA RemoteFailsLocal ==
  ASSUME ClosingInv, NEW i \in Items, RemoteFails(i)
  PROVE  Local(i)
<1>1. exec[i] \in Coroutine /\ item[i] \in ItemStatuses /\ item[i] # "PENDING"
  BY ItemFacts DEF RemoteFails, CoroutineOk, ItemOk, Begun
<1>2. PICK c : c = [exec[i] EXCEPT !.at = "doubting", !.item = item[i]]
  OBVIOUS
<1>3. c \in Coroutine /\ c.at = "doubting"
  BY <1>1, <1>2 DEF Coroutine, Places
<1>4. CoroutineOk(c, item[i])
  BY <1>1, <1>3 DEF CoroutineOk, Before
<1>5. RunOk /\ UNCHANGED <<item, server>> /\ exec' = [exec EXCEPT ![i] = c]
  BY <1>2, Untouched DEF RemoteFails
<1>6. RestOk
  BY DEF RemoteFails, GivenUp, Bounds, RestOk, ClosingInv, TypeOK
<1> QED
  BY <1>4, <1>5, <1>6, CoroutineMoves

\* FinalRead and FinalCommit: an outcome is decided if all items are terminal.
LEMMA FinalReadLocal ==
  ASSUME ClosingInv, NEW i \in Items, FinalRead(i)
  PROVE  Local(i)
<1>1. exec[i] \in Coroutine
      /\ exec[i].run \in RunStatuses /\ exec[i].cancel \in BOOLEAN
      /\ run.status \in RunStatuses /\ run.cancel \in BOOLEAN
  BY DEF ClosingInv, TypeOK, Coroutine
<1>2. PICK status \in RunStatuses, cancel \in BOOLEAN :
        exec' = [exec EXCEPT ![i] =
          [exec[i] EXCEPT !.at = "decided", !.run = status, !.cancel = cancel,
                          !.final = Outcome(exec[i].error, cancel)]]
  BY <1>1 DEF FinalRead
<1>3. PICK final : final = Outcome(exec[i].error, cancel)
  OBVIOUS
<1>4. final \in {""} \cup FinalStatuses /\ (final # "" => AllTerminal)
  BY <1>3, OutcomeMeansDone
<1>5. PICK c : c = [exec[i] EXCEPT !.at = "decided", !.run = status, !.cancel = cancel,
                                   !.final = final]
  OBVIOUS
<1>6. c \in Coroutine /\ c.at = "decided" /\ c.final = final
  BY <1>1, <1>4, <1>5 DEF Coroutine, Places
<1>7. CoroutineOk(c, item[i])
  BY <1>4, <1>6 DEF CoroutineOk, Before, Begun
<1>8. exec' = [exec EXCEPT ![i] = c]
  BY <1>2, <1>3, <1>5
<1>9. RunOk /\ RestOk /\ UNCHANGED <<item, server>>
  BY Untouched DEF FinalRead, Outside
<1> QED
  BY <1>7, <1>8, <1>9, CoroutineMoves

LEMMA FinalCommitLocal ==
  ASSUME ClosingInv, NEW i \in Items, FinalCommit(i)
  PROVE  Local(i)
<1>1. PICK p \in {"returned", "reporting"} : Goto(i, p)
  BY DEF FinalCommit
<1>2. p \in Plain /\ p \in Places
  BY DEF Plain, Places, Before, Begun
<1>3. CoroutineOk([exec[i] EXCEPT !.at = p], item[i])
      /\ exec' = [exec EXCEPT ![i] = [exec[i] EXCEPT !.at = p]]
  BY <1>1, <1>2, GotoOk
<1>4. exec[i].final \in {""} \cup FinalStatuses /\ (exec[i].final # "" => AllTerminal)
  BY ItemFacts DEF FinalCommit, CoroutineOk, Coroutine
<1>5. RunOk
  BY <1>4, RunWritten DEF FinalCommit, RunStatusFor, RunStatuses, FinalStatuses
<1>6. RestOk /\ UNCHANGED <<item, server>>
  BY Untouched DEF FinalCommit, Outside
<1> QED
  BY <1>3, <1>5, <1>6, CoroutineMoves

\* Judge and Recover: a task is settled with a final status.
LEMMA SettlingLocal ==
  ASSUME ClosingInv, NEW i \in Items, Judge(i) \/ Recover(i)
  PROVE  Local(i)
<1>1. exec[i] \in Coroutine /\ exec = [exec EXCEPT ![i] = exec[i]]
      /\ CoroutineOk(exec[i], item[i])
  BY ItemFacts DEF CoroutineOk
<1>2. PICK c : CoroutineOk(c, item[i]) /\ exec' = [exec EXCEPT ![i] = c]
  <2>1. CASE UNCHANGED exec
    BY <1>1, <2>1
  <2>2. CASE ~UNCHANGED exec
    <3>1. PICK d \in Coroutine, final \in {"CANCELLED", "FAILED"} :
            exec' = [exec EXCEPT ![i] = [d EXCEPT !.at = "settling", !.final = final]]
      BY <1>1, <2>2, IdleFact DEF Judge, Recover
    <3>2. PICK c : c = [d EXCEPT !.at = "settling", !.final = final]
      OBVIOUS
    <3>3. c \in Coroutine /\ c.at = "settling" /\ c.final # ""
      BY <3>1, <3>2 DEF Coroutine, Places, FinalStatuses
    <3>4. CoroutineOk(c, item[i])
      BY <3>3 DEF CoroutineOk, Before, Begun
    <3> QED
      BY <3>1, <3>2, <3>4
  <2> QED
    BY <2>1, <2>2
<1>3. RunOk /\ UNCHANGED <<item, server>>
  BY Untouched DEF Judge, Recover, Outside
<1>4. RestOk
  <2>1. job' \in [Items -> JobRow]
    <3>1. job \in [Items -> JobRow]
      BY DEF ClosingInv, TypeOK
    <3>2. UNCHANGED job \/ job' = [job EXCEPT ![i] = Attempted(i)]
      BY DEF Judge, Recover
    <3> QED
      BY <3>1, <3>2, JobOk
  <2> QED
    BY <2>1 DEF Judge, Recover, Outside, history, RestOk, ClosingInv, TypeOK
<1> QED
  BY <1>2, <1>3, <1>4, CoroutineMoves

\* The steps of the server.
LEMMA ServerLocal ==
  ASSUME ClosingInv, NEW i \in Items, Serve(i) \/ ServerEnds(i)
  PROVE  Local(i)
<1>1. server[i] \in Upload /\ CoroutineOk(exec[i], item[i]) /\ UploadOk(server[i], item[i])
      /\ exec = [exec EXCEPT ![i] = exec[i]]
  BY ItemFacts DEF UploadOk
<1>2. RestOk /\ UNCHANGED exec
  BY Untouched DEF Serve, ServerMark, ServerRead, ServerCommit, ServerEnds, Handlers
<1>3. run.status \in RunStatuses /\ run.cancel \in BOOLEAN
  BY DEF ClosingInv, TypeOK
<1>4. CASE ServerMark(i)
  <2>1. item[i] # "PENDING"
    BY <1>1, <1>4 DEF UploadOk, ServerMark
  <2>2. PICK y : /\ item' = [item EXCEPT ![i] = y] /\ ItemOk(i, y)
                 /\ (y = item[i] \/ y = "COMPLETED")
    BY <1>4, ItemWritten DEF ServerMark, ItemTerminal
  <2>3. CoroutineOk(exec[i], y)
    BY <1>1, <2>1, <2>2 DEF CoroutineOk
  <2>4. PICK u : u = [server[i] EXCEPT !.at = "marked", !.run = run.status,
                                       !.cancel = run.cancel]
    OBVIOUS
  <2>5. u \in Upload /\ u.at = "marked"
    BY <1>1, <1>3, <2>4 DEF Upload, ServerStates
  <2>6. UploadOk(u, y)
    BY <2>1, <2>2, <2>5 DEF UploadOk
  <2>7. server' = [server EXCEPT ![i] = u] /\ RunOk
    BY <1>4, <2>4, Untouched DEF ServerMark
  <2> QED
    BY <1>1, <1>2, <2>2, <2>3, <2>6, <2>7 DEF Local
<1>5. CASE ServerRead(i)
  <2>1. PICK final : final = Outcome(FALSE, server[i].cancel)
    OBVIOUS
  <2>2. final \in {""} \cup FinalStatuses /\ (final # "" => AllTerminal)
    BY <2>1, OutcomeMeansDone
  <2>3. PICK u : u = [server[i] EXCEPT !.at = "decided", !.final = final]
    OBVIOUS
  <2>4. u \in Upload /\ u.at = "decided" /\ u.final = final
    BY <1>1, <2>2, <2>3 DEF Upload, ServerStates
  <2>5. UploadOk(u, item[i])
    BY <1>1, <1>5, <2>2, <2>4 DEF UploadOk, ServerRead
  <2>6. server' = [server EXCEPT ![i] = u] /\ RunOk /\ UNCHANGED item
    BY <1>5, <2>1, <2>3, Untouched DEF ServerRead
  <2> QED
    BY <1>1, <1>2, <2>5, <2>6, ItemFacts, ZenonT(40) DEF Local
<1>6. CASE ServerCommit(i)
  <2>1. server[i].final \in {""} \cup FinalStatuses
        /\ (server[i].final # "" => AllTerminal) /\ item[i] # "PENDING"
    BY <1>1, <1>6 DEF UploadOk, Upload, ServerCommit
  <2>2. RunOk
    BY <1>6, <2>1, RunWritten DEF ServerCommit, RunStatusFor, RunStatuses, FinalStatuses
  <2>3. PICK u : /\ server' = [server EXCEPT ![i] = u]
                 /\ u = NoUpload \/ u = [NoUpload EXCEPT !.at = "done"]
    BY <1>6 DEF ServerCommit
  <2>4. u \in Upload /\ u.at \in {"idle", "done"}
    <3>1. CASE u = NoUpload
      BY <3>1, NoUploadFact
    <3>2. CASE u = [NoUpload EXCEPT !.at = "done"]
      BY <3>2, NoUploadFact DEF Upload, ServerStates
    <3> QED
      BY <2>3, <3>1, <3>2
  <2>5. UploadOk(u, item[i])
    BY <2>1, <2>4 DEF UploadOk
  <2>6. item' = [item EXCEPT ![i] = item[i]] /\ ItemOk(i, item[i])
    BY <1>6, ItemFacts DEF ServerCommit
  <2>7. exec' = [exec EXCEPT ![i] = exec[i]]
    BY <1>1, <1>2
  <2> QED
    BY <1>1, <1>2, <2>2, <2>3, <2>5, <2>6, <2>7 DEF Local
<1>7. CASE ServerEnds(i)
  <2>1. server' = [server EXCEPT ![i] = NoUpload] /\ UNCHANGED item /\ RunOk
    BY <1>7, Untouched DEF ServerEnds
  <2>2. UploadOk(NoUpload, item[i])
    BY NoUploadFact DEF UploadOk
  <2> QED
    BY <1>1, <1>2, <2>1, <2>2, ItemFacts, ZenonT(40) DEF Local
<1> QED
  BY <1>4, <1>5, <1>6, <1>7 DEF Serve

-----------------------------------------------------------------------------
(* The theorems                                                            *)

LEMMA InitClosing == Init => ClosingInv
<1> SUFFICES ASSUME Init PROVE ClosingInv
  OBVIOUS
<1>1. TypeOK
  <2>1. /\ run \in [status: RunStatuses, cancel: BOOLEAN]
        /\ item \in [Items -> ItemStatuses] /\ task \in RunStatuses
    BY DEF Init, RunStatuses, ItemStatuses
  <2>2. job \in [Items -> JobRow]
    BY DEF Init, JobRow
  <2>3. exec \in [Items -> Coroutine] /\ server \in [Items -> Upload]
    BY IdleFact, NoUploadFact DEF Init
  <2> QED
    BY <2>1, <2>2, <2>3 DEF Init, TypeOK
<1>2. \A i \in Items : exec[i].at = "idle" /\ server[i].at = "idle"
  BY IdleFact, NoUploadFact DEF Init
<1>3. run.status = "PENDING"
  BY DEF Init
<1> QED
  BY <1>1, <1>2, <1>3 DEF ClosingInv, ViewOfItem, DecidedIsDone, SettlesToFinal,
     ClosedRunIsDone, Before, Begun, FinalStatuses

LEMMA ItemStepLocal ==
  ASSUME ClosingInv, NEW i \in Items, ItemStep(i)
  PROVE  Local(i)
BY OpenLocal, QuietLocal, ClosingLocal, StartRunLocal, BeginLocal, TransferLocal,
   RemoteFailsLocal, FinalReadLocal, FinalCommitLocal, SettlingLocal, ServerLocal
   DEF ItemStep, Advance

\* A step of one item keeps the invariant and reopens nothing.
LEMMA ItemStepKeeps ==
  ASSUME ClosingInv, NEW i \in Items, ItemStep(i)
  PROVE  ClosingInv' /\ \A k \in Items : item[k] \in ItemTerminal => item'[k] \in ItemTerminal
BY ItemStepLocal, LocalStep DEF Local

\* The administrator writes the run and the task only.
LEMMA AdminKeeps ==
  ASSUME ClosingInv, CancelRun \/ CancelTask
  PROVE  ClosingInv' /\ UNCHANGED item
<1>1. UNCHANGED <<item, exec, server, job, lister, history, crashes, fetchFails>>
  BY DEF CancelRun, CancelTask, Bounds, history
<1>2. /\ run' \in [status: RunStatuses, cancel: BOOLEAN] /\ run'.status = run.status
      /\ task' \in RunStatuses /\ admin' \in BOOLEAN /\ cancels' \in Nat
  <2>1. /\ run \in [status: RunStatuses, cancel: BOOLEAN] /\ task \in RunStatuses
        /\ cancels \in Nat
    BY DEF ClosingInv, TypeOK
  <2>2. run' = run \/ run' = [run EXCEPT !.cancel = TRUE]
    BY DEF CancelRun, CancelTask
  <2>3. run' \in [status: RunStatuses, cancel: BOOLEAN] /\ run'.status = run.status
    BY <2>1, <2>2
  <2>4. task' \in RunStatuses
    BY <2>1 DEF CancelRun, CancelTask, RunStatuses, FinalStatuses
  <2>5. admin' \in BOOLEAN /\ cancels' \in Nat
    <3>1. cancels' = cancels \/ cancels' = cancels + 1
      BY DEF CancelRun, CancelTask, Bounds
    <3>2. admin' = TRUE \/ admin' = FALSE
      BY DEF CancelRun, CancelTask
    <3>3. cancels' \in Nat
      BY <2>1, <3>1
    <3>4. admin' \in BOOLEAN
      BY <3>2
    <3> QED
      BY <3>3, <3>4
  <2> QED
    BY <2>3, <2>4, <2>5
<1>3. TypeOK'
  BY <1>1, <1>2 DEF ClosingInv, TypeOK, history
<1>4. AllTerminal' = AllTerminal
  BY <1>1 DEF AllTerminal
<1> QED
  BY <1>1, <1>2, <1>3, <1>4 DEF ClosingInv, ViewOfItem, DecidedIsDone, SettlesToFinal,
     ClosedRunIsDone, history

\* A listing closes the run at its own risk, and touches nothing else.
LEMMA ListKeeps ==
  ASSUME ClosingInv, List
  PROVE  ClosingInv' /\ UNCHANGED item
<1>1. UNCHANGED <<item, exec, server, job, task, admin, undelivered, unpublished, crashes,
                  cancels, fetchFails>>
  BY DEF List, ListRuns, ListTask, ListCommit, Bounds, history
<1>2. /\ run' \in [status: RunStatuses, cancel: BOOLEAN]
      /\ UNCHANGED <<run, reconciled>> \/ reconciled'
  <2>1. CASE ListRuns \/ ListTask
    BY <2>1 DEF ListRuns, ListTask, history, ClosingInv, TypeOK
  <2>2. CASE ListCommit
    <3>1. lister \in RunStatuses /\ (run.cancel \/ lister = "CANCELLED") \in BOOLEAN
      BY <2>2 DEF ListCommit, RunStatuses, ClosingInv, TypeOK
    <3>2. PICK cancel \in BOOLEAN : cancel = (run.cancel \/ lister = "CANCELLED")
      BY <3>1
    <3>3. run' = [status |-> lister, cancel |-> cancel] /\ reconciled'
      BY <2>2, <3>2 DEF ListCommit
    <3> QED
      BY <3>1, <3>2, <3>3
  <2> QED
    BY <2>1, <2>2 DEF List
<1>3. lister' \in {"", "loaded"} \cup FinalStatuses
  BY DEF List, ListRuns, ListTask, ListCommit, ClosingInv, TypeOK
<1>4. reconciled' \in BOOLEAN
  BY DEF List, ListRuns, ListTask, ListCommit, history, ClosingInv, TypeOK
<1>5. TypeOK'
  BY <1>1, <1>2, <1>3, <1>4 DEF ClosingInv, TypeOK
<1>6. AllTerminal' = AllTerminal
  BY <1>1 DEF AllTerminal
<1>7. ViewOfItem' /\ DecidedIsDone' /\ SettlesToFinal'
  BY <1>1, <1>6 DEF ClosingInv, ViewOfItem, DecidedIsDone, SettlesToFinal
<1>8. ClosedRunIsDone'
  BY <1>2, <1>6 DEF ClosingInv, ClosedRunIsDone
<1> QED
  BY <1>1, <1>5, <1>7, <1>8 DEF ClosingInv

LEMMA StutterKeeps ==
  ASSUME ClosingInv, UNCHANGED vars
  PROVE  ClosingInv' /\ UNCHANGED item
<1>1. AllTerminal' = AllTerminal
  BY DEF vars, AllTerminal
<1> QED
  BY <1>1 DEF vars, history, ClosingInv, TypeOK, ViewOfItem, DecidedIsDone,
     SettlesToFinal, ClosedRunIsDone

LEMMA NextClosing ==
  ASSUME ClosingInv, [Next]_vars
  PROVE  ClosingInv' /\ \A k \in Items : item[k] \in ItemTerminal => item'[k] \in ItemTerminal
  BY ItemStepKeeps, AdminKeeps, ListKeeps, StutterKeeps DEF Next, ItemStep

-----------------------------------------------------------------------------
(* The outcome                                                             *)

\* The step concerns no item but i.
Apart(i) ==
  \A k \in Items \ {i} :
    exec'[k] = exec[k] /\ server'[k] = server[k] /\ item'[k] = item[k]

LEMMA StepApart ==
  ASSUME ClosingInv, NEW i \in Items, ItemStep(i)
  PROVE  Apart(i) /\ exec'[i] \in Coroutine /\ server'[i] \in Upload
<1>1. /\ exec \in [Items -> Coroutine] /\ server \in [Items -> Upload]
      /\ item \in [Items -> ItemStatuses]
  BY DEF ClosingInv, TypeOK
<1>2. PICK c, u, y : /\ exec' = [exec EXCEPT ![i] = c]
                     /\ server' = [server EXCEPT ![i] = u]
                     /\ item' = [item EXCEPT ![i] = y]
  BY ItemStepLocal DEF Local
<1>3. exec'[i] \in Coroutine /\ server'[i] \in Upload
  BY ItemStepKeeps DEF ClosingInv, TypeOK
<1> QED
  BY <1>1, <1>2, <1>3 DEF Apart

\* The flag of the run and the histories only grow.
LEMMA StepGrows ==
  ASSUME ClosingInv, NEW i \in Items, ItemStep(i)
  PROVE  /\ run.cancel => run'.cancel
         /\ undelivered \subseteq undelivered' /\ unpublished \subseteq unpublished'
         /\ UNCHANGED reconciled
<1>1. run \in [status: RunStatuses, cancel: BOOLEAN]
  BY DEF ClosingInv, TypeOK
<1>2. run.cancel => run'.cancel
  <2>1. \/ run' = run
        \/ \E new : run' = [run EXCEPT !.status = new]
        \/ run' = [run EXCEPT !.cancel = @ \/ ~exec[i].cancel]
    BY DEF ItemStep, Advance, Serve, Open, Fetch, FetchFails, Clear, CancelItem, StartTask,
       StartRun, Begin, KeepAlive, LocalDone, LocalFails, Send, Answered, RemoteFails,
       RemoteClose, FinalRead, FinalCommit, Report, Return, MarkFailed, Judge, Settle,
       Crash, Recover, ServerMark, ServerRead, ServerCommit, ServerEnds, WriteRun
  <2> QED
    BY <1>1, <2>1
<1>3. undelivered \subseteq undelivered' /\ unpublished \subseteq unpublished'
  BY DEF ItemStep, Advance, Serve, Open, Fetch, FetchFails, Clear, CancelItem, StartTask,
     StartRun, Begin, KeepAlive, LocalDone, LocalFails, Send, Answered, RemoteFails,
     RemoteClose, FinalRead, FinalCommit, Report, Return, MarkFailed, Judge, Settle,
     Crash, Recover, ServerMark, ServerRead, ServerCommit, ServerEnds, Outside, Handlers,
     history, GivenUp
<1>4. UNCHANGED reconciled
  BY ItemStepLocal DEF Local, RestOk
<1> QED
  BY <1>2, <1>3, <1>4

\* A coroutine that has moved and remembers what it did.
Kept(c, d) == d.cancel = c.cancel /\ d.error = c.error /\ d.item = c.item

LEMMA GotoFields ==
  ASSUME ClosingInv, NEW i \in Items, NEW place, Goto(i, place)
  PROVE  exec'[i].at = place /\ Kept(exec[i], exec'[i])
<1>1. exec \in [Items -> Coroutine] /\ exec[i] \in Coroutine
  BY DEF ClosingInv, TypeOK
<1>2. exec'[i] = [exec[i] EXCEPT !.at = place]
  BY <1>1 DEF Goto
<1> QED
  BY <1>1, <1>2 DEF Coroutine, Kept

LEMMA IdleRemembers == Idle.at = "idle" /\ ~Idle.cancel /\ ~Idle.error
  BY DEF Idle

LEMMA NoUploadRemembers == NoUpload.at = "idle" /\ ~NoUpload.cancel /\ NoUpload.final = ""
  BY DEF NoUpload

\* The steps that end the coroutine, or move it and keep what it remembers.
Ends(i) == Return(i) \/ Settle(i) \/ Crash(i) \/ MarkFailed(i)
Moves(i) ==
  Fetch(i) \/ FetchFails(i) \/ Clear(i) \/ StartTask(i) \/ Send(i) \/ Answered(i)
  \/ RemoteClose(i) \/ FinalCommit(i) \/ Report(i)

LEMMA EndsFields ==
  ASSUME ClosingInv, NEW i \in Items, Ends(i)
  PROVE  \/ exec'[i] = Idle
         \/ exec'[i].at = "judging" /\ Kept(exec[i], exec'[i])
<1>1. exec \in [Items -> Coroutine]
  BY DEF ClosingInv, TypeOK
<1> QED
  BY <1>1, GotoFields DEF Ends, Return, Settle, Crash, MarkFailed

LEMMA MovesFields ==
  ASSUME ClosingInv, NEW i \in Items
  PROVE  /\ Moves(i) => Kept(exec[i], exec'[i]) /\ exec'[i].at # "decided"
         /\ Fetch(i) => exec'[i].at = "fetched"
         /\ FetchFails(i) => exec'[i].at = "raised"
         /\ Clear(i) => exec'[i].at = "cleared"
         /\ StartTask(i) => exec'[i].at \in {"starting", "started"}
         /\ Send(i) => exec'[i].at = "uploading"
         /\ Answered(i) \/ RemoteClose(i) => exec'[i].at = "marked"
         /\ FinalCommit(i) => exec'[i].at \in {"returned", "reporting"}
         /\ Report(i) => exec'[i].at = "returned"
<1>1. Fetch(i) => Goto(i, "fetched")
  BY DEF Fetch
<1>2. FetchFails(i) => Goto(i, "raised")
  BY DEF FetchFails
<1>3. Clear(i) => Goto(i, "cleared")
  BY DEF Clear
<1>4. StartTask(i) => Goto(i, "starting") \/ Goto(i, "started")
  BY DEF StartTask
<1>5. Send(i) => Goto(i, "uploading")
  BY DEF Send
<1>6. Answered(i) \/ RemoteClose(i) => Goto(i, "marked")
  BY DEF Answered, RemoteClose
<1>7. FinalCommit(i) => Goto(i, "returned") \/ Goto(i, "reporting")
  BY DEF FinalCommit
<1>8. Report(i) => Goto(i, "returned")
  BY DEF Report
<1> QED
  BY <1>1, <1>2, <1>3, <1>4, <1>5, <1>6, <1>7, <1>8, GotoFields DEF Moves

\* The steps that load rows into the coroutine, or note a result in it.
LEMMA NotesFields ==
  ASSUME ClosingInv, NEW i \in Items
  PROVE  /\ Open(i) =>
              /\ exec'[i].at = IF item[i] \in ItemTerminal THEN "marked" ELSE "opened"
              /\ exec'[i].cancel = run.cancel /\ ~exec'[i].error
         /\ CancelItem(i) => /\ exec'[i].at = "marked" /\ exec'[i].cancel
                             /\ exec'[i].error = exec[i].error
         /\ StartRun(i) => exec'[i].at = "started" /\ Kept(exec[i], exec'[i])
         /\ Begin(i) => /\ exec'[i].at = "executing" /\ exec'[i].cancel = exec[i].cancel
                        /\ exec'[i].error = exec[i].error
         /\ LocalDone(i) => /\ exec'[i].at = "marked" /\ exec'[i].cancel = exec[i].cancel
                            /\ exec'[i].error => i \in unpublished'
         /\ LocalFails(i) => /\ exec'[i].at = "marked" /\ exec'[i].cancel = exec[i].cancel
                             /\ exec'[i].error = exec[i].error
         /\ RemoteFails(i) => /\ exec'[i].at = "doubting" /\ exec'[i].item = item[i]
                              /\ exec'[i].cancel = exec[i].cancel
                              /\ exec'[i].error = exec[i].error
         /\ FinalRead(i) => /\ exec'[i].at = "decided"
                            /\ exec'[i].cancel => exec[i].cancel \/ run.cancel
                            /\ exec'[i].error = exec[i].error
                            /\ exec'[i].final = Outcome(exec[i].error, exec'[i].cancel)
         /\ Judge(i) => exec'[i].at = "settling" /\ Kept(exec[i], exec'[i])
         /\ Recover(i) => \/ exec'[i] = exec[i]
                          \/ exec'[i].at = "settling" /\ Kept(Idle, exec'[i])
<1>1. exec \in [Items -> Coroutine] /\ exec[i] \in Coroutine
  BY DEF ClosingInv, TypeOK
<1>2. ASSUME Open(i)
      PROVE  /\ exec'[i].at = IF item[i] \in ItemTerminal THEN "marked" ELSE "opened"
             /\ exec'[i].cancel = run.cancel /\ ~exec'[i].error
  BY <1>1, <1>2 DEF Open, Idle
<1>3. ASSUME CancelItem(i)
      PROVE  /\ exec'[i].at = "marked" /\ exec'[i].cancel
             /\ exec'[i].error = exec[i].error
  BY <1>1, <1>3 DEF CancelItem, Coroutine
<1>4. ASSUME StartRun(i)
      PROVE  exec'[i].at = "started" /\ Kept(exec[i], exec'[i])
  BY <1>1, <1>4 DEF StartRun, Coroutine, Kept
<1>5. ASSUME Begin(i)
      PROVE  /\ exec'[i].at = "executing" /\ exec'[i].cancel = exec[i].cancel
             /\ exec'[i].error = exec[i].error
  BY <1>1, <1>5 DEF Begin, Coroutine
<1>6. ASSUME LocalDone(i)
      PROVE  /\ exec'[i].at = "marked" /\ exec'[i].cancel = exec[i].cancel
             /\ exec'[i].error => i \in unpublished'
  BY <1>1, <1>6, ZenonT(40) DEF LocalDone, Coroutine
<1>7. ASSUME LocalFails(i)
      PROVE  /\ exec'[i].at = "marked" /\ exec'[i].cancel = exec[i].cancel
             /\ exec'[i].error = exec[i].error
  BY <1>1, <1>7 DEF LocalFails, Coroutine
<1>8. ASSUME RemoteFails(i)
      PROVE  /\ exec'[i].at = "doubting" /\ exec'[i].item = item[i]
             /\ exec'[i].cancel = exec[i].cancel /\ exec'[i].error = exec[i].error
  BY <1>1, <1>8 DEF RemoteFails, Coroutine
<1>9. ASSUME FinalRead(i)
      PROVE  /\ exec'[i].at = "decided"
             /\ exec'[i].cancel => exec[i].cancel \/ run.cancel
             /\ exec'[i].error = exec[i].error
             /\ exec'[i].final = Outcome(exec[i].error, exec'[i].cancel)
  <2>1. PICK status, cancel :
          /\ cancel = exec[i].cancel \/ cancel = run.cancel
          /\ exec' = [exec EXCEPT ![i] = [exec[i] EXCEPT !.at = "decided", !.run = status,
               !.cancel = cancel, !.final = Outcome(exec[i].error, cancel)]]
    BY <1>9 DEF FinalRead
  <2>2. PICK final : final = Outcome(exec[i].error, cancel)
    OBVIOUS
  <2>3. exec'[i] = [exec[i] EXCEPT !.at = "decided", !.run = status,
                                   !.cancel = cancel, !.final = final]
    BY <1>1, <2>1, <2>2
  <2>4. /\ exec'[i].at = "decided" /\ exec'[i].cancel = cancel
        /\ exec'[i].error = exec[i].error /\ exec'[i].final = final
    BY <1>1, <2>3 DEF Coroutine
  <2> QED
    BY <2>1, <2>2, <2>4
<1>10. ASSUME Judge(i)
       PROVE  exec'[i].at = "settling" /\ Kept(exec[i], exec'[i])
  BY <1>1, <1>10 DEF Judge, Coroutine, Kept
<1>11. ASSUME Recover(i)
       PROVE  \/ exec'[i] = exec[i]
              \/ exec'[i].at = "settling" /\ Kept(Idle, exec'[i])
  BY <1>1, <1>11, ZenonT(40) DEF Recover, Kept, Idle
<1> QED
  BY <1>2, <1>3, <1>4, <1>5, <1>6, <1>7, <1>8, <1>9, <1>10, <1>11

\* The upload of i.
LEMMA ServerFields ==
  ASSUME ClosingInv, NEW i \in Items, ItemStep(i)
  PROVE  /\ Send(i) => /\ server'[i].at = "received" /\ server'[i].item = item[i]
                       /\ ~server'[i].cancel
         /\ Answered(i) \/ ServerEnds(i) => server'[i] = NoUpload
         /\ ServerMark(i) => server'[i].at = "marked" /\ server'[i].cancel = run.cancel
         /\ ServerRead(i) => /\ server'[i].at = "decided"
                             /\ server'[i].cancel = server[i].cancel
                             /\ server'[i].final = Outcome(FALSE, server'[i].cancel)
         /\ ServerCommit(i) => /\ server'[i].at \in {"idle", "done"}
                               /\ ~server'[i].cancel
         /\ \/ Send(i) \/ Answered(i) \/ Serve(i) \/ ServerEnds(i)
            \/ server'[i] = server[i]
<1>1. server \in [Items -> Upload] /\ server[i] \in Upload
  BY DEF ClosingInv, TypeOK
<1>2. ASSUME Send(i)
      PROVE  /\ server'[i].at = "received" /\ server'[i].item = item[i]
             /\ ~server'[i].cancel
  BY <1>1, <1>2 DEF Send, NoUpload
<1>3. Answered(i) \/ ServerEnds(i) => server'[i] = NoUpload
  BY <1>1 DEF Answered, ServerEnds
<1>4. ASSUME ServerMark(i)
      PROVE  server'[i].at = "marked" /\ server'[i].cancel = run.cancel
  BY <1>1, <1>4 DEF ServerMark, Upload
<1>5. ASSUME ServerRead(i)
      PROVE  /\ server'[i].at = "decided" /\ server'[i].cancel = server[i].cancel
             /\ server'[i].final = Outcome(FALSE, server'[i].cancel)
  <2>1. PICK final : final = Outcome(FALSE, server[i].cancel)
    OBVIOUS
  <2>2. server'[i] = [server[i] EXCEPT !.at = "decided", !.final = final]
    BY <1>1, <1>5, <2>1 DEF ServerRead
  <2>3. /\ server'[i].at = "decided" /\ server'[i].cancel = server[i].cancel
        /\ server'[i].final = final
    BY <1>1, <2>2 DEF Upload
  <2> QED
    BY <2>1, <2>3
<1>6. ASSUME ServerCommit(i)
      PROVE  server'[i].at \in {"idle", "done"} /\ ~server'[i].cancel
  BY <1>1, <1>6, NoUploadRemembers DEF ServerCommit, NoUpload
<1>7. \/ Send(i) \/ Answered(i) \/ Serve(i) \/ ServerEnds(i)
      \/ server'[i] = server[i]
  BY DEF ItemStep, Advance, Serve, Open, Fetch, FetchFails, Clear, CancelItem, StartTask,
     StartRun, Begin, KeepAlive, LocalDone, LocalFails, RemoteFails, RemoteClose, FinalRead,
     FinalCommit, Report, Return, MarkFailed, Judge, Settle, Crash, Recover, Outside
<1> QED
  BY <1>2, <1>3, <1>4, <1>5, <1>6, <1>7

\* The row of i: who writes it, and what.
LEMMA ItemFields ==
  ASSUME ClosingInv, NEW i \in Items, ItemStep(i)
  PROVE  /\ CancelItem(i) =>
              item'[i] = "CANCELLED" /\ (exec[i].cancel \/ run'.cancel)
         /\ Begin(i) => item'[i] = IF exec[i].item = "RUNNING" THEN item[i] ELSE "RUNNING"
         /\ LocalDone(i) => item'[i] \in {item[i], "COMPLETED"}
         /\ LocalFails(i) => item'[i] \in {item[i], "FAILED"}
         /\ RemoteClose(i) =>
              /\ item'[i] \in {item[i], "FAILED"}
              /\ exec[i].item = "COMPLETED" => item'[i] = item[i]
         /\ ServerMark(i) =>
              /\ item'[i] \in {item[i], "COMPLETED"}
              /\ server[i].item = "RUNNING" => item'[i] = "COMPLETED"
         /\ \/ CancelItem(i) \/ Begin(i) \/ LocalDone(i) \/ LocalFails(i)
            \/ RemoteClose(i) \/ ServerMark(i) \/ item' = item
<1>1. /\ item \in [Items -> ItemStatuses] /\ exec[i] \in Coroutine
      /\ run \in [status: RunStatuses, cancel: BOOLEAN]
  BY DEF ClosingInv, TypeOK
<1>2. ASSUME CancelItem(i)
      PROVE  item'[i] = "CANCELLED" /\ (exec[i].cancel \/ run'.cancel)
  <2>1. exec[i].item \in {"PENDING", "RUNNING"}
    BY <1>2, ItemFacts DEF CancelItem, CoroutineOk, Before
  <2>2. item' = [item EXCEPT ![i] = "CANCELLED"]
    BY <1>2, <2>1 DEF CancelItem, WriteItem
  <2>3. exec[i].cancel \/ run'.cancel
    BY <1>1, <1>2 DEF CancelItem
  <2> QED
    BY <1>1, <2>2, <2>3
<1>3. Begin(i) => item'[i] = IF exec[i].item = "RUNNING" THEN item[i] ELSE "RUNNING"
  BY <1>1 DEF Begin, WriteItem
<1>4. /\ LocalDone(i) => item'[i] \in {item[i], "COMPLETED"}
      /\ LocalFails(i) => item'[i] \in {item[i], "FAILED"}
  BY <1>1 DEF LocalDone, LocalFails, WriteItem
<1>5. RemoteClose(i) => /\ item'[i] \in {item[i], "FAILED"}
                        /\ exec[i].item = "COMPLETED" => item'[i] = item[i]
  BY <1>1 DEF RemoteClose, WriteItem
<1>6. ServerMark(i) => /\ item'[i] \in {item[i], "COMPLETED"}
                       /\ server[i].item = "RUNNING" => item'[i] = "COMPLETED"
  BY <1>1 DEF ServerMark, WriteItem
<1>7. \/ CancelItem(i) \/ Begin(i) \/ LocalDone(i) \/ LocalFails(i)
      \/ RemoteClose(i) \/ ServerMark(i) \/ item' = item
  BY DEF ItemStep, Advance, Serve, Open, Fetch, FetchFails, Clear, StartTask,
     StartRun, KeepAlive, Send, Answered, RemoteFails, FinalRead, FinalCommit, Report,
     Return, MarkFailed, Judge, Settle, Crash, Recover, ServerRead, ServerCommit, ServerEnds
<1> QED
  BY <1>2, <1>3, <1>4, <1>5, <1>6, <1>7

\* A coroutine that the step leaves as it is.
LEMMA ExecSame ==
  ASSUME ClosingInv, NEW i \in Items, KeepAlive(i) \/ Serve(i) \/ ServerEnds(i)
  PROVE  exec'[i] = exec[i]
BY DEF KeepAlive, Serve, ServerMark, ServerRead, ServerCommit, ServerEnds, Handlers

\* What the sessions know of the cancellation and of the errors stays true.
LEMMA RememberedStep ==
  ASSUME ClosingInv, NEW i \in Items, ItemStep(i), \A k \in Items : Remembered(k)
  PROVE  \A k \in Items : Remembered(k)'
<1>1. /\ run.cancel => run'.cancel
      /\ unpublished \subseteq unpublished'
  BY StepGrows
<1>2. ASSUME NEW k \in Items \ {i} PROVE Remembered(k)'
  BY <1>1, <1>2, StepApart DEF Apart, Remembered
<1>3. exec'[i].cancel => run'.cancel
  <2>1. \/ exec'[i].cancel => exec[i].cancel \/ run.cancel
        \/ CancelItem(i)
    BY EndsFields, MovesFields, NotesFields, ExecSame, IdleRemembers
       DEF ItemStep, Advance, Ends, Moves, Kept
  <2> QED
    BY <1>1, <2>1, ItemFields DEF Remembered
<1>4. exec'[i].error => i \in unpublished'
  <2>1. exec'[i].error => exec[i].error \/ i \in unpublished'
    BY EndsFields, MovesFields, NotesFields, ExecSame, IdleRemembers
       DEF ItemStep, Advance, Ends, Moves, Kept
  <2> QED
    BY <1>1, <2>1 DEF Remembered
<1>5. server'[i].cancel => run'.cancel
  BY <1>1, ServerFields, NoUploadRemembers DEF Remembered, Serve
<1>6. item'[i] = "CANCELLED" => run'.cancel
  <2>1. item'[i] = "CANCELLED" => item[i] = "CANCELLED" \/ CancelItem(i)
    BY ItemFields
  <2> QED
    BY <1>1, <2>1, ItemFields DEF Remembered
<1>7. exec'[i].at = "decided" /\ exec'[i].final = "CANCELLED" => run'.cancel
  <2>1. \/ exec'[i].at # "decided" \/ exec'[i] = exec[i] \/ FinalRead(i)
    BY EndsFields, MovesFields, NotesFields, ExecSame, IdleRemembers
       DEF ItemStep, Advance, Ends, Moves
  <2>2. CASE FinalRead(i)
    <3>1. PICK error, cancel : /\ cancel = exec'[i].cancel
                               /\ exec'[i].final = Outcome(error, cancel)
      BY <2>2, NotesFields
    <3>2. exec'[i].final = "CANCELLED" =>
            cancel \/ \E k \in Items : item[k] = "CANCELLED"
      BY <3>1 DEF Outcome, Having
    <3> QED
      BY <1>1, <1>3, <3>1, <3>2 DEF Remembered
  <2> QED
    BY <1>1, <2>1, <2>2 DEF Remembered
<1>8. server'[i].at = "decided" /\ server'[i].final = "CANCELLED" => run'.cancel
  <2>1. \/ server'[i].at # "decided" \/ server'[i] = server[i] \/ ServerRead(i)
    BY ServerFields, NoUploadRemembers DEF Serve
  <2>2. CASE ServerRead(i)
    <3>1. PICK cancel : /\ cancel = server'[i].cancel
                        /\ server'[i].final = Outcome(FALSE, cancel)
      BY <2>2, ServerFields
    <3>2. server'[i].final = "CANCELLED" =>
            cancel \/ \E k \in Items : item[k] = "CANCELLED"
      BY <3>1 DEF Outcome, Having
    <3> QED
      BY <1>1, <1>5, <3>1, <3>2 DEF Remembered
  <2> QED
    BY <1>1, <2>1, <2>2 DEF Remembered
<1>9. Remembered(i)'
  BY <1>3, <1>4, <1>5, <1>6, <1>7, <1>8 DEF Remembered
<1> QED
  BY <1>2, <1>9

\* Who worked on an item nobody has given up goes on waiting for its upload, and
\* a terminal row is not written again.
LEMMA WaitedStep ==
  ASSUME ClosingInv, NEW i \in Items, ItemStep(i), \A k \in Items : Waited(k),
         undelivered = {}, undelivered' = {}
  PROVE  /\ \A k \in Items : Waited(k)'
         /\ \A k \in Items : item[k] \in ItemTerminal => item'[k] = item[k]
<1>1. ASSUME NEW k \in Items \ {i}
      PROVE  Waited(k)' /\ item'[k] = item[k]
  BY <1>1, StepApart DEF Apart, Waited
<1>2. Waited(i) /\ CoroutineOk(exec[i], item[i]) /\ exec[i].at \in Places
      /\ server[i].at \in ServerStates /\ item[i] \in ItemStatuses
  BY ItemFacts DEF CoroutineOk, UploadOk, Coroutine, Upload, ItemOk
<1>3. Waited(i)' /\ (item[i] \in ItemTerminal => item'[i] = item[i])
  <2>1. CASE Open(i)
    <3>1. exec'[i].at = IF item[i] \in ItemTerminal THEN "marked" ELSE "opened"
      BY <2>1, NotesFields
    <3>2. server'[i] = server[i] /\ item' = item /\ exec[i].at = "idle"
      BY <2>1 DEF Open, Outside
    <3> QED
      BY <1>2, <3>1, <3>2 DEF Waited, Before
  <2>2. CASE Ends(i)
    <3>1. exec'[i].at \in {"idle", "judging"}
      BY <2>2, EndsFields, IdleRemembers
    <3>2. server'[i] = server[i] /\ item' = item /\ server[i].at # "received"
      BY <1>2, <2>2 DEF Ends, Return, Settle, Crash, MarkFailed, Outside, GivenUp, Waited
    <3> QED
      BY <1>2, <3>1, <3>2 DEF Waited, Before
  <2>3. CASE Fetch(i) \/ Clear(i) \/ StartTask(i) \/ StartRun(i)
    <3>1. exec'[i].at \in Before
      BY <2>3, MovesFields, NotesFields DEF Before
    <3>2. exec[i].at \in Before /\ server'[i] = server[i] /\ item' = item
      BY <2>3 DEF Fetch, Clear, StartTask, StartRun, Outside, Before
    <3> QED
      BY <1>2, <3>1, <3>2 DEF Waited, Before
  <2>4. CASE FetchFails(i) \/ FinalRead(i) \/ FinalCommit(i) \/ Report(i) \/ Judge(i)
    <3>1. exec'[i].at \in {"raised", "decided", "returned", "reporting", "settling"}
      BY <2>4, MovesFields, NotesFields
    <3>2. exec[i].at # "uploading" /\ server'[i] = server[i] /\ item' = item
      BY <2>4 DEF FetchFails, FinalRead, FinalCommit, Report, Judge, Outside
    <3> QED
      BY <1>2, <3>1, <3>2 DEF Waited, Before
  <2>5. CASE Recover(i)
    <3>1. exec'[i] = exec[i] \/ exec'[i].at = "settling"
      BY <2>5, NotesFields
    <3>2. exec[i].at = "idle" /\ server'[i] = server[i] /\ item' = item
      BY <2>5 DEF Recover, Outside
    <3> QED
      BY <1>2, <3>1, <3>2 DEF Waited, Before
  <2>6. CASE KeepAlive(i)
    BY <1>2, <2>6 DEF KeepAlive, Outside, Waited
  <2>7. CASE CancelItem(i)
    <3>1. exec'[i].at = "marked" /\ item'[i] = "CANCELLED"
      BY <2>7, NotesFields, ItemFields DEF ItemStep, Advance
    <3>2. exec[i].at = "fetched" /\ server'[i] = server[i]
      BY <2>7 DEF CancelItem, Outside
    <3> QED
      BY <1>2, <3>1, <3>2 DEF Waited, Before, ServerStates, ItemTerminal
  <2>8. CASE Begin(i)
    <3>1. exec'[i].at = "executing"
          /\ item'[i] = IF exec[i].item = "RUNNING" THEN item[i] ELSE "RUNNING"
      BY <2>8, NotesFields, ItemFields DEF ItemStep, Advance
    <3>2. exec[i].at = "started" /\ server'[i] = server[i]
      BY <2>8 DEF Begin, Outside
    <3>3. item[i] \notin ItemTerminal /\ (exec[i].item = "RUNNING" => item[i] # "PENDING")
      BY <1>2, <3>2 DEF Waited, Before, CoroutineOk
    <3>4. item'[i] = "RUNNING"
      BY <1>2, <3>1, <3>3 DEF ItemStatuses
    <3> QED
      BY <1>2, <3>1, <3>2, <3>3, <3>4 DEF Waited, Before, ServerStates, ItemTerminal
  <2>9. CASE LocalDone(i) \/ LocalFails(i)
    <3>1. exec'[i].at = "marked"
      BY <2>9, NotesFields
    <3>2. exec[i].at = "executing" /\ server'[i] = server[i]
      BY <2>9 DEF LocalDone, LocalFails, Outside
    <3> QED
      BY <1>2, <3>1, <3>2 DEF Waited, Before, ServerStates, ItemTerminal
  <2>10. CASE Send(i)
    <3>1. exec'[i].at = "uploading" /\ server'[i].at = "received"
          /\ server'[i].item = item[i] /\ item' = item /\ exec[i].at = "executing"
      BY <2>10, MovesFields, ServerFields DEF Send, ItemStep, Advance
    <3> QED
      BY <1>2, <3>1 DEF Waited, Before
  <2>11. CASE Answered(i)
    <3>1. exec'[i].at = "marked" /\ server'[i].at = "idle" /\ item' = item
      BY <2>11, MovesFields, ServerFields, NoUploadRemembers
         DEF Answered, ItemStep, Advance
    <3> QED
      BY <1>2, <3>1 DEF Waited, Before
  <2>12. CASE RemoteFails(i)
    <3>1. exec'[i].at = "doubting" /\ exec'[i].item = item[i]
      BY <2>12, NotesFields
    <3>2. server[i].at # "received" /\ exec[i].at \in {"executing", "uploading"}
          /\ server'[i] = server[i] /\ item' = item
      BY <2>12 DEF RemoteFails, GivenUp
    <3>3. item[i] = "RUNNING" \/ item[i] = "COMPLETED"
      BY <1>2, <3>2 DEF Waited, ServerStates
    <3> QED
      BY <1>2, <3>1, <3>2, <3>3 DEF Waited, Before
  <2>13. CASE RemoteClose(i)
    <3>1. exec'[i].at = "marked" /\ item'[i] \in {item[i], "FAILED"}
          /\ (exec[i].item = "COMPLETED" => item'[i] = item[i])
      BY <2>13, MovesFields, ItemFields DEF ItemStep, Advance
    <3>2. exec[i].at = "doubting" /\ server'[i] = server[i]
      BY <2>13 DEF RemoteClose, Outside
    <3> QED
      BY <1>2, <3>1, <3>2 DEF Waited, Before, ItemTerminal, ServerStates
  <2>14. CASE ServerMark(i)
    <3>1. server'[i].at = "marked" /\ server[i].at = "received"
          /\ (server[i].item = "RUNNING" => item'[i] = "COMPLETED")
      BY <2>14, ServerFields, ItemFields DEF ServerMark, ItemStep, Serve
    <3>2. exec'[i] = exec[i]
      BY <2>14, ExecSame DEF Serve
    <3> QED
      BY <1>2, <3>1, <3>2 DEF Waited, Before, ItemTerminal
  <2>15. CASE ServerRead(i) \/ ServerCommit(i) \/ ServerEnds(i)
    <3>1. exec'[i] = exec[i] /\ item' = item
      BY <2>15, ExecSame DEF Serve, ServerRead, ServerCommit, ServerEnds
    <3>2. CASE ServerRead(i)
      <4>1. server'[i].at = "decided" /\ server[i].at = "marked"
        BY <3>2, ServerFields DEF ServerRead, ItemStep, Serve
      <4> QED
        BY <1>2, <3>1, <4>1 DEF Waited
    <3>3. CASE ServerCommit(i)
      <4>1. /\ server'[i] = IF exec[i].at = "uploading" THEN [NoUpload EXCEPT !.at = "done"]
                                                      ELSE NoUpload
            /\ server[i].at = "decided"
        BY <3>3 DEF ServerCommit, ClosingInv, TypeOK
      <4>2. server'[i].at = IF exec[i].at = "uploading" THEN "done" ELSE "idle"
        <5>1. CASE exec[i].at = "uploading"
          BY <4>1, <5>1 DEF NoUpload
        <5>2. CASE exec[i].at # "uploading"
          BY <4>1, <5>2, NoUploadRemembers
        <5> QED
          BY <5>1, <5>2
      <4> QED
        BY <1>2, <3>1, <4>1, <4>2 DEF Waited
    <3>4. CASE ServerEnds(i)
      <4>1. server'[i].at = "idle"
            /\ (server[i].at = "received" \/ exec[i].at # "uploading")
        BY <3>4, ServerFields, NoUploadRemembers DEF ServerEnds, ItemStep
      <4> QED
        BY <1>2, <3>1, <4>1 DEF Waited
    <3> QED
      BY <2>15, <3>2, <3>3, <3>4
  <2> QED
    BY <2>1, <2>2, <2>3, <2>4, <2>5, <2>6, <2>7, <2>8, <2>9, <2>10, <2>11, <2>12, <2>13,
       <2>14, <2>15 DEF ItemStep, Advance, Serve, Ends
<1> QED
  BY <1>1, <1>3

\* What Outcome makes of the counts is the verdict they call for.
LEMMA OutcomeIsVerdict ==
  ASSUME ClosingInv, NEW error \in BOOLEAN, NEW cancel \in BOOLEAN, NEW final,
         final = Outcome(error, cancel), error => unpublished # {}
  PROVE  Verdict(final)
<1>1. item \in [Items -> ItemStatuses]
  BY DEF ClosingInv, TypeOK
<1>2. CASE AllTerminal
  <2>1. ASSUME NEW k \in Items PROVE item[k] \in ItemTerminal
    BY <1>2 DEF AllTerminal
  <2>2. final = "COMPLETED" => \A k \in Items : item[k] = "COMPLETED"
    BY <1>2, <2>1 DEF Outcome, Having, ItemTerminal
  <2>3. final = "PARTIAL_SUCCESS" => Having("FAILED") # {} /\ Having("COMPLETED") # {}
    BY <1>2 DEF Outcome
  <2>4. final = "FAILED" => error \/ Having("COMPLETED") = {}
    BY <1>2 DEF Outcome
  <2> QED
    BY <2>2, <2>3, <2>4 DEF Verdict
<1>3. CASE ~AllTerminal
  BY <1>3 DEF Outcome, Verdict
<1> QED
  BY <1>2, <1>3

\* A verdict stands as long as no terminal row is written again.
LEMMA VerdictStands ==
  ASSUME ClosingInv, NEW final, Verdict(final), final # "" => AllTerminal,
         unpublished \subseteq unpublished',
         \A k \in Items : item[k] \in ItemTerminal => item'[k] = item[k]
  PROVE  Verdict(final)'
<1>1. CASE final = ""
  BY <1>1 DEF Verdict
<1>2. CASE final # ""
  <2>1. \A k \in Items : item'[k] = item[k]
    BY <1>2 DEF AllTerminal
  <2>2. Having("FAILED")' = Having("FAILED") /\ Having("COMPLETED")' = Having("COMPLETED")
    BY <2>1 DEF Having
  <2> QED
    BY <2>1, <2>2 DEF Verdict
<1> QED
  BY <1>1, <1>2

\* A final status that was decided is written only if it is still right.
LEMMA DecidedStep ==
  ASSUME ClosingInv, NEW i \in Items, ItemStep(i), \A k \in Items : DecidedRight(k),
         \A k \in Items : Remembered(k),
         \A k \in Items : item[k] \in ItemTerminal => item'[k] = item[k]
  PROVE  \A k \in Items : DecidedRight(k)'
<1>1. unpublished \subseteq unpublished'
  BY StepGrows
<1>2. ASSUME NEW k \in Items, exec'[k] = exec[k], exec[k].at = "decided"
      PROVE  Verdict(exec[k].final)'
  <2>1. PICK final : final = exec[k].final
    OBVIOUS
  <2>2. Verdict(final) /\ (final # "" => AllTerminal)
    BY <1>2, <2>1 DEF DecidedRight, ClosingInv, DecidedIsDone
  <2>3. Verdict(final)'
    BY <1>1, <2>2, VerdictStands
  <2>4. final = exec'[k].final
    BY <1>2, <2>1
  <2> QED
    BY <2>3, <2>4 DEF Verdict
<1>3. ASSUME NEW k \in Items, server'[k] = server[k], server[k].at = "decided"
      PROVE  Verdict(server[k].final)'
  <2>1. PICK final : final = server[k].final
    OBVIOUS
  <2>2. Verdict(final) /\ (final # "" => AllTerminal)
    BY <1>3, <2>1 DEF DecidedRight, ClosingInv, DecidedIsDone
  <2>3. Verdict(final)'
    BY <1>1, <2>2, VerdictStands
  <2>4. final = server'[k].final
    BY <1>3, <2>1
  <2> QED
    BY <2>3, <2>4 DEF Verdict
<1>4. ASSUME NEW k \in Items \ {i} PROVE DecidedRight(k)'
  <2>1. exec'[k] = exec[k] /\ server'[k] = server[k]
    BY <1>4, StepApart DEF Apart
  <2> QED
    BY <1>2, <1>3, <1>4, <2>1 DEF DecidedRight
<1>5. exec'[i].at = "decided" => Verdict(exec[i].final)'
  <2>1. \/ exec'[i].at # "decided" \/ exec'[i] = exec[i] \/ FinalRead(i)
    BY EndsFields, MovesFields, NotesFields, ExecSame, IdleRemembers
       DEF ItemStep, Advance, Ends, Moves
  <2>2. CASE FinalRead(i)
    <3>1. PICK final : final = exec'[i].final OBVIOUS
    <3>2. PICK error \in BOOLEAN, cancel \in BOOLEAN :
            error = exec[i].error /\ final = Outcome(error, cancel)
      <4>1. exec[i] \in Coroutine /\ exec'[i] \in Coroutine
        BY StepApart DEF ClosingInv, TypeOK
      <4>2. exec[i].error \in BOOLEAN /\ exec'[i].cancel \in BOOLEAN
        BY <4>1 DEF Coroutine
      <4> QED
        BY <3>1, <2>2, <4>2, NotesFields
    <3>3. error => unpublished # {}
      BY <3>2 DEF Remembered
    <3>4. Verdict(final)
      BY <3>2, <3>3, OutcomeIsVerdict
    <3>5. final # "" => AllTerminal
      BY <3>2 DEF Outcome
    <3>6. Verdict(final)'
      BY <1>1, <3>4, <3>5, VerdictStands
    <3> QED
      BY <3>1, <3>6 DEF Verdict
  <2> QED
    BY <1>2, <2>1, <2>2
<1>6. server'[i].at = "decided" => Verdict(server[i].final)'
  <2>1. \/ server'[i].at # "decided" \/ server'[i] = server[i] \/ ServerRead(i)
    BY ServerFields, NoUploadRemembers DEF Serve
  <2>2. CASE ServerRead(i)
    <3>1. PICK final : final = server'[i].final OBVIOUS
    <3>2. PICK cancel \in BOOLEAN : final = Outcome(FALSE, cancel)
      <4>1. server'[i] \in Upload
        BY StepApart
      <4>2. server'[i].cancel \in BOOLEAN
        BY <4>1 DEF Upload
      <4> QED
        BY <3>1, <2>2, <4>2, ServerFields
    <3>3. Verdict(final)
      BY <3>2, OutcomeIsVerdict
    <3>4. final # "" => AllTerminal
      BY <3>2 DEF Outcome
    <3>5. Verdict(final)'
      BY <1>1, <3>3, <3>4, VerdictStands
    <3> QED
      BY <3>1, <3>5 DEF Verdict
  <2> QED
    BY <1>3, <2>1, <2>2
<1>7. DecidedRight(i)'
  BY <1>5, <1>6 DEF DecidedRight
<1> QED
  BY <1>4, <1>7

\* The status of the run: nobody but who has decided writes a final one.
LEMMA StatusWritten ==
  ASSUME ClosingInv, NEW i \in Items, ItemStep(i)
  PROVE  \/ run'.status = run.status
         \/ run'.status = "RUNNING"
         \/ exec[i].at = "decided" /\ run'.status = exec[i].final /\ exec[i].final # ""
         \/ server[i].at = "decided" /\ run'.status = server[i].final /\ server[i].final # ""
<1>1. run \in [status: RunStatuses, cancel: BOOLEAN]
  BY DEF ClosingInv, TypeOK
<1>2. ASSUME NEW seen, NEW new, WriteRun(seen, new)
      PROVE  run'.status \in {run.status, new}
  BY <1>1, <1>2 DEF WriteRun
<1>3. CASE StartRun(i) \/ Begin(i)
  BY <1>2, <1>3 DEF StartRun, Begin
<1>4. CASE FinalCommit(i)
  BY <1>2, <1>4 DEF FinalCommit, RunStatusFor
<1>5. CASE ServerCommit(i)
  BY <1>2, <1>5 DEF ServerCommit, RunStatusFor
<1>6. CASE CancelItem(i)
  BY <1>1, <1>6 DEF CancelItem
<1>7. CASE UNCHANGED run
  BY <1>7
<1>8. StartRun(i) \/ Begin(i) \/ FinalCommit(i) \/ ServerCommit(i) \/ CancelItem(i)
      \/ UNCHANGED run
  BY DEF ItemStep, Advance, Serve, Open, Fetch, FetchFails, Clear, StartTask, KeepAlive,
     LocalDone, LocalFails, Send, Answered, RemoteFails, RemoteClose, FinalRead, Report,
     Return, MarkFailed, Judge, Settle, Crash, Recover, ServerMark, ServerRead, ServerEnds
<1> QED
  BY <1>3, <1>4, <1>5, <1>6, <1>7, <1>8

LEMMA StepOutcome ==
  ASSUME ClosingInv, OutcomeInv, NEW i \in Items, ItemStep(i)
  PROVE  OutcomeInv'
<1>1. /\ run.cancel => run'.cancel
      /\ undelivered \subseteq undelivered' /\ unpublished \subseteq unpublished'
      /\ UNCHANGED reconciled
  BY StepGrows
<1>2. \A k \in Items : Remembered(k)'
  BY RememberedStep DEF OutcomeInv
<1>3. ASSUME undelivered' = {}
      PROVE  /\ \A k \in Items : Waited(k)' /\ DecidedRight(k)'
             /\ \A k \in Items : item[k] \in ItemTerminal => item'[k] = item[k]
  <2>1. undelivered = {}
    BY <1>1, <1>3
  <2>2. /\ \A k \in Items : Waited(k)'
        /\ \A k \in Items : item[k] \in ItemTerminal => item'[k] = item[k]
    BY <1>3, <2>1, WaitedStep DEF OutcomeInv
  <2> QED
    BY <2>1, <2>2, DecidedStep DEF OutcomeInv
<1>4. run'.status = "CANCELLED" => run'.cancel
  BY <1>1, StatusWritten DEF OutcomeInv, RunOutcome, Remembered
<1>5. ASSUME undelivered' = {}, ~reconciled'
      PROVE  Verdict(run.status)'
  <2>1. undelivered = {} /\ ~reconciled
    BY <1>1, <1>5
  <2>2. PICK final : final = run'.status
    OBVIOUS
  <2>3. CASE final \notin FinalStatuses
    BY <2>2, <2>3 DEF FinalStatuses, Verdict
  <2>4. CASE final \in FinalStatuses
    <3>1. Verdict(final)
      BY <2>1, <2>2, <2>4, StatusWritten
         DEF OutcomeInv, RunOutcome, DecidedRight, FinalStatuses
    <3>2. AllTerminal
      BY <2>1, <2>2, <2>4, StatusWritten
         DEF ClosingInv, ClosedRunIsDone, DecidedIsDone, FinalStatuses
    <3>3. Verdict(final)'
      BY <1>1, <1>3, <1>5, <3>1, <3>2, VerdictStands
    <3> QED
      BY <2>2, <3>3 DEF Verdict
  <2> QED
    BY <2>3, <2>4
<1> QED
  BY <1>2, <1>3, <1>4, <1>5 DEF OutcomeInv, RunOutcome

\* Nobody but the workers and the server writes an item or knows an outcome; a
\* cancellation and a listing set the flag they need.
LEMMA OthersOutcome ==
  ASSUME ClosingInv, OutcomeInv, CancelRun \/ CancelTask \/ List \/ UNCHANGED vars
  PROVE  OutcomeInv'
<1>1. UNCHANGED <<item, exec, server, undelivered, unpublished>>
  BY DEF CancelRun, CancelTask, List, ListRuns, ListTask, ListCommit, vars, history
<1>2. /\ run.cancel => run'.cancel
      /\ run'.status = "CANCELLED" => run'.cancel
      /\ (run'.status = run.status /\ reconciled' = reconciled) \/ reconciled'
  <2>1. run \in [status: RunStatuses, cancel: BOOLEAN]
    BY DEF ClosingInv, TypeOK
  <2>2. CASE CancelRun
    <3>1. run' = run \/ run' = [run EXCEPT !.cancel = TRUE]
      BY <2>2 DEF CancelRun
    <3>2. reconciled' = reconciled
      BY <2>2 DEF CancelRun, history
    <3> QED
      BY <2>1, <3>1, <3>2 DEF OutcomeInv, RunOutcome
  <2>3. CASE ListCommit
    BY <2>3 DEF ListCommit
  <2>4. CASE ~CancelRun /\ ~ListCommit
    BY <2>4 DEF CancelTask, List, ListRuns, ListTask, vars, history, OutcomeInv, RunOutcome
  <2> QED
    BY <2>2, <2>3, <2>4
<1>3. ASSUME NEW final, Verdict(final) PROVE Verdict(final)'
  BY <1>1, <1>3 DEF Verdict, Having
<1>4. \A k \in Items : Remembered(k)'
  BY <1>1, <1>2 DEF OutcomeInv, Remembered
<1>5. undelivered' = {} => \A k \in Items : Waited(k)' /\ DecidedRight(k)'
  BY <1>1 DEF OutcomeInv, Waited, DecidedRight, Verdict, Having
<1>6. RunOutcome'
  BY <1>1, <1>2 DEF OutcomeInv, RunOutcome, Verdict, Having
<1> QED
  BY <1>4, <1>5, <1>6 DEF OutcomeInv

-----------------------------------------------------------------------------
(* A closed run stays closed                                               *)

LEMMA IdleViews == Idle.run = "PENDING" /\ ~Idle.hush
  BY DEF Idle

\* What the handlers know of the run, and whether they have returned early.
LEMMA RunViews ==
  ASSUME ClosingInv, NEW i \in Items, ItemStep(i)
  PROVE  /\ Open(i) => exec'[i].run = run.status /\ (exec'[i].hush <=> item[i] \in ItemTerminal)
         /\ StartRun(i) \/ Begin(i) => exec'[i].run = "RUNNING" /\ exec'[i].hush = exec[i].hush
         /\ FinalRead(i) =>
              /\ exec'[i].run = IF exec[i].hush THEN exec[i].run ELSE run.status
              /\ exec'[i].hush = exec[i].hush
         /\ CancelItem(i) => exec'[i].run = exec[i].run
         /\ \/ Open(i) \/ StartRun(i) \/ Begin(i) \/ FinalRead(i) \/ CancelItem(i)
            \/ exec'[i].run = exec[i].run /\ exec'[i].hush = exec[i].hush
            \/ exec'[i].run = "PENDING" /\ ~exec'[i].hush
<1> DEFINE Same == \/ exec'[i].run = exec[i].run /\ exec'[i].hush = exec[i].hush
                   \/ exec'[i].run = "PENDING" /\ ~exec'[i].hush
<1>1. /\ exec \in [Items -> Coroutine] /\ exec[i] \in Coroutine
      /\ run \in [status: RunStatuses, cancel: BOOLEAN]
  BY DEF ClosingInv, TypeOK
<1>2. ASSUME Open(i)
      PROVE  exec'[i].run = run.status /\ (exec'[i].hush <=> item[i] \in ItemTerminal)
  <2>1. PICK early \in BOOLEAN : early <=> item[i] \in ItemTerminal
    OBVIOUS
  <2>2. PICK place : place = IF item[i] \in ItemTerminal THEN "marked" ELSE "opened"
    OBVIOUS
  <2>3. exec' = [exec EXCEPT ![i] = [Idle EXCEPT !.at = place, !.hush = early,
                   !.run = run.status, !.cancel = run.cancel, !.item = item[i]]]
    BY <1>2, <2>1, <2>2 DEF Open
  <2>4. exec'[i].run = run.status /\ exec'[i].hush = early
    BY <1>1, <2>3 DEF Idle
  <2> QED
    BY <2>1, <2>4
<1>3. ASSUME StartRun(i) \/ Begin(i)
      PROVE  exec'[i].run = "RUNNING" /\ exec'[i].hush = exec[i].hush
  <2>1. \E place, y : exec'[i] = [exec[i] EXCEPT !.at = place, !.run = "RUNNING", !.item = y]
    <3>1. CASE StartRun(i)
      <4>1. PICK y : y = exec[i].item
        OBVIOUS
      <4>2. exec'[i] = [exec[i] EXCEPT !.at = "started", !.run = "RUNNING", !.item = y]
        BY <1>1, <3>1, <4>1 DEF StartRun, Coroutine
      <4> QED
        BY <4>2
    <3>2. CASE Begin(i)
      <4>1. exec'[i] = [exec[i] EXCEPT !.at = "executing", !.run = "RUNNING", !.item = "RUNNING"]
        BY <1>1, <3>2 DEF Begin
      <4> QED
        BY <4>1
    <3> QED
      BY <1>3, <3>1, <3>2
  <2> QED
    BY <1>1, <2>1 DEF Coroutine
<1>4. ASSUME FinalRead(i)
      PROVE  /\ exec'[i].run = IF exec[i].hush THEN exec[i].run ELSE run.status
             /\ exec'[i].hush = exec[i].hush
  <2>1. PICK status : status = IF exec[i].hush THEN exec[i].run ELSE run.status
    OBVIOUS
  <2>2. PICK cancel : cancel = IF exec[i].hush THEN exec[i].cancel ELSE run.cancel
    OBVIOUS
  <2>3. PICK final : final = Outcome(exec[i].error, cancel)
    OBVIOUS
  <2>4. exec' = [exec EXCEPT ![i] = [exec[i] EXCEPT !.at = "decided", !.run = status,
                   !.cancel = cancel, !.final = final]]
    BY <1>4, <2>1, <2>2, <2>3 DEF FinalRead
  <2>5. exec'[i].run = status /\ exec'[i].hush = exec[i].hush
    BY <1>1, <2>4 DEF Coroutine
  <2> QED
    BY <2>1, <2>5
<1>5. ASSUME CancelItem(i) PROVE exec'[i].run = exec[i].run
  BY <1>1, <1>5 DEF CancelItem, Coroutine
<1>6. ASSUME Fetch(i) \/ FetchFails(i) \/ Clear(i) \/ StartTask(i) \/ Send(i) \/ Answered(i)
             \/ RemoteClose(i) \/ FinalCommit(i) \/ Report(i) \/ MarkFailed(i)
      PROVE  Same
  <2>1. exec'[i] = Idle \/ \E place : exec' = [exec EXCEPT ![i].at = place]
    BY <1>1, <1>6 DEF Fetch, FetchFails, Clear, StartTask, Send, Answered, RemoteClose,
       FinalCommit, Report, MarkFailed, Goto
  <2>2. ASSUME NEW place, exec' = [exec EXCEPT ![i].at = place]
        PROVE  exec'[i].run = exec[i].run /\ exec'[i].hush = exec[i].hush
    <3>1. exec'[i] = [exec[i] EXCEPT !.at = place]
      BY <1>1, <2>2
    <3> QED
      BY <1>1, <3>1 DEF Coroutine
  <2> QED
    BY <2>1, <2>2, IdleViews
<1>7. ASSUME Return(i) \/ Settle(i) \/ Crash(i) \/ KeepAlive(i) \/ Serve(i) \/ ServerEnds(i)
      PROVE  Same
  <2>1. exec'[i] = Idle \/ exec'[i] = exec[i]
    BY <1>1, <1>7, ExecSame DEF Return, Settle, Crash
  <2> QED
    BY <2>1, IdleViews
<1>8. ASSUME LocalDone(i) \/ LocalFails(i) \/ RemoteFails(i)
      PROVE  Same
  <2>1. \E error, y, place : exec' = [exec EXCEPT ![i] =
          [exec[i] EXCEPT !.at = place, !.item = y, !.error = error]]
    <3>1. LocalDone(i) => \E error : exec' = [exec EXCEPT ![i] =
            [exec[i] EXCEPT !.at = "marked", !.item = "COMPLETED", !.error = error]]
      BY DEF LocalDone
    <3>2. PICK error : error = exec[i].error
      OBVIOUS
    <3>3. LocalFails(i) => exec' = [exec EXCEPT ![i] =
            [exec[i] EXCEPT !.at = "marked", !.item = "FAILED", !.error = error]]
      BY <1>1, <3>2 DEF LocalFails, Coroutine
    <3>4. RemoteFails(i) => exec' = [exec EXCEPT ![i] =
            [exec[i] EXCEPT !.at = "doubting", !.item = item[i], !.error = error]]
      BY <1>1, <3>2 DEF RemoteFails, Coroutine
    <3> QED
      BY <1>8, <3>1, <3>3, <3>4
  <2>2. PICK error, y, place : exec' = [exec EXCEPT ![i] =
          [exec[i] EXCEPT !.at = place, !.item = y, !.error = error]]
    BY <2>1
  <2>3. exec'[i] = [exec[i] EXCEPT !.at = place, !.item = y, !.error = error]
    BY <1>1, <2>2
  <2>4. exec'[i].run = exec[i].run /\ exec'[i].hush = exec[i].hush
    BY <1>1, <2>3 DEF Coroutine
  <2> QED
    BY <2>4
<1>9. ASSUME Judge(i) \/ Recover(i)
      PROVE  Same
  <2>1. CASE Judge(i)
    <3>1. PICK final : exec'[i] = [exec[i] EXCEPT !.at = "settling", !.final = final]
      BY <1>1, <2>1 DEF Judge
    <3>2. exec'[i].run = exec[i].run /\ exec'[i].hush = exec[i].hush
      BY <1>1, <3>1 DEF Coroutine
    <3> QED
      BY <3>2
  <2>2. CASE Recover(i)
    <3>1. exec'[i] = exec[i]
          \/ exec'[i] = [Idle EXCEPT !.at = "settling", !.final = "FAILED"]
      BY <1>1, <2>2 DEF Recover
    <3>2. CASE exec'[i] = [Idle EXCEPT !.at = "settling", !.final = "FAILED"]
      <4>1. exec'[i].run = Idle.run /\ exec'[i].hush = Idle.hush
        BY <3>2 DEF Idle
      <4> QED
        BY <4>1, IdleViews
    <3> QED
      BY <3>1, <3>2
  <2> QED
    BY <1>9, <2>1, <2>2
<1> QED
  BY <1>2, <1>3, <1>4, <1>5, <1>6, <1>7, <1>8, <1>9 DEF ItemStep, Advance

\* What the server knows of it.
LEMMA ServerViews ==
  ASSUME ClosingInv, NEW i \in Items, ItemStep(i)
  PROVE  \/ ServerMark(i) /\ server'[i].run = run.status
         \/ server'[i].run = server[i].run
         \/ server'[i].run = "PENDING"
<1>1. server \in [Items -> Upload] /\ server[i] \in Upload
  BY DEF ClosingInv, TypeOK
<1>2. CASE Send(i)
  BY <1>1, <1>2 DEF Send, NoUpload
<1>3. CASE Answered(i) \/ ServerEnds(i)
  <2>1. server'[i] = NoUpload
    BY <1>1, <1>3 DEF Answered, ServerEnds
  <2>2. NoUpload.run = "PENDING"
    BY DEF NoUpload
  <2> QED
    BY <2>1, <2>2
<1>4. CASE ServerMark(i)
  BY <1>1, <1>4 DEF ServerMark, Upload
<1>5. CASE ServerRead(i)
  <2>1. PICK final : final = Outcome(FALSE, server[i].cancel)
    OBVIOUS
  <2>2. server'[i] = [server[i] EXCEPT !.at = "decided", !.final = final]
    BY <1>1, <1>5, <2>1 DEF ServerRead
  <2> QED
    BY <1>1, <2>2 DEF Upload
<1>6. CASE ServerCommit(i)
  BY <1>1, <1>6 DEF ServerCommit, NoUpload
<1> QED
  BY <1>2, <1>3, <1>4, <1>5, <1>6, ServerFields DEF Serve

\* A run that is started stays so, and an item that has begun never goes back;
\* who starts an item starts the run, unless he has seen it started.
LEMMA StartedStays ==
  ASSUME ClosingInv, NEW i \in Items, ItemStep(i)
  PROVE  /\ run.status # "PENDING" => run'.status # "PENDING"
         /\ StartRun(i) \/ Begin(i) => exec[i].run = "RUNNING" \/ run'.status = "RUNNING"
         /\ \A k \in Items : item[k] # "PENDING" => item'[k] # "PENDING"
<1>1. run \in [status: RunStatuses, cancel: BOOLEAN]
      /\ exec[i].final \in {""} \cup FinalStatuses /\ server[i].final \in {""} \cup FinalStatuses
  BY DEF ClosingInv, TypeOK, Coroutine, Upload
<1>2. run.status # "PENDING" => run'.status # "PENDING"
  BY <1>1, StatusWritten DEF FinalStatuses
<1>3. StartRun(i) \/ Begin(i) => exec[i].run = "RUNNING" \/ run'.status = "RUNNING"
  BY <1>1 DEF StartRun, Begin, WriteRun
<1>4. item[i] # "PENDING" => item'[i] # "PENDING"
  BY ItemFields
<1> QED
  BY <1>2, <1>3, <1>4, StepApart DEF Apart

\* The steps after which a handler is to finalize the run.
LEMMA Marking ==
  ASSUME ClosingInv, NEW i \in Items, ItemStep(i), exec'[i].at = "marked"
  PROVE  \/ exec'[i] = exec[i]
         \/ Open(i) /\ item[i] \in ItemTerminal
         \/ CancelItem(i)
         \/ (LocalDone(i) \/ LocalFails(i) \/ Answered(i) \/ RemoteClose(i)) /\ exec[i].at \in Begun
<1>1. ~Ends(i) /\ ~RemoteFails(i) /\ ~FinalRead(i) /\ ~Judge(i) /\ ~StartRun(i) /\ ~Begin(i)
  BY EndsFields, NotesFields, IdleRemembers
<1>2. ~Fetch(i) /\ ~FetchFails(i) /\ ~Clear(i) /\ ~StartTask(i) /\ ~Send(i) /\ ~FinalCommit(i)
      /\ ~Report(i)
  BY MovesFields
<1>3. Recover(i) => exec'[i] = exec[i]
  BY NotesFields
<1>4. Open(i) => item[i] \in ItemTerminal
  BY NotesFields
<1>5. LocalDone(i) \/ LocalFails(i) \/ Answered(i) \/ RemoteClose(i) => exec[i].at \in Begun
  BY DEF LocalDone, LocalFails, Answered, RemoteClose, Begun
<1>6. KeepAlive(i) \/ Serve(i) \/ ServerEnds(i) => exec'[i] = exec[i]
  BY ExecSame
<1> QED
  BY <1>1, <1>2, <1>3, <1>4, <1>5, <1>6 DEF ItemStep, Advance, Ends

LEMMA StartedStep ==
  ASSUME ClosingInv, NEW i \in Items, ItemStep(i), \A k \in Items : Remembered(k),
         \A k \in Items : Started(k)
  PROVE  \A k \in Items : Started(k)'
<1>1. /\ run.cancel => run'.cancel
      /\ run.status # "PENDING" => run'.status # "PENDING"
      /\ \A k \in Items : item[k] # "PENDING" => item'[k] # "PENDING"
  BY StepGrows, StartedStays
<1>2. ASSUME NEW k \in Items \ {i} PROVE Started(k)'
  BY <1>1, <1>2, StepApart DEF Apart, Started
<1>3. exec[i].at \in Begun \/ server[i].at # "idle" => item[i] # "PENDING"
  BY DEF ClosingInv, ViewOfItem
<1>4. exec'[i].run # "PENDING" => run'.status # "PENDING"
  BY <1>1, RunViews, StartedStays DEF Started
<1>5. server'[i].run # "PENDING" => run'.status # "PENDING"
  BY <1>1, ServerViews DEF Started
<1>6. item'[i] # "PENDING" => run'.status # "PENDING" \/ run'.cancel
  <2>1. CASE CancelItem(i)
    BY <1>1, <2>1, ItemFields DEF Remembered
  <2>2. CASE Begin(i)
    BY <1>1, <2>2, StartedStays DEF Started
  <2>3. CASE LocalDone(i) \/ LocalFails(i) \/ RemoteClose(i) \/ ServerMark(i)
    <3>1. item[i] # "PENDING"
      BY <1>3, <2>3 DEF LocalDone, LocalFails, RemoteClose, ServerMark, Begun
    <3> QED
      BY <1>1, <3>1 DEF Started
  <2>4. CASE item' = item
    BY <1>1, <2>4 DEF Started
  <2> QED
    BY <2>1, <2>2, <2>3, <2>4, ItemFields
<1>7. exec'[i].at = "marked" => item'[i] # "PENDING"
  <2>1. CASE CancelItem(i)
    BY <2>1, ItemFields
  <2>2. ASSUME exec'[i].at = "marked", ~CancelItem(i) PROVE item[i] # "PENDING"
    BY <1>3, <2>2, Marking DEF Started, ItemTerminal
  <2> QED
    BY <1>1, <2>1, <2>2
<1>8. exec'[i].at \in Before \cup Begun => ~exec'[i].hush
  <2>1. CASE Open(i)
    BY <2>1, RunViews, NotesFields DEF Before, Begun
  <2>2. CASE FinalRead(i) \/ CancelItem(i)
    BY <2>2, NotesFields DEF Before, Begun
  <2>3. CASE exec'[i] = exec[i] \/ ~exec'[i].hush
    BY <2>3 DEF Started
  <2>4. CASE exec'[i].hush = exec[i].hush /\ ~(exec'[i] = exec[i])
    <3>1. exec'[i].at \in Before \cup Begun => exec[i].at \in Before \cup Begun \/ Open(i)
                                               \/ exec'[i] = Idle
      BY <2>4, EndsFields, MovesFields, NotesFields, ExecSame, IdleRemembers
         DEF ItemStep, Advance, Ends, Before, Begun, Fetch, FetchFails, Clear, StartTask, StartRun,
             Begin, Send, RemoteFails, CancelItem
    <3> QED
      BY <2>1, <2>4, <3>1, IdleViews DEF Started
  <2> QED
    BY <2>1, <2>2, <2>3, <2>4, RunViews
<1>9. Started(i)'
  BY <1>4, <1>5, <1>6, <1>7, <1>8 DEF Started
<1> QED
  BY <1>2, <1>9

\* An outcome is None if, and only if, an item is not terminal.
LEMMA NoOutcome ==
  ASSUME NEW error, NEW cancel
  PROVE  Outcome(error, cancel) = "" <=> ~AllTerminal
BY DEF Outcome

\* While nobody has disturbed the run, what a session is to write RUNNING over
\* is RUNNING.
LEMMA UnwrittenStep ==
  ASSUME ClosingInv, NEW i \in Items, ItemStep(i), \A k \in Items : Remembered(k),
         \A k \in Items : Started(k) /\ Unwritten(k), ~reconciled, ~run.cancel, ~run'.cancel
  PROVE  \A k \in Items : Unwritten(k)'
<1>1. AllTerminal => AllTerminal'
  BY NextClosing DEF Next, ItemStep, AllTerminal
<1>2. ASSUME NEW k \in Items, exec'[k] = exec[k]
      PROVE  /\ exec'[k].at = "marked" /\ exec'[k].hush => Seen(exec[k].run)'
             /\ exec'[k].at = "decided" /\ exec'[k].final = "" => exec'[k].run = "RUNNING"
  BY <1>1, <1>2 DEF Unwritten, Seen
<1>3. ASSUME NEW k \in Items, server'[k] = server[k]
      PROVE  /\ server'[k].at = "marked" => Seen(server[k].run)'
             /\ server'[k].at = "decided" /\ server'[k].final = "" => server'[k].run = "RUNNING"
  BY <1>1, <1>3 DEF Unwritten, Seen
<1>4. ASSUME NEW k \in Items \ {i} PROVE Unwritten(k)'
  <2>1. exec'[k] = exec[k] /\ server'[k] = server[k]
    BY StepApart DEF Apart
  <2> QED
    BY <1>2, <1>3, <2>1 DEF Unwritten
<1>5. item[i] # "PENDING" => Seen(run.status)
  BY DEF Started, ClosingInv, ClosedRunIsDone, Seen
<1>6. ASSUME NEW s \in RunStatuses, Seen(s), ~AllTerminal PROVE s = "RUNNING"
  BY <1>6 DEF Seen, RunStatuses
<1>7. /\ exec[i].run \in RunStatuses /\ server[i].run \in RunStatuses
      /\ run.status \in RunStatuses
  BY DEF ClosingInv, TypeOK, Coroutine, Upload
<1>8. exec'[i].at = "marked" /\ exec'[i].hush => Seen(exec[i].run)'
  <2>1. ASSUME exec'[i].at = "marked", exec'[i].hush
        PROVE  exec'[i] = exec[i] \/ (exec'[i].run = run.status /\ item[i] # "PENDING")
    <3>1. ~CancelItem(i)
      <4>1. ASSUME CancelItem(i) PROVE FALSE
        BY <4>1, ItemFields DEF Remembered
      <4> QED
        BY <4>1
    <3>2. CASE Open(i)
      BY <2>1, <3>2, RunViews, Marking DEF ItemTerminal
    <3>3. ASSUME LocalDone(i) \/ LocalFails(i) \/ Answered(i) \/ RemoteClose(i),
                 exec[i].at \in Begun
          PROVE  FALSE
      <4>1. ~exec[i].hush
        BY <3>3 DEF Started
      <4>2. exec'[i].hush = exec[i].hush \/ ~exec'[i].hush
        BY <3>3, RunViews DEF LocalDone, LocalFails, Answered, RemoteClose, Open, StartRun, Begin,
           FinalRead, CancelItem, Begun
      <4> QED
        BY <2>1, <4>1, <4>2
    <3> QED
      BY <2>1, <3>1, <3>2, <3>3, Marking
  <2> QED
    BY <1>1, <1>2, <1>5, <2>1 DEF Seen
<1>9. exec'[i].at = "decided" /\ exec'[i].final = "" => exec'[i].run = "RUNNING"
  <2>1. \/ exec'[i].at # "decided" \/ exec'[i] = exec[i] \/ FinalRead(i)
    BY EndsFields, MovesFields, NotesFields, ExecSame, IdleRemembers
       DEF ItemStep, Advance, Ends, Moves
  <2>2. CASE FinalRead(i)
    <3>1. exec[i].at = "marked" /\ exec'[i].run = (IF exec[i].hush THEN exec[i].run ELSE run.status)
      BY <2>2, RunViews DEF FinalRead
    <3>2. Seen(exec'[i].run)
      BY <1>5, <3>1 DEF Started, Unwritten
    <3>3. exec'[i].final = "" => ~AllTerminal
      BY <2>2, NotesFields, NoOutcome
    <3> QED
      BY <1>6, <1>7, <3>1, <3>2, <3>3
  <2> QED
    BY <1>2, <2>1, <2>2
<1>10. server'[i].at = "marked" => Seen(server[i].run)'
  <2>1. \/ server'[i].at # "marked" \/ server'[i] = server[i] \/ ServerMark(i)
    BY ServerFields, NoUploadRemembers DEF Serve
  <2>2. CASE ServerMark(i)
    <3>1. item[i] # "PENDING"
      BY <2>2 DEF ServerMark, ClosingInv, ViewOfItem
    <3>2. server'[i].run = run.status
      BY <2>2 DEF ServerMark, ClosingInv, TypeOK, Upload
    <3> QED
      BY <1>1, <1>5, <3>1, <3>2 DEF Seen
  <2> QED
    BY <1>3, <2>1, <2>2
<1>11. server'[i].at = "decided" /\ server'[i].final = "" => server'[i].run = "RUNNING"
  <2>1. \/ server'[i].at # "decided" \/ server'[i] = server[i] \/ ServerRead(i)
    BY ServerFields, NoUploadRemembers DEF Serve
  <2>2. CASE ServerRead(i)
    <3>1. server[i].at = "marked" /\ ~ServerMark(i)
      BY <2>2 DEF ServerRead, ServerMark
    <3>2. Seen(server[i].run)
      BY <3>1 DEF Unwritten
    <3>3. server'[i].final = "" => ~AllTerminal
      BY <2>2, ServerFields, NoOutcome
    <3>4. server'[i].run = server[i].run
      <4>1. server[i].run # "PENDING"
        BY <3>2 DEF Seen
      <4>2. PICK final : final = Outcome(FALSE, server[i].cancel)
        OBVIOUS
      <4>3. server'[i] = [server[i] EXCEPT !.at = "decided", !.final = final]
        BY <2>2, <4>2 DEF ServerRead, ClosingInv, TypeOK
      <4> QED
        BY <4>3 DEF ClosingInv, TypeOK, Upload
    <3> QED
      BY <1>6, <1>7, <3>2, <3>3, <3>4
  <2> QED
    BY <1>3, <2>1, <2>2
<1>12. Unwritten(i)'
  BY <1>8, <1>9, <1>10, <1>11 DEF Unwritten
<1> QED
  BY <1>4, <1>12

LEMMA StepReopen ==
  ASSUME ClusterInv, NEW i \in Items, ItemStep(i)
  PROVE  ReopenInv'
<1>1. /\ run.cancel => run'.cancel
      /\ undelivered \subseteq undelivered' /\ UNCHANGED reconciled
  BY StepGrows DEF ClusterInv
<1>2. \A k \in Items : Started(k)'
  BY StartedStep DEF ClusterInv, OutcomeInv, ReopenInv
<1>3. ASSUME undelivered' = {}, ~reconciled', ~run'.cancel
      PROVE  \A k \in Items : Unwritten(k)'
  BY <1>1, <1>3, UnwrittenStep DEF ClusterInv, OutcomeInv, ReopenInv
<1> QED
  BY <1>2, <1>3 DEF ReopenInv

\* The others touch no session; a listing closes the run at its own risk.
LEMMA OthersReopen ==
  ASSUME ClusterInv, CancelRun \/ CancelTask \/ List \/ UNCHANGED vars
  PROVE  ReopenInv'
<1>1. UNCHANGED <<item, exec, server, undelivered>>
  BY DEF CancelRun, CancelTask, List, ListRuns, ListTask, ListCommit, vars, history
<1>2. /\ run.cancel => run'.cancel
      /\ run.status # "PENDING" => run'.status # "PENDING"
      /\ reconciled' = reconciled \/ reconciled'
  <2>1. run \in [status: RunStatuses, cancel: BOOLEAN]
    BY DEF ClusterInv, ClosingInv, TypeOK
  <2>2. CASE CancelRun
    <3>1. run' = run \/ run' = [run EXCEPT !.cancel = TRUE]
      BY <2>2 DEF CancelRun
    <3>2. reconciled' = reconciled
      BY <2>2 DEF CancelRun, history
    <3> QED
      BY <2>1, <3>1, <3>2
  <2>3. CASE ListCommit
    BY <2>3 DEF ListCommit, FinalStatuses
  <2>4. CASE ~CancelRun /\ ~ListCommit
    BY <2>4 DEF CancelTask, List, ListRuns, ListTask, vars, history
  <2> QED
    BY <2>2, <2>3, <2>4
<1>3. AllTerminal' = AllTerminal
  BY <1>1 DEF AllTerminal
<1>4. ASSUME NEW k \in Items PROVE Started(k)'
  BY <1>1, <1>2 DEF ClusterInv, ReopenInv, Started
<1>5. ASSUME NEW k \in Items, undelivered' = {}, ~reconciled', ~run'.cancel
      PROVE  Unwritten(k)'
  <2>1. Unwritten(k)
    BY <1>1, <1>2, <1>5 DEF ClusterInv, ReopenInv
  <2> QED
    BY <1>1, <1>3, <2>1 DEF Unwritten, Seen
<1> QED
  BY <1>4, <1>5 DEF ReopenInv

LEMMA InitCluster == Init => ClusterInv
<1> SUFFICES ASSUME Init PROVE OutcomeInv /\ ReopenInv
  BY InitClosing DEF ClusterInv
<1>1. /\ run.status = "PENDING" /\ \A i \in Items : item[i] = "PENDING"
      /\ \A i \in Items : exec[i] = Idle /\ server[i] = NoUpload
  BY DEF Init
<1>2. OutcomeInv
  BY <1>1, IdleRemembers, NoUploadRemembers
     DEF OutcomeInv, RunOutcome, Verdict, Remembered, Waited, DecidedRight, Before
<1>3. Idle.run = "PENDING" /\ Idle.hush = FALSE /\ NoUpload.run = "PENDING"
  BY DEF Idle, NoUpload
<1>4. ReopenInv
  BY <1>1, <1>3, IdleRemembers, NoUploadRemembers DEF ReopenInv, Started, Unwritten
<1> QED
  BY <1>2, <1>4

LEMMA NextKeeps ==
  ASSUME ClusterInv, [Next]_vars
  PROVE  ClusterInv'
<1>1. ASSUME NEW i \in Items, ItemStep(i) PROVE OutcomeInv' /\ ReopenInv'
  BY <1>1, StepOutcome, StepReopen DEF ClusterInv
<1>2. ASSUME CancelRun \/ CancelTask \/ List \/ UNCHANGED vars
      PROVE  OutcomeInv' /\ ReopenInv'
  BY <1>2, OthersOutcome, OthersReopen DEF ClusterInv
<1> QED
  BY <1>1, <1>2, NextClosing DEF ClusterInv, Next, ItemStep

-----------------------------------------------------------------------------
(* Refinement of ProductionRun                                             *)

\* The run was closed by a listing, or a worker has left an upload.
Disturbed == undelivered # {} \/ reconciled

\* What ProductionRun lets one step do to the status of the run and to one item.
StatusMoves ==
  \/ run'.status = run.status
  \/ run.status = "PENDING" /\ run'.status = "RUNNING"
  \/ /\ run.status \in FinalStatuses /\ run'.status = "RUNNING"
     /\ run.cancel \/ Disturbed
  \/ /\ run'.status \in FinalStatuses
     /\ Disturbed' \/ (AllTerminal /\ Verdict(run.status))'
     /\ run'.status = "CANCELLED" => run'.cancel
ItemMoves(i) ==
  \E y \in ItemStatuses :
    /\ item' = [item EXCEPT ![i] = y]
    /\ \/ item[i] = "PENDING" /\ y = "RUNNING"
       \/ /\ item[i] = "RUNNING" \/ (item[i] = "PENDING" /\ y = "CANCELLED")
          /\ y \in ItemTerminal /\ (y = "CANCELLED" => run'.cancel)
       \/ Disturbed /\ item[i] \in ItemTerminal /\ y \in ItemTerminal

\* Of a value here is the function that gives it.
LEMMA OfValue ==
  ASSUME NEW v
  PROVE  Of(v) = [r \in Here |-> v] /\ Of(v)["run"] = v /\ "run" \in Here
BY DEF Of, Here

LEMMA OfUpdated ==
  ASSUME NEW f, NEW i, NEW y
  PROVE  [Of(f) EXCEPT !["run"][i] = y] = Of([f EXCEPT ![i] = y])
BY DEF Of, Here

LEMMA OfReplaced ==
  ASSUME NEW v, NEW w
  PROVE  [Of(v) EXCEPT !["run"] = w] = Of(w)
BY DEF Of, Here

\* Steps that do no more than that are steps of ProductionRun.
LEMMA PromiseStep ==
  ASSUME ClusterInv, ClusterInv', StatusMoves,
         item' = item \/ \E i \in Items : ItemMoves(i),
         run.cancel => run'.cancel, Disturbed => Disturbed'
  PROVE  Promise!Next
<1>1. /\ run \in [status: RunStatuses, cancel: BOOLEAN]
      /\ run' \in [status: RunStatuses, cancel: BOOLEAN]
      /\ item \in [Items -> ItemStatuses] /\ item' \in [Items -> ItemStatuses]
  BY DEF ClusterInv, ClosingInv, TypeOK
<1>2. DOMAIN Of(item)["run"] = Items /\ DOMAIN Of(item')["run"] = Items
  BY <1>1, OfValue
<1>3. Promise!ItemMove("run")
  <2>1. CASE item' = item
    BY <2>1 DEF Promise!ItemMove, Of
  <2>2. ASSUME NEW i \in Items, ItemMoves(i) PROVE Promise!ItemMove("run")
    <3>1. PICK y \in ItemStatuses :
            /\ item' = [item EXCEPT ![i] = y]
            /\ \/ item[i] = "PENDING" /\ y = "RUNNING"
               \/ /\ item[i] = "RUNNING" \/ (item[i] = "PENDING" /\ y = "CANCELLED")
                  /\ y \in ItemTerminal /\ (y = "CANCELLED" => run'.cancel)
               \/ Disturbed /\ item[i] \in ItemTerminal /\ y \in ItemTerminal
      BY <2>2 DEF ItemMoves
    <3>2. Promise!Becomes("run", i, y)
      <4>1. [Of(item) EXCEPT !["run"][i] = y] = Of([item EXCEPT ![i] = y])
        BY OfUpdated
      <4>2. Of(item') = Of([item EXCEPT ![i] = y])
        BY <3>1 DEF Of
      <4>3. Of(item)' = [Of(item) EXCEPT !["run"][i] = y]
        BY <4>1, <4>2 DEF Of
      <4> QED
        BY <4>3 DEF Promise!Becomes
    <3>3. Of(item)["run"][i] = item[i] /\ Of(run'.cancel)["run"] = run'.cancel
      BY OfValue
    <3>4. i \in DOMAIN Of(item)["run"] /\ ItemTerminal = Promise!Ended
      BY <1>2 DEF Promise!Ended, ItemTerminal
    <3>5. CASE item[i] = "PENDING" /\ y = "RUNNING"
      BY <3>2, <3>3, <3>4, <3>5 DEF Promise!ItemMove, Promise!Begin
    <3>6. CASE /\ item[i] = "RUNNING" \/ (item[i] = "PENDING" /\ y = "CANCELLED")
               /\ y \in ItemTerminal /\ (y = "CANCELLED" => run'.cancel)
      <4>1. Promise!End("run", i, y)
        BY <3>2, <3>3, <3>6 DEF Promise!End, Of
      <4> QED
        BY <3>4, <3>6, <4>1 DEF Promise!ItemMove
    <3>7. CASE Disturbed /\ item[i] \in ItemTerminal /\ y \in ItemTerminal
      <4>1. Promise!Revise("run", i, y)
        BY <3>2, <3>3, <3>4, <3>7 DEF Promise!Revise, Disturbed, Here
      <4> QED
        BY <3>4, <3>7, <4>1 DEF Promise!ItemMove
    <3> QED
      BY <3>1, <3>5, <3>6, <3>7
  <2> QED
    BY <2>1, <2>2
<1>4. Promise!StatusMove("run")
  <2>1. Of(run.status)["run"] = run.status /\ Of(run.cancel)["run"] = run.cancel
    BY OfValue
  <2>2. ASSUME NEW s, run'.status = s PROVE Promise!Called("run", s)
    <3>1. Of(run'.status) = [Of(run.status) EXCEPT !["run"] = s]
      BY <2>2, OfReplaced
    <3> QED
      BY <3>1 DEF Promise!Called, Of
  <2>3. CASE run'.status = run.status
    BY <2>3 DEF Promise!StatusMove, Of
  <2>4. CASE run.status = "PENDING" /\ run'.status = "RUNNING"
    BY <2>1, <2>2, <2>4 DEF Promise!StatusMove, Promise!Start
  <2>5. CASE /\ run.status \in FinalStatuses /\ run'.status = "RUNNING"
             /\ run.cancel \/ Disturbed
    <3>1. Promise!Reopen("run")
      BY <2>1, <2>2, <2>5 DEF Promise!Reopen, Promise!Final, FinalStatuses, Disturbed, Here
    <3> QED
      BY <3>1 DEF Promise!StatusMove
  <2>6. CASE /\ run'.status \in FinalStatuses
             /\ Disturbed' \/ (AllTerminal /\ Verdict(run.status))'
             /\ run'.status = "CANCELLED" => run'.cancel
    <3>1. PICK s : s = run'.status
      OBVIOUS
    <3>2. CASE Disturbed'
      <4>1. Promise!Close("run", s)
        BY <2>2, <3>1, <3>2 DEF Promise!Close, Disturbed, Here
      <4> QED
        BY <2>6, <3>1, <4>1 DEF Promise!StatusMove, Promise!Final, FinalStatuses
    <3>3. CASE (AllTerminal /\ Verdict(run.status))'
      <4>1. Of(item)'["run"] = item' /\ Of(run.cancel)'["run"] = run'.cancel
        BY OfValue
      <4>2. /\ s = "COMPLETED" => \A i \in Items : item'[i] = "COMPLETED"
            /\ s = "PARTIAL_SUCCESS" => /\ \A i \in Items : item'[i] \in ItemTerminal
                                        /\ \E i \in Items : item'[i] = "COMPLETED"
                                        /\ \E i \in Items : item'[i] = "FAILED"
            /\ s = "CANCELLED" => run'.cancel
        BY <2>6, <3>1, <3>3 DEF AllTerminal, Verdict, Having
      <4>3. Promise!Justified("run", s)'
        <5>1. s = "PARTIAL_SUCCESS" =>
                {"COMPLETED", "FAILED"} \subseteq {item'[i] : i \in DOMAIN item'}
          BY <1>1, <4>2
        <5>2. DOMAIN Of(item)'["run"] = Items
          BY <1>1, <4>1
        <5> QED
          BY <1>1, <4>1, <4>2, <5>1, <5>2 DEF Promise!Justified, Promise!Ended, ItemTerminal
      <4>4. Promise!Close("run", s)
        BY <2>2, <3>1, <4>3 DEF Promise!Close
      <4> QED
        BY <2>6, <3>1, <4>4 DEF Promise!StatusMove, Promise!Final, FinalStatuses
    <3> QED
      BY <2>6, <3>2, <3>3
  <2> QED
    BY <2>3, <2>4, <2>5, <2>6 DEF StatusMoves
<1>5. Of(run'.cancel) \in {Of(run.cancel), [Of(run.cancel) EXCEPT !["run"] = TRUE]}
  <2>1. CASE run'.cancel = run.cancel
    BY <2>1
  <2>2. CASE run'.cancel # run.cancel
    <3>1. run'.cancel = TRUE
      BY <1>1, <2>2
    <3> QED
      BY <3>1, OfReplaced
  <2> QED
    BY <2>1, <2>2
<1>6. "run" \in Here
  BY DEF Here
<1>7. /\ Disturbed => Disturbed'
      /\ (IF undelivered = {} /\ ~reconciled THEN {} ELSE Here) = IF Disturbed THEN Here ELSE {}
      /\ (IF undelivered' = {} /\ ~reconciled' THEN {} ELSE Here) = IF Disturbed' THEN Here ELSE {}
  BY DEF Disturbed
<1>8. (IF undelivered' = {} /\ ~reconciled' THEN {} ELSE Here) \in
        {IF undelivered = {} /\ ~reconciled THEN {} ELSE Here,
         (IF undelivered = {} /\ ~reconciled THEN {} ELSE Here) \cup {"run"}}
  BY <1>7 DEF Here
<1> QED
  BY <1>3, <1>4, <1>5, <1>6, <1>8 DEF Promise!Next, Of, Here

\* The status of the run after a step of one item.
LEMMA ItemStepStatus ==
  ASSUME ClusterInv, ClusterInv', NEW i \in Items, ItemStep(i)
  PROVE  StatusMoves
<1>1. run.status \in RunStatuses
  BY DEF ClusterInv, ClosingInv, TypeOK
<1>2. ASSUME run'.status \in FinalStatuses
      PROVE  /\ Disturbed' \/ (AllTerminal /\ Verdict(run.status))'
             /\ run'.status = "CANCELLED" => run'.cancel
  BY <1>2 DEF ClusterInv, ClosingInv, ClosedRunIsDone, OutcomeInv, RunOutcome, Disturbed
<1>3. ASSUME run.status \in FinalStatuses, run'.status = "RUNNING", ~run.cancel, ~Disturbed
      PROVE  FALSE
  <2>1. AllTerminal /\ run.status # "RUNNING"
    BY <1>3 DEF ClusterInv, ClosingInv, ClosedRunIsDone, Disturbed, FinalStatuses
  <2>2. Waited(i) /\ Unwritten(i)
    BY <1>3 DEF ClusterInv, OutcomeInv, ReopenInv, Disturbed
  <2>3. StartRun(i) \/ Begin(i) \/ FinalCommit(i) \/ ServerCommit(i)
    <3>1. StartRun(i) \/ Begin(i) \/ FinalCommit(i) \/ ServerCommit(i)
          \/ CancelItem(i) \/ UNCHANGED run
      BY DEF ItemStep, Advance, Serve, Open, Fetch, FetchFails, Clear, StartTask, KeepAlive,
         LocalDone, LocalFails, Send, Answered, RemoteFails, RemoteClose, FinalRead, Report,
         Return, MarkFailed, Judge, Settle, Crash, Recover, ServerMark, ServerRead, ServerEnds
    <3>2. CancelItem(i) => run'.status = run.status
      BY DEF CancelItem, ClusterInv, ClosingInv, TypeOK
    <3> QED
      BY <1>3, <2>1, <3>1, <3>2
  <2>4. ~StartRun(i) /\ ~Begin(i)
    BY <2>1, <2>2 DEF StartRun, Begin, Waited, Before, AllTerminal
  <2>5. FinalCommit(i) => exec[i].final # "" \/ exec[i].run = "RUNNING"
    BY <2>2 DEF FinalCommit, Unwritten
  <2>6. ServerCommit(i) => server[i].final # "" \/ server[i].run = "RUNNING"
    BY <2>2 DEF ServerCommit, Unwritten
  <2>7. /\ exec[i].final \in {""} \cup FinalStatuses
        /\ server[i].final \in {""} \cup FinalStatuses
        /\ run \in [status: RunStatuses, cancel: BOOLEAN]
    BY DEF ClusterInv, ClosingInv, TypeOK, Coroutine, Upload
  <2>8. ASSUME NEW seen, NEW final \in {""} \cup FinalStatuses,
               WriteRun(seen, RunStatusFor(final)), final # "" \/ seen = "RUNNING"
        PROVE  run'.status = run.status \/ run'.status \in FinalStatuses
    BY <2>7, <2>8 DEF WriteRun, RunStatusFor
  <2>9. run'.status = run.status \/ run'.status \in FinalStatuses
    BY <2>3, <2>4, <2>5, <2>6, <2>7, <2>8 DEF FinalCommit, ServerCommit
  <2> QED
    BY <1>3, <2>1, <2>9 DEF FinalStatuses
<1>4. run'.status = run.status \/ run'.status = "RUNNING" \/ run'.status \in FinalStatuses
  <2>1. /\ exec[i].final \in {""} \cup FinalStatuses
        /\ server[i].final \in {""} \cup FinalStatuses
    BY DEF ClusterInv, ClosingInv, TypeOK, Coroutine, Upload
  <2> QED
    BY <2>1, StatusWritten DEF ClusterInv
<1> QED
  BY <1>1, <1>2, <1>3, <1>4 DEF StatusMoves, RunStatuses

\* The row of the item after one of its steps.
LEMMA ItemStepItem ==
  ASSUME ClusterInv, NEW i \in Items, ItemStep(i)
  PROVE  item' = item \/ ItemMoves(i)
<1>1. /\ item \in [Items -> ItemStatuses] /\ item[i] \in ItemStatuses
      /\ ClosingInv /\ CoroutineOk(exec[i], item[i]) /\ Remembered(i)
      /\ run.cancel => run'.cancel
  BY ItemFacts, StepGrows DEF ClusterInv, ClosingInv, OutcomeInv, TypeOK
<1>2. PICK y : item' = [item EXCEPT ![i] = y] /\ ItemOk(i, y)
  BY <1>1, ItemStepLocal DEF Local
<1>3. y = item'[i] /\ y \in ItemStatuses /\ (y = item[i] => item' = item)
  BY <1>1, <1>2 DEF ItemOk
<1>4. ASSUME item[i] \in ItemTerminal, y # item[i] PROVE Disturbed /\ y \in ItemTerminal
  <2>1. y \in ItemTerminal
    BY <1>2, <1>4 DEF ItemOk
  <2>2. ASSUME undelivered = {} PROVE FALSE
    <3>1. CancelItem(i) \/ Begin(i) \/ LocalDone(i) \/ LocalFails(i) \/ RemoteClose(i)
          \/ ServerMark(i)
      BY <1>1, <1>3, <1>4, ItemFields
    <3>2. undelivered' = {}
      BY <2>2, <3>1 DEF CancelItem, Begin, LocalDone, LocalFails, RemoteClose, ServerMark,
         Outside, Handlers, history
    <3>3. item'[i] = item[i]
      BY <1>1, <1>4, <2>2, <3>2, WaitedStep DEF ClusterInv, OutcomeInv
    <3> QED
      BY <1>3, <1>4, <3>3
  <2> QED
    BY <2>1, <2>2 DEF Disturbed
<1>5. ASSUME item[i] \notin ItemTerminal, y # item[i]
      PROVE  \/ item[i] = "PENDING" /\ y = "RUNNING"
             \/ /\ item[i] = "RUNNING" \/ (item[i] = "PENDING" /\ y = "CANCELLED")
                /\ y \in ItemTerminal /\ (y = "CANCELLED" => run'.cancel)
  <2>1. item[i] \in {"PENDING", "RUNNING"}
    BY <1>1, <1>5 DEF ItemStatuses
  <2>2. CASE CancelItem(i)
    <3>1. y = "CANCELLED" /\ run'.cancel
      BY <1>1, <1>3, <2>2, ItemFields DEF Remembered
    <3> QED
      BY <2>1, <3>1 DEF ItemTerminal
  <2>3. CASE Begin(i)
    <3>1. y = "RUNNING"
      BY <1>1, <1>3, <1>5, <2>3, ItemFields
    <3> QED
      BY <1>5, <2>1, <3>1
  <2>4. CASE LocalDone(i) \/ LocalFails(i) \/ RemoteClose(i) \/ ServerMark(i)
    <3>1. item[i] # "PENDING"
      BY <1>1, <2>4 DEF LocalDone, LocalFails, RemoteClose, ServerMark, ClosingInv, ViewOfItem, Begun
    <3>2. y \in {"COMPLETED", "FAILED"}
      BY <1>1, <1>3, <1>5, <2>4, ItemFields
    <3> QED
      BY <2>1, <3>1, <3>2 DEF ItemTerminal
  <2> QED
    BY <1>1, <1>3, <1>5, <2>2, <2>3, <2>4, ItemFields
<1> QED
  BY <1>2, <1>3, <1>4, <1>5 DEF ItemMoves

\* Every step of the cluster run is a step of ProductionRun, or changes nothing there.
LEMMA PromiseSimulated ==
  ASSUME ClusterInv, ClusterInv', [Next]_vars
  PROVE  [Promise!Next]_(Promise!vars)
<1>1. ASSUME NEW i \in Items, ItemStep(i) PROVE Promise!Next
  <2>1. /\ run.cancel => run'.cancel
        /\ undelivered \subseteq undelivered' /\ UNCHANGED reconciled
    BY <1>1, StepGrows DEF ClusterInv
  <2>2. Disturbed => Disturbed'
    BY <2>1 DEF Disturbed
  <2> QED
    BY <1>1, <2>1, <2>2, ItemStepStatus, ItemStepItem, PromiseStep
<1>2. ASSUME CancelRun \/ List PROVE Promise!Next
  <2>1. item' = item /\ undelivered' = undelivered
    BY <1>2 DEF CancelRun, List, ListRuns, ListTask, ListCommit, history
  <2>2. run \in [status: RunStatuses, cancel: BOOLEAN]
    BY DEF ClusterInv, ClosingInv, TypeOK
  <2>3. CASE CancelRun \/ ListRuns \/ ListTask
    <3>1. run' = run \/ run' = [run EXCEPT !.cancel = TRUE]
      BY <2>3 DEF CancelRun, ListRuns, ListTask
    <3>2. reconciled' = reconciled
      BY <2>3 DEF CancelRun, ListRuns, ListTask, history
    <3> QED
      BY <2>1, <2>2, <3>1, <3>2, PromiseStep DEF StatusMoves, Disturbed
  <2>4. CASE ListCommit
    <3>1. run' = [status |-> lister, cancel |-> run.cancel \/ lister = "CANCELLED"]
          /\ lister \in FinalStatuses /\ reconciled'
      BY <2>4 DEF ListCommit
    <3>2. StatusMoves /\ (run.cancel => run'.cancel) /\ Disturbed'
      BY <3>1 DEF StatusMoves, Disturbed
    <3> QED
      BY <2>1, <3>2, PromiseStep
  <2> QED
    BY <1>2, <2>3, <2>4 DEF List
<1>3. ASSUME CancelTask \/ UNCHANGED vars PROVE UNCHANGED Promise!vars
  BY <1>3 DEF CancelTask, vars, history, Promise!vars
<1> QED
  BY <1>1, <1>2, <1>3 DEF Next, ItemStep

LEMMA PromiseInit == Init => Promise!Init
<1> SUFFICES ASSUME Init PROVE Promise!Init
  OBVIOUS
<1>1. /\ run = [status |-> "PENDING", cancel |-> FALSE]
      /\ item = [i \in Items |-> "PENDING"] /\ undelivered = {} /\ reconciled = FALSE
  BY DEF Init
<1> QED
  BY <1>1 DEF Promise!Init, Of, Here

\* The inductive invariant of the cluster run: what the sessions of the
\* handlers and of the server remember of the items is true of the rows as far
\* as the closing of the run and its outcome depend on it.
THEOREM ClusterInvariant == Spec => []ClusterInv
<1>1. Init => ClusterInv
  BY InitCluster
<1>2. ClusterInv /\ [Next]_vars => ClusterInv'
  BY NextKeeps
<1> QED
  BY <1>1, <1>2, PTL DEF Spec

\* finalize_cluster_run_if_complete closes a run only when all of its items are
\* terminal, and with the status they call for, however its callers interleave;
\* a listing, and an upload that was given up, are what may break the verdict.
THEOREM ClosedRight == Spec => [](ClosedRunIsDone /\ RunOutcome)
<1>1. ClusterInv => ClosedRunIsDone /\ RunOutcome
  BY DEF ClusterInv, ClosingInv, OutcomeInv
<1> QED
  BY <1>1, ClusterInvariant, PTL

\* The handlers, the server and the listing implement ProductionRun: no recovered
\* or retried job and no late upload begins an item again or revises its result,
\* no closed run is opened again, and the final status is what the items call
\* for; an upload that was given up, a listing and a request are the excuses.
THEOREM ClusterKeepsPromise == Spec => PromiseKept
<1>1. Init => Promise!Init
  BY PromiseInit
<1>2. ClusterInv /\ ClusterInv' /\ [Next]_vars => [Promise!Next]_(Promise!vars)
  BY PromiseSimulated
<1> QED
  BY <1>1, <1>2, ClusterInvariant, PTL DEF Spec, PromiseKept, Promise!Spec
=============================================================================
