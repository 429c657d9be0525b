------------------------- MODULE PairingCacheProofs -------------------------
(***************************************************************************)
(* PairingInv is an invariant of PairingCache, for any scenes, contents    *)
(* and scans, and so is CacheTrue.  The steps fall into three kinds: those *)
(* of scans, which change scenes (RowsKept carries what is true of the     *)
(* rows over such a change), those of the job on its own transaction, and  *)
(* the commit of the job, which replaces the rows.                         *)
(***************************************************************************)
EXTENDS PairingCache, TLAPS

USE DEF Statuses

-----------------------------------------------------------------------------
(* Rows.                                                                   *)

\* The row of a pair depends on the scenes of the pair only.
LEMMA RowOfLocal ==
  ASSUME NEW p \in Pair, NEW s1, NEW s2, \A t \in p : s1[t] = s2[t]
  PROVE  RowOf(s1, p) = RowOf(s2, p)
<1>1. [t \in p |-> s1[t]] = [t \in p |-> s2[t]]
  OBVIOUS
<1>2. QED
  BY <1>1 DEF RowOf

\* It is a row.
LEMMA RowOfType ==
  ASSUME NEW p \in Pair, NEW sc
  PROVE  RowOf(sc, p) \in Row
<1>1. CASE \A t \in p : sc[t] \in Usable
  <2>1. RowOf(sc, p) = [t \in p |-> sc[t]]
    BY <1>1 DEF RowOf
  <2>2. [t \in p |-> sc[t]] \in [p -> Usable]
    BY <1>1
  <2>3. QED
    BY <2>1, <2>2 DEF Row
<1>2. CASE ~ \A t \in p : sc[t] \in Usable
  BY <1>2 DEF RowOf, Row
<1>3. QED
  BY <1>1, <1>2

LEMMA PairInScene == \A p \in Pair : p \subseteq Scene
BY DEF Pair

\* A change of one scene leaves alone the rows of pairs without it.
LEMMA RowsKept ==
  ASSUME NEW s \in Scene, NEW c, NEW p \in Pair, s \notin p,
         scene \in [Scene -> Content \cup {Absent}],
         scene' = [scene EXCEPT ![s] = c]
  PROVE  RowOf(scene', p) = RowOf(scene, p)
<1>1. \A t \in p : scene'[t] = scene[t]
  BY PairInScene
<1>2. QED
  BY <1>1, RowOfLocal

-----------------------------------------------------------------------------
(* Types of the records.                                                   *)

LEMMA JobType ==
  ASSUME TypeOK, job.at # "idle"
  PROVE  job \in OpenJob /\ job # Idle
BY DEF TypeOK, Idle

LEMMA WriterType ==
  ASSUME TypeOK, NEW w \in Writer, writer[w].at # "idle"
  PROVE  writer[w] \in OpenWriter /\ writer[w] # Idle
BY DEF TypeOK, Idle

LEMMA IdleAt == Idle.at = "idle"
BY DEF Idle

\* Every member of OpenJob is at work, every member of OpenWriter too.
LEMMA OpenAt ==
  /\ \A j \in OpenJob : j.at # "idle"
  /\ \A x \in OpenWriter : x.at # "idle"
BY DEF OpenJob, OpenWriter

-----------------------------------------------------------------------------
(* Initial states.                                                         *)

LEMMA InitInv == Init => PairingInv
<1> SUFFICES ASSUME Init PROVE PairingInv
  OBVIOUS
<1> USE ScannerAssumption, UsableAssumption, ChangesAssumption
<1>1. TypeOK
  <2>1. rows \in [Pair -> Row]
    BY RowOfType DEF Init
  <2>2. QED
    BY <2>1 DEF Init, TypeOK
<1>2. RowsTrue
  BY DEF Init, RowsTrue
<1>3. job.at = "idle"
  BY IdleAt DEF Init
<1>4. LateAnnounced /\ FullTrue /\ DirtyTrue /\ Stages
  BY <1>3 DEF LateAnnounced, FullTrue, DirtyTrue, Stages, Computing
<1>5. QED
  BY <1>1, <1>2, <1>4 DEF PairingInv
-----------------------------------------------------------------------------
(* The steps of scans.                                                     *)

JobTrue == LateAnnounced /\ FullTrue /\ DirtyTrue /\ Stages

\* Nothing is said of a job that does not exist.
LEMMA IdleJob ==
  ASSUME job'.at = "idle"
  PROVE  JobTrue'
BY DEF JobTrue, LateAnnounced, FullTrue, DirtyTrue, Stages, Computing

\* A step that changes at most the scene s, which is then announced and, if
\* the job has begun to compute, known to be late.
LEMMA ScanKeeps ==
  ASSUME PairingInv, NEW s,
         scene \in [Scene -> Content \cup {Absent}],
         \A t \in Scene : t # s => scene'[t] = scene[t],
         rows' = rows,
         pending \subseteq pending',
         (pending \cup Exempt) \subseteq (pending \cup Exempt)',
         scene' = scene \/ s \in (pending \cup Exempt)',
         scene' = scene \/ (Computing => s \in job'.late),
         job.at = "idle" => job' = job,
         job.at # "idle" =>
           /\ job'.at = job.at /\ job'.full = job.full
           /\ job'.dirty = job.dirty /\ job'.todo = job.todo
           /\ job'.rows = job.rows
           /\ job'.resolved \subseteq job.resolved
           /\ job.late \subseteq job'.late
           /\ job'.late \subseteq job.late \cup {s}
           /\ job'.late = job.late \/ (Computing /\ s \in (pending \cup Exempt)')
  PROVE  RowsTrue' /\ JobTrue'
<1> USE DEF PairingInv
<1>1. \A p \in Pair : s \notin p \/ scene' = scene => RowOf(scene', p) = RowOf(scene, p)
  BY RowOfLocal, PairInScene
<1>2. RowsTrue'
  <2> SUFFICES ASSUME NEW p \in Pair, p \cap (pending \cup Exempt)' = {}
               PROVE  rows'[p] = RowOf(scene', p)
    BY DEF RowsTrue
  <2>1. s \notin p \/ scene' = scene
    OBVIOUS
  <2>2. rows[p] = RowOf(scene, p)
    BY DEF RowsTrue
  <2>3. QED
    BY <1>1, <2>1, <2>2
<1>3. CASE job.at = "idle"
  <2>1. job' = job
    BY <1>3
  <2>2. job'.at = "idle"
    BY <1>3, <2>1
  <2>3. QED
    BY <1>2, <2>2, IdleJob
<1>4. CASE job.at # "idle"
  <2>1. Computing' <=> Computing
    BY <1>4 DEF Computing
  <2>2. LateAnnounced'
    BY <1>4, <2>1 DEF LateAnnounced
  <2>3. FullTrue'
    <3> SUFFICES ASSUME Computing, job.full, NEW p \in Pair, p \cap job'.late = {}
                 PROVE  job'.rows[p] = RowOf(scene', p)
      BY <1>4, <2>1 DEF FullTrue
    <3>1. s \notin p \/ scene' = scene
      OBVIOUS
    <3>2. job.rows[p] = RowOf(scene, p)
      BY <1>4 DEF FullTrue
    <3>3. QED
      BY <1>1, <1>4, <3>1, <3>2
  <2>4. DirtyTrue'
    <3> SUFFICES ASSUME ~job.full
                 PROVE  DirtyTrue'
      BY <1>4 DEF DirtyTrue
    <3>1. job.dirty \subseteq pending' /\ job.todo \subseteq job.dirty
             /\ job'.resolved \subseteq job.dirty
      BY <1>4 DEF DirtyTrue
    <3>2. ASSUME NEW p \in Pair, p \cap (job.dirty \ job.todo) # {},
                 p \cap job'.late = {}
          PROVE  job.rows[p] = RowOf(scene', p)
      <4>1. Computing
        <5>1. job \in OpenJob
          BY <1>4, JobType
        <5>2. job.todo # job.dirty
          BY <3>2
        <5>3. QED
          BY <1>4, <5>1, <5>2 DEF Stages, Computing, OpenJob
      <4>2. s \notin p \/ scene' = scene
        BY <3>2, <4>1
      <4>3. job.rows[p] = RowOf(scene, p)
        BY <1>4, <3>2 DEF DirtyTrue
      <4>4. QED
        BY <1>1, <4>2, <4>3
    <3>3. \A p \in Pair :
            /\ p \cap job.dirty = {} => job.rows[p] = rows[p]
            /\ p \cap job.dirty # {} /\ p \cap (job.dirty \ job.todo) = {}
                 => job.rows[p] = NoRow
      BY <1>4 DEF DirtyTrue
    <3>4. QED
      BY <1>4, <3>1, <3>2, <3>3 DEF DirtyTrue
  <2>5. Stages'
    <3>1. job.at = "computing" => job'.late = {} /\ job.todo = job.dirty
      BY <1>4 DEF Stages, Computing
    <3>2. job.at \in {"computing", "inserting", "computed"} => job'.resolved = {}
      BY <1>4 DEF Stages
    <3>3. /\ job.at \in {"computed", "resolved", "judged"} => job.todo = {}
          /\ job'.resolved \subseteq pending'
      BY <1>4 DEF Stages
    <3>4. /\ job'.at = job.at /\ job'.todo = job.todo /\ job'.dirty = job.dirty
          /\ job'.full = job.full /\ (job.full => job.dirty = {} /\ job.todo = {})
      BY <1>4 DEF Stages
    <3>5. QED
      BY <3>1, <3>2, <3>3, <3>4 DEF Stages
  <2>6. QED
    BY <1>2, <2>2, <2>3, <2>4, <2>5 DEF JobTrue
<1>5. QED
  BY <1>2, <1>3, <1>4
\* A scene that a radar scan has in hand is exempt; if it is done with a
\* scene, every other scene stays as exempt as it was.
LEMMA UnmarkedOf ==
  /\ \A w \in Scanner : writer[w].at # "idle" /\ writer[w].s \in Scene
       => writer[w].s \in Unmarked
  /\ Unmarked \subseteq Scene
BY DEF Unmarked

LEMMA UnmarkedKept ==
  ASSUME NEW w \in Writer,
         \A x \in Writer : x # w => writer'[x] = writer[x]
  PROVE  /\ \A t \in Unmarked :
                t # writer[w].s \/ w \notin Scanner => t \in Unmarked'
         /\ w \notin Scanner => Unmarked' = Unmarked
BY ScannerAssumption DEF Unmarked

LEMMA MarkedType ==
  ASSUME TypeOK, NEW s \in Scene, NEW c \in Content
  PROVE  /\ Marked(s, c) \in OpenWriter
         /\ Marked(s, c).at = "marked" /\ Marked(s, c).s = s
BY DEF Marked, OpenWriter, TypeOK

LEMMA LateType ==
  ASSUME TypeOK, job.at # "idle", NEW s \in Scene, NEW j, j = ChangeSeenBy(job, s)
  PROVE  /\ j \in OpenJob
         /\ [j EXCEPT !.resolved = @ \ {s}] \in OpenJob
         /\ [job EXCEPT !.resolved = @ \ {s}] \in OpenJob
BY JobType DEF ChangeSeenBy, OpenJob

LEMMA InventoryMarkInv ==
  ASSUME PairingInv, NEW w \in Writer, NEW s \in Scene, NEW c \in Content,
         InventoryMark(w, s, c)
  PROVE  PairingInv'
<1> USE DEF InventoryMark
<1>1. TypeOK'
  BY MarkedType, ChangesAssumption DEF PairingInv, TypeOK
<1>2. Unmarked' = Unmarked
  <2>1. \A x \in Writer : x # w => writer'[x] = writer[x]
    BY DEF PairingInv, TypeOK
  <2>2. QED
    BY <2>1, UnmarkedKept
<1>3. RowsTrue' /\ JobTrue'
  BY <1>2, ScanKeeps DEF PairingInv, TypeOK, Exempt
<1>4. QED
  BY <1>1, <1>3 DEF PairingInv, JobTrue

LEMMA ScanWriteInv ==
  ASSUME PairingInv, NEW w \in Writer, NEW s \in Scene, NEW c \in Content,
         ScanWrite(w, s, c)
  PROVE  PairingInv'
<1> USE DEF ScanWrite
<1>1. TypeOK'
  <2>1. writer' \in [Writer -> {Idle} \cup OpenWriter]
    BY DEF PairingInv, TypeOK, OpenWriter
  <2>2. job' \in {Idle} \cup OpenJob
    <3>1. CASE job.at = "idle"
      BY <3>1 DEF PairingInv, TypeOK, ChangeSeenBy, Computing
    <3>2. CASE job.at # "idle"
      BY <3>2, LateType DEF PairingInv
    <3>3. QED
      BY <3>1, <3>2
  <2>3. QED
    BY <2>1, <2>2, ChangesAssumption DEF PairingInv, TypeOK
<1>2. \A x \in Writer : x # w => writer'[x] = writer[x]
  BY DEF PairingInv, TypeOK
<1>3. Unmarked \subseteq Unmarked' /\ s \in Unmarked'
  <2>1. writer'[w].at = "written" /\ writer'[w].s = s
    BY DEF PairingInv, TypeOK
  <2>2. s \in Unmarked'
    BY <2>1 DEF Unmarked
  <2>3. \A t \in Unmarked : t \in Unmarked'
    BY <1>2, IdleAt, ScannerAssumption DEF Unmarked
  <2>4. QED
    BY <2>2, <2>3
<1>4. RowsTrue' /\ JobTrue'
  <2>1. \A t \in Scene : t # s => scene'[t] = scene[t]
    BY DEF PairingInv, TypeOK
  <2>2. job.at = "idle" => job' = job
    BY DEF ChangeSeenBy, Computing
  <2>3. job.at # "idle" =>
           /\ job'.at = job.at /\ job'.full = job.full
           /\ job'.dirty = job.dirty /\ job'.todo = job.todo
           /\ job'.rows = job.rows
           /\ job'.resolved \subseteq job.resolved
           /\ job.late \subseteq job'.late
           /\ job'.late \subseteq job.late \cup {s}
           /\ job'.late = job.late \/ (Computing /\ s \in (pending \cup Exempt)')
           /\ Computing => s \in job'.late
    BY <1>3, JobType DEF PairingInv, ChangeSeenBy, OpenJob, Exempt
  <2>4. Computing => job.at # "idle"
    BY DEF Computing
  <2>5. scene \in [Scene -> Content \cup {Absent}]
    BY DEF PairingInv, TypeOK
  <2>6. /\ (pending \cup Exempt) \subseteq (pending \cup Exempt)'
        /\ s \in (pending \cup Exempt)'
    BY <1>3 DEF Exempt
  <2>7. QED
    BY <2>1, <2>2, <2>3, <2>4, <2>5, <2>6, ScanKeeps
<1>5. QED
  BY <1>1, <1>4 DEF PairingInv, JobTrue

LEMMA ScanMarkInv ==
  ASSUME PairingInv, NEW w \in Writer, ScanMark(w)
  PROVE  PairingInv'
<1> USE DEF ScanMark
<1>1. /\ writer[w].at # "idle" /\ writer[w] \in OpenWriter
      /\ writer[w].s \in Scene /\ writer[w].c \in Content
  BY WriterType DEF PairingInv, OpenWriter
<1>2. TypeOK'
  BY <1>1, MarkedType DEF PairingInv, TypeOK
<1>3. Unmarked \subseteq Unmarked'
  <2>1. /\ writer'[w].at = "marked" /\ writer'[w].s = writer[w].s
        /\ \A x \in Writer : x # w => writer'[x] = writer[x]
    BY <1>1, MarkedType DEF PairingInv, TypeOK
  <2>2. QED
    BY <2>1, ScannerAssumption DEF Unmarked
<1>4. RowsTrue' /\ JobTrue'
  BY <1>3, ScanKeeps DEF PairingInv, TypeOK, Exempt
<1>5. QED
  BY <1>2, <1>4 DEF PairingInv, JobTrue

LEMMA ScanDiesInv ==
  ASSUME PairingInv, NEW w \in Writer, ScanDies(w)
  PROVE  PairingInv'
<1> USE DEF ScanDies
<1>1. writer[w].at # "idle" /\ writer[w].s \in Scene
  BY OpenAt DEF PairingInv, TypeOK, OpenWriter
<1>2. TypeOK'
  BY <1>1 DEF PairingInv, TypeOK
<1>3. (pending \cup Exempt) \subseteq (pending \cup Exempt)'
  <2>1. \A x \in Writer : x # w => writer'[x] = writer[x]
    BY DEF PairingInv, TypeOK
  <2>2. CASE w \in Scanner
    BY <2>1, <2>2, UnmarkedKept DEF Exempt
  <2>3. CASE w \notin Scanner
    BY <2>1, <2>3, UnmarkedKept DEF Exempt
  <2>4. QED
    BY <2>2, <2>3
<1>4. RowsTrue' /\ JobTrue'
  BY <1>3, ScanKeeps DEF PairingInv, TypeOK
<1>5. QED
  BY <1>2, <1>4 DEF PairingInv, JobTrue

LEMMA MarkCommitInv ==
  ASSUME PairingInv, NEW w \in Writer, MarkCommit(w)
  PROVE  PairingInv'
<1> DEFINE s == writer[w].s
           seen == IF w \in Scanner THEN job ELSE ChangeSeenBy(job, s)
<1>1. /\ writer[w].at = "marked" /\ s \in Scene /\ writer[w].c \in Content
      /\ writer[w].adds \in BOOLEAN
  BY WriterType DEF MarkCommit, PairingInv, OpenWriter
<1>2. /\ scene' = IF w \in Scanner THEN scene ELSE [scene EXCEPT ![s] = writer[w].c]
      /\ pending' = IF writer[w].adds THEN pending \cup {s} ELSE pending
      /\ job' = IF writer[w].adds /\ job.at # "idle"
                THEN [seen EXCEPT !.resolved = @ \ {s}] ELSE seen
      /\ status' = IF writer[w].view = "DIRTY" THEN status ELSE "DIRTY"
      /\ slipped' = IF writer[w].adds THEN slipped ELSE slipped \cup ({s} \ pending)
      /\ writer' = [writer EXCEPT ![w] = Idle]
      /\ rows' = rows /\ changes' = changes
  BY DEF MarkCommit
<1>3. job.at = "idle" => job' = job
  BY <1>2 DEF ChangeSeenBy, Computing
<1> HIDE DEF s, seen
<1>4. TypeOK'
  <2>1. job' \in {Idle} \cup OpenJob
    <3>1. CASE job.at = "idle"
      BY <1>3, <3>1 DEF PairingInv, TypeOK
    <3>2. CASE job.at # "idle"
      <4>1. /\ seen \in OpenJob /\ [seen EXCEPT !.resolved = @ \ {s}] \in OpenJob
        BY <1>1, <3>2, LateType, JobType DEF PairingInv, seen
      <4>2. QED
        BY <1>2, <4>1
    <3>3. QED
      BY <3>1, <3>2
  <2>2. QED
    BY <1>1, <1>2, <2>1 DEF PairingInv, TypeOK
<1>5. /\ s \in (pending \cup Exempt)'
      /\ (pending \cup Exempt) \subseteq (pending \cup Exempt)'
  <2>1. s \in pending' \cup slipped' /\ pending \subseteq pending' /\ slipped \subseteq slipped'
    BY <1>2
  <2>2. \A x \in Writer : x # w => writer'[x] = writer[x]
    BY <1>2 DEF PairingInv, TypeOK
  <2>3. \A t \in Unmarked : t # s => t \in Unmarked'
    BY <2>2, UnmarkedKept DEF s
  <2>4. QED
    BY <2>1, <2>3 DEF Exempt
<1>6. RowsTrue' /\ JobTrue'
  <2>1. \A t \in Scene : t # s => scene'[t] = scene[t]
    BY <1>1, <1>2 DEF PairingInv, TypeOK
  <2>2. job.at # "idle" =>
           /\ job'.at = job.at /\ job'.full = job.full
           /\ job'.dirty = job.dirty /\ job'.todo = job.todo
           /\ job'.rows = job.rows
           /\ job'.resolved \subseteq job.resolved
           /\ job.late \subseteq job'.late
           /\ job'.late \subseteq job.late \cup {s}
           /\ job'.late = job.late \/ Computing
           /\ w \notin Scanner /\ Computing => s \in job'.late
    BY <1>2, JobType DEF PairingInv, ChangeSeenBy, OpenJob, seen
  <2>3. scene' = scene \/ (Computing => s \in job'.late)
    BY <1>2, <2>2 DEF Computing
  <2>4. scene \in [Scene -> Content \cup {Absent}] /\ pending \subseteq pending'
    BY <1>2 DEF PairingInv, TypeOK
  <2>5. rows' = rows
    BY <1>2
  <2>6. QED
    BY <1>3, <1>5, <2>1, <2>2, <2>3, <2>4, <2>5, ScanKeeps
<1>7. QED
  BY <1>4, <1>6 DEF PairingInv, JobTrue

LEMMA BootstrapInv ==
  ASSUME PairingInv, Bootstrap
  PROVE  PairingInv'
<1>1. TypeOK'
  BY DEF PairingInv, TypeOK, Bootstrap, Ensured, Normal
<1>2. Unmarked' = Unmarked
  BY DEF Bootstrap, Unmarked
<1>3. RowsTrue' /\ JobTrue'
  BY <1>2, ScanKeeps DEF PairingInv, TypeOK, Exempt, Bootstrap
<1>4. QED
  BY <1>1, <1>3 DEF PairingInv, JobTrue

-----------------------------------------------------------------------------
(* The steps of the job.                                                   *)

\* Before the commit the rows and their scenes are as they were.
LEMMA RowsStay ==
  ASSUME PairingInv, UNCHANGED <<scene, rows, pending, slipped, writer>>
  PROVE  RowsTrue' /\ Exempt' = Exempt
BY DEF PairingInv, RowsTrue, Exempt, Unmarked

LEMMA JobRestType ==
  ASSUME PairingInv, UNCHANGED <<scene, rows, pending, slipped, writer, changes>>,
         status' \in Statuses, job' \in {Idle} \cup OpenJob
  PROVE  TypeOK'
BY DEF PairingInv, TypeOK

LEMMA BeginFullInv ==
  ASSUME PairingInv, BeginFull
  PROVE  PairingInv'
<1> USE DEF BeginFull
<1>1. /\ job' \in OpenJob /\ job'.at = "computing" /\ job'.full = TRUE
      /\ job'.todo = {} /\ job'.dirty = {} /\ job'.late = {} /\ job'.resolved = {}
  BY DEF PairingInv, TypeOK, Begun, OpenJob
<1>2. TypeOK'
  BY <1>1, JobRestType
<1>3. JobTrue'
  BY <1>1 DEF JobTrue, LateAnnounced, FullTrue, DirtyTrue, Stages, Computing
<1>4. QED
  BY <1>2, <1>3, RowsStay DEF PairingInv, JobTrue

LEMMA ReconcileInv ==
  ASSUME PairingInv, Reconcile
  PROVE  PairingInv'
<1>1. CASE BeginFull
  BY <1>1, BeginFullInv
<1>2. CASE /\ job' = Begun("resolved", FALSE, {}, rows)
           /\ UNCHANGED <<scene, rows, pending, status, writer, slipped, changes>>
  <2>1. /\ job' \in OpenJob /\ job'.at = "resolved" /\ job'.full = FALSE
        /\ job'.todo = {} /\ job'.dirty = {} /\ job'.late = {}
        /\ job'.resolved = {} /\ job'.rows = rows
    BY <1>2 DEF PairingInv, TypeOK, Begun, OpenJob
  <2>2. TypeOK'
    BY <1>2, <2>1, JobRestType DEF PairingInv, TypeOK
  <2>3. JobTrue'
    BY <1>2, <2>1 DEF JobTrue, LateAnnounced, FullTrue, DirtyTrue, Stages, Computing
  <2>4. QED
    BY <1>2, <2>2, <2>3, RowsStay DEF PairingInv, JobTrue
<1>3. CASE /\ job' = Begun("computing", FALSE, pending,
                           [p \in Pair |-> IF p \cap pending # {} THEN NoRow
                                           ELSE rows[p]])
           /\ status' = "REBUILDING"
           /\ UNCHANGED <<scene, rows, pending, writer, slipped, changes>>
  <2> DEFINE left == [p \in Pair |-> IF p \cap pending # {} THEN NoRow ELSE rows[p]]
  <2>1. left \in [Pair -> Row]
    BY DEF PairingInv, TypeOK, Row
  <2>2. /\ job' \in OpenJob /\ job'.at = "computing" /\ job'.full = FALSE
        /\ job'.todo = pending /\ job'.dirty = pending /\ job'.late = {}
        /\ job'.resolved = {} /\ job'.rows = left
    <3> HIDE DEF left
    <3>1. job' = Begun("computing", FALSE, pending, left) /\ pending \in SUBSET Scene
      BY <1>3 DEF PairingInv, TypeOK, left
    <3>2. QED
      BY <2>1, <3>1 DEF PairingInv, TypeOK, Begun, OpenJob
  <2>3. TypeOK'
    BY <1>3, <2>2, JobRestType
  <2>4. DirtyTrue'
    BY <1>3, <2>2 DEF DirtyTrue
  <2>5. LateAnnounced' /\ FullTrue' /\ Stages'
    BY <1>3, <2>2 DEF LateAnnounced, FullTrue, Stages, Computing
  <2>6. QED
    BY <1>3, <2>3, <2>4, <2>5, RowsStay DEF PairingInv
<1>4. QED
  BY <1>1, <1>2, <1>3 DEF Reconcile

LEMMA ComputeAllInv ==
  ASSUME PairingInv, ComputeAll
  PROVE  PairingInv'
<1> USE DEF ComputeAll
<1>1. job \in OpenJob /\ job.full
  BY JobType DEF PairingInv
<1>2. /\ job' \in OpenJob /\ job'.at = "computed" /\ job'.full = job.full
      /\ job'.late = job.late /\ job'.todo = job.todo /\ job'.resolved = job.resolved
      /\ job'.dirty = job.dirty /\ job'.rows = [p \in Pair |-> RowOf(scene, p)]
  <2>1. [p \in Pair |-> RowOf(scene, p)] \in [Pair -> Row]
    BY RowOfType
  <2>2. QED
    BY <1>1, <2>1 DEF OpenJob
<1>3. TypeOK'
  BY <1>2, JobRestType DEF PairingInv, TypeOK
<1>4. job.late = {} /\ job.resolved = {}
  BY DEF PairingInv, Stages
<1>5. FullTrue' /\ LateAnnounced' /\ DirtyTrue'
  BY <1>1, <1>2, <1>4 DEF FullTrue, LateAnnounced, DirtyTrue
<1>6. job.todo = {} /\ job.dirty = {}
  BY <1>1 DEF PairingInv, Stages
<1>7. Stages'
  BY <1>2, <1>4, <1>6 DEF Stages, PairingInv, TypeOK
<1>8. QED
  BY <1>3, <1>5, <1>7, RowsStay DEF PairingInv

LEMMA ComputeSceneInv ==
  ASSUME PairingInv, NEW d \in Scene, ComputeScene(d)
  PROVE  PairingInv'
<1> USE DEF ComputeScene
<1>1. /\ job \in OpenJob /\ ~job.full /\ d \in job.todo /\ job.todo \subseteq job.dirty
      /\ job.dirty \subseteq pending /\ job.resolved = {} /\ job.at # "idle"
  BY JobType DEF PairingInv, DirtyTrue, Stages
<1>2. /\ job' \in OpenJob /\ job'.at \in {"computed", "inserting"}
      /\ job'.at = "computed" => job'.todo = {}
      /\ job'.full = job.full /\ job'.dirty = job.dirty
      /\ job'.late = job.late /\ job'.resolved = job.resolved
      /\ job'.todo = job.todo \ {d}
      /\ \A p \in Pair : job'.rows[p] = IF d \in p /\ job.rows[p] = NoRow
                                        THEN RowOf(scene, p) ELSE job.rows[p]
  <2>1. [p \in Pair |-> IF d \in p /\ job.rows[p] = NoRow
                        THEN RowOf(scene, p) ELSE job.rows[p]] \in [Pair -> Row]
    BY <1>1, RowOfType DEF OpenJob
  <2>2. QED
    BY <1>1, <2>1 DEF OpenJob
<1>3. TypeOK'
  BY <1>2, JobRestType DEF PairingInv, TypeOK
<1>4. LateAnnounced'
  BY <1>1, <1>2, RowsStay DEF PairingInv, LateAnnounced, Computing, Stages
<1>5. FullTrue' /\ Stages'
  BY <1>1, <1>2 DEF FullTrue, Stages, PairingInv
<1>6. DirtyTrue'
  <2>1. job'.dirty \subseteq pending' /\ job'.todo \subseteq job'.dirty
           /\ job'.resolved \subseteq job'.dirty
    BY <1>1, <1>2
  <2> SUFFICES ASSUME NEW p \in Pair
               PROVE  /\ p \cap job'.dirty = {} => job'.rows[p] = rows'[p]
                      /\ p \cap (job'.dirty \ job'.todo) # {} /\ p \cap job'.late = {}
                           => job'.rows[p] = RowOf(scene', p)
                      /\ p \cap job'.dirty # {} /\ p \cap (job'.dirty \ job'.todo) = {}
                           => job'.rows[p] = NoRow
    BY <2>1 DEF DirtyTrue
  <2>2. /\ p \cap job.dirty = {} => job.rows[p] = rows[p]
        /\ p \cap (job.dirty \ job.todo) # {} /\ p \cap job.late = {}
             => job.rows[p] = RowOf(scene, p)
        /\ p \cap job.dirty # {} /\ p \cap (job.dirty \ job.todo) = {}
             => job.rows[p] = NoRow
    BY <1>1 DEF PairingInv, DirtyTrue
  <2>3. CASE d \notin p
    <3>1. p \cap (job'.dirty \ job'.todo) = p \cap (job.dirty \ job.todo)
      BY <1>1, <1>2, <2>3
    <3>2. QED
      BY <1>2, <2>2, <2>3, <3>1
  <2>4. CASE d \in p
    <3>1. d \in p \cap (job'.dirty \ job'.todo) /\ d \in p \cap job.dirty
      BY <1>1, <1>2, <2>4
    <3>2. CASE job.rows[p] = NoRow
      BY <1>2, <2>4, <3>1, <3>2
    <3>3. CASE job.rows[p] # NoRow
      BY <1>2, <2>2, <3>1, <3>3
    <3>4. QED
      BY <3>2, <3>3
  <2>5. QED
    BY <2>3, <2>4
<1>7. QED
  BY <1>3, <1>4, <1>5, <1>6, RowsStay DEF PairingInv

\* Steps that leave alone all of the job but its stage, its verdict and the
\* marks it resolves.
LEMMA JobGoesOn ==
  ASSUME PairingInv, job.at # "idle", Computing, Computing',
         UNCHANGED <<scene, rows, pending, slipped, writer, changes>>,
         status' \in Statuses, job' \in OpenJob,
         job'.full = job.full, job'.dirty = job.dirty, job'.todo = job.todo,
         job'.rows = job.rows, job'.late = job.late,
         job'.resolved \subseteq pending,
         ~job.full => job'.resolved \subseteq job.dirty,
         job'.at \in {"resolved", "judged"}, job.todo = {}
  PROVE  PairingInv'
<1>1. TypeOK' /\ RowsTrue' /\ Exempt' = Exempt
  BY JobRestType, RowsStay
<1>2. LateAnnounced' /\ FullTrue'
  BY <1>1 DEF PairingInv, LateAnnounced, FullTrue
<1>3. DirtyTrue'
  BY DEF PairingInv, DirtyTrue
<1>4. Stages'
  BY DEF PairingInv, Stages
<1>5. QED
  BY <1>1, <1>2, <1>3, <1>4 DEF PairingInv

LEMMA ResolveDirtyInv ==
  ASSUME PairingInv, ResolveDirty
  PROVE  PairingInv'
<1>1. job \in OpenJob /\ job.at = "computed" /\ job.todo = {} /\ pending \subseteq Scene
  BY JobType DEF ResolveDirty, PairingInv, Stages, TypeOK
<1>2. /\ job' \in OpenJob /\ job'.at = "resolved"
      /\ job'.full = job.full /\ job'.dirty = job.dirty /\ job'.todo = job.todo
      /\ job'.rows = job.rows /\ job'.late = job.late
      /\ job'.resolved = IF job.full THEN pending ELSE pending \cap job.dirty
  BY <1>1 DEF ResolveDirty, OpenJob
<1>3. UNCHANGED <<scene, rows, pending, slipped, writer, changes>> /\ status' \in Statuses
  BY DEF ResolveDirty, PairingInv, TypeOK
<1>4. Computing /\ Computing'
  BY <1>1, <1>2 DEF Computing
<1>5. QED
  BY <1>1, <1>2, <1>3, <1>4, JobGoesOn

LEMMA JudgeInv ==
  ASSUME PairingInv, Judge
  PROVE  PairingInv'
<1>1. /\ job \in OpenJob /\ job.at = "resolved" /\ job.todo = {}
      /\ status \in Statuses /\ job.resolved \subseteq pending
      /\ ~job.full => job.resolved \subseteq job.dirty
  BY JobType DEF Judge, PairingInv, Stages, TypeOK, DirtyTrue
<1>2. /\ job' \in OpenJob /\ job'.at = "judged"
      /\ job'.full = job.full /\ job'.dirty = job.dirty /\ job'.todo = job.todo
      /\ job'.rows = job.rows /\ job'.late = job.late /\ job'.resolved = job.resolved
  BY <1>1 DEF Judge, OpenJob
<1>3. UNCHANGED <<scene, rows, pending, slipped, writer, changes>> /\ status' \in Statuses
  BY <1>1 DEF Judge
<1>4. Computing /\ Computing'
  BY <1>1, <1>2 DEF Computing
<1>5. QED
  BY <1>1, <1>2, <1>3, <1>4, JobGoesOn

\* The commit: a pair of which no scene is announced or has slipped was
\* computed after its scenes last changed, or was right and is untouched.
LEMMA JobCommitInv ==
  ASSUME PairingInv, JobCommit
  PROVE  PairingInv'
<1> DEFINE computed == (IF job.full THEN Scene ELSE job.dirty) \ job.late
<1>1. /\ job.at = "judged" /\ rows' = job.rows /\ pending' = pending \ job.resolved
      /\ status' = IF job.verdict = job.view THEN status ELSE job.verdict
      /\ slipped' = (slipped \ computed) \cup (job.resolved \cap job.late)
      /\ job' = Idle /\ UNCHANGED <<scene, writer, changes>>
  BY DEF JobCommit
<1>2. job \in OpenJob /\ job.todo = {} /\ Computing
  BY <1>1, JobType DEF PairingInv, Stages, Computing
<1>3. job'.at = "idle" /\ JobTrue'
  BY <1>1, IdleAt, IdleJob
<1>4. TypeOK'
  BY <1>1, <1>2 DEF PairingInv, TypeOK, OpenJob
<1>5. Unmarked' = Unmarked
  BY <1>1 DEF Unmarked
<1>6. job.late \subseteq pending \cup slipped \cup Unmarked
  BY <1>2 DEF PairingInv, LateAnnounced, Exempt
<1>7. RowsTrue'
  <2> SUFFICES ASSUME NEW p \in Pair, p \cap (pending' \cup slipped' \cup Unmarked) = {}
               PROVE  job.rows[p] = RowOf(scene, p)
    BY <1>1, <1>5 DEF RowsTrue, Exempt
  <2>1. p \cap job.late = {}
    BY <1>1, <1>6
  <2>2. CASE job.full
    BY <1>2, <2>1, <2>2 DEF PairingInv, FullTrue
  <2>3. CASE ~job.full /\ p \cap job.dirty # {}
    <3>1. p \cap (job.dirty \ job.todo) # {}
      BY <1>2, <2>3
    <3>2. QED
      BY <1>1, <2>1, <2>3, <3>1 DEF PairingInv, DirtyTrue
  <2>4. CASE ~job.full /\ p \cap job.dirty = {}
    <3>1. job.rows[p] = rows[p] /\ job.resolved \subseteq job.dirty
      BY <1>1, <2>4 DEF PairingInv, DirtyTrue
    <3>2. p \cap (pending \cup slipped \cup Unmarked) = {}
      BY <1>1, <2>4, <3>1
    <3>3. QED
      BY <3>1, <3>2 DEF PairingInv, RowsTrue, Exempt
  <2>5. QED
    BY <2>2, <2>3, <2>4
<1>8. QED
  BY <1>3, <1>4, <1>7 DEF PairingInv, JobTrue

LEMMA JobEndsInv ==
  ASSUME PairingInv, JobFails \/ JobDies
  PROVE  PairingInv'
<1>1. /\ job' = Idle /\ status' \in Statuses
      /\ UNCHANGED <<scene, rows, pending, writer, slipped, changes>>
  BY DEF JobFails, JobDies, PairingInv, TypeOK
<1>2. JobTrue'
  BY <1>1, IdleAt, IdleJob
<1>3. QED
  BY <1>1, <1>2, JobRestType, RowsStay DEF PairingInv, JobTrue

-----------------------------------------------------------------------------
(* The theorems.                                                           *)

LEMMA NextInv == PairingInv /\ [Next]_vars => PairingInv'
<1> SUFFICES ASSUME PairingInv, [Next]_vars PROVE PairingInv'
  OBVIOUS
<1>1. ASSUME NEW w \in Writer, ScanStep(w)
      PROVE  PairingInv'
  BY <1>1, InventoryMarkInv, ScanWriteInv, ScanMarkInv, MarkCommitInv, ScanDiesInv
     DEF ScanStep
<1>2. CASE JobStep
  BY <1>2, BeginFullInv, ReconcileInv, ComputeAllInv, ComputeSceneInv,
     ResolveDirtyInv, JudgeInv, JobCommitInv, JobEndsInv
     DEF JobStep, Rebuild
<1>3. CASE Bootstrap
  BY <1>3, BootstrapInv
<1>4. CASE UNCHANGED vars
  BY <1>4 DEF vars, PairingInv, TypeOK, RowsTrue, LateAnnounced, FullTrue,
              DirtyTrue, Stages, Computing, Exempt, Unmarked
<1>5. QED
  BY <1>1, <1>2, <1>3, <1>4 DEF Next

\* PairingInv holds in every state, for any number of scenes and scans.
THEOREM PairingInvariant == Spec => []PairingInv
<1>1. QED
  BY InitInv, NextInv, PTL DEF Spec

LEMMA InvReaders == PairingInv => CacheTrue
<1> SUFFICES ASSUME PairingInv, Silent, NEW p \in Pair, p \cap Exempt = {}
             PROVE  rows[p] = RowOf(scene, p)
  BY DEF CacheTrue
<1>1. pending = {}
  BY DEF Silent, NeedsRebuild, RequiresRebuild
<1>2. QED
  BY <1>1 DEF PairingInv, RowsTrue

\* A planner without a warning gets the pairs of the scenes as they are,
\* except for scenes whose change has slipped through.
THEOREM ReadersWarned == Spec => [](PairingInv /\ CacheTrue)
<1>1. QED
  BY PairingInvariant, InvReaders, PTL
=============================================================================
