----------------------- MODULE ResultCatalogProofs -----------------------
(* Proofs about ResultCatalog and ResultDelivery, for all products, pairs, *)
(* sessions, deliveries and bounds: that the catalog lists and keeps what  *)
(* it should, that a start notices what it lacks, whose label it shows,    *)
(* and that a delivery has what was asked for.                             *)
(*                                                                         *)
(* What every step adds to what is indexed comes from the rows that a      *)
(* rebuild is about to commit (IndexedStep), and a step of one session     *)
(* leaves what the others carry alone (the steps "Frame"); so it is enough *)
(* to look at the session that moves (CoveredStep) but for the three       *)
(* actions that delete or insert rows.                                     *)
EXTENDS ResultDelivery, FiniteSetTheorems, WellFoundedInduction, TLAPS

(***************************************************************************)
(* Types.                                                                  *)
(***************************************************************************)

LEMMA IdleType == Idle \in Session /\ ~(Idle.at = "syncing")
<1>1. /\ None \in [Products -> Nat] /\ None \in [Products -> Int]
      /\ None \in [Products -> Nat \cup {NoRow}]
      /\ [p \in Products |-> Missing] \in [Products -> [id : Nat, label : Nat]]
  BY DEF None, Missing
<1> QED BY <1>1 DEF Idle, Session, Places

LEMMA LoadType ==
  ASSUME TypeOK, NEW s \in Sessions
  PROVE  Load(s) \in [Products -> Nat]
BY DEF Load, Loadable, TypeOK

LEMMA DeletedType ==
  ASSUME NEW new \in [Sessions -> Session], NEW ps, Deleted(ps, new),
         ps \subseteq Products
  PROVE  sess' \in [Sessions -> Session]
<1> SUFFICES ASSUME NEW t \in Sessions PROVE sess'[t] \in Session
  BY DEF Deleted
<1>1. CASE new[t].at = "syncing"
  <2> DEFINE g == new[t].gone \cup {p \in ps : row[p].gen > 0}
  <2>1. g \subseteq Products
    BY DEF Session
  <2>2. sess'[t] = [new[t] EXCEPT !.gone = g]
    BY <1>1 DEF Deleted
  <2> HIDE DEF g
  <2> QED BY <2>1, <2>2 DEF Session
<1>2. CASE new[t].at # "syncing"
  BY <1>2 DEF Deleted
<1> QED BY <1>1, <1>2

LEMMA CreatedFinite ==
  ASSUME TypeOK, NEW s \in Sessions, NEW take \in Takings(s)
  PROVE  /\ Created(s, take) \subseteq Seen(s) \ Known(s)
         /\ Moved(s, take) \subseteq Seen(s) \ Known(s)
         /\ Cardinality(Created(s, take)) \in Nat
         /\ \A p \in Products :
              Cardinality({q \in Created(s, take) : q <= p}) \in Nat
<1>1. take \in [Seen(s) \ Known(s) -> Products \cup {0}]
  BY DEF Takings
<1>2. /\ Created(s, take) \subseteq Seen(s) \ Known(s)
      /\ Moved(s, take) \subseteq Seen(s) \ Known(s)
  BY <1>1 DEF Created, Moved
<1>3. Created(s, take) \subseteq Products
  BY <1>2 DEF Seen
<1>4. \A S \in SUBSET Products : Cardinality(S) \in Nat
  BY CatalogAssumption, FS_Subset, FS_CardinalityType
<1> QED BY <1>2, <1>3, <1>4

LEMMA FoundType ==
  ASSUME TypeOK, NEW s \in Sessions, NEW take \in Takings(s),
         NEW p \in Seen(s)
  PROVE  Found(s, take, p) \in Nat
<1>1. take \in [Seen(s) \ Known(s) -> Products \cup {0}]
  BY DEF Takings
<1>2. sess[s] \in Session
  BY DEF TypeOK
<1>3. sess[s].rows[p] \in Nat
  BY <1>2 DEF Session, Seen, NoRow
<1>4. \A q \in Products : sess[s].kept[q].label \in Nat
  BY <1>2 DEF Session
<1> QED BY <1>1, <1>3, <1>4 DEF Found, Seen, Known

LEMMA TypeInit == Init => TypeOK
<1> SUFFICES ASSUME Init PROVE TypeOK
  OBVIOUS
<1>1. None \in [Products -> Int] /\ \A p \in Products : PairOf[p] \in Pairs
  BY CatalogAssumption DEF None
<1>2. [p \in Products |-> Nothing] \in [Products -> [gen : Nat, label : Nat]]
  BY DEF Nothing
<1>3. [p \in Products |-> Missing] \in [Products -> [id : Nat, label : Nat]]
  BY DEF Missing
<1>4. MaxLabels \in Nat
  BY CatalogBounds
<1>5. /\ sess \in [Sessions -> Session]
      /\ owner \in [1..MaxLabels -> Products \cup {0}] /\ 0 \in 0..MaxLabels
  BY <1>4, IdleType DEF Init
<1> HIDE DEF Session
<1> QED BY <1>1, <1>2, <1>3, <1>5 DEF Init, TypeOK

\* The steps of a session that change neither table.
LEMMA TypeSession ==
  ASSUME TypeOK, NEW s \in Sessions,
         \/ Written(s) \/ Begin(s) \/ Scan(s) \/ Insert(s) \/ InsertFails(s)
         \/ Record(s) \/ SyncRead(s) \/ SyncFails(s) \/ BootRebuilds(s)
         \/ BootSyncs(s) \/ RebuildJob(s) \/ BootRead(s) \/ Crash(s)
  PROVE  TypeOK'
<1> USE IdleType
<1>1. /\ sess[s] \in Session /\ disk \in [Products -> Int]
      /\ print \in [Products -> Int]
  BY DEF TypeOK
<1>2. CASE Written(s)
  <2>1. [Idle EXCEPT !.at = "begin"] \in Session
    BY DEF Session, Places
  <2>2. sess[s].of \in Products => -disk[sess[s].of] \in Int
    BY <1>1
  <2>3. disk' \in [Products -> Int]
    BY <1>1, <1>2, <2>2 DEF Written
  <2> QED BY <1>2, <2>1, <2>3 DEF Written, Become, TypeOK, bounds, history
<1>3. CASE Begin(s)
  <2>1. [Idle EXCEPT !.at = "scan", !.print = print] \in Session
    BY <1>1 DEF Session, Places
  <2> QED BY <1>3, <2>1 DEF Begin, Become, TypeOK, bounds
<1>4. CASE Scan(s)
  <2>1. [sess[s] EXCEPT !.at = "empty", !.snap = disk] \in Session
    BY <1>1 DEF Session, Places
  <2> QED BY <1>4, <2>1 DEF Scan, Become, TypeOK, bounds, history
<1>5. CASE Insert(s)
  <2>1. [sess[s] EXCEPT !.at = "commit", !.pend = Load(s)] \in Session
    BY <1>1, LoadType DEF Session, Places
  <2>2. unread' \subseteq Products
    BY <1>5 DEF Insert, TypeOK
  <2> QED BY <1>5, <2>1, <2>2 DEF Insert, Become, TypeOK, bounds
<1>6. CASE InsertFails(s) \/ SyncFails(s)
  <2>1. UNCHANGED <<disk, row, compat, ids, print, cleaning, bounds, history>>
        /\ Become(s, Idle)
    BY <1>6 DEF InsertFails, SyncFails
  <2> QED BY <2>1 DEF Become, TypeOK, bounds, history
<1>7. CASE Record(s)
  <2>1. [Idle EXCEPT !.at = "sync", !.prune = TRUE] \in Session
    BY <1>1 DEF Session, Places
  <2>2. Assigned(s) \in [Products -> Int]
    BY <1>1 DEF Assigned, Session
  <2>3. listed' \subseteq Products
    BY <1>7 DEF Record, TypeOK
  <2> QED BY <1>7, <2>1, <2>2, <2>3 DEF Record, Become, TypeOK, bounds
<1>8. CASE SyncRead(s)
  <2> DEFINE r == [p \in Products |-> IF row[p].gen > 0 THEN row[p].label ELSE NoRow]
  <2>1. r \in [Products -> Nat \cup {NoRow}]
    BY DEF TypeOK
  <2>2. compat \in [Products -> [id : Nat, label : Nat]]
    BY DEF TypeOK
  <2> HIDE DEF r
  <2>3. [sess[s] EXCEPT !.at = "syncing", !.rows = r, !.kept = compat] \in Session
    BY <1>1, <2>1, <2>2 DEF Session, Places
  <2>4. Become(s, [sess[s] EXCEPT !.at = "syncing", !.rows = r, !.kept = compat])
    BY <1>8 DEF SyncRead, r
  <2> QED BY <1>8, <2>3, <2>4 DEF SyncRead, Become, TypeOK, bounds, history
<1>9. CASE BootRebuilds(s) \/ RebuildJob(s)
  <2>1. [Idle EXCEPT !.at = "begin"] \in Session
    BY DEF Session, Places
  <2>2. sess' \in [Sessions -> Session]
    BY <1>9, <2>1 DEF BootRebuilds, RebuildJob, Become, TypeOK
  <2>3. jobs' \in Nat
    BY <1>9 DEF BootRebuilds, RebuildJob, TypeOK, bounds
  <2> QED BY <1>9, <2>2, <2>3 DEF BootRebuilds, RebuildJob, TypeOK, bounds, history
<1>10. CASE BootSyncs(s)
  <2>1. [Idle EXCEPT !.at = "sync"] \in Session
    BY DEF Session, Places
  <2>2. Assigned(s) \in [Products -> Int]
    BY <1>1 DEF Assigned, Session
  <2> QED BY <1>10, <2>1, <2>2 DEF BootSyncs, Become, TypeOK, bounds, history
<1>11. CASE BootRead(s)
  <2>1. [Idle EXCEPT !.at = "boot", !.print = print, !.snap = disk] \in Session
    BY <1>1 DEF Session, Places
  <2> QED BY <1>11, <2>1 DEF BootRead, Become, TypeOK, bounds, history
<1>12. CASE Crash(s)
  <2>1. emptied' \in BOOLEAN
    BY <1>12 DEF Crash, TypeOK
  <2> QED BY <1>12, <2>1 DEF Crash, Become, TypeOK, bounds
<1> QED BY <1>2, <1>3, <1>4, <1>5, <1>6, <1>7, <1>8, <1>9, <1>10, <1>11, <1>12

LEMMA TypePublish ==
  ASSUME TypeOK, NEW s \in Sessions, NEW p \in Products, Publish(s, p)
  PROVE  TypeOK'
<1>1. [Idle EXCEPT !.at = "write", !.of = p] \in Session
  BY IdleType DEF Session, Places
<1>2. jobs' \in Nat /\ -jobs' \in Int
  BY DEF Publish, TypeOK
<1>3. disk' \in [Products -> Int]
  BY <1>2 DEF Publish, TypeOK
<1> QED BY <1>1, <1>2, <1>3 DEF Publish, Become, TypeOK, bounds, history

LEMMA TypeEmpty ==
  ASSUME TypeOK, NEW s \in Sessions, Empty(s)
  PROVE  TypeOK'
<1> DEFINE new == [sess EXCEPT ![s] = [sess[s] EXCEPT !.at = "insert"]]
<1>0. sess[s] \in Session
  BY DEF TypeOK
<1>1. [sess[s] EXCEPT !.at = "insert"] \in Session
  BY <1>0 DEF Session, Places
<1>2. new \in [Sessions -> Session]
  BY <1>1 DEF TypeOK
<1>3. Deleted(Products, new)
  BY DEF Empty
<1> HIDE DEF new
<1>4. sess' \in [Sessions -> Session]
  BY <1>2, <1>3, DeletedType
<1>5. row' \in [Products -> [gen : Nat, label : Nat]]
  BY DEF Empty, Nothing
<1> QED BY <1>4, <1>5 DEF Empty, TypeOK, bounds, history

LEMMA TypeCommitRows ==
  ASSUME TypeOK, NEW s \in Sessions, CommitRows(s)
  PROVE  TypeOK'
<1>1. sess[s] \in Session
  BY DEF TypeOK
<1>2. [sess[s] EXCEPT !.at = "record"] \in Session
  BY <1>1 DEF Session, Places
<1>3. row' \in [Products -> [gen : Nat, label : Nat]]
  BY <1>1 DEF CommitRows, TypeOK, Session
<1> QED BY <1>2, <1>3 DEF CommitRows, Become, TypeOK, bounds

LEMMA TypeSyncCommit ==
  ASSUME TypeOK, NEW s \in Sessions, SyncCommit(s)
  PROVE  TypeOK'
<1> PICK take \in Takings(s) :
    /\ row' = [p \in Products |->
         IF p \in Relabelled(s, take)
         THEN [gen |-> row[p].gen, label |-> Found(s, take, p)] ELSE row[p]]
    /\ compat' = [p \in Products |->
         IF p \in Created(s, take)
         THEN [id |-> ids + Cardinality({q \in Created(s, take) : q <= p}),
               label |-> sess[s].rows[p]]
         ELSE IF p \in Moved(s, take) THEN compat[take[p]]
         ELSE IF p \in Left(s, take) \cup Pruned(s, take) THEN Missing
         ELSE compat[p]]
    /\ ids' = ids + Cardinality(Created(s, take))
  BY DEF SyncCommit
<1>1. sess[s] \in Session /\ compat \in [Products -> [id : Nat, label : Nat]]
  BY DEF TypeOK
<1>2. row' \in [Products -> [gen : Nat, label : Nat]]
  <2>1. \A p \in Relabelled(s, take) : Found(s, take, p) \in Nat
    BY FoundType DEF Relabelled
  <2> QED BY <2>1 DEF TypeOK
<1>3. ids \in Nat /\ ids' \in Nat
  BY CreatedFinite DEF TypeOK
<1>4. \A p \in Products :
        ids + Cardinality({q \in Created(s, take) : q <= p}) \in Nat
  BY <1>3, CreatedFinite
<1>5. \A p \in Created(s, take) : sess[s].rows[p] \in Nat
  BY <1>1, CreatedFinite DEF Seen, Session, NoRow
<1>6. \A p \in Moved(s, take) : take[p] \in Products
  BY DEF Moved, Takings
<1>7. compat' \in [Products -> [id : Nat, label : Nat]]
  <2> SUFFICES ASSUME NEW p \in Products PROVE compat'[p] \in [id : Nat, label : Nat]
    OBVIOUS
  <2>1. CASE p \in Created(s, take)
    <3> DEFINE n == ids + Cardinality({q \in Created(s, take) : q <= p})
    <3>1. n \in Nat
      BY <1>4
    <3>2. compat'[p] = [id |-> n, label |-> sess[s].rows[p]]
      BY <2>1
    <3> HIDE DEF n
    <3> QED BY <1>5, <2>1, <3>1, <3>2
  <2>2. CASE p \notin Created(s, take)
    <3>1. \/ compat'[p] \in {compat[p], Missing}
          \/ p \in Moved(s, take) /\ compat'[p] = compat[take[p]]
      BY <2>2
    <3>2. Missing \in [id : Nat, label : Nat]
      BY DEF Missing
    <3> QED BY <1>1, <1>6, <3>1, <3>2
  <2> QED BY <2>1, <2>2
<1>8. sess' \in [Sessions -> Session]
  BY IdleType DEF SyncCommit, Become, TypeOK
<1> QED BY <1>2, <1>3, <1>7, <1>8 DEF SyncCommit, TypeOK, bounds, history

LEMMA TypeSetLabel ==
  ASSUME TypeOK, NEW p \in Products, SetLabel(p)
  PROVE  TypeOK'
<1>1. MaxLabels \in Nat /\ labels \in Nat /\ labels' = labels + 1
      /\ labels' \in 0..MaxLabels /\ labels' \in 1..MaxLabels /\ labels' \in Nat
  BY CatalogBounds DEF SetLabel, TypeOK
<1>2. row' \in [Products -> [gen : Nat, label : Nat]]
  BY <1>1 DEF SetLabel, TypeOK
<1>3. compat' \in [Products -> [id : Nat, label : Nat]]
  BY <1>1 DEF SetLabel, TypeOK
<1>4. owner' \in [1..MaxLabels -> Products \cup {0}]
  BY <1>1 DEF SetLabel, TypeOK
<1> QED BY <1>1, <1>2, <1>3, <1>4 DEF SetLabel, TypeOK

LEMMA TypeClean ==
  ASSUME TypeOK, CleanDisk \/ \E d \in Pairs : CleanRows(d)
  PROVE  TypeOK'
<1>1. CASE CleanDisk
  <2>1. disk' \in [Products -> Int]
    BY <1>1 DEF CleanDisk, TypeOK
  <2> QED BY <1>1, <2>1 DEF CleanDisk, TypeOK, bounds, history
<1>2. ASSUME NEW d \in Pairs, CleanRows(d) PROVE TypeOK'
  <2>1. row' \in [Products -> [gen : Nat, label : Nat]]
    BY <1>2 DEF CleanRows, TypeOK, Nothing
  <2>2. compat' \in [Products -> [id : Nat, label : Nat]]
    BY <1>2 DEF CleanRows, TypeOK, Missing
  <2>3. sess' \in [Sessions -> Session]
    BY <1>2, DeletedType DEF CleanRows, OfPair, TypeOK
  <2>4. cleaned' \subseteq Products
    BY <1>2 DEF CleanRows, OfPair, TypeOK
  <2> QED BY <1>2, <2>1, <2>2, <2>3, <2>4 DEF CleanRows, TypeOK
<1> QED BY <1>1, <1>2

LEMMA TypeStep == TypeOK /\ [Next]_vars => TypeOK'
<1> SUFFICES ASSUME TypeOK, [Next]_vars PROVE TypeOK'
  OBVIOUS
<1>1. CASE UNCHANGED vars
  BY <1>1 DEF vars, program, bounds, history, TypeOK
<1>2. CASE Next
  BY <1>2, TypeSession, TypePublish, TypeEmpty, TypeCommitRows, TypeSyncCommit,
     TypeSetLabel, TypeClean DEF Next, Work
<1> QED BY <1>1, <1>2

(***************************************************************************)
(* What a step does to the sessions and to what is indexed.                *)
(***************************************************************************)

\* What t carries stays, but for the set of rows that are gone.
Frame(t) ==
  /\ sess'[t].at = sess[t].at /\ sess'[t].prune = sess[t].prune
  /\ sess'[t].snap = sess[t].snap /\ sess'[t].pend = sess[t].pend
  /\ sess'[t].rows = sess[t].rows /\ sess'[t].kept = sess[t].kept

LEMMA BecomeFrame ==
  ASSUME TypeOK, NEW s \in Sessions, NEW new, Become(s, new)
  PROVE  sess'[s] = new /\ \A t \in Sessions \ {s} : Frame(t)
BY DEF Become, TypeOK, Frame

LEMMA DeletedFrame ==
  ASSUME NEW new \in [Sessions -> Session], NEW ps, Deleted(ps, new),
         NEW t \in Sessions
  PROVE  /\ sess'[t].at = new[t].at /\ sess'[t].prune = new[t].prune
         /\ sess'[t].snap = new[t].snap /\ sess'[t].pend = new[t].pend
         /\ sess'[t].rows = new[t].rows /\ sess'[t].kept = new[t].kept
<1> DEFINE g == new[t].gone \cup {p \in ps : row[p].gen > 0}
<1>1. CASE new[t].at = "syncing"
  <2>1. sess'[t] = [new[t] EXCEPT !.gone = g]
    BY <1>1 DEF Deleted
  <2> HIDE DEF g
  <2> QED BY <2>1 DEF Session
<1>2. CASE new[t].at # "syncing"
  BY <1>2 DEF Deleted
<1> QED BY <1>1, <1>2

LEMMA EmptyFrame ==
  ASSUME TypeOK, NEW s \in Sessions, Empty(s)
  PROVE  /\ sess'[s].at = "insert" /\ sess'[s].snap = sess[s].snap
         /\ \A t \in Sessions \ {s} : Frame(t)
<1> DEFINE new == [sess EXCEPT ![s] = [sess[s] EXCEPT !.at = "insert"]]
<1>0. sess[s] \in Session /\ sess \in [Sessions -> Session]
  BY DEF TypeOK
<1>1. [sess[s] EXCEPT !.at = "insert"] \in Session
  BY <1>0 DEF Session, Places
<1>2. new \in [Sessions -> Session]
  BY <1>0, <1>1
<1>3. new[s].at = "insert" /\ new[s].snap = sess[s].snap
  BY <1>0 DEF Session
<1>4. \A t \in Sessions \ {s} : new[t] = sess[t]
  BY <1>0
<1>5. Deleted(Products, new)
  BY DEF Empty
<1> HIDE DEF new
<1> QED BY <1>2, <1>3, <1>4, <1>5, DeletedFrame DEF Frame

LEMMA CleanFrame ==
  ASSUME TypeOK, NEW d \in Pairs, CleanRows(d)
  PROVE  \A t \in Sessions : Frame(t)
<1>1. sess \in [Sessions -> Session] /\ Deleted(OfPair(d), sess)
  BY DEF TypeOK, CleanRows
<1> QED BY <1>1, DeletedFrame DEF Frame

\* Something is indexed after a step of s if it was, or s has read it.
LEMMA IndexedBy ==
  ASSUME TypeOK, NEW s \in Sessions, \A t \in Sessions \ {s} : Frame(t),
         NEW p \in Products,
         \/ ~(sess'[s].at = "syncing")
         \/ Frame(s)
         \/ sess'[s].rows[p] # NoRow => Indexed(p),
         \/ ~(sess'[s].at = "syncing")
         \/ Frame(s)
         \/ sess'[s].kept[p].id > 0 => Indexed(p),
         compat'[p].id > 0 => Indexed(p),
         row'[p].gen > 0 => Indexed(p),
         p \in listed' => Indexed(p),
         Indexed(p)'
  PROVE  Indexed(p)
<1>1. CASE \E t \in Sessions : At(t, "syncing")' /\
             (sess'[t].rows[p] # NoRow \/ sess'[t].kept[p].id > 0)
  <2> PICK t \in Sessions : At(t, "syncing")' /\
             (sess'[t].rows[p] # NoRow \/ sess'[t].kept[p].id > 0)
    BY <1>1
  <2>1. CASE Frame(t)
    BY <2>1 DEF Frame, Indexed, At
  <2>2. CASE ~Frame(t)
    BY <2>2 DEF At
  <2> QED BY <2>1, <2>2
<1>2. CASE ~\E t \in Sessions : At(t, "syncing")' /\
             (sess'[t].rows[p] # NoRow \/ sess'[t].kept[p].id > 0)
  BY <1>2 DEF Indexed, At
<1> QED BY <1>1, <1>2

LEMMA QuietIndexed ==
  ASSUME TypeOK, NEW s \in Sessions, NEW new, Become(s, new),
         new.at # "syncing", UNCHANGED <<compat, row, listed>>,
         NEW p \in Products, Indexed(p)'
  PROVE  Indexed(p)
<1>1. sess'[s] = new /\ \A t \in Sessions \ {s} : Frame(t)
  BY BecomeFrame
<1>2. /\ compat'[p].id > 0 => Indexed(p)
      /\ row'[p].gen > 0 => Indexed(p)
      /\ p \in listed' => Indexed(p)
  BY DEF Indexed
<1> QED BY <1>1, <1>2, IndexedBy

(***************************************************************************)
(* Covered: what the step of one session has to show.                      *)
(***************************************************************************)

LEMMA FrameFacts ==
  ASSUME NEW t, Frame(t)
  PROVE  /\ \A place : At(t, place)' <=> At(t, place)
         /\ Rebuilding(t)' <=> Rebuilding(t)
         /\ Replacing(t)' <=> Replacing(t)
         /\ Seen(t)' = Seen(t) /\ Known(t)' = Known(t)
BY DEF Frame, At, Rebuilding, Replacing, Seen, Known

\* The tables: nothing more is indexed, and what is not listed any more was
\* cleaned up.
Tables ==
  /\ \A p \in Products : Indexed(p)' => Indexed(p)
  /\ \A p \in Products : row'[p].gen > 0 => row[p].gen > 0
  /\ \A p \in Products : row[p].gen > 0 => row'[p].gen > 0 \/ p \in cleaned'
  /\ cleaned \subseteq cleaned' /\ unread \subseteq unread'
  /\ emptied => emptied'

LEMMA FramedCovers ==
  ASSUME Tables, NEW t \in Sessions, Frame(t),
         ScanCovers(t), InsertCovers(t), ReadCovers(t)
  PROVE  ScanCovers(t)' /\ InsertCovers(t)' /\ ReadCovers(t)'
<1>1. ScanCovers(t)'
  BY DEF Tables, Frame, ScanCovers
<1>2. InsertCovers(t)'
  BY DEF Tables, Frame, InsertCovers, At
<1>3. ReadCovers(t)'
  BY FrameFacts DEF Tables, Frame, ReadCovers
<1> QED BY <1>1, <1>2, <1>3

LEMMA RowsCoverKept == Tables /\ RowsCover => RowsCover'
BY DEF Tables, RowsCover

LEMMA RowsShrink == Tables => Rows' \subseteq Rows
BY DEF Tables, Rows

LEMMA CoveredStep ==
  ASSUME Covered, Tables, NEW s \in Sessions,
         \A t \in Sessions \ {s} : Frame(t),
         Rebuilding(s)' => \/ Rebuilding(s)
                           \/ \A t \in Sessions \ {s} : ~Rebuilding(t),
         ScanCovers(s)', InsertCovers(s)', ReadCovers(s)',
         Replacing(s)' => Rows = {},
         Rebuilding(s)' /\ sess'[s].at \in {"record", "sync", "syncing"} => RowsCover',
         Replacing(s) => Replacing(s)' \/ emptied' \/ RowsCover'
  PROVE  Covered'
<1>1. OneRebuild'
  <2> SUFFICES ASSUME NEW t \in Sessions, NEW u \in Sessions,
                      Rebuilding(t)', Rebuilding(u)'
               PROVE  t = u
    BY DEF OneRebuild
  <2>1. \A v \in Sessions \ {s} : Rebuilding(v)' <=> Rebuilding(v)
    BY FrameFacts
  <2> QED BY <2>1 DEF Covered, OneRebuild
<1>2. ASSUME NEW t \in Sessions
      PROVE  /\ ScanCovers(t)' /\ InsertCovers(t)' /\ ReadCovers(t)'
             /\ Replacing(t)' => Rows' = {}
             /\ Rebuilding(t)' /\ sess'[t].at \in {"record", "sync", "syncing"} => RowsCover'
  <2>1. CASE t = s
    BY <2>1, RowsShrink
  <2>2. CASE t # s
    <3>1. Frame(t)
      BY <2>2
    <3>2. ScanCovers(t)' /\ InsertCovers(t)' /\ ReadCovers(t)'
      BY <3>1, FramedCovers DEF Covered
    <3>3. Replacing(t)' => Rows' = {}
      BY <3>1, FrameFacts, RowsShrink DEF Covered
    <3>4. Rebuilding(t)' /\ sess'[t].at \in {"record", "sync", "syncing"} => RowsCover'
      BY <3>1, FrameFacts, RowsCoverKept DEF Covered, Frame
    <3> QED BY <3>2, <3>3, <3>4
  <2> QED BY <2>1, <2>2
<1>3. Rows' # {} => RowsCover'
  BY RowsShrink, RowsCoverKept DEF Covered
<1>4. RowsCover' \/ emptied' \/ \E t \in Sessions : Replacing(t)'
  <2>1. RowsCover \/ emptied \/ \E t \in Sessions : Replacing(t)
    BY DEF Covered
  <2>2. ASSUME NEW t \in Sessions, Replacing(t)
        PROVE  RowsCover' \/ emptied' \/ Replacing(t)'
    BY <2>2, FrameFacts
  <2> QED BY <2>1, <2>2, RowsCoverKept DEF Tables
<1> QED BY <1>1, <1>2, <1>3, <1>4 DEF Covered

LEMMA CoveredStill ==
  ASSUME Covered, Tables, \A t \in Sessions : Frame(t)
  PROVE  Covered'
<1>1. OneRebuild'
  BY FrameFacts DEF Covered, OneRebuild
<1>2. ASSUME NEW t \in Sessions
      PROVE  /\ ScanCovers(t)' /\ InsertCovers(t)' /\ ReadCovers(t)'
             /\ Replacing(t)' => Rows' = {}
             /\ Rebuilding(t)' /\ sess'[t].at \in {"record", "sync", "syncing"} => RowsCover'
  <2>1. Frame(t)
    OBVIOUS
  <2>2. ScanCovers(t)' /\ InsertCovers(t)' /\ ReadCovers(t)'
    BY <2>1, FramedCovers DEF Covered
  <2>3. Replacing(t)' => Rows' = {}
    BY <2>1, FrameFacts, RowsShrink DEF Covered
  <2>4. Rebuilding(t)' /\ sess'[t].at \in {"record", "sync", "syncing"} => RowsCover'
    BY <2>1, FrameFacts, RowsCoverKept DEF Covered, Frame
  <2> QED BY <2>2, <2>3, <2>4
<1>3. Rows' # {} => RowsCover'
  BY RowsShrink, RowsCoverKept DEF Covered
<1>4. RowsCover' \/ emptied' \/ \E t \in Sessions : Replacing(t)'
  BY FrameFacts, RowsCoverKept DEF Covered, Tables
<1> QED BY <1>1, <1>2, <1>3, <1>4 DEF Covered

(***************************************************************************)
(* Actions of a session that leave both tables alone.                      *)
(***************************************************************************)

\* A session that turns to something that is not a part of a rebuild.
LEMMA AwayStep ==
  ASSUME TypeOK, Covered, NEW s \in Sessions, NEW new, Become(s, new),
         \/ new.at \in {"idle", "write", "begin", "boot"}
         \/ new.at = "sync" /\ ~new.prune,
         UNCHANGED <<compat, row, listed, cleaned, unread>>,
         emptied => emptied', Replacing(s) => emptied'
  PROVE  Covered'
<1>1. sess'[s] = new /\ \A t \in Sessions \ {s} : Frame(t)
  BY BecomeFrame
<1>2. Tables
  BY QuietIndexed DEF Tables
<1>3. ~Rebuilding(s)' /\ ~Replacing(s)'
  BY <1>1 DEF Rebuilding, Replacing
<1>4. ScanCovers(s)' /\ InsertCovers(s)' /\ ReadCovers(s)'
  BY <1>1 DEF ScanCovers, InsertCovers, ReadCovers, At
<1> QED BY <1>1, <1>2, <1>3, <1>4, CoveredStep

LEMMA AwayActions ==
  ASSUME TypeOK, Covered, NEW s \in Sessions,
         \/ Written(s) \/ RebuildJob(s) \/ BootRead(s) \/ BootRebuilds(s)
         \/ BootSyncs(s) \/ SyncFails(s) \/ InsertFails(s) \/ Crash(s)
         \/ \E p \in Products : Publish(s, p)
  PROVE  Covered'
<1>1. CASE Written(s) \/ RebuildJob(s) \/ BootRebuilds(s) \/ SyncFails(s)
  <2>1. /\ Become(s, [Idle EXCEPT !.at = "begin"]) \/ Become(s, Idle)
        /\ UNCHANGED <<compat, row, listed, cleaned, unread, emptied>>
        /\ ~Replacing(s)
    BY <1>1 DEF Written, RebuildJob, BootRebuilds, SyncFails, history, At, Replacing
  <2>2. [Idle EXCEPT !.at = "begin"].at = "begin" /\ Idle.at = "idle"
    BY DEF Idle
  <2> QED BY <2>1, <2>2, AwayStep
<1>2. CASE InsertFails(s)
  <2>1. Replacing(s) /\ Rows # {}
    BY <1>2 DEF InsertFails, At, Replacing, Rows
  <2> QED BY <2>1 DEF Covered
<1>3. CASE Crash(s)
  <2>1. /\ Become(s, Idle) /\ (emptied => emptied') /\ (Replacing(s) => emptied')
        /\ UNCHANGED <<compat, row, listed, cleaned, unread>>
    BY <1>3 DEF Crash, Replacing, TypeOK
  <2> QED BY <2>1, AwayStep DEF Idle
<1>4. CASE BootRead(s)
  <2> DEFINE new == [Idle EXCEPT !.at = "boot", !.print = print, !.snap = disk]
  <2>1. /\ Become(s, new) /\ ~Replacing(s)
        /\ UNCHANGED <<compat, row, listed, cleaned, unread, emptied>>
    BY <1>4 DEF BootRead, history, At, Replacing
  <2>2. new.at = "boot"
    BY DEF Idle
  <2> HIDE DEF new
  <2> QED BY <2>1, <2>2, AwayStep
<1>5. CASE BootSyncs(s)
  <2> DEFINE new == [Idle EXCEPT !.at = "sync"]
  <2>1. /\ Become(s, new) /\ ~Replacing(s)
        /\ UNCHANGED <<compat, row, listed, cleaned, unread, emptied>>
    BY <1>5 DEF BootSyncs, history, At, Replacing
  <2>2. new.at = "sync" /\ ~new.prune
    BY DEF Idle
  <2> HIDE DEF new
  <2> QED BY <2>1, <2>2, AwayStep
<1>6. ASSUME NEW p \in Products, Publish(s, p) PROVE Covered'
  <2> DEFINE new == [Idle EXCEPT !.at = "write", !.of = p]
  <2>1. /\ Become(s, new) /\ ~Replacing(s)
        /\ UNCHANGED <<compat, row, listed, cleaned, unread, emptied>>
    BY <1>6 DEF Publish, history, At, Replacing
  <2>2. new.at = "write"
    BY DEF Idle
  <2> HIDE DEF new
  <2> QED BY <2>1, <2>2, AwayStep
<1> QED BY <1>1, <1>2, <1>3, <1>4, <1>5, <1>6

LEMMA BeginCovered ==
  ASSUME TypeOK, Covered, NEW s \in Sessions, Begin(s)
  PROVE  overlapped' \/ Covered'
<1> SUFFICES ASSUME ~overlapped' PROVE Covered'
  OBVIOUS
<1> DEFINE new == [Idle EXCEPT !.at = "scan", !.print = print]
<1>1. new.at = "scan"
  BY DEF Idle
<1>2. /\ Become(s, new) /\ ~Replacing(s)
      /\ UNCHANGED <<compat, row, listed, cleaned, unread, emptied>>
  BY DEF Begin, At, Replacing
<1>3. \A t \in Sessions \ {s} : ~Rebuilding(t)
  BY DEF Begin
<1> HIDE DEF new
<1>4. sess'[s] = new /\ \A t \in Sessions \ {s} : Frame(t)
  BY <1>2, BecomeFrame
<1>5. Tables
  BY <1>1, <1>2, QuietIndexed DEF Tables
<1>6. ScanCovers(s)' /\ InsertCovers(s)' /\ ReadCovers(s)' /\ ~Replacing(s)'
  BY <1>1, <1>4 DEF ScanCovers, InsertCovers, ReadCovers, Replacing, At
<1> QED BY <1>1, <1>2, <1>3, <1>4, <1>5, <1>6, CoveredStep

LEMMA ScanCovered ==
  ASSUME TypeOK, OnDisk, Covered, NEW s \in Sessions, Scan(s)
  PROVE  Covered'
<1> DEFINE new == [sess[s] EXCEPT !.at = "empty", !.snap = disk]
<1>1. new.at = "empty" /\ new.snap = disk
  BY DEF TypeOK, Session
<1>2. /\ Become(s, new) /\ ~Replacing(s) /\ Rebuilding(s)
      /\ UNCHANGED <<compat, row, listed, cleaned, unread, emptied>>
  BY DEF Scan, At, Replacing, Rebuilding, history
<1> HIDE DEF new
<1>4. sess'[s] = new /\ \A t \in Sessions \ {s} : Frame(t)
  BY <1>2, BecomeFrame
<1>5. Tables
  BY <1>1, <1>2, QuietIndexed DEF Tables
<1>6. ScanCovers(s)'
  BY <1>1, <1>2, <1>4, <1>5 DEF ScanCovers, Tables, OnDisk
<1>7. InsertCovers(s)' /\ ReadCovers(s)' /\ ~Replacing(s)'
  BY <1>1, <1>4 DEF InsertCovers, ReadCovers, Replacing, At
<1> QED BY <1>1, <1>2, <1>4, <1>5, <1>6, <1>7, CoveredStep

LEMMA InsertCovered ==
  ASSUME TypeOK, OnDisk, Covered, NEW s \in Sessions, Insert(s)
  PROVE  Covered'
<1> DEFINE new == [sess[s] EXCEPT !.at = "commit", !.pend = Load(s)]
<1>1. new.at = "commit" /\ new.pend = Load(s)
  BY DEF TypeOK, Session
<1>2. /\ Become(s, new) /\ Replacing(s) /\ Rebuilding(s) /\ At(s, "insert")
      /\ UNCHANGED <<compat, row, listed, cleaned, emptied>>
      /\ unread' = unread \cup {p \in Products : sess[s].snap[p] # 0 /\ disk[p] < 0}
  BY DEF Insert, At, Replacing, Rebuilding
<1> HIDE DEF new
<1>4. sess'[s] = new /\ \A t \in Sessions \ {s} : Frame(t)
  BY <1>2, BecomeFrame
<1>5. Tables
  BY <1>1, <1>2, QuietIndexed DEF Tables
<1>6. InsertCovers(s)'
  <2> SUFFICES ASSUME NEW p \in Products, Indexed(p)'
               PROVE  Load(s)[p] > 0 \/ p \in cleaned' \cup unread'
    BY <1>1, <1>4 DEF InsertCovers
  <2>1. Indexed(p)
    BY <1>5 DEF Tables
  <2>2. sess[s].snap[p] # 0 \/ p \in cleaned
    BY <1>2, <2>1 DEF Covered, ScanCovers, At
  <2>3. disk[p] # 0 \/ p \in cleaned
    BY <2>1 DEF OnDisk
  <2>4. disk[p] \in Int
    BY DEF TypeOK
  <2> QED BY <1>2, <2>2, <2>3, <2>4 DEF Load, Loadable
<1>7. ScanCovers(s)' /\ ReadCovers(s)' /\ Replacing(s)'
  BY <1>1, <1>4 DEF ScanCovers, ReadCovers, Replacing, At
<1>8. Rows = {}
  BY <1>2 DEF Covered
<1> QED BY <1>1, <1>2, <1>4, <1>5, <1>6, <1>7, <1>8, CoveredStep

LEMMA SyncReadIndexed ==
  ASSUME TypeOK, NEW s \in Sessions, SyncRead(s), NEW p \in Products
  PROVE  /\ Indexed(p)' => Indexed(p)
         /\ sess'[s].at = "syncing" /\ \A t \in Sessions \ {s} : Frame(t)
<1> DEFINE r == [q \in Products |-> IF row[q].gen > 0 THEN row[q].label ELSE NoRow]
           new == [sess[s] EXCEPT !.at = "syncing", !.rows = r, !.kept = compat]
<1>1. /\ Become(s, new) /\ new.at = "syncing" /\ new.rows = r /\ new.kept = compat
      /\ UNCHANGED <<compat, row, listed>>
  BY DEF SyncRead, TypeOK, Session, history
<1>2. r[p] # NoRow <=> row[p].gen > 0
  BY DEF TypeOK, NoRow
<1> HIDE DEF new, r
<1>3. sess'[s] = new /\ \A t \in Sessions \ {s} : Frame(t)
  BY <1>1, BecomeFrame
<1>4. ASSUME Indexed(p)' PROVE Indexed(p)
  <2>1. /\ compat'[p].id > 0 => Indexed(p)
        /\ row'[p].gen > 0 => Indexed(p)
        /\ p \in listed' => Indexed(p)
        /\ sess'[s].rows[p] # NoRow => Indexed(p)
        /\ sess'[s].kept[p].id > 0 => Indexed(p)
    BY <1>1, <1>2, <1>3 DEF Indexed
  <2> QED BY <1>3, <1>4, <2>1, IndexedBy
<1> QED BY <1>1, <1>3, <1>4

LEMMA RecordIndexed ==
  ASSUME TypeOK, NEW s \in Sessions, Record(s), NEW p \in Products
  PROVE  /\ Indexed(p)' => Indexed(p)
         /\ sess'[s].at = "sync" /\ \A t \in Sessions \ {s} : Frame(t)
<1> DEFINE new == [Idle EXCEPT !.at = "sync", !.prune = TRUE]
<1>1. /\ Become(s, new) /\ new.at = "sync" /\ UNCHANGED <<compat, row>>
      /\ listed' = listed \cup {q \in Products : row[q].gen > 0}
  BY DEF Record, Idle
<1> HIDE DEF new
<1>2. sess'[s].at = "sync" /\ \A t \in Sessions \ {s} : Frame(t)
  BY <1>1, BecomeFrame
<1>3. ASSUME Indexed(p)' PROVE Indexed(p)
  <2>1. /\ compat'[p].id > 0 => Indexed(p)
        /\ row'[p].gen > 0 => Indexed(p)
        /\ p \in listed' => Indexed(p)
    BY <1>1 DEF Indexed
  <2> QED BY <1>2, <1>3, <2>1, IndexedBy
<1> QED BY <1>2, <1>3

\* What s carries does not matter when it neither lists nor inserts nor reads.
LEMMA RecordCovered ==
  ASSUME TypeOK, Covered, NEW s \in Sessions, Record(s)
  PROVE  Covered'
<1> DEFINE new == [Idle EXCEPT !.at = "sync", !.prune = TRUE]
<1>1. new.at = "sync"
  BY DEF Idle
<1>2. /\ Become(s, new) /\ ~Replacing(s) /\ Rebuilding(s) /\ At(s, "record")
      /\ UNCHANGED <<compat, row, cleaned, unread, emptied>>
      /\ listed' = listed \cup {p \in Products : row[p].gen > 0}
  BY DEF Record, At, Replacing, Rebuilding
<1> HIDE DEF new
<1>4. sess'[s] = new /\ \A t \in Sessions \ {s} : Frame(t)
  BY <1>2, BecomeFrame
<1>5. \A p \in Products : Indexed(p)' => Indexed(p)
  BY RecordIndexed
<1>6. Tables
  BY <1>2, <1>5 DEF Tables
<1>7. ScanCovers(s)' /\ InsertCovers(s)' /\ ReadCovers(s)' /\ ~Replacing(s)'
  BY <1>1, <1>4 DEF ScanCovers, InsertCovers, ReadCovers, Replacing, At
<1>8. RowsCover'
  BY <1>2, <1>6, RowsCoverKept DEF Covered, At
<1> QED BY <1>2, <1>4, <1>6, <1>7, <1>8, CoveredStep

LEMMA SyncReadCovered ==
  ASSUME TypeOK, Covered, NEW s \in Sessions, SyncRead(s)
  PROVE  Covered'
<1> DEFINE r == [p \in Products |-> IF row[p].gen > 0 THEN row[p].label ELSE NoRow]
           new == [sess[s] EXCEPT !.at = "syncing", !.rows = r, !.kept = compat]
<1>1. /\ new.at = "syncing" /\ new.rows = r /\ new.kept = compat
      /\ new.prune = sess[s].prune
  BY DEF TypeOK, Session
<1>2. /\ Become(s, new) /\ ~Replacing(s) /\ At(s, "sync")
      /\ UNCHANGED <<compat, row, cleaned, unread, emptied, listed>>
  BY DEF SyncRead, At, Replacing, history
<1>3. \A p \in Products : r[p] # NoRow <=> row[p].gen > 0
  BY DEF TypeOK, NoRow
<1> HIDE DEF new, r
<1>4. sess'[s] = new /\ \A t \in Sessions \ {s} : Frame(t)
  BY <1>2, BecomeFrame
<1>5. \A p \in Products : Indexed(p)' => Indexed(p)
  BY SyncReadIndexed
<1>6. Tables
  BY <1>2, <1>5 DEF Tables
<1>7. Rebuilding(s)' <=> Rebuilding(s)
  BY <1>1, <1>2, <1>4 DEF Rebuilding, At
<1>8. Rebuilding(s)' => RowsCover'
  BY <1>2, <1>6, <1>7, RowsCoverKept DEF Covered, At
<1>9. ReadCovers(s)'
  <2> SUFFICES ASSUME new.prune \/ Seen(s)' # {}, NEW p \in Known(s)'
               PROVE  p \in Seen(s)' \cup cleaned' \cup unread'
    BY <1>4 DEF ReadCovers
  <2>1. p \in Products /\ compat[p].id > 0 /\ Indexed(p)
    BY <1>1, <1>4 DEF Known, Indexed
  <2>2. Seen(s)' = Rows
    BY <1>1, <1>3, <1>4 DEF Seen, Rows
  <2>3. CASE new.prune
    <3>1. Rebuilding(s)
      BY <1>1, <1>2, <2>3 DEF Rebuilding, At
    <3>2. RowsCover
      BY <1>2, <3>1 DEF Covered, At
    <3> QED BY <1>2, <2>1, <2>2, <3>2 DEF RowsCover, Rows
  <2>4. CASE Rows # {}
    BY <1>2, <2>1, <2>2, <2>4 DEF Covered, RowsCover, Rows
  <2> QED BY <2>2, <2>3, <2>4
<1>10. ScanCovers(s)' /\ InsertCovers(s)' /\ ~Replacing(s)'
  BY <1>1, <1>4 DEF ScanCovers, InsertCovers, Replacing, At
<1> QED BY <1>2, <1>4, <1>6, <1>7, <1>8, <1>9, <1>10, CoveredStep

(***************************************************************************)
(* Actions that change the tables.                                         *)
(***************************************************************************)

LEMMA EmptyIndexed ==
  ASSUME TypeOK, NEW s \in Sessions, Empty(s)
  PROVE  \A p \in Products : Indexed(p)' => Indexed(p)
<1> SUFFICES ASSUME NEW p \in Products, Indexed(p)' PROVE Indexed(p)
  OBVIOUS
<1>1. sess'[s].at = "insert" /\ \A t \in Sessions \ {s} : Frame(t)
  BY EmptyFrame
<1>2. compat' = compat /\ listed' = listed /\ row'[p] = Nothing
  BY DEF Empty, history
<1>3. /\ compat'[p].id > 0 => Indexed(p)
      /\ row'[p].gen > 0 => Indexed(p)
      /\ p \in listed' => Indexed(p)
  BY <1>2 DEF Indexed, Nothing
<1> QED BY <1>1, <1>3, IndexedBy

\* The other sessions are no rebuilds: only what they have read matters.
LEMMA OtherReads ==
  ASSUME NEW t \in Sessions, Frame(t), ~Rebuilding(t), ReadCovers(t),
         cleaned \subseteq cleaned', unread \subseteq unread'
  PROVE  /\ ScanCovers(t)' /\ InsertCovers(t)' /\ ReadCovers(t)'
         /\ ~Rebuilding(t)' /\ ~Replacing(t)'
<1>1. ~Rebuilding(t)' /\ Seen(t)' = Seen(t) /\ Known(t)' = Known(t)
  BY FrameFacts
<1>2. ScanCovers(t)' /\ InsertCovers(t)' /\ ~Replacing(t)'
  BY <1>1 DEF ScanCovers, InsertCovers, Replacing, Rebuilding, At
<1>3. ReadCovers(t)'
  BY <1>1 DEF ReadCovers, Frame, At
<1> QED BY <1>1, <1>2, <1>3

LEMMA EmptyCovered ==
  ASSUME TypeOK, Covered, NEW s \in Sessions, Empty(s)
  PROVE  Covered'
<1>1. /\ sess'[s].at = "insert" /\ sess'[s].snap = sess[s].snap
      /\ \A t \in Sessions \ {s} : Frame(t)
  BY EmptyFrame
<1>2. Rebuilding(s) /\ sess[s].at = "empty" /\ UNCHANGED <<cleaned, unread>>
  BY DEF Empty, Rebuilding, At, history
<1>3. Rows' = {}
  BY DEF Empty, Rows, Nothing
<1>4. \A t \in Sessions \ {s} : ~Rebuilding(t)
  BY <1>2 DEF Covered, OneRebuild
<1>5. ASSUME NEW t \in Sessions \ {s}
      PROVE  /\ ScanCovers(t)' /\ InsertCovers(t)' /\ ReadCovers(t)'
             /\ ~Rebuilding(t)' /\ ~Replacing(t)'
  BY <1>1, <1>2, <1>4, OtherReads DEF Covered
<1>6. ScanCovers(s)'
  BY <1>1, <1>2, EmptyIndexed DEF Covered, ScanCovers
<1>7. InsertCovers(s)' /\ ReadCovers(s)' /\ Replacing(s)'
  BY <1>1 DEF InsertCovers, ReadCovers, Replacing, At
<1>8. OneRebuild'
  BY <1>5 DEF OneRebuild
<1>9. ASSUME NEW t \in Sessions
      PROVE  /\ ScanCovers(t)' /\ InsertCovers(t)' /\ ReadCovers(t)'
             /\ Replacing(t)' => Rows' = {}
             /\ Rebuilding(t)' /\ sess'[t].at \in {"record", "sync", "syncing"} => RowsCover'
  BY <1>1, <1>3, <1>5, <1>6, <1>7
<1> QED BY <1>3, <1>7, <1>8, <1>9 DEF Covered

LEMMA CommitFrame ==
  ASSUME TypeOK, NEW s \in Sessions, CommitRows(s)
  PROVE  /\ sess'[s].at = "record" /\ sess[s].pend \in [Products -> Nat]
         /\ \A t \in Sessions \ {s} : Frame(t)
<1> DEFINE new == [sess[s] EXCEPT !.at = "record"]
<1>1. new.at = "record" /\ sess[s].pend \in [Products -> Nat]
  BY SMTT(30) DEF TypeOK, Session
<1>2. Become(s, new)
  BY DEF CommitRows
<1> HIDE DEF new
<1> QED BY <1>1, <1>2, BecomeFrame

LEMMA CommitIndexed ==
  ASSUME TypeOK, NEW s \in Sessions, CommitRows(s), NEW p \in Products, Indexed(p)'
  PROVE  Indexed(p) \/ sess[s].pend[p] > 0
<1> SUFFICES ASSUME ~(sess[s].pend[p] > 0) PROVE Indexed(p)
  OBVIOUS
<1>1. sess'[s].at = "record" /\ \A t \in Sessions \ {s} : Frame(t)
  BY CommitFrame
<1>2. compat' = compat /\ listed' = listed /\ row'[p] = row[p]
  BY DEF CommitRows
<1>3. /\ compat'[p].id > 0 => Indexed(p)
      /\ row'[p].gen > 0 => Indexed(p)
      /\ p \in listed' => Indexed(p)
  BY <1>2 DEF Indexed
<1> QED BY <1>1, <1>3, IndexedBy

LEMMA CommitCovered ==
  ASSUME TypeOK, Covered, NEW s \in Sessions, CommitRows(s)
  PROVE  Covered'
<1>1. /\ sess'[s].at = "record" /\ sess[s].pend \in [Products -> Nat]
      /\ \A t \in Sessions \ {s} : Frame(t)
  BY CommitFrame
<1>2. Rebuilding(s) /\ At(s, "commit") /\ UNCHANGED <<cleaned, unread>>
  BY DEF CommitRows, Rebuilding, At
<1>4. \A t \in Sessions \ {s} : ~Rebuilding(t)
  BY <1>2 DEF Covered, OneRebuild
<1>5. ASSUME NEW t \in Sessions \ {s}
      PROVE  /\ ScanCovers(t)' /\ InsertCovers(t)' /\ ReadCovers(t)'
             /\ ~Rebuilding(t)' /\ ~Replacing(t)'
  BY <1>1, <1>2, <1>4, OtherReads DEF Covered
<1>6. RowsCover'
  <2> SUFFICES ASSUME NEW p \in Products, Indexed(p)'
               PROVE  row'[p].gen > 0 \/ p \in cleaned' \cup unread'
    BY DEF RowsCover
  <2>1. sess[s].pend[p] > 0 \/ p \in cleaned \cup unread
    BY <1>2, CommitIndexed DEF Covered, InsertCovers
  <2> QED BY <1>2, <2>1 DEF CommitRows
<1>7. ScanCovers(s)' /\ InsertCovers(s)' /\ ReadCovers(s)' /\ ~Replacing(s)'
  BY <1>1 DEF ScanCovers, InsertCovers, ReadCovers, Replacing, At
<1>8. OneRebuild'
  BY <1>5 DEF OneRebuild
<1>9. ASSUME NEW t \in Sessions
      PROVE  /\ ScanCovers(t)' /\ InsertCovers(t)' /\ ReadCovers(t)'
             /\ Replacing(t)' => Rows' = {}
             /\ Rebuilding(t)' /\ sess'[t].at \in {"record", "sync", "syncing"} => RowsCover'
  BY <1>5, <1>6, <1>7
<1> QED BY <1>6, <1>8, <1>9 DEF Covered

\* A synchronisation adds a row to the older table only for a product that it
\* has seen, and leaves the products that are listed alone.
LEMMA SyncTables ==
  ASSUME TypeOK, NEW s \in Sessions, SyncCommit(s)
  PROVE  /\ sess'[s].at = "idle" /\ \A t \in Sessions \ {s} : Frame(t)
         /\ \A p \in Products :
              /\ compat'[p].id > 0 => compat[p].id > 0 \/ p \in Seen(s)
              /\ row'[p].gen = row[p].gen
         /\ UNCHANGED <<listed, cleaned, unread, emptied, overlapped>>
<1> PICK take \in Takings(s) :
    /\ row' = [p \in Products |->
         IF p \in Relabelled(s, take)
         THEN [gen |-> row[p].gen, label |-> Found(s, take, p)] ELSE row[p]]
    /\ compat' = [p \in Products |->
         IF p \in Created(s, take)
         THEN [id |-> ids + Cardinality({q \in Created(s, take) : q <= p}),
               label |-> sess[s].rows[p]]
         ELSE IF p \in Moved(s, take) THEN compat[take[p]]
         ELSE IF p \in Left(s, take) \cup Pruned(s, take) THEN Missing
         ELSE compat[p]]
  BY DEF SyncCommit
<1>1. Created(s, take) \subseteq Seen(s) /\ Moved(s, take) \subseteq Seen(s)
  BY CreatedFinite
<1>2. \A p \in Products : compat'[p].id > 0 => compat[p].id > 0 \/ p \in Seen(s)
  BY <1>1 DEF Missing
<1>3. \A p \in Products : row'[p].gen = row[p].gen
  OBVIOUS
<1>4. sess'[s].at = "idle" /\ \A t \in Sessions \ {s} : Frame(t)
  BY BecomeFrame DEF SyncCommit, Idle
<1> QED BY <1>2, <1>3, <1>4 DEF SyncCommit, history

LEMMA SyncIndexed ==
  ASSUME TypeOK, NEW s \in Sessions, SyncCommit(s), NEW p \in Products, Indexed(p)'
  PROVE  Indexed(p)
<1>1. p \in Seen(s) => Indexed(p)
  BY DEF Seen, Indexed, SyncCommit
<1>2. /\ compat'[p].id > 0 => Indexed(p)
      /\ row'[p].gen > 0 => Indexed(p)
      /\ p \in listed' => Indexed(p)
  BY <1>1, SyncTables DEF Indexed
<1> QED BY <1>2, SyncTables, IndexedBy

LEMMA SyncCommitCovered ==
  ASSUME TypeOK, Covered, NEW s \in Sessions, SyncCommit(s)
  PROVE  Covered'
<1>1. Tables
  BY SyncIndexed, SyncTables DEF Tables
<1>2. ~Rebuilding(s)' /\ ~Replacing(s)' /\ ~Replacing(s)
  BY SyncTables DEF Rebuilding, Replacing, SyncCommit, At
<1>3. ScanCovers(s)' /\ InsertCovers(s)' /\ ReadCovers(s)'
  BY SyncTables DEF ScanCovers, InsertCovers, ReadCovers, At
<1> QED BY <1>1, <1>2, <1>3, SyncTables, CoveredStep

\* Steps of nobody's session: what was indexed is all that is.
LEMMA StillIndexed ==
  ASSUME TypeOK, \A t \in Sessions : Frame(t), NEW p \in Products,
         compat'[p].id > 0 => compat[p].id > 0,
         row'[p].gen > 0 => row[p].gen > 0,
         listed' = listed, Indexed(p)'
  PROVE  Indexed(p)
BY DEF Indexed, Frame, At

LEMMA SetLabelCovered ==
  ASSUME TypeOK, NEW q \in Products, SetLabel(q)
  PROVE  Tables /\ \A t \in Sessions : Frame(t)
<1>1. \A t \in Sessions : Frame(t)
  BY DEF SetLabel, Frame
<1>2. \A p \in Products : compat'[p].id = compat[p].id /\ row'[p].gen = row[p].gen
  BY DEF SetLabel, TypeOK
<1>3. UNCHANGED <<listed, cleaned, unread, emptied>>
  BY DEF SetLabel
<1> QED BY <1>1, <1>2, <1>3, StillIndexed DEF Tables

LEMMA CleanRowsCovered ==
  ASSUME TypeOK, NEW d \in Pairs, CleanRows(d)
  PROVE  Tables /\ \A t \in Sessions : Frame(t)
<1>1. \A t \in Sessions : Frame(t)
  BY CleanFrame
<1>2. \A p \in Products :
        /\ compat'[p].id > 0 => compat[p].id > 0
        /\ row'[p].gen > 0 => row[p].gen > 0
        /\ row[p].gen > 0 => row'[p].gen > 0 \/ p \in cleaned'
  BY DEF CleanRows, Missing, Nothing
<1>3. UNCHANGED <<listed, unread, emptied>> /\ cleaned \subseteq cleaned'
  BY DEF CleanRows
<1> QED BY <1>1, <1>2, <1>3, StillIndexed DEF Tables

LEMMA OthersCovered ==
  ASSUME TypeOK, Covered,
         \/ UNCHANGED vars \/ CleanDisk
         \/ \E p \in Products : SetLabel(p)
         \/ \E d \in Pairs : CleanRows(d)
  PROVE  Covered'
<1>1. CASE UNCHANGED vars \/ CleanDisk
  <2>1. UNCHANGED <<row, compat, sess, listed, cleaned, unread, emptied>>
    BY <1>1 DEF vars, program, bounds, history, CleanDisk
  <2>2. \A t \in Sessions : Frame(t)
    BY <2>1 DEF Frame
  <2>3. Tables
    BY <2>1, <2>2, StillIndexed DEF Tables
  <2> QED BY <2>2, <2>3, CoveredStill
<1>2. CASE \E p \in Products : SetLabel(p)
  BY <1>2, SetLabelCovered, CoveredStill
<1>3. CASE \E d \in Pairs : CleanRows(d)
  BY <1>3, CleanRowsCovered, CoveredStill
<1> QED BY <1>1, <1>2, <1>3

(***************************************************************************)
(* Sound and OnDisk.                                                       *)
(***************************************************************************)

\* Steps that touch nothing that Sound speaks of.
LEMMA SoundQuiet ==
  ASSUME Sound, UNCHANGED <<compat, ids, cleaning, labels, owner, cleaned>>
  PROVE  Sound'
BY DEF Sound, OfPair

LEMMA SyncSound ==
  ASSUME TypeOK, Sound, NEW s \in Sessions, SyncCommit(s)
  PROVE  Sound'
<1> PICK take \in Takings(s) :
    /\ compat' = [p \in Products |->
         IF p \in Created(s, take)
         THEN [id |-> ids + Cardinality({q \in Created(s, take) : q <= p}),
               label |-> sess[s].rows[p]]
         ELSE IF p \in Moved(s, take) THEN compat[take[p]]
         ELSE IF p \in Left(s, take) \cup Pruned(s, take) THEN Missing
         ELSE compat[p]]
    /\ ids' = ids + Cardinality(Created(s, take))
  BY DEF SyncCommit
<1> DEFINE upto(p) == {q \in Created(s, take) : q <= p}
<1>1. ids \in Nat /\ Cardinality(Created(s, take)) \in Nat
  BY CreatedFinite DEF TypeOK
<1>2. Created(s, take) \subseteq Products /\ IsFiniteSet(Created(s, take))
  <2>1. Created(s, take) \subseteq Products
    BY CreatedFinite DEF Seen
  <2> QED BY <2>1, CatalogAssumption, FS_Subset
<1>3. ASSUME NEW p \in Created(s, take)
      PROVE  /\ Cardinality(upto(p)) \in Nat /\ Cardinality(upto(p)) > 0
             /\ Cardinality(upto(p)) <= Cardinality(Created(s, take))
  <2>1. upto(p) \subseteq Created(s, take)
    OBVIOUS
  <2>2. p \in upto(p)
    BY <1>2, CatalogAssumption
  <2>3. /\ IsFiniteSet(upto(p))
        /\ Cardinality(upto(p)) <= Cardinality(Created(s, take))
    BY <1>2, <2>1, FS_Subset
  <2>4. Cardinality(upto(p)) \in Nat /\ Cardinality(upto(p)) # 0
    BY <2>2, <2>3, FS_CardinalityType, FS_EmptySet
  <2> HIDE DEF upto
  <2> QED BY <2>3, <2>4
<1>4. ASSUME NEW p \in Products
      PROVE  compat'[p].id <= ids' /\ (compat'[p].id = 0 => compat'[p].label = 0)
  <2>0. \A q \in Products :
        /\ compat[q].id \in Nat /\ compat[q].id <= ids
        /\ compat[q].id = 0 => compat[q].label = 0
    BY DEF TypeOK, Sound
  <2>1. CASE p \in Created(s, take)
    <3>1. compat'[p] = [id |-> ids + Cardinality(upto(p)), label |-> sess[s].rows[p]]
      BY <2>1
    <3> HIDE DEF upto
    <3>2. compat'[p].id = ids + Cardinality(upto(p))
      BY <3>1
    <3> QED BY <1>1, <1>3, <2>1, <3>2
  <2>2. CASE p \notin Created(s, take)
    <3>1. compat'[p] = Missing \/ \E q \in Products : compat'[p] = compat[q]
      BY <2>2 DEF Moved, Takings
    <3>2. \A q \in Products : compat[q].id <= ids'
      BY <1>1, <2>0
    <3>3. Missing.id = 0 /\ Missing.label = 0 /\ 0 <= ids'
      BY <1>1 DEF Missing
    <3> HIDE DEF Missing
    <3> QED BY <2>0, <3>1, <3>2, <3>3
  <2> QED BY <2>1, <2>2
<1>5. UNCHANGED <<cleaning, labels, owner, cleaned>>
  BY DEF SyncCommit, bounds, history
<1> QED BY <1>4, <1>5 DEF Sound, OfPair

LEMMA SetLabelSound ==
  ASSUME TypeOK, Sound, NEW p \in Products, SetLabel(p)
  PROVE  Sound'
<1>1. MaxLabels \in Nat /\ labels \in Nat /\ labels' = labels + 1
      /\ labels' \in 1..MaxLabels
  BY CatalogBounds DEF SetLabel, TypeOK
<1>2. \A n \in 1..labels' : owner'[n] \in Products
  BY <1>1 DEF SetLabel, TypeOK, Sound
<1>3. \A q \in Products : compat'[q].id = compat[q].id
                          /\ (compat'[q].id = 0 => compat'[q].label = 0)
  BY DEF SetLabel, TypeOK, Sound
<1> QED BY <1>2, <1>3 DEF SetLabel, Sound, OfPair

LEMMA CleanSound ==
  ASSUME TypeOK, Sound, CleanDisk \/ \E d \in Pairs : CleanRows(d)
  PROVE  Sound'
<1>1. CASE CleanDisk
  BY <1>1, NoPairAssumption DEF CleanDisk, Sound, OfPair, bounds, history
<1>2. ASSUME NEW d \in Pairs, CleanRows(d) PROVE Sound'
  <2>1. \A q \in Products :
        /\ compat'[q].id <= ids'
        /\ compat'[q].id = 0 => compat'[q].label = 0
    BY <1>2 DEF CleanRows, Missing, Sound, TypeOK
  <2>2. cleaning' = d /\ cleaned' = cleaned \cup OfPair(d)
    BY <1>2 DEF CleanRows
  <2>3. \A q \in cleaned' : OfPair(PairOf[q])' \subseteq cleaned'
    BY <2>2 DEF Sound, OfPair
  <2>4. \A n \in 1..labels' : owner'[n] \in Products
    BY <1>2 DEF CleanRows, Sound
  <2>5. OfPair(cleaning)' \subseteq cleaned'
    BY <2>2 DEF OfPair
  <2> QED BY <2>1, <2>3, <2>4, <2>5 DEF Sound
<1> QED BY <1>1, <1>2

LEMMA SoundStep == TypeOK /\ Sound /\ [Next]_vars => Sound'
<1> SUFFICES ASSUME TypeOK, Sound, [Next]_vars PROVE Sound'
  OBVIOUS
<1> DEFINE LabelsLeft == UNCHANGED <<compat, ids, cleaning, labels, owner, cleaned>>
<1>1. CASE UNCHANGED vars
  BY <1>1, SoundQuiet DEF vars, program, bounds, history
<1>2. ASSUME NEW s \in Sessions,
             \/ Written(s) \/ Begin(s) \/ Scan(s) \/ Empty(s) \/ Insert(s)
             \/ InsertFails(s) \/ CommitRows(s)
      PROVE  LabelsLeft
  BY <1>2 DEF Written, Begin, Scan, Empty, Insert, InsertFails, CommitRows,
              bounds, history
<1>3. ASSUME NEW s \in Sessions,
             \/ Record(s) \/ SyncRead(s) \/ SyncFails(s) \/ BootRebuilds(s)
             \/ BootSyncs(s) \/ RebuildJob(s) \/ BootRead(s) \/ Crash(s)
             \/ \E p \in Products : Publish(s, p)
      PROVE  LabelsLeft
  BY <1>3 DEF Record, SyncRead, SyncFails, BootRebuilds, BootSyncs, RebuildJob,
              BootRead, Crash, Publish, bounds, history
<1> QED BY <1>1, <1>2, <1>3, SoundQuiet, SyncSound, SetLabelSound, CleanSound
        DEF Next, Work

\* Steps of a session after which it has neither rows to commit nor read any.
LEMMA QuietActions ==
  ASSUME TypeOK, NEW s \in Sessions,
         \/ Written(s) \/ Begin(s) \/ Scan(s) \/ InsertFails(s) \/ SyncFails(s)
         \/ BootRebuilds(s) \/ BootSyncs(s) \/ RebuildJob(s) \/ BootRead(s)
         \/ Crash(s) \/ \E p \in Products : Publish(s, p)
  PROVE  /\ UNCHANGED <<compat, row, listed>>
         /\ sess'[s].at \notin {"syncing", "commit"}
         /\ \A t \in Sessions \ {s} : Frame(t)
<1> USE BecomeFrame
<1>1. CASE Written(s) \/ RebuildJob(s) \/ BootRebuilds(s) \/ SyncFails(s)
           \/ InsertFails(s) \/ Crash(s)
  <2>1. /\ Become(s, [Idle EXCEPT !.at = "begin"]) \/ Become(s, Idle)
        /\ UNCHANGED <<compat, row, listed>>
    BY <1>1 DEF Written, RebuildJob, BootRebuilds, SyncFails, InsertFails, Crash,
                history
  <2>2. [Idle EXCEPT !.at = "begin"].at = "begin" /\ Idle.at = "idle"
    BY DEF Idle
  <2> QED BY <2>1, <2>2
<1>2. CASE Begin(s)
  <2> DEFINE new == [Idle EXCEPT !.at = "scan", !.print = print]
  <2>1. Become(s, new) /\ new.at = "scan" /\ UNCHANGED <<compat, row, listed>>
    BY <1>2 DEF Begin, Idle
  <2> HIDE DEF new
  <2> QED BY <2>1
<1>3. CASE Scan(s)
  <2> DEFINE new == [sess[s] EXCEPT !.at = "empty", !.snap = disk]
  <2>1. Become(s, new) /\ new.at = "empty" /\ UNCHANGED <<compat, row, listed>>
    BY <1>3 DEF Scan, TypeOK, Session, history
  <2> HIDE DEF new
  <2> QED BY <2>1
<1>4. CASE BootRead(s)
  <2> DEFINE new == [Idle EXCEPT !.at = "boot", !.print = print, !.snap = disk]
  <2>1. Become(s, new) /\ new.at = "boot" /\ UNCHANGED <<compat, row, listed>>
    BY <1>4 DEF BootRead, Idle, history
  <2> HIDE DEF new
  <2> QED BY <2>1
<1>5. CASE BootSyncs(s)
  <2> DEFINE new == [Idle EXCEPT !.at = "sync"]
  <2>1. Become(s, new) /\ new.at = "sync" /\ UNCHANGED <<compat, row, listed>>
    BY <1>5 DEF BootSyncs, Idle, history
  <2> HIDE DEF new
  <2> QED BY <2>1
<1>6. ASSUME NEW p \in Products, Publish(s, p)
      PROVE  /\ UNCHANGED <<compat, row, listed>>
             /\ sess'[s].at \notin {"syncing", "commit"}
             /\ \A t \in Sessions \ {s} : Frame(t)
  <2> DEFINE new == [Idle EXCEPT !.at = "write", !.of = p]
  <2>1. Become(s, new) /\ new.at = "write" /\ UNCHANGED <<compat, row, listed>>
    BY <1>6 DEF Publish, Idle, history
  <2> HIDE DEF new
  <2> QED BY <2>1
<1> QED BY <1>1, <1>2, <1>3, <1>4, <1>5, <1>6

LEMMA InsertFrame ==
  ASSUME TypeOK, NEW s \in Sessions, Insert(s)
  PROVE  /\ UNCHANGED <<compat, row, listed>>
         /\ sess'[s].at = "commit" /\ sess'[s].pend = Load(s)
         /\ \A t \in Sessions \ {s} : Frame(t)
<1> DEFINE new == [sess[s] EXCEPT !.at = "commit", !.pend = Load(s)]
<1>1. /\ Become(s, new) /\ new.at = "commit" /\ new.pend = Load(s)
      /\ UNCHANGED <<compat, row, listed>>
  BY DEF Insert, TypeOK, Session
<1> HIDE DEF new
<1> QED BY <1>1, BecomeFrame

\* Only the rows that a rebuild commits add to what is indexed, and only its
\* insertion of a package that is there to what it is about to commit.
LEMMA IndexedStep ==
  ASSUME TypeOK, [Next]_vars, NEW p \in Products
  PROVE  /\ Indexed(p)' => Indexed(p) \/ Pending(p)
         /\ Pending(p)' => Pending(p) \/ disk[p] # 0
<1> DEFINE Goal == /\ Indexed(p)' => Indexed(p) \/ Pending(p)
                   /\ Pending(p)' => Pending(p) \/ disk[p] # 0
<1>0. ASSUME NEW s \in Sessions, sess'[s].at # "commit",
             \A t \in Sessions \ {s} : Frame(t)
      PROVE  Pending(p)' => Pending(p)
  BY <1>0 DEF Pending, Frame, At
<1>1. ASSUME NEW s \in Sessions,
             \/ Written(s) \/ Begin(s) \/ Scan(s) \/ InsertFails(s) \/ SyncFails(s)
             \/ BootRebuilds(s) \/ BootSyncs(s) \/ RebuildJob(s) \/ BootRead(s)
             \/ Crash(s) \/ \E q \in Products : Publish(s, q)
      PROVE  Goal
  <2>1. /\ UNCHANGED <<compat, row, listed>>
        /\ sess'[s].at \notin {"syncing", "commit"}
        /\ \A t \in Sessions \ {s} : Frame(t)
    BY <1>1, QuietActions
  <2>2. /\ compat'[p].id > 0 => Indexed(p)
        /\ row'[p].gen > 0 => Indexed(p)
        /\ p \in listed' => Indexed(p)
    BY <2>1 DEF Indexed
  <2> QED BY <1>0, <2>1, <2>2, IndexedBy
<1>2. ASSUME NEW s \in Sessions, Insert(s) PROVE Goal
  <2>1. /\ UNCHANGED <<compat, row, listed>>
        /\ sess'[s].at = "commit" /\ sess'[s].pend = Load(s)
        /\ \A t \in Sessions \ {s} : Frame(t)
    BY <1>2, InsertFrame
  <2>2. /\ compat'[p].id > 0 => Indexed(p)
        /\ row'[p].gen > 0 => Indexed(p)
        /\ p \in listed' => Indexed(p)
    BY <2>1 DEF Indexed
  <2>3. Indexed(p)' => Indexed(p)
    BY <2>1, <2>2, IndexedBy
  <2>4. Load(s)[p] > 0 => disk[p] # 0
    BY DEF Load, Loadable, TypeOK
  <2> QED BY <2>1, <2>3, <2>4 DEF Pending, Frame, At
<1>3. ASSUME NEW s \in Sessions, Empty(s) PROVE Goal
  BY <1>0, <1>3, EmptyFrame, EmptyIndexed
<1>4. ASSUME NEW s \in Sessions, CommitRows(s) PROVE Goal
  <2>1. At(s, "commit")
    BY <1>4 DEF CommitRows
  <2> QED BY <1>0, <1>4, <2>1, CommitFrame, CommitIndexed DEF Pending
<1>5. ASSUME NEW s \in Sessions, Record(s) \/ SyncRead(s) PROVE Goal
  BY <1>0, <1>5, RecordIndexed, SyncReadIndexed
<1>6. ASSUME NEW s \in Sessions, SyncCommit(s) PROVE Goal
  BY <1>0, <1>6, SyncTables, SyncIndexed
<1>7. ASSUME \/ UNCHANGED vars \/ CleanDisk
             \/ \E q \in Products : SetLabel(q)
             \/ \E d \in Pairs : CleanRows(d)
      PROVE  Goal
  <2>1. /\ \A t \in Sessions : Frame(t)
        /\ Indexed(p)' => Indexed(p)
    <3>1. CASE UNCHANGED vars \/ CleanDisk
      <4>1. UNCHANGED <<row, compat, sess, listed>>
        BY <3>1 DEF vars, program, bounds, history, CleanDisk
      <4>2. \A t \in Sessions : Frame(t)
        BY <4>1 DEF Frame
      <4> QED BY <4>1, <4>2, StillIndexed
    <3> QED BY <1>7, <3>1, SetLabelCovered, CleanRowsCovered DEF Tables
  <2> QED BY <2>1 DEF Pending, Frame, At
<1> HIDE DEF Goal
<1>8. Goal
  BY <1>1, <1>2, <1>3, <1>4, <1>5, <1>6, <1>7 DEF Next, Work
<1> QED BY <1>8 DEF Goal

\* A package that is there stays until its pair is cleaned up.
LEMMA DiskStep ==
  ASSUME TypeOK, Sound, [Next]_vars, NEW p \in Products, disk[p] # 0
  PROVE  disk'[p] # 0 \/ p \in cleaned'
<1>0. disk \in [Products -> Int] /\ jobs \in Nat
  BY DEF TypeOK
<1>1. ASSUME NEW s \in Sessions, NEW q \in Products, Publish(s, q)
      PROVE  disk'[p] # 0
  BY <1>0, <1>1 DEF Publish
<1>2. ASSUME NEW s \in Sessions, Written(s) PROVE disk'[p] # 0
  <2>1. disk' = [disk EXCEPT ![sess[s].of] = -disk[sess[s].of]]
    BY <1>2 DEF Written
  <2>2. CASE sess[s].of = p
    BY <1>0, <2>1, <2>2
  <2>3. CASE sess[s].of # p
    BY <1>0, <2>1, <2>3
  <2> QED BY <2>2, <2>3
<1>3. CASE CleanDisk
  BY <1>3 DEF CleanDisk, Sound, history
<1>4. ASSUME NEW s \in Sessions,
             \/ Begin(s) \/ Scan(s) \/ Empty(s) \/ Insert(s) \/ InsertFails(s)
             \/ CommitRows(s) \/ Record(s) \/ SyncRead(s) \/ SyncCommit(s)
             \/ SyncFails(s) \/ BootRebuilds(s) \/ BootSyncs(s) \/ RebuildJob(s)
             \/ BootRead(s) \/ Crash(s)
      PROVE  disk' = disk
  BY <1>4 DEF Begin, Scan, Empty, Insert, InsertFails, CommitRows, Record, SyncRead,
              SyncCommit, SyncFails, BootRebuilds, BootSyncs, RebuildJob, BootRead,
              Crash
<1>5. CASE \/ UNCHANGED vars \/ \E q \in Products : SetLabel(q)
           \/ \E d \in Pairs : CleanRows(d)
  BY <1>5 DEF vars, program, SetLabel, CleanRows
<1> QED BY <1>1, <1>2, <1>3, <1>4, <1>5 DEF Next, Work

LEMMA CleanedGrows == [Next]_vars => cleaned \subseteq cleaned'
<1>1. ASSUME NEW s \in Sessions,
             \/ Written(s) \/ Begin(s) \/ Scan(s) \/ Empty(s) \/ Insert(s)
             \/ InsertFails(s) \/ CommitRows(s) \/ Record(s)
      PROVE  cleaned' = cleaned
  BY <1>1 DEF Written, Begin, Scan, Empty, Insert, InsertFails, CommitRows, Record,
              history
<1>2. ASSUME NEW s \in Sessions,
             \/ SyncRead(s) \/ SyncCommit(s) \/ SyncFails(s) \/ BootRebuilds(s)
             \/ BootSyncs(s) \/ RebuildJob(s) \/ BootRead(s) \/ Crash(s)
             \/ \E q \in Products : Publish(s, q)
      PROVE  cleaned' = cleaned
  BY <1>2 DEF SyncRead, SyncCommit, SyncFails, BootRebuilds, BootSyncs, RebuildJob,
              BootRead, Crash, Publish, history
<1>3. CASE \/ UNCHANGED vars \/ CleanDisk \/ \E q \in Products : SetLabel(q)
           \/ \E d \in Pairs : CleanRows(d)
  BY <1>3 DEF vars, CleanDisk, SetLabel, CleanRows, history
<1> QED BY <1>1, <1>2, <1>3 DEF Next, Work

LEMMA UnreadGrows == [Next]_vars => unread \subseteq unread'
<1>1. ASSUME NEW s \in Sessions,
             \/ Written(s) \/ Begin(s) \/ Scan(s) \/ Empty(s) \/ Insert(s)
             \/ InsertFails(s) \/ CommitRows(s) \/ Record(s)
      PROVE  unread \subseteq unread'
  BY <1>1 DEF Written, Begin, Scan, Empty, Insert, InsertFails, CommitRows, Record,
              history
<1>2. ASSUME NEW s \in Sessions,
             \/ SyncRead(s) \/ SyncCommit(s) \/ SyncFails(s) \/ BootRebuilds(s)
             \/ BootSyncs(s) \/ RebuildJob(s) \/ BootRead(s) \/ Crash(s)
             \/ \E q \in Products : Publish(s, q)
      PROVE  unread' = unread
  BY <1>2 DEF SyncRead, SyncCommit, SyncFails, BootRebuilds, BootSyncs, RebuildJob,
              BootRead, Crash, Publish, history
<1>3. CASE \/ UNCHANGED vars \/ CleanDisk \/ \E q \in Products : SetLabel(q)
           \/ \E d \in Pairs : CleanRows(d)
  BY <1>3 DEF vars, CleanDisk, SetLabel, CleanRows, history
<1> QED BY <1>1, <1>2, <1>3 DEF Next, Work

LEMMA OnDiskStep == TypeOK /\ Sound /\ OnDisk /\ [Next]_vars => OnDisk'
BY IndexedStep, DiskStep, CleanedGrows DEF OnDisk

(***************************************************************************)
(* The invariant.                                                          *)
(***************************************************************************)

\* Once two rebuilds have overlapped, that stays.
LEMMA OverlappedStays == [Next]_vars /\ overlapped => overlapped'
<1> SUFFICES ASSUME [Next]_vars, overlapped PROVE overlapped'
  OBVIOUS
<1>1. ASSUME NEW s \in Sessions,
             \/ Written(s) \/ Begin(s) \/ Scan(s) \/ Empty(s) \/ Insert(s)
             \/ InsertFails(s) \/ CommitRows(s) \/ Record(s)
      PROVE  overlapped'
  BY <1>1 DEF Written, Begin, Scan, Empty, Insert, InsertFails, CommitRows, Record,
              history
<1>2. ASSUME NEW s \in Sessions,
             \/ SyncRead(s) \/ SyncCommit(s) \/ SyncFails(s) \/ BootRebuilds(s)
             \/ BootSyncs(s) \/ RebuildJob(s) \/ BootRead(s) \/ Crash(s)
             \/ \E q \in Products : Publish(s, q)
      PROVE  overlapped'
  BY <1>2 DEF SyncRead, SyncCommit, SyncFails, BootRebuilds, BootSyncs, RebuildJob,
              BootRead, Crash, Publish, history
<1>3. CASE \/ UNCHANGED vars \/ CleanDisk \/ \E q \in Products : SetLabel(q)
           \/ \E d \in Pairs : CleanRows(d)
  BY <1>3 DEF vars, CleanDisk, SetLabel, CleanRows, history
<1> QED BY <1>1, <1>2, <1>3 DEF Next, Work

LEMMA CoveredNext ==
  ASSUME TypeOK, OnDisk, Covered, [Next]_vars
  PROVE  overlapped' \/ Covered'
BY AwayActions, BeginCovered, ScanCovered, InsertCovered, RecordCovered,
   SyncReadCovered, EmptyCovered, CommitCovered, SyncCommitCovered, OthersCovered
   DEF Next, Work

LEMMA CoverInit == Init => CoverInv
<1> SUFFICES ASSUME Init PROVE CoverInv
  OBVIOUS
<1>1. \A s \in Sessions : sess[s].at = "idle"
  BY DEF Init, Idle
<1>2. \A p \in Products : compat[p].id = 0 /\ compat[p].label = 0 /\ row[p].gen = 0
  BY DEF Init, Missing, Nothing
<1>3. \A p \in Products : ~Indexed(p) /\ ~Pending(p)
  BY <1>1, <1>2 DEF Indexed, Pending, At, Init
<1>4. Sound
  BY <1>2 DEF Sound, Init
<1>5. Covered
  <2>1. \A s \in Sessions : ~Rebuilding(s) /\ ~Replacing(s)
    BY <1>1 DEF Rebuilding, Replacing
  <2>2. \A s \in Sessions : ScanCovers(s) /\ InsertCovers(s) /\ ReadCovers(s)
    BY <1>1 DEF ScanCovers, InsertCovers, ReadCovers, At
  <2> QED BY <1>3, <2>1, <2>2 DEF Covered, OneRebuild, RowsCover
<1> QED BY <1>3, <1>4, <1>5, TypeInit DEF CoverInv, OnDisk

LEMMA CoverStep == CoverInv /\ [Next]_vars => CoverInv'
BY TypeStep, SoundStep, OnDiskStep, OverlappedStays, CoveredNext DEF CoverInv

(***************************************************************************)
(* PrintInv: what was seen of a package is never what is being written, so *)
(* a package that equals what was seen of it has not changed since.        *)
(***************************************************************************)

\* What PrintInv reads of a session stays.
Keeps(t) ==
  /\ sess'[t].at = sess[t].at /\ sess'[t].of = sess[t].of
  /\ sess'[t].snap = sess[t].snap /\ sess'[t].pend = sess[t].pend

\* A session that carries nothing that Vouched speaks of but what it has listed.
Rests(t, p) ==
  /\ sess'[t].at \notin {"commit", "record"}
  /\ sess'[t].snap[p] \in {0, disk'[p], sess[t].snap[p]}

\* Old, of a package and a number of jobs: a step of theirs is one of constants.
Fits(x, d, j) == -j <= x /\ x <= j /\ (d < 0 => x < -d)
OldNext(p, x) == Fits(x, disk'[p], jobs')

LEMMA FitsStill ==
  ASSUME NEW d \in Int, NEW e \in {d, 0}, NEW j \in Nat, NEW k \in Nat, k >= j,
         -j <= d, d <= j
  PROVE  /\ -k <= e /\ e <= k /\ Fits(0, e, k) /\ Fits(e, e, k)
         /\ \A x \in Int : Fits(x, d, j) => Fits(x, e, k)
BY DEF Fits

LEMMA OldFits ==
  /\ \A p, x : Old(p, x) <=> Fits(x, disk[p], jobs)
  /\ \A p, x : OldNext(p, x) <=> Fits(x, disk'[p], jobs')
BY DEF Old, OldNext, Fits, Given

LEMMA BecomeKeeps ==
  ASSUME TypeOK, NEW s \in Sessions, NEW new, Become(s, new)
  PROVE  sess'[s] = new /\ \A t \in Sessions \ {s} : Keeps(t)
BY DEF Become, TypeOK, Keeps

LEMMA DeletedKeeps ==
  ASSUME NEW new \in [Sessions -> Session], NEW ps, Deleted(ps, new),
         NEW t \in Sessions
  PROVE  /\ sess'[t].at = new[t].at /\ sess'[t].of = new[t].of
         /\ sess'[t].snap = new[t].snap /\ sess'[t].pend = new[t].pend
<1> DEFINE g == new[t].gone \cup {p \in ps : row[p].gen > 0}
<1>1. CASE new[t].at = "syncing"
  <2>1. sess'[t] = [new[t] EXCEPT !.gone = g]
    BY <1>1 DEF Deleted
  <2> HIDE DEF g
  <2> QED BY <2>1 DEF Session
<1>2. CASE new[t].at # "syncing"
  BY <1>2 DEF Deleted
<1> QED BY <1>1, <1>2

LEMMA SessionTypes ==
  ASSUME TypeOK, NEW t \in Sessions
  PROVE  /\ sess[t] \in Session /\ sess[t].of \in Products \cup {0}
         /\ sess[t].snap \in [Products -> Int] /\ sess[t].pend \in [Products -> Nat]
         /\ disk \in [Products -> Int] /\ print \in [Products -> Int] /\ jobs \in Nat
         /\ \A p \in Products : row[p].gen \in Nat
BY DEF TypeOK, Session

\* Of a package that is not written, and the rows of a product that are neither
\* inserted nor committed.
LEMMA VouchedStill ==
  ASSUME TypeOK, NEW p \in Products, Vouched(p), NEW j \in Nat, jobs' = j, j >= jobs,
         \A t \in Sessions : Keeps(t) \/ Rests(t, p),
         disk'[p] \in {disk[p], 0}, row'[p].gen \in {row[p].gen, 0},
         NEW x \in Int, print'[p] = x, Old(p, x) \/ x = 0,
         disk[p] > 0 /\ x = disk[p] => Settles(p)
  PROVE  Vouched(p)'
<1>0. /\ disk[p] \in Int /\ jobs \in Nat /\ row[p].gen \in Nat
  BY DEF TypeOK
<1>1. /\ Given(disk[p])' /\ OldNext(p, 0) /\ OldNext(p, disk'[p])
      /\ \A y \in Int : Old(p, y) => OldNext(p, y)
  <2>1. -jobs <= disk[p] /\ disk[p] <= jobs
    BY <1>0 DEF Vouched, Given
  <2>2. /\ -j <= disk'[p] /\ disk'[p] <= j
        /\ Fits(0, disk'[p], j) /\ Fits(disk'[p], disk'[p], j)
        /\ \A y \in Int : Fits(y, disk[p], jobs) => Fits(y, disk'[p], j)
    BY <1>0, <2>1, FitsStill
  <2> QED BY <2>2, OldFits DEF Given
<1>2. ASSUME NEW t \in Sessions PROVE OldNext(p, sess'[t].snap[p])
  <2>1. sess'[t].snap[p] \in {0, disk'[p], sess[t].snap[p]}
    BY DEF Keeps, Rests
  <2>2. sess[t].snap[p] \in Int /\ Old(p, sess[t].snap[p])
    BY SessionTypes DEF Vouched
  <2> QED BY <1>1, <2>1, <2>2
<1>3. OldNext(p, print'[p])
  BY <1>1
<1>4. CASE disk'[p] > 0
  <2>1. disk'[p] = disk[p] /\ disk[p] > 0
    BY <1>0, <1>4
  <2>2. Settles(p) => Settles(p)'
    BY <1>0, <2>1 DEF Settles, At, Keeps, Rests
  <2>3. print'[p] = disk'[p] => Settles(p)'
    BY <2>1, <2>2
  <2>4. ASSUME NEW t \in Sessions, sess'[t].snap[p] = disk'[p]
        PROVE  Carries(t, p)'
    <3>1. CASE Rests(t, p)
      BY <3>1 DEF Carries, Rests, At
    <3>2. CASE Keeps(t)
      <4>1. Carries(t, p)
        BY <2>1, <2>4, <3>2 DEF Keeps, Vouched
      <4> QED BY <2>1, <2>2, <3>2, <4>1 DEF Carries, Keeps, At
    <3> QED BY <3>1, <3>2
  <2> QED BY <1>1, <1>2, <1>3, <2>3, <2>4 DEF Vouched, OldNext, Old, Fits, Given
<1>5. CASE ~(disk'[p] > 0)
  BY <1>1, <1>2, <1>3, <1>5 DEF Vouched, OldNext, Old, Fits, Given
<1> QED BY <1>4, <1>5

\* Of a package that is opened or written: nobody has seen it like that.
LEMMA VouchedFresh ==
  ASSUME TypeOK, NEW p \in Products, Vouched(p), NEW j \in Nat, jobs' = j,
         \A t \in Sessions : sess'[t].snap[p] \in {0, sess[t].snap[p]},
         print' = print, NEW d \in Int, disk'[p] = d, -j <= d, d <= j,
         \A x \in Int : Old(p, x) \/ x = 0 => Fits(x, d, j) /\ (d > 0 => x # d)
  PROVE  Vouched(p)'
<1>1. \A t \in Sessions : /\ sess'[t].snap[p] \in Int
                          /\ Old(p, sess[t].snap[p])
                          /\ Old(p, sess'[t].snap[p]) \/ sess'[t].snap[p] = 0
  BY SessionTypes DEF Vouched
<1>2. print[p] \in Int /\ Old(p, print[p])
  BY DEF TypeOK, Vouched
<1>3. /\ \A t \in Sessions : OldNext(p, sess'[t].snap[p])
      /\ OldNext(p, print'[p]) /\ Given(disk[p])'
  BY <1>1, <1>2 DEF OldNext, Given
<1>4. disk'[p] > 0 =>
        print'[p] # disk'[p] /\ \A t \in Sessions : sess'[t].snap[p] # disk'[p]
  BY <1>1, <1>2
<1> QED BY <1>3, <1>4 DEF Vouched, OldNext, Old, Fits, Given

\* Nobody becomes a writer or begins to insert.
LEMMA AloneStill ==
  ASSUME TypeOK, Alone,
         \A p \in Products : disk'[p] \in {disk[p], 0},
         \A t \in Sessions :
           \/ Keeps(t)
           \/ /\ sess'[t].at \notin {"write", "commit"}
              /\ sess'[t].of \in {0, sess[t].of}
  PROVE  Alone'
<1>1. ASSUME NEW t \in Sessions
      PROVE  /\ sess'[t].of \in {0, sess[t].of}
             /\ At(t, "write")' => Keeps(t) /\ At(t, "write")
             /\ At(t, "commit")' => At(t, "commit") /\ sess'[t].pend = sess[t].pend
  BY DEF Keeps, At
<1>2. \A t, u \in Sessions :
        sess'[t].of = sess'[u].of => t = u \/ sess'[t].of = 0
  BY <1>1 DEF Alone
<1>3. ASSUME NEW t \in Sessions, At(t, "write")'
      PROVE  sess'[t].of # 0 /\ disk'[sess'[t].of] <= 0
  <2>1. sess'[t].of = sess[t].of /\ sess[t].of # 0 /\ disk[sess[t].of] <= 0
    BY <1>1, <1>3 DEF Alone, Keeps
  <2>2. sess[t].of \in Products
    BY <2>1, SessionTypes
  <2> QED BY <2>1, <2>2
<1>4. \A t, u \in Sessions : At(t, "commit")' /\ At(u, "commit")' =>
        t = u \/ \A p \in Products : sess'[t].pend[p] = 0 \/ sess'[u].pend[p] = 0
  BY <1>1 DEF Alone
<1> QED BY <1>2, <1>3, <1>4 DEF Alone

LEMMA QuietPrint ==
  ASSUME TypeOK, PrintInv, NEW j \in Nat, jobs' = j, j >= jobs,
         \A t \in Sessions :
           \/ Keeps(t)
           \/ /\ sess'[t].at \notin {"write", "commit"}
              /\ sess'[t].of \in {0, sess[t].of}
              /\ \A p \in Products : Rests(t, p),
         \A p \in Products : /\ disk'[p] \in {disk[p], 0}
                             /\ row'[p].gen \in {row[p].gen, 0}
                             /\ print'[p] \in {print[p], 0}
  PROVE  PrintInv'
<1>1. Alone'
  <2>1. Alone /\ \A p \in Products : disk'[p] \in {disk[p], 0}
    BY DEF PrintInv
  <2>2. \A t \in Sessions :
          \/ Keeps(t)
          \/ /\ sess'[t].at \notin {"write", "commit"}
             /\ sess'[t].of \in {0, sess[t].of}
    OBVIOUS
  <2> QED BY <2>1, <2>2, AloneStill
<1>2. ASSUME NEW p \in Products PROVE Vouched(p)'
  <2> PICK x : x = print'[p]
    OBVIOUS
  <2>1. x \in {print[p], 0} /\ print[p] \in Int /\ disk[p] \in Int /\ Vouched(p)
    BY DEF TypeOK, PrintInv
  <2>2. x \in Int /\ (Old(p, x) \/ x = 0) /\ (disk[p] > 0 /\ x = disk[p] => Settles(p))
    BY <2>1 DEF Vouched
  <2>3. \A t \in Sessions : Keeps(t) \/ Rests(t, p)
    OBVIOUS
  <2> QED BY <2>1, <2>2, <2>3, VouchedStill
<1> QED BY <1>1, <1>2 DEF PrintInv

LEMMA PublishPrint ==
  ASSUME TypeOK, PrintInv, NEW s \in Sessions, NEW p \in Products, Publish(s, p)
  PROVE  PrintInv'
<1> DEFINE j == jobs + 1
           new == [Idle EXCEPT !.at = "write", !.of = p]
<1>0. j \in Nat /\ jobs' = j /\ j > jobs /\ jobs \in Nat
  BY DEF Publish, TypeOK
<1>1. /\ Become(s, new) /\ UNCHANGED <<row, print>>
      /\ \A t \in Sessions : sess[t].of # p
      /\ disk' = [disk EXCEPT ![p] = -j]
  BY <1>0 DEF Publish
<1>2. new.at = "write" /\ new.of = p /\ new.snap = None
  BY DEF Idle
<1> HIDE DEF new, j
<1>3. sess'[s] = new /\ \A t \in Sessions \ {s} : Keeps(t)
  BY <1>1, BecomeKeeps
<1>4. disk'[p] = -j /\ \A q \in Products \ {p} : disk'[q] = disk[q]
  BY <1>1 DEF TypeOK
<1>5. \A q \in Products : sess'[s].snap[q] = 0
  BY <1>2, <1>3 DEF None
<1>6. Alone'
  <2>1. \A t, u \in Sessions :
          sess'[t].of = sess'[u].of => t = u \/ sess'[t].of = 0
    BY <1>1, <1>2, <1>3 DEF Keeps, PrintInv, Alone
  <2>2. ASSUME NEW t \in Sessions, At(t, "write")'
        PROVE  sess'[t].of # 0 /\ disk'[sess'[t].of] <= 0
    <3>1. CASE t = s
      <4>1. sess'[t].of = p /\ p # 0
        BY <1>2, <1>3, <3>1, CatalogAssumption
      <4>2. -j <= 0
        BY <1>0
      <4> QED BY <1>4, <4>1, <4>2
    <3>2. CASE t # s
      <4>1. /\ sess'[t].of = sess[t].of /\ sess[t].of # 0
            /\ disk[sess[t].of] <= 0
        BY <1>3, <2>2, <3>2 DEF Keeps, PrintInv, Alone, At
      <4>2. sess[t].of \in Products \ {p}
        BY <1>1, <4>1, SessionTypes
      <4> QED BY <1>4, <4>1, <4>2
    <3> QED BY <3>1, <3>2
  <2>3. \A t, u \in Sessions : At(t, "commit")' /\ At(u, "commit")' =>
          t = u \/ \A q \in Products : sess'[t].pend[q] = 0 \/ sess'[u].pend[q] = 0
    BY <1>2, <1>3 DEF Keeps, PrintInv, Alone, At
  <2> QED BY <2>1, <2>2, <2>3 DEF Alone
<1>7. Vouched(p)'
  <2>1. ASSUME NEW x \in Int, Old(p, x) \/ x = 0
        PROVE  Fits(x, -j, j) /\ (-j > 0 => x # -j)
    BY <1>0, <2>1 DEF Old, Given, Fits
  <2>2. \A t \in Sessions : sess'[t].snap[p] \in {0, sess[t].snap[p]}
    BY <1>3, <1>5 DEF Keeps
  <2>3. -j \in Int /\ -j <= -j /\ -j <= j
    BY <1>0
  <2> QED BY <1>0, <1>1, <1>4, <2>1, <2>2, <2>3, VouchedFresh DEF PrintInv
<1>8. ASSUME NEW q \in Products \ {p} PROVE Vouched(q)'
  <2> PICK x : x = print[q]
    OBVIOUS
  <2>1. x \in Int /\ Old(q, x) /\ (disk[q] > 0 /\ x = disk[q] => Settles(q))
        /\ Vouched(q)
    BY DEF TypeOK, PrintInv, Vouched
  <2>2. \A t \in Sessions : Keeps(t) \/ Rests(t, q)
    BY <1>2, <1>3, <1>5 DEF Rests
  <2> QED BY <1>0, <1>1, <1>4, <2>1, <2>2, VouchedStill
<1> QED BY <1>6, <1>7, <1>8 DEF PrintInv

LEMMA WrittenPrint ==
  ASSUME TypeOK, PrintInv, NEW s \in Sessions, Written(s)
  PROVE  PrintInv'
<1> DEFINE new == [Idle EXCEPT !.at = "begin"]
<1> PICK p \in Products : p = sess[s].of
  BY SessionTypes DEF Written, PrintInv, Alone
<1>0. jobs \in Nat /\ jobs' = jobs
  BY DEF Written, TypeOK, bounds
<1>1. disk[p] <= 0 /\ disk[p] \in Int
  BY SessionTypes DEF Written, PrintInv, Alone
<1>2. /\ Become(s, new) /\ UNCHANGED <<row, print>>
      /\ disk' = [disk EXCEPT ![p] = -disk[p]]
  BY DEF Written
<1>3. new.at = "begin" /\ new.of = 0 /\ new.snap = None
  BY DEF Idle
<1> HIDE DEF new
<1>4. sess'[s] = new /\ \A t \in Sessions \ {s} : Keeps(t)
  BY <1>2, BecomeKeeps
<1>5. disk'[p] = -disk[p] /\ \A q \in Products \ {p} : disk'[q] = disk[q]
  BY <1>1, <1>2 DEF TypeOK
<1>6. \A q \in Products : sess'[s].snap[q] = 0
  BY <1>3, <1>4 DEF None
<1>7. Alone'
  <2>1. \A t, u \in Sessions :
          sess'[t].of = sess'[u].of => t = u \/ sess'[t].of = 0
    BY <1>3, <1>4 DEF Keeps, PrintInv, Alone
  <2>2. ASSUME NEW t \in Sessions, At(t, "write")'
        PROVE  sess'[t].of # 0 /\ disk'[sess'[t].of] <= 0
    <3>1. t # s /\ Keeps(t)
      BY <1>3, <1>4, <2>2 DEF At
    <3>2. /\ sess'[t].of = sess[t].of /\ sess[t].of # 0
          /\ disk[sess[t].of] <= 0
      BY <2>2, <3>1 DEF Keeps, PrintInv, Alone, At
    <3>3. sess[t].of # p
      BY <3>1, <3>2 DEF PrintInv, Alone
    <3>4. sess[t].of \in Products \ {p}
      BY <3>2, <3>3, SessionTypes
    <3> QED BY <1>5, <3>2, <3>4
  <2>3. \A t, u \in Sessions : At(t, "commit")' /\ At(u, "commit")' =>
          t = u \/ \A q \in Products : sess'[t].pend[q] = 0 \/ sess'[u].pend[q] = 0
    BY <1>3, <1>4 DEF Keeps, PrintInv, Alone, At
  <2> QED BY <2>1, <2>2, <2>3 DEF Alone
<1>8. ASSUME disk[p] < 0 PROVE Vouched(p)'
  <2> PICK d \in Int : d = -disk[p]
    BY <1>1
  <2>1. ASSUME NEW x \in Int, Old(p, x) \/ x = 0
        PROVE  Fits(x, d, jobs) /\ (d > 0 => x # d)
    BY <1>0, <1>1, <1>8, <2>1 DEF Old, Given, Fits
  <2>2. \A t \in Sessions : sess'[t].snap[p] \in {0, sess[t].snap[p]}
    BY <1>1, <1>4, <1>6 DEF Keeps
  <2>3. -jobs <= d /\ d <= jobs
    BY <1>0, <1>1 DEF PrintInv, Vouched, Given
  <2> QED BY <1>0, <1>1, <1>2, <1>5, <2>1, <2>2, <2>3, VouchedFresh DEF PrintInv
<1>9. ASSUME NEW q \in Products, disk'[q] = disk[q] PROVE Vouched(q)'
  <2> PICK x : x = print[q]
    OBVIOUS
  <2>1. x \in Int /\ Old(q, x) /\ (disk[q] > 0 /\ x = disk[q] => Settles(q))
        /\ Vouched(q)
    BY DEF TypeOK, PrintInv, Vouched
  <2>2. \A t \in Sessions : Keeps(t) \/ Rests(t, q)
    BY <1>3, <1>4, <1>6 DEF Rests
  <2>3. jobs >= jobs
    BY <1>0
  <2> QED BY <1>0, <1>2, <1>9, <2>1, <2>2, <2>3, VouchedStill
<1>10. disk[p] < 0 \/ disk'[p] = disk[p]
  BY <1>1, <1>5
<1> QED BY <1>1, <1>5, <1>7, <1>8, <1>9, <1>10 DEF PrintInv

LEMMA InsertPrint ==
  ASSUME TypeOK, PrintInv, NEW s \in Sessions, Insert(s)
  PROVE  PrintInv'
<1> DEFINE new == [sess[s] EXCEPT !.at = "commit", !.pend = Load(s)]
<1>1. /\ Become(s, new) /\ ~Blocked(s) /\ UNCHANGED <<disk, row, print, jobs>>
      /\ new.at = "commit" /\ new.of = sess[s].of /\ new.snap = sess[s].snap
      /\ new.pend = Load(s)
  BY DEF Insert, TypeOK, Session, bounds
<1> HIDE DEF new
<1>2. sess'[s] = new /\ \A t \in Sessions \ {s} : Keeps(t)
  BY <1>1, BecomeKeeps
<1>3. \A p \in Products : Load(s)[p] \in {0, disk[p]} /\ Load(s)[p] \in Nat
  BY LoadType DEF Load
<1>4. Alone'
  <2>1. \A t, u \in Sessions :
          sess'[t].of = sess'[u].of => t = u \/ sess'[t].of = 0
    BY <1>1, <1>2 DEF Keeps, PrintInv, Alone
  <2>2. \A t \in Sessions : At(t, "write")' =>
          sess'[t].of # 0 /\ disk'[sess'[t].of] <= 0
    BY <1>1, <1>2 DEF Keeps, PrintInv, Alone, At
  <2>3. ASSUME NEW t \in Sessions \ {s}, At(t, "commit"), NEW p \in Products
        PROVE  Load(s)[p] = 0 \/ sess[t].pend[p] = 0
    <3>1. ~(sess[t].pend[p] > 0 /\ Load(s)[p] > 0)
      BY <1>1, <2>3 DEF Blocked
    <3>2. sess[t].pend[p] \in Nat
      BY SessionTypes
    <3> QED BY <1>3, <3>1, <3>2
  <2>4. \A t, u \in Sessions : At(t, "commit")' /\ At(u, "commit")' =>
          t = u \/ \A p \in Products : sess'[t].pend[p] = 0 \/ sess'[u].pend[p] = 0
    BY <1>1, <1>2, <2>3 DEF Keeps, PrintInv, Alone, At
  <2> QED BY <2>1, <2>2, <2>4 DEF Alone
<1>5. ASSUME NEW p \in Products PROVE Vouched(p)'
  <2>1. Vouched(p) /\ disk[p] \in Int
    BY DEF PrintInv, TypeOK
  <2>2. Settles(p) => Settles(p)'
    BY <1>1, <1>2, <1>3 DEF Settles, Keeps, At
  <2>3. ASSUME NEW t \in Sessions, disk[p] > 0, sess'[t].snap[p] = disk[p]
        PROVE  Carries(t, p)'
    <3>1. CASE t = s
      <4>1. Load(s)[p] = disk[p]
        BY <1>1, <1>2, <2>3, <3>1 DEF Load, Loadable
      <4> QED BY <1>1, <1>2, <3>1, <4>1 DEF Carries, At
    <3>2. CASE t # s
      <4>1. Keeps(t) /\ Carries(t, p)
        BY <1>2, <2>1, <2>3, <3>2 DEF Keeps, Vouched
      <4> QED BY <1>1, <2>2, <4>1 DEF Carries, Keeps, At
    <3> QED BY <3>1, <3>2
  <2>4. \A t \in Sessions : sess'[t].snap = sess[t].snap
    BY <1>1, <1>2 DEF Keeps
  <2> QED BY <1>1, <2>1, <2>2, <2>3, <2>4 DEF Vouched, Old, Given
<1> QED BY <1>4, <1>5 DEF PrintInv

LEMMA CommitPrint ==
  ASSUME TypeOK, PrintInv, NEW s \in Sessions, CommitRows(s)
  PROVE  PrintInv'
<1> DEFINE new == [sess[s] EXCEPT !.at = "record"]
<1>1. /\ Become(s, new) /\ At(s, "commit") /\ UNCHANGED <<disk, print, jobs>>
      /\ new.at = "record" /\ new.of = sess[s].of /\ new.snap = sess[s].snap
      /\ new.pend = sess[s].pend
  BY DEF CommitRows, TypeOK, Session, bounds
<1> HIDE DEF new
<1>2. sess'[s] = new /\ \A t \in Sessions \ {s} : Keeps(t)
  BY <1>1, BecomeKeeps
<1>3. \A p \in Products :
        row'[p].gen = IF sess[s].pend[p] > 0 THEN sess[s].pend[p] ELSE row[p].gen
  BY DEF CommitRows
<1>4. Alone'
  <2>1. \A t, u \in Sessions :
          sess'[t].of = sess'[u].of => t = u \/ sess'[t].of = 0
    BY <1>1, <1>2 DEF Keeps, PrintInv, Alone
  <2>2. \A t \in Sessions : At(t, "write")' =>
          sess'[t].of # 0 /\ disk'[sess'[t].of] <= 0
    BY <1>1, <1>2 DEF Keeps, PrintInv, Alone, At
  <2>3. \A t, u \in Sessions : At(t, "commit")' /\ At(u, "commit")' =>
          t = u \/ \A p \in Products : sess'[t].pend[p] = 0 \/ sess'[u].pend[p] = 0
    BY <1>1, <1>2 DEF Keeps, PrintInv, Alone, At
  <2> QED BY <2>1, <2>2, <2>3 DEF Alone
<1>5. ASSUME NEW p \in Products PROVE Vouched(p)'
  <2>1. Vouched(p) /\ disk[p] \in Int
    BY DEF PrintInv, TypeOK
  <2>2. Settles(p) => Settles(p)'
    BY <1>1, <1>2, <1>3 DEF Settles, Keeps, At
  <2>3. ASSUME NEW t \in Sessions, disk[p] > 0, sess'[t].snap[p] = disk[p]
        PROVE  Carries(t, p)'
    <3>1. CASE t = s
      <4>1. sess[s].pend[p] = disk[p]
        BY <1>1, <1>2, <2>1, <2>3, <3>1 DEF Vouched, Carries
      <4>2. row'[p].gen = disk[p]
        BY <1>3, <2>3, <4>1
      <4>3. \A u \in Sessions : At(u, "commit")' => sess'[u].pend[p] = 0
        <5> SUFFICES ASSUME NEW u \in Sessions, At(u, "commit")'
                     PROVE  sess'[u].pend[p] = 0
          OBVIOUS
        <5>1. u # s /\ Keeps(u) /\ At(u, "commit")
          BY <1>1, <1>2 DEF At, Keeps
        <5> QED BY <1>1, <2>3, <4>1, <5>1 DEF PrintInv, Alone, Keeps
      <4>4. Settles(p)'
        BY <1>1, <4>2, <4>3 DEF Settles
      <4> QED BY <1>1, <1>2, <3>1, <4>4 DEF Carries, At
    <3>2. CASE t # s
      <4>1. Keeps(t) /\ Carries(t, p)
        BY <1>2, <2>1, <2>3, <3>2 DEF Keeps, Vouched
      <4> QED BY <1>1, <2>2, <4>1 DEF Carries, Keeps, At
    <3> QED BY <3>1, <3>2
  <2>4. \A t \in Sessions : sess'[t].snap = sess[t].snap
    BY <1>1, <1>2 DEF Keeps
  <2> QED BY <1>1, <2>1, <2>2, <2>3, <2>4 DEF Vouched, Old, Given
<1> QED BY <1>4, <1>5 DEF PrintInv

LEMMA RecordPrint ==
  ASSUME TypeOK, PrintInv, NEW s \in Sessions, Record(s)
  PROVE  PrintInv'
<1> DEFINE new == [Idle EXCEPT !.at = "sync", !.prune = TRUE]
<1>1. /\ Become(s, new) /\ At(s, "record") /\ UNCHANGED <<disk, row, jobs>>
      /\ new.at = "sync" /\ new.of = 0 /\ new.snap = None
      /\ print' = print \/ print' = sess[s].snap
  BY DEF Record, Idle, bounds, Assigned
<1> HIDE DEF new
<1>2. sess'[s] = new /\ \A t \in Sessions \ {s} : Keeps(t)
  BY <1>1, BecomeKeeps
<1>3. \A p \in Products : Rests(s, p)
  BY <1>1, <1>2 DEF Rests, None
<1>4. Alone'
  <2>1. \A t \in Sessions :
          \/ Keeps(t)
          \/ /\ sess'[t].at \notin {"write", "commit"}
             /\ sess'[t].of \in {0, sess[t].of}
    BY <1>1, <1>2
  <2> QED BY <1>1, <2>1, AloneStill DEF PrintInv
<1>5. ASSUME NEW p \in Products PROVE Vouched(p)'
  <2> PICK x : x = print'[p]
    OBVIOUS
  <2>1. Vouched(p) /\ print[p] \in Int /\ sess[s].snap[p] \in Int /\ jobs \in Nat
        /\ jobs >= jobs
    BY SessionTypes DEF PrintInv
  <2>2. x = print[p] \/ x = sess[s].snap[p]
    BY <1>1
  <2>3. x \in Int /\ Old(p, x)
    BY <2>1, <2>2 DEF Vouched
  <2>4. disk[p] > 0 /\ x = disk[p] => Settles(p)
    BY <1>1, <2>1, <2>2 DEF Vouched, Carries
  <2>5. \A t \in Sessions : Keeps(t) \/ Rests(t, p)
    BY <1>2, <1>3
  <2> QED BY <1>1, <2>1, <2>3, <2>4, <2>5, VouchedStill
<1> QED BY <1>4, <1>5 DEF PrintInv

\* A session that turns to something that PrintInv does not speak of.
LEMMA RestPrint ==
  ASSUME TypeOK, PrintInv, NEW s \in Sessions, NEW new, Become(s, new),
         new.at \notin {"write", "commit", "record"}, new.of \in {0, sess[s].of},
         new.snap \in {None, disk, sess[s].snap},
         UNCHANGED disk, NEW j \in Nat, jobs' = j, j >= jobs,
         \A p \in Products : row'[p].gen \in {row[p].gen, 0},
         \A p \in Products : print'[p] \in {print[p], 0}
  PROVE  PrintInv'
<1>1. sess'[s] = new /\ \A t \in Sessions \ {s} : Keeps(t)
  BY BecomeKeeps
<1>2. \A p \in Products : Rests(s, p)
  BY <1>1 DEF Rests, None
<1>3. \A t \in Sessions :
        \/ Keeps(t)
        \/ /\ sess'[t].at \notin {"write", "commit"}
           /\ sess'[t].of \in {0, sess[t].of}
           /\ \A p \in Products : Rests(t, p)
  BY <1>1, <1>2
<1>4. \A p \in Products : /\ disk'[p] \in {disk[p], 0}
                          /\ row'[p].gen \in {row[p].gen, 0}
                          /\ print'[p] \in {print[p], 0}
  OBVIOUS
<1> QED BY <1>3, <1>4, QuietPrint

LEMMA RestActions ==
  ASSUME TypeOK, PrintInv, NEW s \in Sessions,
         \/ Begin(s) \/ Scan(s) \/ InsertFails(s) \/ SyncRead(s) \/ SyncCommit(s)
         \/ SyncFails(s) \/ RebuildJob(s) \/ BootRead(s) \/ BootRebuilds(s)
         \/ BootSyncs(s) \/ Crash(s)
  PROVE  PrintInv'
<1>0. /\ jobs \in Nat /\ jobs >= jobs /\ jobs + 1 \in Nat /\ jobs + 1 >= jobs
      /\ sess[s] \in Session
  BY DEF TypeOK
<1>1. CASE \/ InsertFails(s) \/ SyncCommit(s) \/ SyncFails(s) \/ BootRebuilds(s)
           \/ Crash(s)
  <2>1. /\ Become(s, [Idle EXCEPT !.at = "begin"]) \/ Become(s, Idle)
        /\ UNCHANGED <<disk, print, jobs>>
    BY <1>1 DEF InsertFails, SyncCommit, SyncFails, BootRebuilds, Crash, bounds
  <2>2. \A p \in Products : row'[p].gen = row[p].gen
    BY <1>1, SyncTables DEF InsertFails, SyncFails, BootRebuilds, Crash
  <2>3. /\ Idle.at = "idle" /\ Idle.of = 0 /\ Idle.snap = None
        /\ [Idle EXCEPT !.at = "begin"].at = "begin"
        /\ [Idle EXCEPT !.at = "begin"].of = 0
        /\ [Idle EXCEPT !.at = "begin"].snap = None
    BY DEF Idle
  <2> QED BY <1>0, <2>1, <2>2, <2>3, RestPrint
<1>2. CASE RebuildJob(s)
  <2> DEFINE new == [Idle EXCEPT !.at = "begin"]
  <2>1. Become(s, new) /\ UNCHANGED <<disk, print, row>> /\ jobs' = jobs + 1
    BY <1>2 DEF RebuildJob
  <2>2. new.at = "begin" /\ new.of = 0 /\ new.snap = None
    BY DEF Idle
  <2> HIDE DEF new
  <2> QED BY <1>0, <2>1, <2>2, RestPrint
<1>3. CASE Begin(s)
  <2> DEFINE new == [Idle EXCEPT !.at = "scan", !.print = print]
  <2>1. Become(s, new) /\ UNCHANGED <<disk, print, row, jobs>>
    BY <1>3 DEF Begin, bounds
  <2>2. new.at = "scan" /\ new.of = 0 /\ new.snap = None
    BY DEF Idle
  <2> HIDE DEF new
  <2> QED BY <1>0, <2>1, <2>2, RestPrint
<1>4. CASE Scan(s)
  <2> DEFINE new == [sess[s] EXCEPT !.at = "empty", !.snap = disk]
  <2>1. Become(s, new) /\ UNCHANGED <<disk, print, row, jobs>>
    BY <1>4 DEF Scan, bounds
  <2>2. new.at = "empty" /\ new.of = sess[s].of /\ new.snap = disk
    BY <1>0 DEF Session
  <2> HIDE DEF new
  <2> QED BY <1>0, <2>1, <2>2, RestPrint
<1>5. CASE SyncRead(s)
  <2> DEFINE r == [p \in Products |-> IF row[p].gen > 0 THEN row[p].label ELSE NoRow]
             new == [sess[s] EXCEPT !.at = "syncing", !.rows = r, !.kept = compat]
  <2>1. Become(s, new) /\ UNCHANGED <<disk, print, row, jobs>>
    BY <1>5 DEF SyncRead, bounds
  <2>2. new.at = "syncing" /\ new.of = sess[s].of /\ new.snap = sess[s].snap
    BY <1>0 DEF Session
  <2> HIDE DEF new
  <2> QED BY <1>0, <2>1, <2>2, RestPrint
<1>6. CASE BootRead(s)
  <2> DEFINE new == [Idle EXCEPT !.at = "boot", !.print = print, !.snap = disk]
  <2>1. Become(s, new) /\ UNCHANGED <<disk, print, row, jobs>>
    BY <1>6 DEF BootRead
  <2>2. new.at = "boot" /\ new.of = 0 /\ new.snap = disk
    BY DEF Idle
  <2> HIDE DEF new
  <2> QED BY <1>0, <2>1, <2>2, RestPrint
<1>7. CASE BootSyncs(s)
  <2> DEFINE new == [Idle EXCEPT !.at = "sync"]
  <2>1. Become(s, new) /\ UNCHANGED <<disk, row, jobs>>
    BY <1>7 DEF BootSyncs, bounds
  <2>2. new.at = "sync" /\ new.of = 0 /\ new.snap = None
    BY DEF Idle
  <2>3. \A p \in Products : print'[p] \in {print[p], 0}
    BY <1>7 DEF BootSyncs, Assigned, NeedsRebuild, Present
  <2> HIDE DEF new
  <2> QED BY <1>0, <2>1, <2>2, <2>3, RestPrint
<1> QED BY <1>1, <1>2, <1>3, <1>4, <1>5, <1>6, <1>7

LEMMA OthersPrint ==
  ASSUME TypeOK, PrintInv,
         \/ UNCHANGED vars \/ CleanDisk
         \/ \E s \in Sessions : Empty(s)
         \/ \E p \in Products : SetLabel(p)
         \/ \E d \in Pairs : CleanRows(d)
  PROVE  PrintInv'
<1>0. jobs \in Nat /\ jobs >= jobs
  BY DEF TypeOK
<1>1. CASE UNCHANGED vars \/ CleanDisk \/ \E p \in Products : SetLabel(p)
  <2>1. sess' = sess /\ jobs' = jobs /\ print' = print
    BY <1>1 DEF vars, program, bounds, CleanDisk, SetLabel
  <2>2. \A t \in Sessions : Keeps(t)
    BY <2>1 DEF Keeps
  <2>3. \A p \in Products : disk'[p] \in {disk[p], 0} /\ row'[p].gen = row[p].gen
    <3>1. ASSUME NEW q \in Products, SetLabel(q)
          PROVE  disk' = disk /\ \A p \in Products : row'[p].gen = row[p].gen
      BY <3>1 DEF SetLabel, TypeOK
    <3>2. CASE UNCHANGED vars
      BY <3>2 DEF vars, program
    <3>3. CASE CleanDisk
      BY <3>3 DEF CleanDisk
    <3> QED BY <1>1, <3>1, <3>2, <3>3
  <2> QED BY <1>0, <2>1, <2>2, <2>3, QuietPrint
<1>2. ASSUME NEW s \in Sessions, Empty(s) PROVE PrintInv'
  <2> DEFINE new == [sess EXCEPT ![s] = [sess[s] EXCEPT !.at = "insert"]]
  <2>0. sess[s] \in Session /\ sess \in [Sessions -> Session]
    BY DEF TypeOK
  <2>1. [sess[s] EXCEPT !.at = "insert"] \in Session
    BY <2>0 DEF Session, Places
  <2>2. new \in [Sessions -> Session] /\ \A t \in Sessions \ {s} : new[t] = sess[t]
    BY <2>0, <2>1
  <2>3. /\ new[s].at = "insert" /\ new[s].of = sess[s].of
        /\ new[s].snap = sess[s].snap
    BY <2>0 DEF Session
  <2>4. Deleted(Products, new) /\ UNCHANGED <<disk, print, jobs>>
        /\ \A p \in Products : row'[p].gen = 0
    BY <1>2 DEF Empty, bounds, Nothing
  <2> HIDE DEF new
  <2>5. \A t \in Sessions \ {s} : Keeps(t)
    BY <2>2, <2>4, DeletedKeeps DEF Keeps
  <2>6. /\ sess'[s].at = "insert" /\ sess'[s].of = sess[s].of
        /\ \A p \in Products : Rests(s, p)
    BY <2>2, <2>3, <2>4, DeletedKeeps DEF Rests
  <2>7. \A t \in Sessions :
          \/ Keeps(t)
          \/ /\ sess'[t].at \notin {"write", "commit"}
             /\ sess'[t].of \in {0, sess[t].of}
             /\ \A p \in Products : Rests(t, p)
    BY <2>5, <2>6
  <2> QED BY <1>0, <2>4, <2>7, QuietPrint
<1>3. ASSUME NEW d \in Pairs, CleanRows(d) PROVE PrintInv'
  <2>1. sess \in [Sessions -> Session] /\ Deleted(OfPair(d), sess)
        /\ UNCHANGED <<disk, print, jobs>>
    BY <1>3 DEF TypeOK, CleanRows
  <2>2. \A t \in Sessions : Keeps(t)
    BY <2>1, DeletedKeeps DEF Keeps
  <2>3. \A p \in Products : row'[p].gen \in {row[p].gen, 0}
    BY <1>3 DEF CleanRows, Nothing
  <2> QED BY <1>0, <2>1, <2>2, <2>3, QuietPrint
<1> QED BY <1>1, <1>2, <1>3

LEMMA PrintStep == TypeOK /\ PrintInv /\ [Next]_vars => PrintInv'
BY PublishPrint, WrittenPrint, InsertPrint, CommitPrint, RecordPrint, RestActions,
   OthersPrint DEF Next, Work

LEMMA PrintInit == Init => PrintInv
<1> SUFFICES ASSUME Init PROVE PrintInv
  OBVIOUS
<1>1. \A s \in Sessions :
        sess[s].at = "idle" /\ sess[s].of = 0 /\ sess[s].snap = None
  BY DEF Init, Idle
<1>2. Alone
  BY <1>1 DEF Alone, At
<1>3. ASSUME NEW p \in Products PROVE Vouched(p)
  <2>1. disk[p] = 0 /\ print[p] = 0 /\ \A s \in Sessions : sess[s].snap[p] = 0
    BY <1>1 DEF Init, None
  <2>2. jobs = 0
    BY DEF Init
  <2> QED BY <2>1, <2>2 DEF Vouched, Old, Given
<1> QED BY <1>2, <1>3 DEF PrintInv

LEMMA CreatedIds ==
  ASSUME TypeOK, NEW s \in Sessions, NEW take \in Takings(s),
         NEW p \in Created(s, take)
  PROVE  ids + Cardinality({q \in Created(s, take) : q <= p}) > ids
<1> DEFINE upto == {q \in Created(s, take) : q <= p}
<1>1. Created(s, take) \subseteq Products
  BY CreatedFinite DEF Seen
<1>2. p \in upto /\ upto \subseteq Products
  <2>1. p \in Products
    BY <1>1
  <2>2. p \in Nat
    BY <2>1, CatalogAssumption
  <2>3. p <= p
    BY <2>2
  <2> QED BY <1>1, <2>1, <2>3
<1>3. IsFiniteSet(upto)
  BY <1>2, CatalogAssumption, FS_Subset
<1>4. Cardinality(upto) \in Nat /\ Cardinality(upto) # 0
  BY <1>2, <1>3, FS_CardinalityType, FS_EmptySet
<1>5. ids \in Nat
  BY DEF TypeOK
<1> HIDE DEF upto
<1>6. ids + Cardinality(upto) > ids
  BY <1>4, <1>5
<1> QED BY <1>6 DEF upto

(***************************************************************************)
(* LabelInv.  Of the rows of the older table each product without one      *)
(* takes the oldest that is left.  So it gets one if it got one where more *)
(* took from no more rows (SomeStillGet, NoneAmongMore); hence whoever     *)
(* creates rows knows the whole table (MissedKnowsAll), and a product that *)
(* was lent a label does not get a row of its own (HeirsGrow).             *)
(***************************************************************************)

LEMMA LeastOf ==
  ASSUME NEW S, S \subseteq Nat, S # {}
  PROVE  \E i \in S : \A j \in S : i <= j
<1> DEFINE R == OpToRel(<, Nat)
<1>1. IsWellFoundedOn(R, Nat)
  BY NatLessThanWellFounded
<1>2. \A i, j \in Nat : <<i, j>> \in R <=> i < j
  BY DEF OpToRel
<1> HIDE DEF R
<1>3. \E i \in S : \A j \in S : ~ (<<j, i>> \in R)
  BY <1>1, WFMin, Zenon
<1> PICK i \in S : \A j \in S : ~ (<<j, i>> \in R)
  BY <1>3
<1>4. ASSUME NEW j \in S PROVE i <= j
  <2>1. i \in Nat /\ j \in Nat
    OBVIOUS
  <2>2. ~(j < i)
    BY <1>2, <2>1
  <2> QED BY <2>1, <2>2
<1> QED BY <1>4

\* Products whose rows have ids of their own.
Numbered(held, table) ==
  /\ held \subseteq Nat \ {0}
  /\ \A p \in held : table[p].id \in Nat
  /\ \A p, q \in held : table[p].id = table[q].id => p = q

\* What a taking gives.
Gives(takers, held, table, f) ==
  \A p \in takers :
    /\ f[p] = 0 => \A q \in held : q > p => \E r \in takers : r < p /\ f[r] = q
    /\ f[p] # 0 =>
         /\ f[p] \in held /\ f[p] > p
         /\ \A r \in takers : r < p => f[r] # f[p]
         /\ \A q \in held :
              \/ ~(q > p) \/ table[f[p]].id <= table[q].id
              \/ \E r \in takers : r < p /\ f[r] = q

LEMMA GreedyGives ==
  ASSUME NEW takers, takers \subseteq Nat, NEW held, NEW table,
         Numbered(held, table), NEW f, Greedy(takers, held, table, f)
  PROVE  Gives(takers, held, table, f)
BY DEF Greedy, Free, Numbered, Gives

\* With more takers, each row is taken by the same product or an earlier one.
TakenBy(T, f, U, g) ==
  \A p \in T : f[p] # 0 => \E r \in U : r <= p /\ g[r] = f[p]

LEMMA TakenByThen ==
  ASSUME NEW U, U \subseteq Nat, NEW T, T \subseteq U,
         NEW held, NEW table, Numbered(held, table),
         NEW f, Greedy(T, held, table, f), NEW g, Greedy(U, held, table, g)
  PROVE  TakenBy(T, f, U, g)
<1>0. T \subseteq Nat /\ Gives(T, held, table, f) /\ Gives(U, held, table, g)
  BY GreedyGives
<1> DEFINE Late == {r \in T : f[r] # 0 /\ ~\E q \in U : q <= r /\ g[q] = f[r]}
<1> SUFFICES ASSUME Late # {} PROVE FALSE
  BY Zenon DEF TakenBy
<1>1. PICK r \in Late : \A q \in Late : r <= q
  BY LeastOf
<1>2. r \in Nat /\ r \in T /\ r \in U /\ f[r] # 0
      /\ \A q \in U : q <= r => g[q] # f[r]
  BY <1>1
<1>3. f[r] \in held /\ f[r] > r
  BY <1>0, <1>2 DEF Gives
<1>4. g[r] # 0 /\ g[r] # f[r]
  <2>1. \A q \in U : q < r => g[q] # f[r]
    BY <1>2
  <2> QED BY <1>0, <1>2, <1>3, <2>1 DEF Gives
<1>5. /\ g[r] \in held /\ g[r] > r /\ table[g[r]].id <= table[f[r]].id
      /\ \A q \in U : q < r => g[q] # g[r]
  BY <1>0, <1>2, <1>3, <1>4 DEF Gives
<1>6. PICK m \in Nat, n \in Nat : table[g[r]].id = m /\ table[f[r]].id = n
  BY <1>3, <1>5 DEF Numbered
<1>7. PICK q \in T : q < r /\ f[q] = g[r]
  <2>1. m # n
    BY <1>3, <1>4, <1>5, <1>6 DEF Numbered
  <2>2. ~(n <= m)
    BY <1>5, <1>6, <2>1
  <2> QED BY <1>0, <1>2, <1>5, <1>6, <2>2 DEF Gives
<1>8. q \notin Late
  BY <1>1, <1>2, <1>7
<1>9. PICK z \in U : z <= q /\ g[z] = g[r]
  BY <1>4, <1>7, <1>8
<1>10. r \in Nat /\ q \in Nat /\ z \in Nat /\ z <= q /\ q < r
  BY <1>2, <1>7, <1>9
<1>11. z < r
  BY <1>10
<1> QED BY <1>5, <1>9, <1>11

\* So who gets none among fewer gets none among more.
LEMMA NoneAmongMore ==
  ASSUME NEW U, U \subseteq Nat, NEW T, T \subseteq U,
         NEW held, NEW table, Numbered(held, table),
         NEW f, Greedy(T, held, table, f), NEW g, Greedy(U, held, table, g),
         NEW p \in T, f[p] = 0
  PROVE  g[p] = 0
<1> SUFFICES ASSUME g[p] # 0 PROVE FALSE
  OBVIOUS
<1>0. T \subseteq Nat /\ Gives(T, held, table, f) /\ Gives(U, held, table, g)
  BY GreedyGives
<1>1. g[p] \in held /\ g[p] > p /\ \A r \in U : r < p => g[r] # g[p]
  BY <1>0 DEF Gives
<1>2. PICK r \in T : r < p /\ f[r] = g[p]
  BY <1>0, <1>1 DEF Gives
<1>3. PICK q \in U : q <= r /\ g[q] = f[r]
  <2>1. TakenBy(T, f, U, g)
    BY TakenByThen
  <2> QED BY <1>2, <2>1 DEF TakenBy
<1>4. q < p
  BY <1>2, <1>3
<1> QED BY <1>1, <1>2, <1>3, <1>4

\* A taking depends on the ids alone.
SameIds(held, table, other) == \A p \in held : table[p].id = other[p].id

LEMMA GreedySame ==
  ASSUME NEW takers, NEW held, 0 \notin held, NEW table, NEW other,
         SameIds(held, table, other), NEW f, Greedy(takers, held, table, f)
  PROVE  Greedy(takers, held, other, f)
<1>1. ASSUME NEW p \in takers, NEW q \in Free(takers, held, f, p),
             f[p] \in Free(takers, held, f, p), table[f[p]].id <= table[q].id
      PROVE  other[f[p]].id <= other[q].id
  <2>1. q \in held /\ f[p] \in held
    BY <1>1 DEF Free
  <2> QED BY <1>1, <2>1 DEF SameIds
<1> QED BY <1>1 DEF Greedy

LEMMA NumberedSame ==
  ASSUME NEW held, NEW table, NEW other, SameIds(held, table, other),
         Numbered(held, table)
  PROVE  Numbered(held, other)
BY DEF SameIds, Numbered

\* If rows are added for some who get none, whoever gets one still does.
StillGet(T, f, g) == \A p \in T : f[p] # 0 => g[p] # 0

LEMMA SomeStillGet ==
  ASSUME NEW T, T \subseteq Nat, NEW held, NEW table, Numbered(held, table),
         NEW f, Greedy(T, held, table, f),
         NEW C, C \subseteq T, \A c \in C : f[c] = 0,
         NEW other, Numbered(held \cup C, other), SameIds(held, table, other),
         \A c \in C, q \in held : other[q].id < other[c].id,
         NEW g, Greedy(T \ C, held \cup C, other, g)
  PROVE  StillGet(T \ C, f, g)
<1> DEFINE Same(r) == IF f[r] # 0 THEN g[r] = f[r] ELSE g[r] \notin held
           Bad == {r \in T \ C : ~Same(r)}
<1>0. /\ Gives(T, held, table, f) /\ Gives(T \ C, held \cup C, other, g)
      /\ T \ C \subseteq Nat
  BY GreedyGives
<1>1. ASSUME Bad # {} PROVE FALSE
  <2>1. PICK p \in Bad : \A r \in Bad : p <= r
    BY <1>0, <1>1, LeastOf
  <2>2. ASSUME NEW r \in T \ C, r < p PROVE Same(r)
    <3>1. r \in Nat /\ p \in Nat
      BY <1>0, <2>1
    <3>2. r \notin Bad
      BY <2>1, <2>2, <3>1
    <3> QED BY <3>2
  <2>3. p \in T \ C /\ p \in T /\ p \in Nat /\ ~Same(p)
    BY <2>1
  <2> HIDE DEF Bad
  <2>4. CASE f[p] = 0
    <3>1. g[p] \in held /\ g[p] # 0 /\ g[p] > p
      BY <1>0, <2>3, <2>4 DEF Gives, Numbered
    <3>2. \A r \in T \ C : r < p => g[r] # g[p]
      BY <1>0, <2>3, <3>1 DEF Gives
    <3>3. PICK r \in T : r < p /\ f[r] = g[p]
      BY <1>0, <2>3, <2>4, <3>1 DEF Gives
    <3>4. r \in T \ C
      BY <3>1, <3>3
    <3> QED BY <2>2, <3>1, <3>2, <3>3, <3>4
  <2>5. CASE f[p] # 0
    <3>1. /\ f[p] \in held /\ f[p] > p
          /\ \A r \in T : r < p => f[r] # f[p]
          /\ \A q \in held : \/ ~(q > p) \/ table[f[p]].id <= table[q].id
                             \/ \E r \in T : r < p /\ f[r] = q
      BY <1>0, <2>3, <2>5 DEF Gives
    <3>2. \A r \in T \ C : r < p => g[r] # f[p]
      BY <2>2, <3>1
    <3>3. g[p] # 0 /\ g[p] # f[p]
      BY <1>0, <2>3, <2>5, <3>1, <3>2 DEF Gives
    <3>4. /\ g[p] \in held \cup C /\ g[p] > p
          /\ \A r \in T \ C : r < p => g[r] # g[p]
          /\ other[g[p]].id <= other[f[p]].id
      <4>1. /\ g[p] \in held \cup C /\ g[p] > p
            /\ \A r \in T \ C : r < p => g[r] # g[p]
            /\ \A q \in held \cup C : \/ ~(q > p) \/ other[g[p]].id <= other[q].id
                                      \/ \E r \in T \ C : r < p /\ g[r] = q
        BY <1>0, <2>3, <3>3 DEF Gives
      <4>2. f[p] \in held \cup C /\ f[p] > p
        BY <3>1
      <4> QED BY <3>2, <4>1, <4>2
    <3>5. PICK m \in Nat, n \in Nat : other[g[p]].id = m /\ other[f[p]].id = n
      BY <3>1, <3>4 DEF Numbered
    <3>6. m # n
      BY <3>1, <3>3, <3>4, <3>5 DEF Numbered
    <3>7. m < n
      BY <3>4, <3>5, <3>6
    <3>8. g[p] \in held
      <4>1. SUFFICES ASSUME g[p] \in C PROVE FALSE
        BY <3>4
      <4>2. n < m
        BY <3>1, <3>5, <4>1
      <4> QED BY <3>7, <4>2
    <3>9. PICK r \in T : r < p /\ f[r] = g[p]
      <4>1. table[g[p]].id = m /\ table[f[p]].id = n
        BY <3>1, <3>5, <3>8 DEF SameIds
      <4>2. ~(n <= m)
        BY <3>7
      <4> QED BY <3>1, <3>4, <3>8, <4>1, <4>2
    <3>10. r \in T \ C
      BY <3>3, <3>9
    <3> QED BY <2>2, <3>3, <3>4, <3>9, <3>10
  <2> QED BY <2>4, <2>5
<1>2. \A r \in T \ C : Same(r)
  BY <1>1
<1>3. \A r \in T \ C : f[r] \in held \cup {0} /\ 0 \notin held
  BY DEF Greedy, Numbered
<1> QED BY <1>2, <1>3 DEF StillGet

\* There is a taking for any products: by the number of the last.
LEMMA GreedyUpto ==
  ASSUME NEW T, T \subseteq Nat, NEW held, NEW table, Numbered(held, table)
  PROVE  \A n \in Nat : \E f : Greedy({r \in T : r < n}, held, table, f)
<1> DEFINE Upto(n) == {r \in T : r < n}
           Bad == {n \in Nat : ~\E f : Greedy(Upto(n), held, table, f)}
<1>1. ASSUME Bad # {} PROVE FALSE
  <2>1. PICK n \in Bad : \A m \in Bad : n <= m
    BY <1>1, LeastOf
  <2>2. n \in Nat /\ ~\E f : Greedy(Upto(n), held, table, f)
    BY <2>1
  <2>3. n # 0
    <3>1. SUFFICES ASSUME n = 0 PROVE FALSE
      OBVIOUS
    <3>2. Upto(n) = {}
      <4>1. \A r \in T : ~(r < 0)
        OBVIOUS
      <4> QED BY <3>1, <4>1
    <3> DEFINE f == [r \in {} |-> 0]
    <3>3. f \in [{} -> held \cup {0}]
      OBVIOUS
    <3>4. Greedy({}, held, table, f)
      BY <3>3 DEF Greedy
    <3> HIDE DEF f
    <3> QED BY <2>2, <3>2, <3>4
  <2> DEFINE m == n - 1
  <2>4. m \in Nat /\ n = m + 1 /\ ~(n <= m)
    BY <2>2, <2>3
  <2> HIDE DEF m
  <2>9. ASSUME NEW r \in T PROVE (r < n <=> r < m \/ r = m) /\ ~(m < m) /\ r \in Nat
    <3>1. r \in Nat
      OBVIOUS
    <3> QED BY <2>4, <3>1
  <2>5. m \notin Bad
    BY <2>1, <2>4
  <2>6. PICK f : Greedy(Upto(m), held, table, f)
    BY <2>4, <2>5
  <2> HIDE DEF Bad
  <2>7. CASE m \notin T
    <3>1. Upto(n) = Upto(m)
      BY <2>7, <2>9
    <3> QED BY <2>2, <2>6, <3>1
  <2>8. CASE m \in T
    <3> DEFINE free == {q \in held : q > m} \ {f[r] : r \in Upto(m)}
               Least(v) == IF free = {} THEN v = 0
                           ELSE v \in free /\ \A q \in free : table[v].id <= table[q].id
    <3>1. PICK v \in held \cup {0} : Least(v)
      <4>1. CASE free # {}
        <5> DEFINE S == {table[q].id : q \in free}
        <5>1. S \subseteq Nat /\ S # {}
          <6>1. \A q \in free : table[q].id \in Nat
            BY DEF Numbered
          <6> HIDE DEF free
          <6> QED BY <4>1, <6>1
        <5>2. PICK i \in S : \A j \in S : i <= j
          BY <5>1, LeastOf
        <5> QED BY <4>1, <5>2
      <4> QED BY <4>1
    <3> DEFINE g == [r \in Upto(n) |-> IF r = m THEN v ELSE f[r]]
    <3>2. f \in [Upto(m) -> held \cup {0}]
      BY <2>6 DEF Greedy
    <3>3. Upto(n) = Upto(m) \cup {m} /\ m \notin Upto(m) /\ Upto(m) \subseteq Nat
      BY <2>8, <2>9
    <3>4. /\ g \in [Upto(n) -> held \cup {0}] /\ g[m] = v
          /\ \A r \in Upto(m) : g[r] = f[r]
      BY <3>2, <3>3
    <3> HIDE DEF g
    <3>5. ASSUME NEW p \in Upto(m)
          PROVE  Free(Upto(n), held, g, p) = Free(Upto(m), held, f, p)
      <4>1. {r \in Upto(n) : r < p} = {r \in Upto(m) : r < p}
        BY <2>4, <3>3
      <4> QED BY <3>4, <4>1 DEF Free
    <3>6. Free(Upto(n), held, g, m) = free
      <4>1. {r \in Upto(n) : r < m} = Upto(m)
        BY <2>4, <3>3
      <4> QED BY <3>4, <4>1 DEF Free
    <3>7. ASSUME NEW p \in Upto(n)
          PROVE  IF Free(Upto(n), held, g, p) = {} THEN g[p] = 0
                 ELSE /\ g[p] \in Free(Upto(n), held, g, p)
                      /\ \A q \in Free(Upto(n), held, g, p) : table[g[p]].id <= table[q].id
      <4>1. CASE p = m
        BY <3>1, <3>4, <3>6, <4>1
      <4>2. CASE p # m
        <5>1. p \in Upto(m)
          BY <3>3, <4>2
        <5> QED BY <2>6, <3>4, <3>5, <5>1 DEF Greedy
      <4> QED BY <4>1, <4>2
    <3>8. Greedy(Upto(n), held, table, g)
      BY <3>4, <3>7 DEF Greedy
    <3> QED BY <2>2, <3>8
  <2> QED BY <2>7, <2>8
<1> QED BY <1>1

\* The products have a last one: a set of products with none would be infinite.
LEMMA ProductsBounded == \E n \in Nat : \A p \in Products : p < n
<1> DEFINE Unbounded(S) == ~\E n \in Nat : \A p \in S : p < n
           Sizes == {Cardinality(S) : S \in {S \in SUBSET Products : Unbounded(S)}}
<1>1. SUFFICES ASSUME Unbounded(Products) PROVE FALSE
  OBVIOUS
<1>2. \A S \in SUBSET Products : IsFiniteSet(S) /\ Cardinality(S) \in Nat
  BY CatalogAssumption, FS_Subset, FS_CardinalityType
<1>3. PICK i \in Sizes : \A j \in Sizes : i <= j
  <2>1. Sizes \subseteq Nat /\ Sizes # {}
    BY <1>1, <1>2
  <2> QED BY <2>1, LeastOf
<1>4. PICK S \in SUBSET Products : Unbounded(S) /\ i = Cardinality(S)
  BY <1>3
<1>5. PICK p \in S : TRUE
  <2>1. S # {}
    BY <1>4
  <2> QED BY <2>1
<1> DEFINE rest == S \ {p}
<1>6. /\ rest \in SUBSET Products /\ Cardinality(rest) = i - 1
      /\ i \in Nat /\ Cardinality(rest) \in Nat
  BY <1>2, <1>4, <1>5, FS_RemoveElement
<1>7. ~Unbounded(rest)
  <2>1. SUFFICES ASSUME Unbounded(rest) PROVE FALSE
    OBVIOUS
  <2>2. Cardinality(rest) \in Sizes
    BY <1>6, <2>1
  <2>3. i <= Cardinality(rest)
    BY <1>3, <2>2
  <2> HIDE DEF rest
  <2> QED BY <1>6, <2>3
<1>8. PICK n \in Nat : \A q \in rest : q < n
  BY <1>7
<1>9. p \in Nat /\ S \subseteq Nat
  BY <1>5, CatalogAssumption
<1>10. \A q \in S : q < n + p + 1
  BY <1>8, <1>9
<1> QED BY <1>4, <1>8, <1>9, <1>10

LEMMA GreedyExists ==
  ASSUME NEW T, T \subseteq Products, NEW held, NEW table, Numbered(held, table)
  PROVE  \E f : Greedy(T, held, table, f)
<1>1. PICK n \in Nat : \A p \in Products : p < n
  BY ProductsBounded
<1>2. {r \in T : r < n} = T /\ T \subseteq Nat
  BY <1>1, CatalogAssumption
<1>3. \E f : Greedy({r \in T : r < n}, held, table, f)
  BY <1>2, GreedyUpto
<1> QED BY <1>2, <1>3

(***************************************************************************)
(* What a synchronisation does to a quiet pair.                            *)
(***************************************************************************)

TakersOf(s, d) == SeenOf(s, d) \ KnownOf(s, d)
InPairOf(s, d, take) == [p \in TakersOf(s, d) |-> take[p]]

LEMMA TakingGreedy ==
  ASSUME TypeOK, NEW s \in Sessions, NEW take \in Takings(s), NEW d \in Pairs,
         KnownOf(s, d) \subseteq SeenOf(s, d) \/ TakersOf(s, d) = {}
  PROVE  Greedy(TakersOf(s, d), KnownOf(s, d), sess[s].kept, InPairOf(s, d, take))
<1> DEFINE f == InPairOf(s, d, take)
           kept == sess[s].kept
<1>1. /\ take \in [Seen(s) \ Known(s) -> Products \cup {0}] /\ Taking(s, take)
      /\ DOMAIN take = Seen(s) \ Known(s)
      /\ Seen(s) \subseteq Products /\ Known(s) \subseteq Products
      /\ Products \subseteq Nat \ {0}
  BY CatalogAssumption DEF Takings, Seen, Known
<1>2. ASSUME NEW p \in TakersOf(s, d)
      PROVE  /\ f[p] = take[p] /\ p \in DOMAIN take /\ PairOf[p] = d
             /\ p \in Products /\ p \in Nat /\ p \notin Known(s)
  BY <1>1 DEF InPairOf, TakersOf, SeenOf, KnownOf, OfPair
<1>3. ASSUME NEW r \in DOMAIN take, take[r] # 0
      PROVE  take[r] \in Known(s) /\ PairOf[r] = PairOf[take[r]]
  <2>1. take[r] \in Unused(s, take, r)
    BY <1>1, <1>3 DEF Taking
  <2> QED BY <2>1 DEF Unused, Alike
<1>4. ASSUME NEW p \in TakersOf(s, d)
      PROVE  Unused(s, take, p) = Free(TakersOf(s, d), KnownOf(s, d), f, p)
  <2>1. ASSUME NEW q \in Unused(s, take, p)
        PROVE  q \in Free(TakersOf(s, d), KnownOf(s, d), f, p)
    <3>1. /\ q \in Known(s) /\ q # p /\ PairOf[q] = PairOf[p]
          /\ ~(q \in Seen(s) /\ q < p)
          /\ q \notin {take[r] : r \in {r \in DOMAIN take : r < p}}
      BY <2>1 DEF Unused, Alike
    <3>2. q \in KnownOf(s, d) /\ q \in Nat
      BY <1>1, <1>2, <3>1 DEF KnownOf, OfPair
    <3>3. q \in Seen(s)
      BY <3>2 DEF SeenOf
    <3>4. q > p
      BY <1>2, <3>1, <3>2, <3>3
    <3>5. q \notin {f[r] : r \in {r \in TakersOf(s, d) : r < p}}
      BY <1>2, <3>1
    <3> QED BY <3>2, <3>4, <3>5 DEF Free
  <2>2. ASSUME NEW q \in Free(TakersOf(s, d), KnownOf(s, d), f, p)
        PROVE  q \in Unused(s, take, p)
    <3>1. /\ q \in KnownOf(s, d) /\ q > p
          /\ q \notin {f[r] : r \in {r \in TakersOf(s, d) : r < p}}
      BY <2>2 DEF Free
    <3>2. q \in Known(s) /\ PairOf[q] = d /\ q \in Nat /\ q # 0
      BY <1>1, <3>1 DEF KnownOf, OfPair
    <3>3. q # p /\ ~(q < p)
      BY <1>2, <3>1, <3>2
    <3>4. ASSUME NEW r \in DOMAIN take, r < p, q = take[r] PROVE FALSE
      <4>1. PairOf[r] = d /\ r \in Seen(s) \ Known(s) /\ r \in Products
        BY <1>1, <1>3, <3>2, <3>4
      <4>2. r \in TakersOf(s, d)
        BY <4>1 DEF TakersOf, SeenOf, KnownOf, OfPair
      <4> QED BY <1>2, <3>1, <3>4, <4>2
    <3> QED BY <1>2, <3>2, <3>3, <3>4 DEF Unused, Alike
  <2> QED BY <2>1, <2>2
<1>5. f \in [TakersOf(s, d) -> KnownOf(s, d) \cup {0}]
  <2>1. ASSUME NEW p \in TakersOf(s, d) PROVE f[p] \in KnownOf(s, d) \cup {0}
    <3>1. take[p] # 0 => take[p] \in Known(s) /\ PairOf[take[p]] = d
      BY <1>2, <1>3
    <3> QED BY <1>1, <1>2, <3>1 DEF KnownOf, OfPair
  <2> QED BY <2>1 DEF InPairOf
<1>6. ASSUME NEW p \in TakersOf(s, d)
      PROVE  LET free == Free(TakersOf(s, d), KnownOf(s, d), f, p) IN
             IF free = {} THEN f[p] = 0
             ELSE f[p] \in free /\ \A q \in free : kept[f[p]].id <= kept[q].id
  <2>1. LET unused == Unused(s, take, p) IN
        IF unused = {} THEN take[p] = 0
        ELSE take[p] \in unused /\ \A q \in unused : kept[take[p]].id <= kept[q].id
    BY <1>1, <1>2 DEF Taking
  <2>2. f[p] = take[p]
    BY <1>2
  <2> HIDE DEF f
  <2> QED BY <1>4, <2>1, <2>2
<1> HIDE DEF f, kept
<1>7. Greedy(TakersOf(s, d), KnownOf(s, d), kept, f)
  BY <1>5, <1>6 DEF Greedy
<1> QED BY <1>7 DEF f, kept

\* No row of the older table is moved or pruned, and the rows that are created
\* are those of the products to which the taking of the pair gives none.
LEMMA QuietTaking ==
  ASSUME CoverInv, NEW s \in Sessions, At(s, "syncing"), NEW take \in Takings(s),
         NEW d \in Pairs, Quiet(d)
  PROVE  /\ Greedy(TakersOf(s, d), KnownOf(s, d), sess[s].kept, InPairOf(s, d, take))
         /\ \A p \in OfPair(d) :
              /\ p \notin Moved(s, take) \cup Left(s, take) \cup Pruned(s, take)
              /\ p \in Created(s, take)
                   <=> p \in TakersOf(s, d) /\ InPairOf(s, d, take)[p] = 0
         /\ \A p \in TakersOf(s, d) : InPairOf(s, d, take)[p] = take[p]
<1>1. /\ take \in [Seen(s) \ Known(s) -> Products \cup {0}] /\ Taking(s, take)
      /\ DOMAIN take = Seen(s) \ Known(s)
      /\ Seen(s) \subseteq Products /\ Known(s) \subseteq Products
  BY DEF Takings, Seen, Known
<1>2. sess[s].prune \/ Seen(s) # {} => KnownOf(s, d) \subseteq SeenOf(s, d)
  <2>1. ReadCovers(s)
    BY DEF CoverInv, Covered, Quiet
  <2> QED BY <2>1 DEF ReadCovers, Quiet, KnownOf, SeenOf
<1>3. KnownOf(s, d) \subseteq SeenOf(s, d) \/ TakersOf(s, d) = {}
  BY <1>2 DEF TakersOf, SeenOf
<1>4. Greedy(TakersOf(s, d), KnownOf(s, d), sess[s].kept, InPairOf(s, d, take))
  BY <1>3, TakingGreedy DEF CoverInv
<1>5. ASSUME NEW p \in OfPair(d)
      PROVE  p \in Created(s, take)
               <=> p \in TakersOf(s, d) /\ InPairOf(s, d, take)[p] = 0
  BY <1>1 DEF Created, TakersOf, InPairOf, SeenOf, KnownOf
<1>6. ASSUME NEW p \in Moved(s, take), PairOf[p] = d \/ PairOf[take[p]] = d
      PROVE  FALSE
  <2>1. p \in DOMAIN take /\ take[p] # 0 /\ take[p] \notin Seen(s)
    BY DEF Moved
  <2>2. take[p] \in Unused(s, take, p)
    BY <1>1, <2>1 DEF Taking
  <2>3. take[p] \in Known(s) /\ PairOf[take[p]] = d
    BY <1>6, <2>2 DEF Unused, Alike
  <2>4. take[p] \in KnownOf(s, d) /\ Seen(s) # {}
    BY <1>1, <2>1, <2>3 DEF KnownOf, OfPair
  <2> QED BY <1>2, <2>1, <2>4 DEF SeenOf
<1>7. ASSUME NEW p \in OfPair(d)
      PROVE  p \notin Moved(s, take) \cup Left(s, take) \cup Pruned(s, take)
  <2>1. p \notin Moved(s, take) \cup Left(s, take)
    BY <1>6 DEF OfPair, Left
  <2>2. p \notin Pruned(s, take)
    BY <1>2 DEF Pruned, KnownOf, SeenOf
  <2> QED BY <2>1, <2>2
<1>8. \A p \in TakersOf(s, d) : InPairOf(s, d, take)[p] = take[p]
  BY DEF InPairOf
<1> QED BY <1>4, <1>5, <1>7, <1>8

(***************************************************************************)
(* What a step leaves alone.                                               *)
(***************************************************************************)

LEMMA HeirsSame ==
  ASSUME NEW rows, NEW held, 0 \notin held, NEW table, NEW other,
         SameIds(held, table, other)
  PROVE  /\ Heirs(rows, held, table) = Heirs(rows, held, other)
         /\ Orphans(rows, held, table) = Orphans(rows, held, other)
<1>1. SameIds(held, other, table)
  BY DEF SameIds
<1>2. \A f : Greedy(rows \ held, held, table, f) <=> Greedy(rows \ held, held, other, f)
  BY <1>1, GreedySame
<1> QED BY <1>2 DEF Heirs, Orphans

LEMMA PairNumbered ==
  ASSUME TypeOK, NEW d \in Pairs, PairInv(d)
  PROVE  Numbered(HeldOf(d), compat)
<1>1. HeldOf(d) \subseteq Products
  BY DEF HeldOf, OfPair
<1> QED BY <1>1, CatalogAssumption DEF TypeOK, PairInv, Numbered

LEMMA ReadNumbered ==
  ASSUME TypeOK, NEW d \in Pairs, PairInv(d), NEW s \in Sessions, At(s, "syncing")
  PROVE  /\ KnownOf(s, d) \subseteq HeldOf(d)
         /\ SameIds(KnownOf(s, d), sess[s].kept, compat)
         /\ Numbered(KnownOf(s, d), sess[s].kept)
         /\ Numbered(KnownOf(s, d), compat)
<1>1. \A p \in KnownOf(s, d) : compat[p].id = sess[s].kept[p].id
  BY DEF PairInv, ReadInv, ReadHeld
<1>2. KnownOf(s, d) \subseteq HeldOf(d)
  BY <1>1 DEF KnownOf, Known, HeldOf
<1>3. SameIds(KnownOf(s, d), sess[s].kept, compat)
      /\ SameIds(KnownOf(s, d), compat, sess[s].kept)
  BY <1>1 DEF SameIds
<1>4. Numbered(KnownOf(s, d), compat)
  BY <1>2, PairNumbered DEF Numbered
<1> QED BY <1>2, <1>3, <1>4, NumberedSame

\* The labels that were given keep their owners.
OwnersStay ==
  /\ labels \in Nat /\ labels' \in Nat /\ labels <= labels'
  /\ \A n \in 1..labels : owner'[n] = owner[n]

LEMMA OwnersSame ==
  ASSUME TypeOK, UNCHANGED <<labels, owner>>
  PROVE  OwnersStay
BY DEF TypeOK, OwnersStay

LEMMA LabelStill ==
  ASSUME OwnersStay, NEW n \in Int, NEW p, InPair(n, p)
  PROVE  /\ InPair(n, p)'
         /\ Own(n, p) => Own(n, p)'
         /\ \A heirs, more : heirs \subseteq more /\ Lent(n, p, heirs) => Lent(n, p, more)'
<1>1. n > 0 => n <= labels' /\ owner'[n] = owner[n]
  <2> SUFFICES ASSUME n > 0 PROVE n <= labels' /\ owner'[n] = owner[n]
    OBVIOUS
  <2>1. n <= labels
    BY DEF InPair
  <2>2. n \in 1..labels
    BY <2>1 DEF OwnersStay
  <2>3. n <= labels'
    <3> PICK l \in Nat, m \in Nat : labels = l /\ labels' = m
      BY DEF OwnersStay
    <3> QED BY <2>1 DEF OwnersStay
  <2> QED BY <2>2, <2>3 DEF OwnersStay
<1> QED BY <1>1 DEF InPair, Own, Lent

\* t goes on with what it has read.
Reads(t) ==
  At(t, "syncing") /\ sess'[t].rows = sess[t].rows /\ sess'[t].kept = sess[t].kept

LEMMA ReadsSame ==
  ASSUME NEW t, NEW d, Reads(t)
  PROVE  /\ SeenOf(t, d)' = SeenOf(t, d) /\ KnownOf(t, d)' = KnownOf(t, d)
         /\ HeirsRead(t, d)' = HeirsRead(t, d) /\ OrphansRead(t, d)' = OrphansRead(t, d)
         /\ sess'[t].kept = sess[t].kept
<1>1. SeenOf(t, d)' = SeenOf(t, d) /\ KnownOf(t, d)' = KnownOf(t, d)
  BY DEF Reads, SeenOf, KnownOf, Seen, Known, OfPair
<1> QED BY <1>1 DEF Reads, HeirsRead, OrphansRead

LEMMA ReadOwnStill ==
  ASSUME TypeOK, OwnersStay, NEW t \in Sessions, InPairRead(t), Reads(t),
         NEW d \in Pairs, ReadOwn(t, d)
  PROVE  ReadOwn(t, d)'
<1> SUFFICES ASSUME NEW p \in OfPair(d)
             PROVE  /\ Own(sess[t].kept[p].label, p)'
                    /\ Lent(sess[t].rows[p], p, HeirsRead(t, d))'
  BY DEF ReadOwn, OfPair
<1>1. p \in Products
  BY DEF OfPair
<1>2. sess[t].kept[p].label \in Int /\ sess[t].rows[p] \in Int
  <2>1. sess[t] \in Session
    BY DEF TypeOK
  <2> QED BY <1>1, <2>1 DEF Session, NoRow
<1>3. InPair(sess[t].kept[p].label, p) /\ InPair(sess[t].rows[p], p)
  BY <1>1 DEF InPairRead, Reads
<1>4. Own(sess[t].kept[p].label, p) /\ Lent(sess[t].rows[p], p, HeirsRead(t, d))
  BY DEF ReadOwn
<1>5. PICK n \in Int, m \in Int : n = sess[t].kept[p].label /\ m = sess[t].rows[p]
  BY <1>2
<1>6. PICK heirs : heirs = HeirsRead(t, d) OBVIOUS
<1>7. Own(n, p)' /\ Lent(m, p, heirs)'
  <2>1. heirs \subseteq heirs
    OBVIOUS
  <2> QED BY <1>3, <1>4, <1>5, <1>6, <2>1, LabelStill
<1>8. /\ n = sess'[t].kept[p].label /\ m = sess'[t].rows[p]
      /\ heirs = HeirsRead(t, d)'
  BY <1>5, <1>6, ReadsSame DEF Reads
<1> QED BY <1>7, <1>8 DEF Own, Lent

LEMMA InPairReadStill ==
  ASSUME TypeOK, OwnersStay, NEW t \in Sessions, InPairRead(t),
         At(t, "syncing")', Reads(t)
  PROVE  InPairRead(t)'
<1> SUFFICES ASSUME NEW p \in Products
             PROVE  InPair(sess[t].rows[p], p)' /\ InPair(sess[t].kept[p].label, p)'
  BY DEF InPairRead
<1>1. sess[t].kept[p].label \in Int /\ sess[t].rows[p] \in Int
  <2>1. sess[t] \in Session
    BY DEF TypeOK
  <2> QED BY <2>1 DEF Session, NoRow
<1>2. PICK n \in Int, m \in Int : n = sess[t].kept[p].label /\ m = sess[t].rows[p]
  BY <1>1
<1>3. InPair(n, p)' /\ InPair(m, p)'
  BY <1>2, LabelStill DEF InPairRead, Reads
<1> QED BY <1>2, <1>3 DEF Reads, InPair

\* Who has rows in the two tables, under which ids.
Presence(d) ==
  \A p \in OfPair(d) : compat'[p].id = compat[p].id /\ row'[p].gen = row[p].gen

LEMMA HeirsStill ==
  ASSUME NEW d \in Pairs, Presence(d)
  PROVE  /\ RowsOf(d)' = RowsOf(d) /\ HeldOf(d)' = HeldOf(d)
         /\ HeirsNow(d)' = HeirsNow(d)
<1>1. RowsOf(d)' = RowsOf(d) /\ HeldOf(d)' = HeldOf(d)
  BY DEF Presence, RowsOf, HeldOf, OfPair
<1>2. PICK other : other = compat'
  OBVIOUS
<1>3. SameIds(HeldOf(d), compat, other)
  BY <1>2 DEF Presence, SameIds, HeldOf
<1>4. 0 \notin HeldOf(d)
  BY CatalogAssumption DEF HeldOf, OfPair
<1>5. Heirs(RowsOf(d), HeldOf(d), compat) = Heirs(RowsOf(d), HeldOf(d), other)
  BY <1>3, <1>4, HeirsSame
<1> QED BY <1>1, <1>2, <1>5 DEF HeirsNow

\* The readers of d go on, and no more rows of d are gone.
ReadersStay(d) ==
  \A t \in Sessions :
    At(t, "syncing")' =>
      Reads(t) /\ sess'[t].gone \cap OfPair(d) = sess[t].gone \cap OfPair(d)

LEMMA ReadStill ==
  ASSUME TypeOK, NEW d \in Pairs, OwnersStay, Presence(d), NEW t \in Sessions,
         ReadInv(t, d), InPairRead(t), Reads(t),
         sess'[t].gone \cap OfPair(d) = sess[t].gone \cap OfPair(d)
  PROVE  ReadInv(t, d)'
<1>2. ReadOwn(t, d)'
  BY ReadOwnStill DEF ReadInv
<1>3. /\ SeenOf(t, d)' = SeenOf(t, d) /\ KnownOf(t, d)' = KnownOf(t, d)
      /\ HeirsRead(t, d)' = HeirsRead(t, d) /\ OrphansRead(t, d)' = OrphansRead(t, d)
      /\ sess'[t].kept = sess[t].kept
  BY ReadsSame
<1>4. /\ RowsOf(d)' = RowsOf(d) /\ HeldOf(d)' = HeldOf(d)
      /\ HeirsNow(d)' = HeirsNow(d)
  BY HeirsStill
<1>5. ReadHeld(t, d)'
  <2>1. KnownOf(t, d) \subseteq OfPair(d)
    BY DEF KnownOf
  <2> QED BY <1>3, <2>1 DEF ReadInv, ReadHeld, Presence
<1>6. ReadLast(t, d)'
  BY <1>3, <1>4 DEF ReadInv, ReadLast
<1>7. ReadRows(t, d)'
  <2>1. SeenOf(t, d) \subseteq OfPair(d)
    BY DEF SeenOf
  <2> QED BY <1>3, <1>4, <2>1 DEF ReadInv, ReadRows
<1> QED BY <1>2, <1>5, <1>6, <1>7 DEF ReadInv

LEMMA ComparedStill ==
  ASSUME NEW d \in Pairs, PairInv(d), NEW s \in Sessions, NEW t \in Sessions,
         Reads(s), Reads(t)
  PROVE  Compared(s, t, d)'
<1>1. SeenOf(s, d)' = SeenOf(s, d) /\ SeenOf(t, d)' = SeenOf(t, d)
  BY ReadsSame
<1> QED BY <1>1 DEF Reads, PairInv, Compared

\* A step after which every label is where it was, or with its owner.
LEMMA PairStill ==
  ASSUME TypeOK, LabelInv, NEW d \in Pairs, PairInv(d), OwnersStay, Presence(d),
         ReadersStay(d),
         \A p \in OfPair(d) :
           /\ compat'[p].label = compat[p].label \/ Own(compat[p].label, p)'
           /\ \/ row'[p].label = row[p].label
              \/ row[p].gen # 0 /\ Own(row[p].label, p)'
  PROVE  PairInv(d)'
<1>1. /\ HeldOf(d)' = HeldOf(d) /\ HeirsNow(d)' = HeirsNow(d)
  BY HeirsStill
<1>2. \A p, q \in HeldOf(d)' : compat'[p].id = compat'[q].id => p = q
  <2>1. HeldOf(d) \subseteq OfPair(d)
    BY DEF HeldOf
  <2> QED BY <1>1, <2>1 DEF PairInv, Presence
<1>3. ASSUME NEW p \in OfPair(d)
      PROVE  /\ Own(compat[p].label, p)' /\ Lent(row[p].label, p, HeirsNow(d))'
             /\ row'[p].gen = 0 => row'[p].label = 0
  <2>1. p \in Products
    BY DEF OfPair
  <2>2. PICK m \in Int, n \in Int : m = compat[p].label /\ n = row[p].label
    <3>1. compat[p].label \in Int /\ row[p].label \in Int
      BY <2>1 DEF TypeOK
    <3> QED BY <3>1
  <2>3. PICK heirs : heirs = HeirsNow(d) OBVIOUS
  <2>4. /\ InPair(m, p) /\ InPair(n, p) /\ Own(m, p) /\ Lent(n, p, heirs)
        /\ row[p].gen = 0 => n = 0
    BY <2>1, <2>2, <2>3 DEF LabelInv, PairInv, TablesOwn
  <2>5. Own(m, p)' /\ Lent(n, p, heirs)'
    BY <2>4, LabelStill
  <2>6. Own(compat[p].label, p)'
    BY <2>2, <2>5 DEF Own
  <2>7. Lent(row[p].label, p, HeirsNow(d))'
    BY <1>1, <2>2, <2>3, <2>5 DEF Own, Lent
  <2>8. row'[p].gen = 0 => row'[p].label = 0
    BY <2>2, <2>4 DEF Presence
  <2> QED BY <2>6, <2>7, <2>8
<1>4. TablesOwn(d)'
  BY <1>3 DEF TablesOwn, OfPair
<1>5. \A t \in Sessions : At(t, "syncing")' =>
        /\ ReadInv(t, d)'
        /\ \A s \in Sessions : At(s, "syncing")' => Compared(t, s, d)'
  <2> SUFFICES ASSUME NEW t \in Sessions, At(t, "syncing")'
               PROVE  /\ ReadInv(t, d)'
                      /\ \A s \in Sessions : At(s, "syncing")' => Compared(t, s, d)'
    OBVIOUS
  <2>1. ReadInv(t, d) /\ InPairRead(t) /\ Reads(t)
    BY DEF LabelInv, PairInv, ReadersStay, Reads
  <2>2. ReadInv(t, d)'
    BY <2>1, ReadStill DEF ReadersStay
  <2> QED BY <2>1, <2>2, ComparedStill DEF ReadersStay
<1> QED BY <1>2, <1>4, <1>5 DEF PairInv

\* The rows are deleted, or new ones come after that.
LEMMA RowsGone ==
  ASSUME TypeOK, LabelInv, NEW d \in Pairs, PairInv(d),
         UNCHANGED <<compat, owner, labels>>,
         \A p \in OfPair(d) : row'[p].label = 0,
         \A t \in Sessions :
           At(t, "syncing")' => Reads(t) /\ SeenOf(t, d) \subseteq sess'[t].gone
  PROVE  PairInv(d)'
<1>1. HeldOf(d)' = HeldOf(d)
  BY DEF HeldOf, OfPair
<1>2. OwnersStay
  BY OwnersSame
<1>3. TablesOwn(d)'
  BY DEF PairInv, TablesOwn, Own, Lent, OfPair
<1>4. ASSUME NEW t \in Sessions, At(t, "syncing")'
      PROVE  /\ ReadInv(t, d)'
             /\ \A s \in Sessions : At(s, "syncing")' => Compared(t, s, d)'
  <2>1. ReadInv(t, d) /\ InPairRead(t) /\ Reads(t) /\ At(t, "syncing")
    BY <1>4 DEF LabelInv, PairInv, Reads
  <2>2. ReadOwn(t, d)'
    BY <1>2, <2>1, ReadOwnStill DEF ReadInv
  <2>3. /\ SeenOf(t, d)' = SeenOf(t, d) /\ KnownOf(t, d)' = KnownOf(t, d)
        /\ OrphansRead(t, d)' = OrphansRead(t, d)
        /\ sess'[t].kept = sess[t].kept
    BY <2>1, ReadsSame
  <2>4. ReadHeld(t, d)' /\ ReadLast(t, d)'
    BY <1>1, <2>1, <2>3 DEF ReadInv, ReadHeld, ReadLast
  <2>5. ReadRows(t, d)'
    BY <1>4, <2>3 DEF ReadRows
  <2>6. \A s \in Sessions : At(s, "syncing")' => Compared(t, s, d)'
    BY <2>1, ComparedStill
  <2> QED BY <2>2, <2>4, <2>5, <2>6 DEF ReadInv
<1>5. \A p, q \in HeldOf(d)' : compat'[p].id = compat'[q].id => p = q
  BY <1>1 DEF PairInv
<1> QED BY <1>3, <1>4, <1>5 DEF PairInv

(***************************************************************************)
(* The steps of the sessions.                                              *)
(***************************************************************************)

LEMMA SeenAreRows ==
  ASSUME CoverInv, NEW t \in Sessions, At(t, "syncing"), NEW d \in Pairs, Quiet(d),
         RowsOf(d) # {}
  PROVE  SeenOf(t, d) \subseteq RowsOf(d)
<1> SUFFICES ASSUME NEW p \in SeenOf(t, d) PROVE p \in RowsOf(d)
  OBVIOUS
<1>1. Rows # {}
  BY DEF RowsOf, Rows, OfPair
<1>2. RowsCover
  BY <1>1 DEF CoverInv, Covered, Quiet
<1>3. Indexed(p) /\ p \in Products /\ p \in OfPair(d)
  BY DEF SeenOf, Seen, Indexed
<1> QED BY <1>2, <1>3 DEF RowsCover, RowsOf, Quiet

LEMMA ReadPair ==
  ASSUME CoverInv, LabelInv, NEW s \in Sessions, SyncRead(s),
         NEW d \in Pairs, Quiet(d), PairInv(d)
  PROVE  PairInv(d)'
<1> DEFINE r == [p \in Products |-> IF row[p].gen > 0 THEN row[p].label ELSE NoRow]
           new == [sess[s] EXCEPT !.at = "syncing", !.rows = r, !.kept = compat]
<1>0. TypeOK /\ UNCHANGED <<row, compat, labels, owner>> /\ At(s, "sync")
  BY DEF CoverInv, SyncRead, bounds, history
<1>1. /\ sess'[s] = new
      /\ \A t \in Sessions \ {s} : sess'[t] = sess[t]
  BY <1>0 DEF SyncRead, Become, TypeOK
<1>2. /\ sess'[s].at = "syncing" /\ sess'[s].rows = r /\ sess'[s].kept = compat
      /\ sess'[s].gone = {}
  <2>1. sess[s] \in Session /\ sess[s].gone = {}
    BY <1>0 DEF TypeOK, LabelInv, InPairRead, At
  <2> HIDE DEF r
  <2> QED BY <1>1, <2>1 DEF Session
<1>3. OwnersStay /\ Presence(d)
  BY <1>0, OwnersSame DEF Presence
<1>4. /\ RowsOf(d)' = RowsOf(d) /\ HeldOf(d)' = HeldOf(d)
      /\ HeirsNow(d)' = HeirsNow(d)
  BY <1>3, HeirsStill
<1>5. \A p \in Products :
        sess'[s].rows[p] = IF row[p].gen > 0 THEN row[p].label ELSE NoRow
  BY <1>2
<1>6. SeenOf(s, d)' = RowsOf(d)
  <2>1. \A p \in Products : row[p].label # NoRow
    BY <1>0 DEF TypeOK, NoRow
  <2> QED BY <1>5, <2>1 DEF SeenOf, Seen, RowsOf, OfPair
<1>7. KnownOf(s, d)' = HeldOf(d)
  BY <1>2 DEF KnownOf, Known, HeldOf, OfPair
<1>8. HeirsRead(s, d)' = HeirsNow(d)
  BY <1>2, <1>6, <1>7 DEF HeirsRead, HeirsNow
<1>9. ReadInv(s, d)'
  <2>1. ASSUME NEW p \in OfPair(d)
        PROVE  Own(sess[s].kept[p].label, p)' /\ Lent(sess[s].rows[p], p, HeirsRead(s, d))'
    <3>1. Own(compat[p].label, p) /\ Lent(row[p].label, p, HeirsNow(d))
      BY DEF PairInv, TablesOwn
    <3>2. sess'[s].rows[p] = row[p].label \/ sess'[s].rows[p] = -1
      BY <1>5 DEF OfPair, NoRow
    <3>3. ~(-1 > 0)
      OBVIOUS
    <3> QED BY <1>0, <1>2, <1>8, <3>1, <3>2, <3>3 DEF Own, Lent
  <2>2. ReadOwn(s, d)'
    BY <2>1 DEF ReadOwn, OfPair
  <2>3. ReadHeld(s, d)' /\ ReadLast(s, d)' /\ ReadRows(s, d)'
    BY <1>0, <1>2, <1>4, <1>6, <1>7, <1>8 DEF ReadHeld, ReadLast, ReadRows
  <2> QED BY <2>2, <2>3 DEF ReadInv
<1>10. ASSUME NEW t \in Sessions \ {s}, At(t, "syncing")'
       PROVE  /\ Reads(t) /\ ReadInv(t, d)' /\ InPairRead(t)
              /\ SeenOf(t, d)' \subseteq SeenOf(s, d)' \/ SeenOf(s, d)' \subseteq SeenOf(t, d)'
  <2>1. Reads(t) /\ At(t, "syncing")
    BY <1>1, <1>10 DEF Reads, At
  <2>2. ReadInv(t, d) /\ InPairRead(t)
    BY <2>1 DEF PairInv, LabelInv
  <2>3. ReadInv(t, d)'
    BY <1>0, <1>1, <1>3, <2>1, <2>2, ReadStill
  <2>4. SeenOf(t, d)' = SeenOf(t, d)
    BY <2>1, ReadsSame
  <2>5. RowsOf(d) = {} \/ SeenOf(t, d) \subseteq RowsOf(d)
    BY <2>1, SeenAreRows
  <2> QED BY <1>6, <2>1, <2>2, <2>3, <2>4, <2>5
<1>11. ASSUME NEW t \in Sessions, At(t, "syncing")'
       PROVE  /\ ReadInv(t, d)'
              /\ \A u \in Sessions : At(u, "syncing")' => Compared(t, u, d)'
  <2>1. ReadInv(t, d)'
    BY <1>9, <1>10, <1>11
  <2>2. ASSUME NEW u \in Sessions, At(u, "syncing")' PROVE Compared(t, u, d)'
    <3>1. CASE t = s \/ u = s
      BY <1>10, <1>11, <2>2, <3>1 DEF Compared
    <3>2. CASE t # s /\ u # s
      BY <1>10, <1>11, <2>2, <3>2, ComparedStill
    <3> QED BY <3>1, <3>2
  <2> QED BY <2>1, <2>2
<1>12. TablesOwn(d)' /\ \A p, q \in HeldOf(d)' : compat'[p].id = compat'[q].id => p = q
  BY <1>0, <1>4 DEF PairInv, TablesOwn, Own, Lent, OfPair
<1> QED BY <1>11, <1>12 DEF PairInv

\* The products of d that get no row of another.
Missed(s, d, f) == {p \in TakersOf(s, d) : f[p] = 0}

\* What the commit of s does to the pair d, where it takes f.
CommitsPair(s, d, f) ==
  /\ Greedy(TakersOf(s, d), KnownOf(s, d), sess[s].kept, f)
  /\ \A p \in OfPair(d) :
       /\ p \in Missed(s, d, f) =>
            /\ compat[p].id = 0 /\ compat'[p].id > ids
            /\ compat'[p].label = sess[s].rows[p]
       /\ p \notin Missed(s, d, f) => compat'[p] = compat[p]
       /\ row'[p].gen = row[p].gen
       /\ \/ row'[p] = row[p]
          \/ /\ p \in SeenOf(s, d) \ sess[s].gone
             /\ \/ p \in KnownOf(s, d) /\ row'[p].label = sess[s].kept[p].label
                \/ /\ p \in TakersOf(s, d) /\ f[p] # 0
                   /\ row'[p].label = sess[s].kept[f[p]].label
  /\ \A p, q \in Missed(s, d, f) : compat'[p].id = compat'[q].id => p = q

LEMMA CreatedApart ==
  ASSUME TypeOK, NEW s \in Sessions, NEW take \in Takings(s),
         NEW p \in Created(s, take), NEW q \in Created(s, take),
         ids + Cardinality({r \in Created(s, take) : r <= p})
           = ids + Cardinality({r \in Created(s, take) : r <= q})
  PROVE  p = q
<1> DEFINE upto(x) == {r \in Created(s, take) : r <= x}
<1>1. Created(s, take) \subseteq Products
  BY CreatedFinite DEF Seen
<1>2. \A x \in Created(s, take) : x \in Nat
  BY <1>1, CatalogAssumption
<1>3. \A x : IsFiniteSet(upto(x)) /\ Cardinality(upto(x)) \in Nat
  BY <1>1, CatalogAssumption, FS_Subset, FS_CardinalityType
<1>4. Cardinality(upto(p)) = Cardinality(upto(q))
  <2>1. ids \in Nat
    BY DEF TypeOK
  <2> PICK m \in Nat, n \in Nat : m = Cardinality(upto(p)) /\ n = Cardinality(upto(q))
    BY <1>3
  <2>2. ids + m = ids + n
    OBVIOUS
  <2> HIDE DEF upto
  <2> QED BY <2>1, <2>2
<1>5. upto(p) \subseteq upto(q) \/ upto(q) \subseteq upto(p)
  BY <1>2
<1>6. upto(p) = upto(q)
  BY <1>3, <1>4, <1>5, FS_Subset
<1>7. p \in upto(p) /\ q \in upto(q)
  BY <1>2
<1>8. p <= q /\ q <= p
  BY <1>6, <1>7
<1> QED BY <1>2, <1>8

LEMMA CommitPair ==
  ASSUME CoverInv, NEW s \in Sessions, SyncCommit(s), NEW d \in Pairs, Quiet(d)
  PROVE  \E f : CommitsPair(s, d, f)
<1> PICK take \in Takings(s) :
    /\ Syncs(s, take)
    /\ row' = [p \in Products |->
         IF p \in Relabelled(s, take)
         THEN [gen |-> row[p].gen, label |-> Found(s, take, p)] ELSE row[p]]
    /\ compat' = [p \in Products |->
         IF p \in Created(s, take)
         THEN [id |-> ids + Cardinality({q \in Created(s, take) : q <= p}),
               label |-> sess[s].rows[p]]
         ELSE IF p \in Moved(s, take) THEN compat[take[p]]
         ELSE IF p \in Left(s, take) \cup Pruned(s, take) THEN Missing
         ELSE compat[p]]
  BY DEF SyncCommit
<1> DEFINE f == InPairOf(s, d, take)
<1>0. TypeOK /\ At(s, "syncing")
  BY DEF CoverInv, SyncCommit
<1>1. /\ Greedy(TakersOf(s, d), KnownOf(s, d), sess[s].kept, f)
      /\ \A p \in OfPair(d) :
           /\ p \notin Moved(s, take) \cup Left(s, take) \cup Pruned(s, take)
           /\ p \in Created(s, take) <=> p \in Missed(s, d, f)
      /\ \A p \in TakersOf(s, d) : f[p] = take[p]
  BY <1>0, QuietTaking DEF Missed
<1> HIDE DEF f
<1>2. OfPair(d) \subseteq Products /\ Missed(s, d, f) \subseteq OfPair(d)
  BY DEF OfPair, Missed, TakersOf, SeenOf
<1>3. ASSUME NEW p \in Missed(s, d, f)
      PROVE  /\ compat'[p].id = ids + Cardinality({q \in Created(s, take) : q <= p})
             /\ compat'[p].label = sess[s].rows[p] /\ compat[p].id = 0
             /\ p \in Created(s, take)
  <2>1. p \in Products /\ p \in Created(s, take)
    BY <1>1, <1>2
  <2> DEFINE n == ids + Cardinality({q \in Created(s, take) : q <= p})
  <2>2. compat'[p] = [id |-> n, label |-> sess[s].rows[p]]
    BY <2>1
  <2>3. compat[p].id = 0
    BY <2>1 DEF Syncs
  <2> HIDE DEF n
  <2>4. compat'[p].id = n /\ compat'[p].label = sess[s].rows[p]
    BY <2>2
  <2> QED BY <2>1, <2>3, <2>4 DEF n
<1>4. ASSUME NEW p \in Missed(s, d, f) PROVE compat'[p].id > ids
  BY <1>0, <1>3, CreatedIds
<1>5. ASSUME NEW p \in Missed(s, d, f), NEW q \in Missed(s, d, f),
             compat'[p].id = compat'[q].id
      PROVE  p = q
  <2>1. /\ p \in Created(s, take) /\ q \in Created(s, take)
        /\ ids + Cardinality({r \in Created(s, take) : r <= p})
             = ids + Cardinality({r \in Created(s, take) : r <= q})
    BY <1>3, <1>5
  <2> QED BY <1>0, <2>1, CreatedApart
<1>6. ASSUME NEW p \in OfPair(d), p \notin Missed(s, d, f) PROVE compat'[p] = compat[p]
  BY <1>1, <1>2, <1>6
<1>7. ASSUME NEW p \in OfPair(d)
      PROVE  /\ row'[p].gen = row[p].gen
             /\ \/ row'[p] = row[p]
                \/ /\ p \in SeenOf(s, d) \ sess[s].gone
                   /\ \/ p \in KnownOf(s, d) /\ row'[p].label = sess[s].kept[p].label
                      \/ /\ p \in TakersOf(s, d) /\ f[p] # 0
                         /\ row'[p].label = sess[s].kept[f[p]].label
  <2>1. CASE p \notin Relabelled(s, take)
    BY <1>2, <2>1
  <2>2. CASE p \in Relabelled(s, take)
    <3>1. /\ row'[p] = [gen |-> row[p].gen, label |-> Found(s, take, p)]
          /\ p \notin sess[s].gone /\ p \in Seen(s)
          /\ Found(s, take, p) # sess[s].rows[p]
      BY <1>2, <2>2 DEF Syncs, Relabelled
    <3>2. p \in SeenOf(s, d) \ sess[s].gone
      BY <3>1 DEF SeenOf
    <3>3. \/ p \in KnownOf(s, d) /\ Found(s, take, p) = sess[s].kept[p].label
          \/ /\ p \in TakersOf(s, d) /\ f[p] # 0
             /\ Found(s, take, p) = sess[s].kept[f[p]].label
      <4>1. CASE p \in Known(s)
        BY <4>1 DEF Found, KnownOf
      <4>2. CASE p \notin Known(s)
        <5>1. p \in TakersOf(s, d)
          BY <3>2, <4>2 DEF TakersOf, KnownOf
        <5>2. f[p] = take[p]
          BY <1>1, <5>1
        <5> QED BY <3>1, <4>2, <5>1, <5>2 DEF Found
      <4> QED BY <4>1, <4>2
    <3> QED BY <3>1, <3>2, <3>3
  <2> QED BY <2>1, <2>2
<1>8. CommitsPair(s, d, f)
  BY <1>1, <1>3, <1>4, <1>5, <1>6, <1>7 DEF CommitsPair
<1> QED BY <1>8

\* Whoever creates rows has read all of the older table.
LEMMA MissedKnowsAll ==
  ASSUME TypeOK, NEW d \in Pairs, PairInv(d), NEW s \in Sessions, At(s, "syncing"),
         NEW f, CommitsPair(s, d, f), Missed(s, d, f) # {}
  PROVE  HeldOf(d) = KnownOf(s, d)
<1>1. Numbered(KnownOf(s, d), sess[s].kept) /\ ReadLast(s, d)
  BY ReadNumbered DEF PairInv, ReadInv
<1>2. Greedy(TakersOf(s, d), KnownOf(s, d), sess[s].kept, f)
  BY DEF CommitsPair
<1>3. Missed(s, d, f) \subseteq OrphansRead(s, d)
  BY <1>2 DEF Missed, OrphansRead, Orphans, TakersOf, Greedy
<1>4. ASSUME NEW o \in OrphansRead(s, d) \cap HeldOf(d) PROVE FALSE
  <2>1. PICK g : Greedy(TakersOf(s, d), KnownOf(s, d), sess[s].kept, g) /\ g[o] = 0
    BY DEF OrphansRead, Orphans, TakersOf
  <2>2. o \in TakersOf(s, d) /\ TakersOf(s, d) \subseteq Nat
        /\ TakersOf(s, d) \subseteq TakersOf(s, d)
    BY CatalogAssumption DEF OrphansRead, Orphans, TakersOf, SeenOf, OfPair
  <2>3. f[o] = 0
    BY <1>1, <1>2, <2>1, <2>2, NoneAmongMore
  <2>4. o \in Missed(s, d, f) /\ o \in OfPair(d)
    BY <2>2, <2>3 DEF Missed, TakersOf, SeenOf
  <2> QED BY <1>4, <2>4 DEF CommitsPair, HeldOf
<1> QED BY <1>1, <1>3, <1>4 DEF ReadLast

LEMMA CommitHeld ==
  ASSUME CoverInv, TypeOK', NEW d \in Pairs, PairInv(d), NEW s \in Sessions,
         NEW f, CommitsPair(s, d, f)
  PROVE  /\ RowsOf(d)' = RowsOf(d) /\ HeldOf(d)' = HeldOf(d) \cup Missed(s, d, f)
         /\ Missed(s, d, f) \cap HeldOf(d) = {} /\ Missed(s, d, f) \subseteq OfPair(d)
         /\ \A p \in HeldOf(d) : compat'[p] = compat[p]
         /\ \A c \in Missed(s, d, f), q \in HeldOf(d) : compat'[q].id < compat'[c].id
         /\ \A p, q \in HeldOf(d)' : compat'[p].id = compat'[q].id => p = q
<1>0. /\ ids \in Nat /\ \A p \in Products : compat[p].id \in Nat /\ compat[p].id <= ids
      /\ \A p \in Products : compat'[p].id \in Nat
  BY DEF CoverInv, TypeOK, Sound
<1>1. Missed(s, d, f) \subseteq OfPair(d) /\ OfPair(d) \subseteq Products
  BY DEF Missed, TakersOf, SeenOf, OfPair
<1>2. \A p \in Missed(s, d, f) : compat[p].id = 0 /\ compat'[p].id > ids
  BY <1>1 DEF CommitsPair
<1>3. \A p \in OfPair(d) \ Missed(s, d, f) : compat'[p] = compat[p]
  BY DEF CommitsPair
<1>4. RowsOf(d)' = RowsOf(d)
  BY DEF CommitsPair, RowsOf, OfPair
<1>5. Missed(s, d, f) \cap HeldOf(d) = {} /\ HeldOf(d) \subseteq OfPair(d)
  BY <1>2 DEF HeldOf
<1>6. HeldOf(d)' = HeldOf(d) \cup Missed(s, d, f)
  <2>1. \A p \in Missed(s, d, f) : compat'[p].id > 0
    <3> TAKE p \in Missed(s, d, f)
    <3> PICK m \in Nat, n \in Nat : m = compat'[p].id /\ n = ids
      BY <1>0, <1>1
    <3>1. m > n
      BY <1>2
    <3> QED BY <3>1
  <2>2. HeldOf(d)' = {p \in OfPair(d) : compat'[p].id > 0}
    BY DEF HeldOf, OfPair
  <2> QED BY <1>1, <1>3, <2>1, <2>2 DEF HeldOf
<1>7. ASSUME NEW c \in Missed(s, d, f), NEW q \in HeldOf(d)
      PROVE  compat'[q].id < compat'[c].id
  <2>1. compat'[q] = compat[q]
    BY <1>3, <1>5
  <2> PICK m \in Nat, n \in Nat, i \in Nat :
        m = compat[q].id /\ n = compat'[c].id /\ i = ids
    BY <1>0, <1>1, <1>5
  <2>2. m <= i /\ i < n
    BY <1>0, <1>1, <1>2, <1>5
  <2> QED BY <2>1, <2>2
<1>8. ASSUME NEW p \in HeldOf(d)', NEW q \in HeldOf(d)', compat'[p].id = compat'[q].id
      PROVE  p = q
  <2>1. ASSUME NEW c \in Missed(s, d, f), NEW x \in HeldOf(d)
        PROVE  compat'[c].id # compat'[x].id
    <3> PICK m \in Nat, n \in Nat : m = compat'[x].id /\ n = compat'[c].id
      BY <1>0, <1>1, <1>5
    <3>1. m < n
      BY <1>7
    <3> QED BY <3>1
  <2>2. CASE p \in Missed(s, d, f) /\ q \in Missed(s, d, f)
    BY <1>8, <2>2 DEF CommitsPair
  <2>3. CASE p \in HeldOf(d) /\ q \in HeldOf(d)
    BY <1>3, <1>5, <1>8, <2>3 DEF PairInv
  <2> QED BY <1>6, <1>8, <2>1, <2>2, <2>3
<1> QED BY <1>1, <1>3, <1>4, <1>5, <1>6, <1>7, <1>8

\* The heirs remain heirs.
LEMMA HeirsGrow ==
  ASSUME CoverInv, TypeOK', NEW d \in Pairs, Quiet(d), PairInv(d),
         NEW s \in Sessions, At(s, "syncing"), NEW f, CommitsPair(s, d, f)
  PROVE  HeirsNow(d) \subseteq HeirsNow(d)'
<1> DEFINE C == Missed(s, d, f)
           H == HeldOf(d)
           U == RowsOf(d) \ H
<1>0. TypeOK
  BY DEF CoverInv
<1>1. CASE C = {}
  <2>1. Presence(d)
    BY <1>1 DEF CommitsPair, Presence
  <2> QED BY <2>1, HeirsStill
<1>2. CASE C # {}
  <2>1. SUFFICES ASSUME NEW p \in HeirsNow(d) PROVE p \in HeirsNow(d)'
    OBVIOUS
  <2>2. H = KnownOf(s, d)
    BY <1>0, <1>2, MissedKnowsAll
  <2>3. PICK g : Greedy(U, H, compat, g) /\ g[p] # 0
    BY <2>1 DEF HeirsNow, Heirs
  <2>4. p \in U
    BY <2>1 DEF HeirsNow, Heirs
  <2>5. TakersOf(s, d) \subseteq U
    <3>1. SeenOf(s, d) \subseteq RowsOf(d)
      BY <2>4, SeenAreRows
    <3> QED BY <2>2, <3>1 DEF TakersOf
  <2>6. Numbered(H, compat) /\ SameIds(H, sess[s].kept, compat)
    BY <1>0, <2>2, ReadNumbered, PairNumbered
  <2>7. Greedy(TakersOf(s, d), H, compat, f)
    <3>1. Greedy(TakersOf(s, d), H, sess[s].kept, f)
      BY <2>2 DEF CommitsPair
    <3>2. 0 \notin H
      BY <2>6 DEF Numbered
    <3> QED BY <2>6, <3>1, <3>2, GreedySame
  <2>8. U \subseteq Products /\ U \subseteq Nat
    BY CatalogAssumption DEF RowsOf, OfPair
  <2>9. ASSUME NEW c \in C PROVE g[c] = 0 /\ c \in U
    <3>1. c \in TakersOf(s, d) /\ f[c] = 0
      BY DEF Missed
    <3> QED BY <2>3, <2>5, <2>6, <2>7, <2>8, <3>1, NoneAmongMore
  <2>10. p \in U \ C /\ C \subseteq U
    BY <2>3, <2>4, <2>9
  <2>11. PICK other : other = compat'
    OBVIOUS
  <2>12. /\ RowsOf(d)' = RowsOf(d) /\ HeldOf(d)' = H \cup C
         /\ SameIds(H, compat, other)
         /\ \A c \in C, q \in H : other[q].id < other[c].id
         /\ \A x, q \in H \cup C : other[x].id = other[q].id => x = q
    BY <2>11, CommitHeld DEF SameIds
  <2>13. Numbered(H \cup C, other)
    <3>1. H \cup C \subseteq Products
      BY <2>8, <2>10 DEF HeldOf, OfPair
    <3>2. \A x \in Products : other[x].id \in Nat
      BY <2>11 DEF TypeOK
    <3> QED BY <2>12, <3>1, <3>2, CatalogAssumption DEF Numbered
  <2>14. PICK h : Greedy(U \ C, H \cup C, other, h)
    <3>1. U \ C \subseteq Products
      BY <2>8
    <3> QED BY <2>13, <3>1, GreedyExists
  <2>15. h[p] # 0
    <3> HIDE DEF C, H, U
    <3>1. \A c \in C : g[c] = 0
      BY <2>9
    <3>2. StillGet(U \ C, g, h)
      BY <2>3, <2>6, <2>8, <2>10, <2>12, <2>13, <2>14, <3>1, SomeStillGet
    <3> QED BY <2>3, <2>10, <3>2 DEF StillGet
  <2>16. p \in Heirs(RowsOf(d), H \cup C, other)
    <3>1. RowsOf(d) \ (H \cup C) = U \ C
      OBVIOUS
    <3> HIDE DEF C, H, U
    <3> QED BY <2>10, <2>14, <2>15, <3>1 DEF Heirs, Greedy
  <2> QED BY <2>11, <2>12, <2>16 DEF HeirsNow
<1> QED BY <1>1, <1>2

\* A row of the older table is created with the label of its own product, and
\* an heir is shown the label of a later one.
LEMMA CommitTables ==
  ASSUME CoverInv, TypeOK', NEW d \in Pairs, Quiet(d), PairInv(d),
         NEW s \in Sessions, At(s, "syncing"), NEW f, CommitsPair(s, d, f),
         UNCHANGED owner
  PROVE  TablesOwn(d)'
<1>0. TypeOK /\ ReadOwn(s, d) /\ ReadRows(s, d)
  BY DEF CoverInv, PairInv, ReadInv
<1>1. /\ Numbered(KnownOf(s, d), sess[s].kept)
      /\ Greedy(TakersOf(s, d), KnownOf(s, d), sess[s].kept, f)
  BY <1>0, ReadNumbered DEF CommitsPair
<1>2. TakersOf(s, d) \subseteq Products /\ TakersOf(s, d) \subseteq Nat
  BY CatalogAssumption DEF TakersOf, SeenOf, OfPair
<1>3. Gives(TakersOf(s, d), KnownOf(s, d), sess[s].kept, f)
  BY <1>1, <1>2, GreedyGives
<1>4. HeirsNow(d) \subseteq HeirsNow(d)'
  BY HeirsGrow
<1> SUFFICES ASSUME NEW p \in OfPair(d)
             PROVE  /\ Own(compat[p].label, p)' /\ Lent(row[p].label, p, HeirsNow(d))'
                    /\ row'[p].gen = 0 => row'[p].label = 0
  BY DEF TablesOwn, OfPair
<1>5. /\ Own(compat[p].label, p) /\ Lent(row[p].label, p, HeirsNow(d))
      /\ row[p].gen = 0 => row[p].label = 0
      /\ Own(sess[s].kept[p].label, p) /\ Lent(sess[s].rows[p], p, HeirsRead(s, d))
  BY <1>0 DEF PairInv, TablesOwn, ReadOwn
<1>6. Own(compat[p].label, p)'
  <2>1. CASE p \notin Missed(s, d, f)
    BY <1>5, <2>1 DEF CommitsPair, Own
  <2>2. CASE p \in Missed(s, d, f)
    <3>1. p \notin HeirsRead(s, d)
      <4>1. SUFFICES ASSUME p \in HeirsRead(s, d) PROVE FALSE
        OBVIOUS
      <4>2. PICK g : Greedy(TakersOf(s, d), KnownOf(s, d), sess[s].kept, g) /\ g[p] # 0
        BY <4>1 DEF HeirsRead, Heirs, TakersOf
      <4>3. /\ p \in TakersOf(s, d) /\ f[p] = 0
            /\ TakersOf(s, d) \subseteq TakersOf(s, d)
        BY <2>2 DEF Missed
      <4> QED BY <1>1, <1>2, <4>2, <4>3, NoneAmongMore
    <3>2. compat'[p].label = sess[s].rows[p]
      BY <2>2 DEF CommitsPair
    <3> QED BY <1>5, <3>1, <3>2 DEF Own, Lent
  <2> QED BY <2>1, <2>2
<1>7. CASE row'[p] = row[p]
  BY <1>4, <1>5, <1>6, <1>7 DEF Own, Lent
<1>8. CASE row'[p] # row[p]
  <2>1. /\ p \in SeenOf(s, d) \ sess[s].gone /\ row'[p].gen = row[p].gen
        /\ \/ p \in KnownOf(s, d) /\ row'[p].label = sess[s].kept[p].label
           \/ /\ p \in TakersOf(s, d) /\ f[p] # 0
              /\ row'[p].label = sess[s].kept[f[p]].label
    BY <1>8 DEF CommitsPair
  <2>2. p \in RowsOf(d) /\ HeirsRead(s, d) \subseteq HeirsNow(d)
    BY <1>0, <2>1 DEF ReadRows
  <2>3. row'[p].gen # 0
    <3>1. row[p].gen > 0
      BY <2>2 DEF RowsOf
    <3>2. row[p].gen # 0
      BY <3>1
    <3> QED BY <2>1, <3>2
  <2>4. CASE p \in KnownOf(s, d) /\ row'[p].label = sess[s].kept[p].label
    BY <1>5, <1>6, <2>3, <2>4 DEF Own, Lent
  <2>5. CASE /\ p \in TakersOf(s, d) /\ f[p] # 0
             /\ row'[p].label = sess[s].kept[f[p]].label
    <3>1. f[p] \in KnownOf(s, d) /\ f[p] > p
      BY <1>3, <2>5 DEF Gives
    <3>2. Own(sess[s].kept[f[p]].label, f[p])
      BY <1>0, <3>1 DEF ReadOwn, KnownOf
    <3>3. p \in HeirsRead(s, d)
      BY <1>1, <2>5 DEF HeirsRead, Heirs, TakersOf, Greedy
    <3>4. p \in HeirsNow(d)'
      BY <1>4, <2>2, <3>3
    <3> QED BY <1>6, <2>3, <2>5, <3>1, <3>2, <3>4 DEF Own, Lent
  <2> QED BY <2>1, <2>4, <2>5
<1> QED BY <1>7, <1>8

LEMMA CommitReads ==
  ASSUME CoverInv, TypeOK', NEW d \in Pairs, Quiet(d), PairInv(d),
         NEW s \in Sessions, At(s, "syncing"), NEW f, CommitsPair(s, d, f),
         NEW t \in Sessions, At(t, "syncing"), sess'[t] = sess[t], InPairRead(t),
         UNCHANGED <<labels, owner>>
  PROVE  ReadInv(t, d)'
<1> DEFINE C == Missed(s, d, f)
<1>0. TypeOK /\ ReadInv(t, d) /\ Compared(s, t, d) /\ Reads(t)
  BY DEF CoverInv, PairInv, Reads
<1>1. /\ SeenOf(t, d)' = SeenOf(t, d) /\ KnownOf(t, d)' = KnownOf(t, d)
      /\ HeirsRead(t, d)' = HeirsRead(t, d) /\ OrphansRead(t, d)' = OrphansRead(t, d)
      /\ sess'[t].kept = sess[t].kept
  BY <1>0, ReadsSame
<1>2. /\ RowsOf(d)' = RowsOf(d) /\ HeldOf(d)' = HeldOf(d) \cup C
      /\ \A p \in HeldOf(d) : compat'[p] = compat[p]
  BY CommitHeld
<1>3. ReadOwn(t, d)'
  BY <1>0, OwnersSame, ReadOwnStill DEF ReadInv
<1>4. ReadHeld(t, d)'
  <2>1. KnownOf(t, d) \subseteq HeldOf(d)
    BY <1>0, ReadNumbered
  <2> QED BY <1>0, <1>1, <1>2, <2>1 DEF ReadInv, ReadHeld
<1>5. ReadRows(t, d)'
  BY <1>0, <1>1, <1>2, HeirsGrow DEF ReadInv, ReadRows
<1>6. ReadLast(t, d)'
  <2>1. CASE C = {}
    BY <1>0, <1>1, <1>2, <2>1 DEF ReadInv, ReadLast
  <2>2. CASE OrphansRead(t, d) = {} \/ OrphansRead(t, d) \cap HeldOf(d) # {}
    BY <1>1, <1>2, <2>2 DEF ReadLast
  <2>3. CASE C # {} /\ OrphansRead(t, d) # {} /\ OrphansRead(t, d) \cap HeldOf(d) = {}
    <3> DEFINE H == HeldOf(d)
    <3>1. KnownOf(s, d) = H /\ KnownOf(t, d) = H
      BY <1>0, <2>3, MissedKnowsAll DEF ReadInv, ReadLast
    <3>2. /\ Numbered(H, compat)
          /\ SameIds(H, sess[s].kept, compat) /\ SameIds(H, sess[t].kept, compat)
          /\ 0 \notin H
      BY <1>0, <3>1, ReadNumbered, PairNumbered DEF Numbered
    <3>3. Greedy(TakersOf(s, d), H, compat, f)
      <4>1. Greedy(TakersOf(s, d), H, sess[s].kept, f)
        BY <3>1 DEF CommitsPair
      <4> HIDE DEF H
      <4> QED BY <3>2, <4>1, GreedySame
    <3>4. /\ TakersOf(s, d) \subseteq Products /\ TakersOf(t, d) \subseteq Products
          /\ TakersOf(s, d) \subseteq Nat /\ TakersOf(t, d) \subseteq Nat
      BY CatalogAssumption DEF TakersOf, SeenOf, OfPair
    <3> HIDE DEF H
    <3>5. CASE SeenOf(s, d) \subseteq SeenOf(t, d)
      <4>1. TakersOf(s, d) \subseteq TakersOf(t, d)
        BY <3>1, <3>5 DEF TakersOf
      <4>2. PICK g : Greedy(TakersOf(t, d), H, sess[t].kept, g)
        <5>1. Numbered(H, sess[t].kept)
          BY <1>0, <3>1, ReadNumbered
        <5> QED BY <3>4, <5>1, GreedyExists
      <4>3. Greedy(TakersOf(t, d), H, compat, g)
        BY <3>2, <4>2, GreedySame
      <4>4. PICK c \in C : TRUE
        BY <2>3
      <4>5. c \in TakersOf(s, d) /\ f[c] = 0
        BY DEF Missed
      <4>6. g[c] = 0
        BY <3>2, <3>3, <3>4, <4>1, <4>3, <4>5, NoneAmongMore
      <4>7. c \in OrphansRead(t, d)
        <5>1. c \in TakersOf(t, d)
          BY <4>1, <4>5
        <5> QED BY <3>1, <4>2, <4>6, <5>1 DEF OrphansRead, Orphans, TakersOf, Greedy
      <4> QED BY <1>1, <1>2, <4>7 DEF ReadLast
    <3>6. CASE SeenOf(t, d) \subseteq SeenOf(s, d)
      <4>1. TakersOf(t, d) \subseteq TakersOf(s, d)
        BY <3>1, <3>6 DEF TakersOf
      <4>2. PICK o \in OrphansRead(t, d) : TRUE
        BY <2>3
      <4>3. /\ o \in TakersOf(t, d)
            /\ \E g : Greedy(TakersOf(t, d), H, sess[t].kept, g) /\ g[o] = 0
        BY <3>1 DEF OrphansRead, Orphans, TakersOf
      <4>4. PICK g : Greedy(TakersOf(t, d), H, sess[t].kept, g) /\ g[o] = 0
        BY <4>3
      <4>5. Greedy(TakersOf(t, d), H, compat, g)
        BY <3>2, <4>4, GreedySame
      <4>6. f[o] = 0
        BY <3>2, <3>3, <3>4, <4>1, <4>3, <4>4, <4>5, NoneAmongMore, SMTT(30)
      <4>7. o \in C
        BY <4>1, <4>3, <4>6 DEF Missed
      <4> QED BY <1>1, <1>2, <4>7 DEF ReadLast
    <3> QED BY <1>0, <3>5, <3>6 DEF Compared
  <2> QED BY <2>1, <2>2, <2>3
<1> QED BY <1>3, <1>4, <1>5, <1>6 DEF ReadInv

LEMMA CommitPairInv ==
  ASSUME CoverInv, LabelInv, NEW s \in Sessions, SyncCommit(s),
         NEW d \in Pairs, Quiet(d), PairInv(d)
  PROVE  PairInv(d)'
<1>0. /\ TypeOK /\ TypeOK' /\ At(s, "syncing") /\ UNCHANGED <<labels, owner>>
      /\ sess'[s].at = "idle" /\ \A t \in Sessions \ {s} : sess'[t] = sess[t]
  BY TypeSyncCommit DEF CoverInv, SyncCommit, bounds, history, Become, TypeOK, Idle
<1>1. PICK f : CommitsPair(s, d, f)
  BY CommitPair
<1>2. TablesOwn(d)' /\ \A p, q \in HeldOf(d)' : compat'[p].id = compat'[q].id => p = q
  BY <1>0, <1>1, CommitHeld, CommitTables
<1>3. ASSUME NEW t \in Sessions, At(t, "syncing")'
      PROVE  t # s /\ At(t, "syncing") /\ sess'[t] = sess[t] /\ Reads(t)
  BY <1>0, <1>3 DEF At, Reads
<1>4. ASSUME NEW t \in Sessions, At(t, "syncing")'
      PROVE  /\ ReadInv(t, d)'
             /\ \A u \in Sessions : At(u, "syncing")' => Compared(t, u, d)'
  <2>1. InPairRead(t)
    BY DEF LabelInv
  <2>2. ReadInv(t, d)'
    BY <1>0, <1>1, <1>3, <1>4, <2>1, CommitReads
  <2> QED BY <1>3, <1>4, <2>2, ComparedStill
<1> QED BY <1>2, <1>4 DEF PairInv

(***************************************************************************)
(* The steps that neither label, read nor write the tables.                *)
(***************************************************************************)

LEMMA QuietBefore ==
  ASSUME TypeOK, [Next]_vars, NEW d \in Pairs, Quiet(d)'
  PROVE  Quiet(d)
<1>1. overlapped => overlapped'
  BY OverlappedStays
<1> QED BY <1>1, CleanedGrows, UnreadGrows DEF Quiet, OfPair

\* What is in the tables was there, or is no label.
LEMMA TablesStill ==
  ASSUME TypeOK, LabelInv, OwnersStay,
         \A p \in Products : /\ row'[p].label \in {row[p].label, 0}
                             /\ compat'[p].label \in {compat[p].label, 0}
  PROVE  \A p \in Products : InPair(row[p].label, p)' /\ InPair(compat[p].label, p)'
<1> SUFFICES ASSUME NEW p \in Products
             PROVE  InPair(row[p].label, p)' /\ InPair(compat[p].label, p)'
  OBVIOUS
<1>1. PICK m \in Int, n \in Int : m = row[p].label /\ n = compat[p].label
  <2>1. row[p].label \in Int /\ compat[p].label \in Int
    BY DEF TypeOK
  <2> QED BY <2>1
<1>2. InPair(m, p)' /\ InPair(n, p)'
  BY <1>1, LabelStill DEF LabelInv
<1> QED BY <1>1, <1>2 DEF InPair

Silent ==
  /\ UNCHANGED <<row, compat, labels, owner>>
  /\ \A t \in Sessions :
       IF sess'[t].at = "syncing" THEN sess'[t] = sess[t] ELSE sess'[t].gone = {}

LEMMA SilentLabels ==
  ASSUME TypeOK, LabelInv, Silent, \A d \in Pairs : Quiet(d)' => Quiet(d)
  PROVE  LabelInv'
<1>1. OwnersStay
  BY OwnersSame DEF Silent
<1>2. \A p \in Products : InPair(row[p].label, p)' /\ InPair(compat[p].label, p)'
  BY <1>1, TablesStill DEF Silent
<1>3. ASSUME NEW t \in Sessions PROVE InPairRead(t)'
  <2>1. CASE sess'[t].at = "syncing"
    <3>1. sess'[t] = sess[t] /\ At(t, "syncing")' /\ Reads(t)
      BY <2>1 DEF Silent, At, Reads
    <3> QED BY <1>1, <3>1, InPairReadStill DEF LabelInv
  <2>2. CASE sess'[t].at # "syncing"
    BY <2>2 DEF Silent, InPairRead, At
  <2> QED BY <2>1, <2>2
<1>4. ASSUME NEW d \in Pairs, Quiet(d)' PROVE PairInv(d)'
  <2>1. PairInv(d)
    BY <1>4 DEF LabelInv
  <2>2. Presence(d) /\ ReadersStay(d)
    BY DEF Silent, Presence, ReadersStay, Reads, At
  <2>3. \A p \in OfPair(d) : compat'[p].label = compat[p].label
                             /\ row'[p].label = row[p].label
    BY DEF Silent
  <2> QED BY <1>1, <2>1, <2>2, <2>3, PairStill
<1> QED BY <1>2, <1>3, <1>4 DEF LabelInv

LEMMA BecomeSilent ==
  ASSUME TypeOK, LabelInv, NEW s \in Sessions, NEW new, Become(s, new),
         new.at # "syncing", new.gone = {},
         UNCHANGED <<row, compat, labels, owner>>
  PROVE  Silent
<1>1. sess'[s] = new /\ \A t \in Sessions \ {s} : sess'[t] = sess[t]
  BY DEF Become, TypeOK
<1>2. \A t \in Sessions : sess[t].at # "syncing" => sess[t].gone = {}
  BY DEF LabelInv, InPairRead, At
<1> QED BY <1>1, <1>2 DEF Silent

LEMMA SilentActions ==
  ASSUME TypeOK, LabelInv, NEW s \in Sessions,
         \/ Written(s) \/ RebuildJob(s) \/ Begin(s) \/ Scan(s) \/ Insert(s)
         \/ InsertFails(s) \/ Record(s) \/ SyncFails(s) \/ BootRead(s)
         \/ BootRebuilds(s) \/ BootSyncs(s) \/ Crash(s)
         \/ \E p \in Products : Publish(s, p)
  PROVE  Silent
<1>0. sess[s] \in Session
  BY DEF TypeOK
<1>1. UNCHANGED <<row, compat, labels, owner>>
  BY DEF Written, RebuildJob, Begin, Scan, Insert, InsertFails, Record, SyncFails,
         BootRead, BootRebuilds, BootSyncs, Crash, Publish, bounds, history
<1>2. CASE Scan(s)
  <2> DEFINE new == [sess[s] EXCEPT !.at = "empty", !.snap = disk]
  <2>1. new.at = "empty" /\ new.gone = {} /\ Become(s, new)
    BY <1>0, <1>2 DEF Scan, Session, LabelInv, InPairRead, At
  <2> HIDE DEF new
  <2> QED BY <1>1, <2>1, BecomeSilent
<1>3. CASE Insert(s)
  <2> DEFINE new == [sess[s] EXCEPT !.at = "commit", !.pend = Load(s)]
  <2>1. new.at = "commit" /\ new.gone = {} /\ Become(s, new)
    BY <1>0, <1>3 DEF Insert, Session, LabelInv, InPairRead, At
  <2> HIDE DEF new
  <2> QED BY <1>1, <2>1, BecomeSilent
<1>4. CASE Begin(s)
  <2> DEFINE new == [Idle EXCEPT !.at = "scan", !.print = print]
  <2>1. new.at = "scan" /\ new.gone = {} /\ Become(s, new)
    BY <1>4 DEF Begin, Idle
  <2> HIDE DEF new
  <2> QED BY <1>1, <2>1, BecomeSilent
<1>5. CASE Record(s)
  <2> DEFINE new == [Idle EXCEPT !.at = "sync", !.prune = TRUE]
  <2>1. new.at = "sync" /\ new.gone = {} /\ Become(s, new)
    BY <1>5 DEF Record, Idle
  <2> HIDE DEF new
  <2> QED BY <1>1, <2>1, BecomeSilent
<1>6. CASE BootRead(s)
  <2> DEFINE new == [Idle EXCEPT !.at = "boot", !.print = print, !.snap = disk]
  <2>1. new.at = "boot" /\ new.gone = {} /\ Become(s, new)
    BY <1>6 DEF BootRead, Idle
  <2> HIDE DEF new
  <2> QED BY <1>1, <2>1, BecomeSilent
<1>7. CASE BootSyncs(s)
  <2> DEFINE new == [Idle EXCEPT !.at = "sync"]
  <2>1. new.at = "sync" /\ new.gone = {} /\ Become(s, new)
    BY <1>7 DEF BootSyncs, Idle
  <2> HIDE DEF new
  <2> QED BY <1>1, <2>1, BecomeSilent
<1>8. ASSUME NEW p \in Products, Publish(s, p) PROVE Silent
  <2> DEFINE new == [Idle EXCEPT !.at = "write", !.of = p]
  <2>1. new.at = "write" /\ new.gone = {} /\ Become(s, new)
    BY <1>8 DEF Publish, Idle
  <2> HIDE DEF new
  <2> QED BY <1>1, <2>1, BecomeSilent
<1>9. CASE Written(s) \/ RebuildJob(s) \/ BootRebuilds(s) \/ InsertFails(s)
           \/ SyncFails(s) \/ Crash(s)
  <2>1. Become(s, [Idle EXCEPT !.at = "begin"]) \/ Become(s, Idle)
    BY <1>9 DEF Written, RebuildJob, BootRebuilds, InsertFails, SyncFails, Crash
  <2>2. /\ [Idle EXCEPT !.at = "begin"].at = "begin" /\ Idle.at = "idle"
        /\ [Idle EXCEPT !.at = "begin"].gone = {} /\ Idle.gone = {}
    BY DEF Idle
  <2> QED BY <1>1, <2>1, <2>2, BecomeSilent
<1> QED BY <1>2, <1>3, <1>4, <1>5, <1>6, <1>7, <1>8, <1>9

(***************************************************************************)
(* The steps that write the rows.                                          *)
(***************************************************************************)

LEMMA DeletedGone ==
  ASSUME NEW new \in [Sessions -> Session], NEW ps, Deleted(ps, new),
         NEW t \in Sessions
  PROVE  IF new[t].at = "syncing"
         THEN sess'[t].gone = new[t].gone \cup {p \in ps : row[p].gen > 0}
         ELSE sess'[t] = new[t]
<1> DEFINE g == new[t].gone \cup {p \in ps : row[p].gen > 0}
<1>1. CASE new[t].at = "syncing"
  <2>1. sess'[t] = [new[t] EXCEPT !.gone = g]
    BY <1>1 DEF Deleted
  <2> HIDE DEF g
  <2>2. sess'[t].gone = g
    BY <2>1 DEF Session
  <2> QED BY <1>1, <2>2 DEF g
<1>2. CASE new[t].at # "syncing"
  BY <1>2 DEF Deleted
<1> QED BY <1>1, <1>2

LEMMA EmptyLabels ==
  ASSUME CoverInv, LabelInv, NEW s \in Sessions, Empty(s)
  PROVE  LabelInv'
<1> DEFINE new == [sess EXCEPT ![s] = [sess[s] EXCEPT !.at = "insert"]]
<1>0. /\ TypeOK /\ At(s, "empty") /\ [Next]_vars
      /\ UNCHANGED <<compat, labels, owner>>
      /\ sess \in [Sessions -> Session]
  BY DEF CoverInv, Empty, Next, Work, bounds, history, TypeOK
<1>1. /\ new \in [Sessions -> Session] /\ Deleted(Products, new)
      /\ new[s].at = "insert" /\ new[s].gone = {}
      /\ \A t \in Sessions \ {s} : new[t] = sess[t]
  <2>1. sess[s] \in Session /\ sess[s].gone = {}
    BY <1>0 DEF LabelInv, InPairRead, At
  <2>2. [sess[s] EXCEPT !.at = "insert"] \in Session
    BY <2>1 DEF Session, Places
  <2> QED BY <1>0, <2>1, <2>2 DEF Empty, Session
<1>2. OwnersStay
  BY <1>0, OwnersSame
<1>3. ASSUME NEW t \in Sessions
      PROVE  IF sess'[t].at = "syncing"
             THEN Reads(t) /\ sess'[t].gone = sess[t].gone \cup Rows
             ELSE sess'[t].gone = {}
  <2>1. /\ sess'[t].at = new[t].at /\ sess'[t].rows = new[t].rows
        /\ sess'[t].kept = new[t].kept
        /\ IF new[t].at = "syncing"
           THEN sess'[t].gone = new[t].gone \cup {p \in Products : row[p].gen > 0}
           ELSE sess'[t] = new[t]
    BY <1>1, DeletedFrame, DeletedGone
  <2>2. sess[t].at # "syncing" => sess[t].gone = {}
    BY DEF LabelInv, InPairRead, At
  <2> HIDE DEF new
  <2> QED BY <1>1, <2>1, <2>2 DEF Reads, At, Rows
<1> HIDE DEF new
<1>4. \A p \in Products : row'[p].label = 0
  BY DEF Empty, Nothing
<1>5. \A p \in Products : InPair(row[p].label, p)' /\ InPair(compat[p].label, p)'
  BY <1>0, <1>2, <1>4, TablesStill
<1>6. ASSUME NEW t \in Sessions PROVE InPairRead(t)'
  <2>1. CASE sess'[t].at = "syncing"
    BY <1>0, <1>2, <1>3, <2>1, InPairReadStill DEF LabelInv, At
  <2>2. CASE sess'[t].at # "syncing"
    BY <1>3, <2>2 DEF InPairRead, At
  <2> QED BY <2>1, <2>2
<1>7. ASSUME NEW d \in Pairs, Quiet(d)' PROVE PairInv(d)'
  <2>1. PairInv(d)
    BY <1>0, <1>7, QuietBefore DEF LabelInv
  <2>2. ASSUME NEW t \in Sessions, At(t, "syncing")'
        PROVE  Reads(t) /\ SeenOf(t, d) \subseteq sess'[t].gone
    <3>1. Reads(t) /\ sess'[t].gone = sess[t].gone \cup Rows
      BY <1>3, <2>2 DEF At
    <3>2. ReadRows(t, d)
      BY <2>1, <3>1 DEF Reads, PairInv, ReadInv
    <3>3. RowsOf(d) \subseteq Rows
      BY DEF RowsOf, Rows, OfPair
    <3> QED BY <3>1, <3>2, <3>3 DEF ReadRows
  <2>3. \A p \in OfPair(d) : row'[p].label = 0
    BY <1>4 DEF OfPair
  <2> QED BY <1>0, <2>1, <2>2, <2>3, RowsGone
<1> QED BY <1>5, <1>6, <1>7 DEF LabelInv

LEMMA CommitRowsLabels ==
  ASSUME CoverInv, LabelInv, NEW s \in Sessions, CommitRows(s)
  PROVE  LabelInv'
<1> DEFINE new == [sess[s] EXCEPT !.at = "record"]
<1>0. /\ TypeOK /\ At(s, "commit") /\ [Next]_vars
      /\ UNCHANGED <<compat, labels, owner>>
  BY DEF CoverInv, CommitRows, Next, Work, bounds, history
<1>1. /\ sess'[s] = new /\ new.at = "record" /\ new.gone = {}
      /\ \A t \in Sessions \ {s} : sess'[t] = sess[t]
  <2>1. sess[s] \in Session /\ sess[s].gone = {}
    BY <1>0 DEF LabelInv, InPairRead, At, TypeOK
  <2> QED BY <1>0, <2>1 DEF CommitRows, Become, TypeOK, Session
<1> HIDE DEF new
<1>2. OwnersStay
  BY <1>0, OwnersSame
<1>3. ASSUME NEW t \in Sessions
      PROVE  IF sess'[t].at = "syncing" THEN Reads(t) /\ sess'[t] = sess[t]
             ELSE sess'[t].gone = {}
  BY <1>1 DEF LabelInv, InPairRead, Reads, At
<1>4. \A p \in Products : row'[p].label \in {row[p].label, 0}
  BY DEF CommitRows
<1>5. \A p \in Products : InPair(row[p].label, p)' /\ InPair(compat[p].label, p)'
  BY <1>0, <1>2, <1>4, TablesStill
<1>6. ASSUME NEW t \in Sessions PROVE InPairRead(t)'
  <2>1. CASE sess'[t].at = "syncing"
    BY <1>0, <1>2, <1>3, <2>1, InPairReadStill DEF LabelInv, At
  <2>2. CASE sess'[t].at # "syncing"
    BY <1>3, <2>2 DEF InPairRead, At
  <2> QED BY <2>1, <2>2
<1>7. ASSUME NEW d \in Pairs, Quiet(d)' PROVE PairInv(d)'
  <2>1. PairInv(d) /\ Quiet(d)
    BY <1>0, <1>7, QuietBefore DEF LabelInv
  <2>2. Rows = {}
    BY <1>0, <2>1 DEF CoverInv, Covered, Quiet, Replacing, At
  <2>3. \A p \in OfPair(d) : row'[p].label = 0
    <3> TAKE p \in OfPair(d)
    <3>1. p \in Products /\ row[p].gen \in Nat
      BY <1>0 DEF OfPair, TypeOK
    <3>2. row[p].gen = 0
      BY <2>2, <3>1 DEF Rows
    <3> QED BY <1>4, <2>1, <3>1, <3>2 DEF PairInv, TablesOwn
  <2>4. ASSUME NEW t \in Sessions, At(t, "syncing")'
        PROVE  Reads(t) /\ SeenOf(t, d) \subseteq sess'[t].gone
    <3>1. Reads(t) /\ sess'[t] = sess[t]
      BY <1>3, <2>4 DEF At
    <3>2. ReadRows(t, d)
      BY <2>1, <3>1 DEF Reads, PairInv, ReadInv
    <3>3. RowsOf(d) = {}
      BY <2>2 DEF RowsOf, Rows, OfPair
    <3> QED BY <3>1, <3>2, <3>3 DEF ReadRows
  <2> QED BY <1>0, <2>1, <2>3, <2>4, RowsGone
<1> QED BY <1>5, <1>6, <1>7 DEF LabelInv

(***************************************************************************)
(* The synchronisations.                                                   *)
(***************************************************************************)

LEMMA SyncReadLabels ==
  ASSUME CoverInv, LabelInv, NEW s \in Sessions, SyncRead(s)
  PROVE  LabelInv'
<1> DEFINE r == [p \in Products |-> IF row[p].gen > 0 THEN row[p].label ELSE NoRow]
           new == [sess[s] EXCEPT !.at = "syncing", !.rows = r, !.kept = compat]
<1>0. /\ TypeOK /\ [Next]_vars /\ sess[s] \in Session
      /\ UNCHANGED <<row, compat, labels, owner>>
  BY DEF CoverInv, TypeOK, SyncRead, Next, Work, bounds, history
<1>1. /\ sess'[s] = new /\ new.at = "syncing" /\ new.rows = r /\ new.kept = compat
      /\ \A t \in Sessions \ {s} : sess'[t] = sess[t]
  BY <1>0 DEF SyncRead, Become, TypeOK, Session
<1> HIDE DEF new
<1>2. OwnersStay
  BY <1>0, OwnersSame
<1>3. \A p \in Products : InPair(row[p].label, p)' /\ InPair(compat[p].label, p)'
  BY <1>0, <1>2, TablesStill
<1>4. InPairRead(s)'
  <2>1. ASSUME NEW p \in Products
        PROVE  InPair(sess[s].rows[p], p)' /\ InPair(sess[s].kept[p].label, p)'
    <3>1. sess'[s].rows[p] \in {row[p].label, NoRow}
      BY <1>1
    <3>2. InPair(NoRow, p)'
      BY DEF InPair, NoRow
    <3>3. InPair(row[p].label, p)' /\ InPair(compat[p].label, p)'
      BY <1>3
    <3> QED BY <1>0, <1>1, <3>1, <3>2, <3>3 DEF InPair
  <2>2. sess'[s].at = "syncing"
    BY <1>1
  <2> QED BY <2>1, <2>2 DEF InPairRead, At
<1>5. ASSUME NEW t \in Sessions \ {s} PROVE InPairRead(t)'
  <2>1. CASE At(t, "syncing")
    <3>1. Reads(t) /\ At(t, "syncing")'
      BY <1>1, <2>1 DEF Reads, At
    <3> QED BY <1>0, <1>2, <3>1, InPairReadStill DEF LabelInv
  <2>2. CASE ~At(t, "syncing")
    BY <1>1, <2>2 DEF LabelInv, InPairRead, At
  <2> QED BY <2>1, <2>2
<1>6. \A t \in Sessions : InPairRead(t)'
  BY <1>4, <1>5
<1>7. \A d \in Pairs : Quiet(d)' => PairInv(d)'
  BY <1>0, QuietBefore, ReadPair DEF LabelInv
<1> QED BY <1>3, <1>6, <1>7 DEF LabelInv

LEMMA SyncCommitLabels ==
  ASSUME CoverInv, LabelInv, NEW s \in Sessions, SyncCommit(s)
  PROVE  LabelInv'
<1>0. /\ TypeOK /\ [Next]_vars /\ At(s, "syncing")
      /\ UNCHANGED <<labels, owner>>
  BY DEF CoverInv, SyncCommit, Next, Work, bounds, history
<1>1. /\ sess'[s].at = "idle" /\ sess'[s].gone = {}
      /\ \A t \in Sessions \ {s} : sess'[t] = sess[t]
  BY <1>0 DEF SyncCommit, Become, TypeOK, Idle
<1>2. OwnersStay
  BY <1>0, OwnersSame
<1>3. PICK take \in Takings(s) :
    /\ row' = [p \in Products |->
         IF p \in Relabelled(s, take)
         THEN [gen |-> row[p].gen, label |-> Found(s, take, p)] ELSE row[p]]
    /\ compat' = [p \in Products |->
         IF p \in Created(s, take)
         THEN [id |-> ids + Cardinality({q \in Created(s, take) : q <= p}),
               label |-> sess[s].rows[p]]
         ELSE IF p \in Moved(s, take) THEN compat[take[p]]
         ELSE IF p \in Left(s, take) \cup Pruned(s, take) THEN Missing
         ELSE compat[p]]
  BY DEF SyncCommit
<1>4. ASSUME NEW p \in DOMAIN take, take[p] # 0
      PROVE  p \in Products /\ take[p] \in Products /\ PairOf[take[p]] = PairOf[p]
  <2>1. take[p] \in Unused(s, take, p)
    BY <1>4 DEF Takings, Taking
  <2> QED BY <2>1 DEF Unused, Known, Alike, Takings, Seen
<1>5. \A p \in Products :
        /\ InPair(row[p].label, p) /\ InPair(compat[p].label, p)
        /\ InPair(sess[s].rows[p], p) /\ InPair(sess[s].kept[p].label, p)
  BY <1>0 DEF LabelInv, InPairRead
<1>6. ASSUME NEW p \in Products
      PROVE  InPair(row[p].label, p)' /\ InPair(compat[p].label, p)'
  <2>1. InPair(row'[p].label, p)
    <3>1. CASE row'[p].label = row[p].label
      BY <1>5, <3>1
    <3>2. CASE p \in Seen(s) /\ row'[p].label = Found(s, take, p)
      <4>1. CASE p \in Known(s)
        BY <1>5, <3>2, <4>1 DEF Found
      <4>2. CASE p \notin Known(s)
        <5>1. p \in DOMAIN take
          BY <3>2, <4>2 DEF Takings
        <5>2. CASE take[p] # 0
          <6>1. Found(s, take, p) = sess[s].kept[take[p]].label
            BY <4>2, <5>2 DEF Found
          <6>2. InPair(sess[s].kept[take[p]].label, take[p])
            BY <1>4, <1>5, <5>1, <5>2
          <6> QED BY <1>4, <3>2, <5>1, <5>2, <6>1, <6>2 DEF InPair
        <5>3. CASE take[p] = 0
          BY <1>5, <3>2, <4>2, <5>3 DEF Found
        <5> QED BY <5>2, <5>3
      <4> QED BY <4>1, <4>2
    <3> QED BY <1>3, <3>1, <3>2 DEF Relabelled
  <2>2. InPair(compat'[p].label, p)
    <3>1. CASE p \in Created(s, take)
      <4> PICK n : n = ids + Cardinality({q \in Created(s, take) : q <= p})
        OBVIOUS
      <4>1. compat'[p] = [id |-> n, label |-> sess[s].rows[p]]
        BY <1>3, <3>1
      <4> QED BY <1>5, <4>1
    <3>2. CASE p \in Moved(s, take)
      <4>1. p \notin Created(s, take) /\ p \in DOMAIN take /\ take[p] # 0
        BY <3>2 DEF Moved, Created
      <4>2. compat'[p] = compat[take[p]]
        BY <1>3, <3>2, <4>1
      <4>3. InPair(compat[take[p]].label, take[p])
        BY <1>4, <1>5, <4>1
      <4> QED BY <1>4, <4>1, <4>2, <4>3 DEF InPair
    <3>3. CASE p \notin Created(s, take) \cup Moved(s, take)
      <4>1. compat'[p] \in {compat[p], Missing}
        BY <1>3, <3>3
      <4> QED BY <1>5, <4>1 DEF Missing, InPair
    <3> QED BY <3>1, <3>2, <3>3
  <2> QED BY <1>0, <2>1, <2>2 DEF InPair
<1>7. ASSUME NEW t \in Sessions PROVE InPairRead(t)'
  <2>1. CASE t = s
    BY <1>1, <2>1 DEF InPairRead, At
  <2>2. CASE t # s /\ At(t, "syncing")
    <3>1. Reads(t) /\ At(t, "syncing")'
      BY <1>1, <2>2 DEF Reads, At
    <3> QED BY <1>0, <1>2, <3>1, InPairReadStill DEF LabelInv
  <2>3. CASE t # s /\ ~At(t, "syncing")
    BY <1>1, <2>3 DEF LabelInv, InPairRead, At
  <2> QED BY <2>1, <2>2, <2>3
<1>8. \A d \in Pairs : Quiet(d)' => PairInv(d)'
  BY <1>0, QuietBefore, CommitPairInv DEF LabelInv
<1> QED BY <1>6, <1>7, <1>8 DEF LabelInv

(***************************************************************************)
(* Users and clean-ups.                                                    *)
(***************************************************************************)

LEMMA SetLabelLabels ==
  ASSUME CoverInv, LabelInv, NEW p \in Products, SetLabel(p)
  PROVE  LabelInv'
<1>0. TypeOK /\ [Next]_vars /\ sess' = sess
  BY DEF CoverInv, SetLabel, Next
<1>1. PICK n \in Nat : labels' = n
  BY <1>0 DEF TypeOK, SetLabel
<1>2. OwnersStay /\ owner'[n] = p /\ n <= labels'
  <2>1. labels \in Nat /\ labels' = labels + 1 /\ labels < MaxLabels /\ MaxLabels \in Nat
    BY <1>0, CatalogBounds DEF TypeOK, SetLabel
  <2>2. n \in 1..MaxLabels /\ n = labels + 1
    BY <1>1, <2>1
  <2>3. owner' = [owner EXCEPT ![n] = p] /\ owner \in [1..MaxLabels -> Products \cup {0}]
    BY <1>0, <1>1 DEF SetLabel, TypeOK
  <2>4. \A m \in 1..labels : m # n /\ m \in 1..MaxLabels
    BY <2>1, <2>2
  <2>5. labels <= labels'
    BY <1>1, <2>1, <2>2
  <2> QED BY <1>1, <2>1, <2>2, <2>3, <2>4, <2>5 DEF OwnersStay
<1>3. /\ row[p].gen > 0 /\ row[p].gen # 0
      /\ row'[p] = [gen |-> row[p].gen, label |-> n]
      /\ compat'[p] = [id |-> compat[p].id, label |-> n]
      /\ \A q \in Products \ {p} : row'[q] = row[q] /\ compat'[q] = compat[q]
  <2>1. row[p].gen > 0 => row[p].gen # 0
    OBVIOUS
  <2> QED BY <1>0, <1>1, <2>1 DEF TypeOK, SetLabel
<1>4. ASSUME NEW q \in Products
      PROVE  InPair(row[q].label, q)' /\ InPair(compat[q].label, q)'
  <2>1. CASE q = p
    BY <1>1, <1>2, <1>3, <2>1 DEF InPair
  <2>2. CASE q # p
    <3> PICK i \in Int, j \in Int : i = row[q].label /\ j = compat[q].label
      <4>1. row[q].label \in Int /\ compat[q].label \in Int
        BY <1>0 DEF TypeOK
      <4> QED BY <4>1
    <3>1. InPair(i, q)' /\ InPair(j, q)'
      BY <1>2, LabelStill DEF LabelInv
    <3> QED BY <1>3, <2>2, <3>1 DEF InPair
  <2> QED BY <2>1, <2>2
<1>5. ASSUME NEW t \in Sessions PROVE InPairRead(t)'
  <2>1. CASE At(t, "syncing")
    <3>1. Reads(t) /\ At(t, "syncing")'
      BY <1>0, <2>1 DEF Reads, At
    <3> QED BY <1>0, <1>2, <3>1, InPairReadStill DEF LabelInv
  <2>2. CASE ~At(t, "syncing")
    BY <1>0, <2>2 DEF LabelInv, InPairRead, At
  <2> QED BY <2>1, <2>2
<1>6. ASSUME NEW d \in Pairs, Quiet(d)' PROVE PairInv(d)'
  <2>1. PairInv(d)
    BY <1>0, <1>6, QuietBefore DEF LabelInv
  <2>2. ReadersStay(d)
    BY <1>0 DEF ReadersStay, Reads, At
  <2>3. ASSUME NEW q \in OfPair(d)
        PROVE  /\ compat'[q].id = compat[q].id /\ row'[q].gen = row[q].gen
               /\ compat'[q].label = compat[q].label \/ Own(compat[q].label, q)'
               /\ \/ row'[q].label = row[q].label
                  \/ row[q].gen # 0 /\ Own(row[q].label, q)'
    <3>1. CASE q = p
      BY <1>2, <1>3, <3>1 DEF Own
    <3>2. CASE q # p
      BY <1>3, <3>2 DEF OfPair
    <3> QED BY <3>1, <3>2
  <2>4. Presence(d)
    BY <2>3 DEF Presence
  <2> QED BY <1>0, <1>2, <2>1, <2>2, <2>3, <2>4, PairStill
<1> QED BY <1>4, <1>5, <1>6 DEF LabelInv

LEMMA CleanRowsLabels ==
  ASSUME CoverInv, LabelInv, NEW c \in Pairs, CleanRows(c)
  PROVE  LabelInv'
<1>0. /\ TypeOK /\ [Next]_vars /\ UNCHANGED <<labels, owner>>
      /\ cleaned' = cleaned \cup OfPair(c)
      /\ sess \in [Sessions -> Session] /\ Deleted(OfPair(c), sess)
  BY DEF CoverInv, TypeOK, CleanRows, Next
<1>1. OwnersStay
  BY <1>0, OwnersSame
<1>2. \A p \in Products :
        /\ row'[p] = IF p \in OfPair(c) THEN Nothing ELSE row[p]
        /\ compat'[p] = IF p \in OfPair(c) /\ row[p].gen > 0 THEN Missing ELSE compat[p]
  BY DEF CleanRows
<1>3. \A p \in Products : InPair(row[p].label, p)' /\ InPair(compat[p].label, p)'
  <2>1. \A p \in Products : /\ row'[p].label \in {row[p].label, 0}
                            /\ compat'[p].label \in {compat[p].label, 0}
    BY <1>2 DEF Nothing, Missing
  <2> QED BY <1>0, <1>1, <2>1, TablesStill
<1>4. ASSUME NEW t \in Sessions
      PROVE  IF sess'[t].at = "syncing"
             THEN /\ Reads(t)
                  /\ sess'[t].gone = sess[t].gone \cup RowsOf(c)
             ELSE sess'[t].gone = {}
  <2>1. /\ sess'[t].at = sess[t].at /\ sess'[t].rows = sess[t].rows
        /\ sess'[t].kept = sess[t].kept
        /\ IF sess[t].at = "syncing"
           THEN sess'[t].gone = sess[t].gone \cup {p \in OfPair(c) : row[p].gen > 0}
           ELSE sess'[t] = sess[t]
    BY <1>0, DeletedFrame, DeletedGone
  <2>2. sess[t].at # "syncing" => sess[t].gone = {}
    BY DEF LabelInv, InPairRead, At
  <2> QED BY <2>1, <2>2 DEF Reads, At, RowsOf
<1>5. ASSUME NEW t \in Sessions PROVE InPairRead(t)'
  <2>1. CASE sess'[t].at = "syncing"
    BY <1>0, <1>1, <1>4, <2>1, InPairReadStill DEF LabelInv, At
  <2>2. CASE sess'[t].at # "syncing"
    BY <1>4, <2>2 DEF InPairRead, At
  <2> QED BY <2>1, <2>2
<1>6. ASSUME NEW d \in Pairs, Quiet(d)' PROVE PairInv(d)'
  <2>1. PairInv(d)
    BY <1>0, <1>6, QuietBefore DEF LabelInv
  <2>2. OfPair(d) \cap OfPair(c) = {} /\ OfPair(d) \subseteq Products
    BY <1>0, <1>6 DEF Quiet, OfPair
  <2>3. \A p \in OfPair(d) : row'[p] = row[p] /\ compat'[p] = compat[p]
    BY <1>2, <2>2
  <2>4. Presence(d)
    BY <2>3 DEF Presence
  <2>5. ReadersStay(d)
    <3> SUFFICES ASSUME NEW t \in Sessions, At(t, "syncing")'
                 PROVE  /\ Reads(t)
                        /\ sess'[t].gone \cap OfPair(d) = sess[t].gone \cap OfPair(d)
      BY DEF ReadersStay
    <3>1. Reads(t) /\ sess'[t].gone = sess[t].gone \cup RowsOf(c)
      BY <1>4 DEF At
    <3>2. RowsOf(c) \cap OfPair(d) = {}
      BY <2>2 DEF RowsOf
    <3> QED BY <3>1, <3>2
  <2> QED BY <1>0, <1>1, <2>1, <2>3, <2>4, <2>5, PairStill
<1> QED BY <1>3, <1>5, <1>6 DEF LabelInv

LEMMA LabelInvStep == CoverInv /\ LabelInv /\ [Next]_vars => LabelInv'
<1> SUFFICES ASSUME CoverInv, LabelInv, [Next]_vars PROVE LabelInv'
  OBVIOUS
<1>0. TypeOK
  BY DEF CoverInv
<1>1. CASE UNCHANGED vars \/ CleanDisk
  <2>1. UNCHANGED <<row, compat, labels, owner, sess>>
    BY <1>1 DEF vars, program, bounds, history, CleanDisk
  <2>2. Silent
    BY <2>1 DEF Silent, LabelInv, InPairRead, At
  <2> QED BY <1>0, <2>2, QuietBefore, SilentLabels
<1>2. ASSUME NEW s \in Sessions,
             \/ Written(s) \/ RebuildJob(s) \/ Begin(s) \/ Scan(s) \/ Insert(s)
             \/ InsertFails(s) \/ Record(s) \/ SyncFails(s) \/ BootRead(s)
             \/ BootRebuilds(s) \/ BootSyncs(s) \/ Crash(s)
             \/ \E p \in Products : Publish(s, p)
      PROVE  LabelInv'
  BY <1>0, <1>2, QuietBefore, SilentActions, SilentLabels
<1> QED BY <1>1, <1>2, EmptyLabels, CommitRowsLabels, SyncReadLabels,
           SyncCommitLabels, SetLabelLabels, CleanRowsLabels DEF Next, Work

LEMMA LabelInvInit == Init => LabelInv
<1> SUFFICES ASSUME Init PROVE LabelInv
  OBVIOUS
<1>1. \A p \in Products : row[p] = Nothing /\ compat[p] = Missing
  BY DEF Init
<1>2. \A s \in Sessions : ~At(s, "syncing") /\ sess[s].gone = {}
  BY DEF Init, At, Idle
<1>3. \A p \in Products : InPair(row[p].label, p) /\ InPair(compat[p].label, p)
  BY <1>1 DEF Nothing, Missing, InPair
<1>4. ASSUME NEW d \in Pairs PROVE PairInv(d)
  <2>1. HeldOf(d) = {}
    BY <1>1 DEF HeldOf, OfPair, Missing
  <2>2. TablesOwn(d)
    BY <1>1 DEF TablesOwn, OfPair, Nothing, Missing, Own, Lent
  <2> QED BY <1>2, <2>1, <2>2 DEF PairInv
<1> QED BY <1>2, <1>3, <1>4 DEF LabelInv, InPairRead

\* A quiet pair shows the labels of owners and of heirs, and an heir has no row
\* of its own; in the others they have not left the pair.
LEMMA LabelsOwned == TypeOK /\ LabelInv => LabelsOwn
<1> SUFFICES ASSUME TypeOK, LabelInv, NEW p \in Products, row[p].label > 0
             PROVE  LET q == owner[row[p].label] IN
                    \/ q = p
                    \/ PairOf[q] = PairOf[p] /\ p < q /\ compat[p].id = 0
                    \/ /\ PairOf[q] = PairOf[p]
                       /\ OfPair(PairOf[p]) \cap (cleaned \cup unread) # {} \/ overlapped
  BY DEF LabelsOwn
<1> DEFINE q == owner[row[p].label]
           d == PairOf[p]
<1>1. PairOf[q] = PairOf[p] /\ d \in Pairs /\ p \in OfPair(d)
  BY CatalogAssumption DEF LabelInv, InPair, OfPair
<1>2. CASE Quiet(d)
  <2>1. Lent(row[p].label, p, HeirsNow(d))
    BY <1>1, <1>2 DEF LabelInv, PairInv, TablesOwn
  <2>2. q = p \/ (q > p /\ p \in HeirsNow(d))
    BY <2>1 DEF Lent, Own
  <2>3. p \in HeirsNow(d) => compat[p].id = 0
    <3> SUFFICES ASSUME p \in HeirsNow(d) PROVE compat[p].id = 0
      OBVIOUS
    <3>1. ~(compat[p].id > 0) /\ compat[p].id \in Nat
      BY <1>1 DEF HeirsNow, Heirs, HeldOf, TypeOK
    <3> QED BY <3>1
  <2>4. q > p => p < q
    OBVIOUS
  <2> QED BY <1>1, <2>2, <2>3, <2>4
<1>3. CASE ~Quiet(d)
  BY <1>1, <1>3 DEF Quiet
<1> QED BY <1>2, <1>3

(***************************************************************************)
(* The inductive invariant of the catalog, and what follows from it.       *)
(***************************************************************************)

\* Every execution, whatever the number of products, sessions and rebuilds.
THEOREM CatalogInvariant == Spec => []CatalogInv
<1>1. Init => CatalogInv
  BY CoverInit, PrintInit, LabelInvInit DEF CatalogInv
<1>2. CatalogInv /\ [Next]_vars => CatalogInv'
  BY CoverStep, PrintStep, LabelInvStep DEF CatalogInv, CoverInv
<1> QED BY <1>1, <1>2, PTL DEF Spec

\* A row is there only for a package that is there; as many rows as packages are
\* all of them, and the fingerprint says that none is out of date.
LEMMA StartsRight == CatalogInv => NoticedAtBoot
<1> SUFFICES ASSUME CatalogInv, cleaned = {}, \A p \in Products : disk[p] >= 0,
                    ~NeedsRebuild(disk, print), NEW p \in Products
             PROVE  row[p].gen = disk[p]
  BY DEF NoticedAtBoot
<1>1. /\ \A q \in Products : row[q].gen \in Nat /\ disk[q] \in Int
      /\ OnDisk /\ \A q \in Products : Vouched(q)
  BY DEF CatalogInv, CoverInv, PrintInv, TypeOK
<1>2. Rows \subseteq Present(disk) /\ Present(disk) \subseteq Products
  BY <1>1 DEF OnDisk, Indexed, Rows, Present
<1>3. Rows = Present(disk)
  <2>1. IsFiniteSet(Present(disk))
    BY <1>2, CatalogAssumption, FS_Subset
  <2>2. Cardinality(Rows) = Cardinality(Present(disk))
    BY DEF NeedsRebuild
  <2> QED BY <1>2, <2>1, <2>2, FS_Subset
<1>4. CASE disk[p] = 0
  <2>1. p \notin Rows
    BY <1>3, <1>4 DEF Present
  <2> QED BY <1>1, <1>4, <2>1 DEF Rows
<1>5. CASE disk[p] # 0
  <2>1. p \in Rows
    BY <1>3, <1>5 DEF Present
  <2>2. print = disk
    BY <1>5 DEF NeedsRebuild, Present
  <2>3. disk[p] > 0
    BY <1>1, <1>5
  <2>4. Settles(p)
    BY <1>1, <2>2, <2>3 DEF Vouched
  <2> QED BY <2>1, <2>4 DEF Rows, Settles
<1> QED BY <1>4, <1>5

\* When nobody is at work nobody is between the two commits of a rebuild, so the
\* table is whole or a rebuild died there.
LEMMA ListedRight == CoverInv => ListedStays
<1> SUFFICES ASSUME CoverInv, \A s \in Sessions : At(s, "idle"),
                    ~emptied, ~overlapped
             PROVE  listed \subseteq cleaned \cup unread \cup Rows
  BY DEF ListedStays
<1>1. RowsCover
  BY DEF CoverInv, Covered, Replacing, At
<1>2. listed \subseteq Products
  BY DEF CoverInv, TypeOK
<1> QED BY <1>1, <1>2 DEF RowsCover, Indexed, Rows

(***************************************************************************)
(* LabelsKept: only a synchronisation could take a label from the older    *)
(* table, and what it prunes or passes on was cleaned up or half written.  *)
(***************************************************************************)

LEMMA SyncKeeps ==
  ASSUME CoverInv, NEW s \in Sessions, SyncCommit(s), ~overlapped,
         NEW p \in Products, compat[p].label > 0, p \notin cleaned \cup unread
  PROVE  compat'[p] = compat[p]
<1> PICK take \in Takings(s) :
    /\ Syncs(s, take)
    /\ compat' = [q \in Products |->
         IF q \in Created(s, take)
         THEN [id |-> ids + Cardinality({r \in Created(s, take) : r <= q}),
               label |-> sess[s].rows[q]]
         ELSE IF q \in Moved(s, take) THEN compat[take[q]]
         ELSE IF q \in Left(s, take) \cup Pruned(s, take) THEN Missing
         ELSE compat[q]]
  BY DEF SyncCommit
<1>1. compat[p].id # 0
  BY DEF CoverInv, Sound, TypeOK
<1>2. p \notin Created(s, take) \cup Moved(s, take)
  BY <1>1 DEF Syncs
<1>3. take \in [Seen(s) \ Known(s) -> Products \cup {0}]
  BY DEF Takings
<1>4. ASSUME p \in Left(s, take) \cup Pruned(s, take) PROVE FALSE
  <2>1. p \in Known(s) \ Seen(s)
    <3>1. ASSUME NEW q \in Moved(s, take), p = take[q] PROVE p \in Known(s) \ Seen(s)
      <4>1. take[q] # 0 /\ take[q] \notin Seen(s) /\ q \in DOMAIN take
        BY DEF Moved
      <4>2. take[q] \in Unused(s, take, q)
        BY <4>1 DEF Takings, Taking
      <4> QED BY <3>1, <4>1, <4>2 DEF Unused
    <3> QED BY <1>4, <3>1 DEF Left, Pruned
  <2>2. sess[s].prune \/ Seen(s) # {}
    BY <1>3, <1>4 DEF Left, Moved, Pruned
  <2>3. ReadCovers(s) /\ At(s, "syncing")
    BY DEF CoverInv, Covered, SyncCommit
  <2> QED BY <2>1, <2>2, <2>3 DEF ReadCovers
<1> QED BY <1>2, <1>4

LEMMA LabelsStep == CoverInv /\ LabelsKept /\ [Next]_vars => LabelsKept'
<1> SUFFICES ASSUME CoverInv, LabelsKept, [Next]_vars PROVE LabelsKept'
  OBVIOUS
<1>0. /\ cleaned \subseteq cleaned' /\ (overlapped => overlapped')
      /\ \A n \in 1..labels : owner[n] \in Products
      /\ labels \in Nat
  BY CleanedGrows, OverlappedStays DEF CoverInv, Sound, TypeOK
<1>1. ASSUME UNCHANGED <<labels, owner>>, unread \subseteq unread',
             \A p \in Products : compat[p].label > 0 =>
               compat'[p].label = compat[p].label
                 \/ p \in cleaned' \cup unread' \/ overlapped'
      PROVE  LabelsKept'
  BY <1>0, <1>1 DEF LabelsKept
<1>2. CASE UNCHANGED <<compat, labels, owner>> /\ unread \subseteq unread'
  BY <1>1, <1>2
<1>3. ASSUME NEW s \in Sessions, SyncCommit(s) PROVE LabelsKept'
  <2>1. UNCHANGED <<labels, owner, unread, cleaned, overlapped>>
    BY <1>3 DEF SyncCommit, bounds, history
  <2> QED BY <1>1, <1>3, <2>1, SyncKeeps
<1>4. ASSUME NEW p \in Products, SetLabel(p) PROVE LabelsKept'
  <2>1. /\ labels' = labels + 1 /\ UNCHANGED <<cleaned, unread, overlapped>>
        /\ labels' \in 1..MaxLabels
    BY <1>0, <1>4, CatalogBounds DEF SetLabel, CoverInv, TypeOK
  <2>2. /\ owner'[labels'] = p
        /\ \A n \in 1..labels : owner'[n] = owner[n]
    BY <1>0, <1>4, <2>1 DEF SetLabel, CoverInv, TypeOK
  <2>3. /\ compat'[p].label = labels'
        /\ \A q \in Products \ {p} : compat'[q] = compat[q]
    BY <1>4 DEF SetLabel, CoverInv, TypeOK
  <2> SUFFICES ASSUME NEW n \in 1..labels'
               PROVE  \/ owner'[n] \in cleaned' \cup unread' \/ overlapped'
                      \/ \E m \in n+1..labels' : owner'[m] = owner'[n]
                      \/ compat'[owner'[n]].label = n
    BY DEF LabelsKept
  <2>4. CASE n = labels'
    BY <2>2, <2>3, <2>4
  <2>5. CASE n # labels'
    <3>1. n \in 1..labels /\ labels' \in n+1..labels'
      BY <1>0, <2>1, <2>5
    <3>2. CASE owner[n] = p
      BY <2>2, <3>1, <3>2
    <3>3. CASE owner[n] # p
      <4>1. \/ owner[n] \in cleaned \cup unread \/ overlapped
            \/ \E m \in n+1..labels : owner[m] = owner[n]
            \/ compat[owner[n]].label = n
        BY <3>1 DEF LabelsKept
      <4>2. ASSUME NEW m \in n+1..labels, owner[m] = owner[n]
            PROVE  m \in n+1..labels' /\ owner'[m] = owner'[n]
        BY <1>0, <2>1, <2>2, <3>1, <4>2
      <4> QED BY <1>0, <2>1, <2>2, <2>3, <3>1, <3>3, <4>1, <4>2
    <3> QED BY <3>2, <3>3
  <2> QED BY <2>4, <2>5
<1>5. ASSUME NEW d \in Pairs, CleanRows(d) PROVE LabelsKept'
  <2>1. UNCHANGED <<labels, owner, unread>>
    BY <1>5 DEF CleanRows
  <2>2. \A p \in Products : compat'[p] = compat[p] \/ p \in cleaned'
    BY <1>5 DEF CleanRows, CoverInv, TypeOK
  <2> QED BY <1>1, <2>1, <2>2
<1>6. ASSUME NEW s \in Sessions,
             \/ Written(s) \/ Begin(s) \/ Scan(s) \/ Empty(s) \/ Insert(s)
             \/ InsertFails(s) \/ CommitRows(s) \/ Record(s)
      PROVE  UNCHANGED <<compat, labels, owner>> /\ unread \subseteq unread'
  BY <1>6 DEF Written, Begin, Scan, Empty, Insert, InsertFails, CommitRows, Record,
              bounds, history
<1>7. ASSUME NEW s \in Sessions,
             \/ SyncRead(s) \/ SyncFails(s) \/ BootRebuilds(s)
             \/ BootSyncs(s) \/ RebuildJob(s) \/ BootRead(s) \/ Crash(s)
             \/ \E q \in Products : Publish(s, q)
      PROVE  UNCHANGED <<compat, labels, owner>> /\ unread \subseteq unread'
  BY <1>7 DEF SyncRead, SyncFails, BootRebuilds, BootSyncs, RebuildJob, BootRead,
              Crash, Publish, bounds, history
<1>8. ASSUME UNCHANGED vars \/ CleanDisk
      PROVE  UNCHANGED <<compat, labels, owner>> /\ unread \subseteq unread'
  BY <1>8 DEF vars, program, CleanDisk, bounds, history
<1> QED BY <1>2, <1>3, <1>4, <1>5, <1>6, <1>7, <1>8 DEF Next, Work

(***************************************************************************)
(* ResultDelivery: an id of the older table stays with its product, unless *)
(* something has disturbed the pair, and no id is given twice.             *)
(***************************************************************************)

LEMMA DisturbedStays ==
  ASSUME [Next]_vars, NEW p \in Products, Disturbed(p)
  PROVE  Disturbed(p)'
BY CleanedGrows, OverlappedStays, UnreadGrows DEF Disturbed

\* The steps that give no ids.
LEMMA QuietIds ==
  ASSUME TypeOK, [Next]_vars, \A s \in Sessions : ~SyncCommit(s)
  PROVE  /\ ids' = ids
         /\ \A p \in Products : compat'[p].id = compat[p].id \/ p \in cleaned'
<1>1. ASSUME NEW s \in Sessions,
             \/ Written(s) \/ Begin(s) \/ Scan(s) \/ Empty(s) \/ Insert(s)
             \/ InsertFails(s) \/ CommitRows(s) \/ Record(s)
      PROVE  compat' = compat /\ ids' = ids
  BY <1>1 DEF Written, Begin, Scan, Empty, Insert, InsertFails, CommitRows, Record
<1>2. ASSUME NEW s \in Sessions,
             \/ SyncRead(s) \/ SyncFails(s) \/ BootRebuilds(s)
             \/ BootSyncs(s) \/ RebuildJob(s) \/ BootRead(s) \/ Crash(s)
             \/ \E q \in Products : Publish(s, q)
      PROVE  compat' = compat /\ ids' = ids
  BY <1>2 DEF SyncRead, SyncFails, BootRebuilds, BootSyncs, RebuildJob,
              BootRead, Crash, Publish
<1>3. CASE UNCHANGED vars \/ CleanDisk
  BY <1>3 DEF vars, program, CleanDisk
<1>4. ASSUME NEW q \in Products, SetLabel(q)
      PROVE  ids' = ids /\ \A p \in Products : compat'[p].id = compat[p].id
  BY <1>4 DEF SetLabel, TypeOK
<1>5. ASSUME NEW d \in Pairs, CleanRows(d)
      PROVE  /\ ids' = ids
             /\ \A p \in Products : compat'[p].id = compat[p].id \/ p \in cleaned'
  BY <1>5 DEF CleanRows
<1> QED BY <1>1, <1>2, <1>3, <1>4, <1>5 DEF Next, Work

LEMMA IdsGrow ==
  ASSUME TypeOK, [Next]_vars
  PROVE  ids' >= ids
<1>0. ids \in Nat
  BY DEF TypeOK
<1>1. CASE \A s \in Sessions : ~SyncCommit(s)
  BY <1>0, <1>1, QuietIds
<1>2. ASSUME NEW s \in Sessions, SyncCommit(s) PROVE ids' >= ids
  <2> PICK take \in Takings(s) : ids' = ids + Cardinality(Created(s, take))
    BY <1>2 DEF SyncCommit
  <2> PICK n \in Nat : n = Cardinality(Created(s, take))
    BY CreatedFinite
  <2> QED BY <1>0
<1> QED BY <1>1, <1>2

LEMMA IdsKept ==
  ASSUME CoverInv, [Next]_vars, NEW p \in Products
  PROVE  \/ Disturbed(p)' \/ compat'[p].id = compat[p].id
         \/ compat[p].id = 0 /\ compat'[p].id > ids
<1>0. TypeOK /\ ids \in Nat
  BY DEF CoverInv, TypeOK
<1>1. CASE \A s \in Sessions : ~SyncCommit(s)
  <2>1. compat'[p].id = compat[p].id \/ p \in cleaned'
    BY <1>0, <1>1, QuietIds
  <2> QED BY <1>0, <2>1 DEF Disturbed
<1>2. ASSUME NEW s \in Sessions, SyncCommit(s)
      PROVE  \/ Disturbed(p)' \/ compat'[p].id = compat[p].id
             \/ compat[p].id = 0 /\ compat'[p].id > ids
  <2> PICK take \in Takings(s) :
      /\ Syncs(s, take)
      /\ compat' = [q \in Products |->
           IF q \in Created(s, take)
           THEN [id |-> ids + Cardinality({r \in Created(s, take) : r <= q}),
                 label |-> sess[s].rows[q]]
           ELSE IF q \in Moved(s, take) THEN compat[take[q]]
           ELSE IF q \in Left(s, take) \cup Pruned(s, take) THEN Missing
           ELSE compat[q]]
    BY <1>2 DEF SyncCommit
  <2>2. UNCHANGED <<cleaned, unread, overlapped>>
    BY <1>2 DEF SyncCommit, history
  <2>3. CASE p \in Created(s, take)
    <3> DEFINE n == ids + Cardinality({r \in Created(s, take) : r <= p})
    <3>1. n > ids
      BY <1>0, <2>3, CreatedIds
    <3>2. compat'[p] = [id |-> n, label |-> sess[s].rows[p]]
      BY <2>3
    <3>3. compat[p].id = 0
      BY <2>3 DEF Syncs
    <3> HIDE DEF n
    <3> QED BY <3>1, <3>2, <3>3
  <2>4. ASSUME ~overlapped, NEW q \in Known(s) \ Seen(s), PairOf[q] = PairOf[p],
               sess[s].prune \/ Seen(s) # {}
        PROVE  Disturbed(p)'
    <3>1. q \in cleaned \cup unread /\ q \in Products
      BY <1>2, <2>4 DEF CoverInv, Covered, ReadCovers, SyncCommit, Known
    <3>2. q \in cleaned => p \in cleaned
      BY <2>4 DEF CoverInv, Sound, OfPair
    <3> QED BY <2>2, <2>4, <3>1, <3>2 DEF Disturbed
  <2>5. CASE overlapped
    BY <2>2, <2>5 DEF Disturbed
  <2>6. CASE ~overlapped /\ p \in Moved(s, take)
    <3>1. take \in [Seen(s) \ Known(s) -> Products \cup {0}]
      BY DEF Takings
    <3>2. p \in DOMAIN take /\ take[p] # 0 /\ take[p] \notin Seen(s)
      BY <2>6 DEF Moved
    <3>3. take[p] \in Unused(s, take, p)
      BY <3>2 DEF Takings, Taking
    <3>4. take[p] \in Known(s) /\ PairOf[take[p]] = PairOf[p] /\ Seen(s) # {}
      BY <3>1, <3>2, <3>3 DEF Unused, Alike
    <3> QED BY <2>4, <2>6, <3>2, <3>4
  <2>7. CASE ~overlapped /\ p \in Left(s, take)
    <3> PICK q \in Moved(s, take) : p = take[q]
      BY <2>7 DEF Left
    <3>1. take \in [Seen(s) \ Known(s) -> Products \cup {0}]
      BY DEF Takings
    <3>2. q \in DOMAIN take /\ take[q] # 0 /\ take[q] \notin Seen(s)
      BY DEF Moved
    <3>3. take[q] \in Unused(s, take, q)
      BY <3>2 DEF Takings, Taking
    <3>4. p \in Known(s) \ Seen(s) /\ Seen(s) # {}
      BY <3>1, <3>2, <3>3 DEF Unused
    <3> QED BY <2>4, <2>7, <3>4
  <2>8. CASE ~overlapped /\ p \in Pruned(s, take)
    BY <2>4, <2>8 DEF Pruned
  <2>9. CASE p \notin Created(s, take) \cup Moved(s, take) \cup Left(s, take)
                      \cup Pruned(s, take)
    BY <2>9
  <2> QED BY <2>3, <2>5, <2>6, <2>7, <2>8, <2>9
<1> QED BY <1>1, <1>2

\* What the catalog does leaves what a request stands for alone.
LEMMA FulfilledNext ==
  ASSUME CoverInv, CoverInv', DeliveryTypeOK, [Next]_vars, UNCHANGED delivery,
         NEW d \in Deliveries, Fulfilled(d)
  PROVE  Fulfilled(d)'
<1> DEFINE r == delivery[d]
<1>0. /\ TypeOK /\ Sound /\ ids \in Nat /\ r \in Delivery /\ r' = r
      /\ TypeOK' /\ ids' \in Nat
  BY DEF CoverInv, TypeOK, DeliveryTypeOK
<1>1. r.ids \subseteq 1..ids'
  <2> PICK i \in Nat : i = ids'
    BY <1>0
  <2>2. r.ids \subseteq 1..ids
    BY DEF Fulfilled, Kept
  <2>3. i >= ids
    BY <1>0, IdsGrow
  <2> QED BY <1>0, <2>2, <2>3
<1>2. ASSUME NEW p \in Products,
             Disturbed(p) \/ (compat[p].id \in r.ids <=> p \in r.checked)
      PROVE  Disturbed(p)' \/ (compat'[p].id \in r.ids <=> p \in r.checked)
  <2>1. CASE Disturbed(p)
    BY <2>1, DisturbedStays
  <2>2. CASE compat[p].id = 0 /\ compat'[p].id > ids /\ ~Disturbed(p)
    <3> PICK i \in Nat : i = compat'[p].id
      BY <1>0 DEF TypeOK
    <3>1. r.ids \subseteq 1..ids
      BY DEF Fulfilled, Kept
    <3>2. i \notin r.ids /\ 0 \notin r.ids
      BY <1>0, <2>2, <3>1
    <3> QED BY <1>2, <2>2, <3>2
  <2>3. CASE compat'[p].id = compat[p].id /\ ~Disturbed(p)
    BY <1>2, <2>3
  <2> QED BY <2>1, <2>2, <2>3, IdsKept
<1>3. \A p \in Products : disk[p] # 0 \/ p \in cleaned => disk'[p] # 0 \/ p \in cleaned'
  BY <1>0, DiskStep, CleanedGrows
<1>4. r.todo \subseteq Products
  BY <1>0 DEF Delivery
<1>5. Kept(r)'
  BY <1>0, <1>1, <1>2, <1>3, <1>4, DisturbedStays DEF Fulfilled, Kept
<1>6. Held(r)'
  BY <1>0, CleanedGrows DEF Fulfilled, Held
<1> QED BY <1>5, <1>6 DEF Fulfilled

\* When one of the ids is found, the table is whole: so are all the others.
LEMMA FoundAll ==
  ASSUME CoverInv, NEW wanted, Sources(wanted) # {}, NEW p \in Products,
         compat[p].id \in wanted, compat[p].id > 0
  PROVE  Disturbed(p) \/ p \in Sources(wanted)
<1>1. Rows # {}
  BY DEF Sources, Rows
<1>2. overlapped \/ RowsCover
  BY <1>1 DEF CoverInv, Covered
<1>3. Indexed(p)
  BY DEF Indexed
<1> QED BY <1>2, <1>3 DEF Disturbed, RowsCover, Sources

\* What the steps of the deliveries leave alone.
Still == UNCHANGED <<disk, compat, ids, cleaned, unread, overlapped>>

LEMMA FulfilledSame ==
  ASSUME Still, NEW d \in Deliveries, Fulfilled(d), delivery'[d] = delivery[d]
  PROVE  Fulfilled(d)'
<1>1. \A p \in Products : Disturbed(p)' <=> Disturbed(p)
  BY DEF Still, Disturbed
<1> QED BY <1>1 DEF Still, Fulfilled, Kept, Held

\* A record that a request may become.
Serves(n) == n \in Delivery /\ Kept(n) /\ Held(n)

Served(d) ==
  /\ Fulfilled(d)' /\ delivery'[d] \in Delivery
  /\ \A e \in Deliveries \ {d} : delivery'[e] = delivery[e]

LEMMA ServesFulfilled ==
  ASSUME DeliveryTypeOK, Still, NEW d \in Deliveries, NEW n, Serves(n),
         delivery' = [delivery EXCEPT ![d] = n]
  PROVE  Served(d)
<1>1. /\ delivery'[d] = n
      /\ \A e \in Deliveries \ {d} : delivery'[e] = delivery[e]
  BY DEF DeliveryTypeOK
<1>2. \A p \in Products : Disturbed(p)' <=> Disturbed(p)
  BY DEF Still, Disturbed
<1>3. Kept(delivery[d])'
  BY <1>1, <1>2 DEF Still, Serves, Kept
<1>4. Held(delivery[d])'
  BY <1>1 DEF Still, Serves, Held
<1> QED BY <1>1, <1>3, <1>4 DEF Served, Serves, Fulfilled

LEMMA AskFulfilled ==
  ASSUME CoverInv, DeliveryTypeOK, NEW d \in Deliveries, Fulfilled(d),
         NEW wanted \in SUBSET {compat[p].id : p \in Products},
         0 \notin wanted, Ask(d, wanted)
  PROVE  Served(d)
<1> DEFINE r == [NoDelivery EXCEPT !.at = "queued", !.ids = wanted,
                                   !.checked = Sources(wanted)]
<1>1. /\ r.at = "queued" /\ r.status = "PENDING" /\ r.ids = wanted
      /\ r.checked = Sources(wanted) /\ r.todo = {} /\ r.copied = {}
      /\ r.broken = {} /\ r.missing = {} /\ r.available = FALSE
      /\ \A x \in Paths : r.file[x] = NoFile
  BY DEF NoDelivery, NoFiles
<1>2. delivery' = [delivery EXCEPT ![d] = r] /\ Sources(wanted) # {}
      /\ UNCHANGED vars
  BY DEF Ask
<1>3. \A p \in Products : compat[p].id \in Nat /\ compat[p].id <= ids
  BY DEF CoverInv, TypeOK, Sound
<1>4. wanted \subseteq Nat /\ Sources(wanted) \subseteq Products
  BY <1>3 DEF Sources
<1>5. r \in Delivery
  BY <1>4 DEF NoDelivery, NoFiles, Delivery, Steps, Statuses
<1> HIDE DEF r
<1>6. wanted \subseteq 1..ids
  <2>1. ids \in Nat
    BY DEF CoverInv, TypeOK
  <2> SUFFICES ASSUME NEW i \in wanted PROVE i \in 1..ids
    OBVIOUS
  <2>2. i \in Nat /\ i <= ids /\ i # 0
    BY <1>3
  <2> QED BY <2>1, <2>2
<1>7. \A p \in Products :
        Disturbed(p) \/ (compat[p].id \in wanted <=> p \in Sources(wanted))
  <2> SUFFICES ASSUME NEW p \in Products
               PROVE  Disturbed(p) \/ (compat[p].id \in wanted <=> p \in Sources(wanted))
    OBVIOUS
  <2>1. CASE compat[p].id \in wanted
    <3>1. compat[p].id > 0
      BY <1>3, <2>1
    <3> QED BY <1>2, <2>1, <3>1, FoundAll
  <2>2. CASE compat[p].id \notin wanted
    BY <2>2 DEF Sources
  <2> QED BY <2>1, <2>2
<1>8. Kept(r)
  BY <1>1, <1>6, <1>7 DEF Kept, Treated
<1>9. Held(r)
  BY <1>1 DEF Held, InPlace
<1>10. Still
  BY <1>2 DEF Still, vars, program, history
<1> QED BY <1>2, <1>5, <1>8, <1>9, <1>10, ServesFulfilled DEF Serves

\* Products and what is held of them stay as they are.
LEMMA SameHeld ==
  ASSUME NEW r, NEW n, Held(r), n.copied = r.copied, n.broken = r.broken,
         n.missing = r.missing, n.available = r.available, n.file = r.file
  PROVE  Held(n) /\ Treated(n) = Treated(r)
BY DEF Held, InPlace, Stored, Treated

\* A file f is left at the path of q, of which there was no item.
LEMMA PlacedHeld ==
  ASSUME NEW r \in Delivery, Held(r), NEW q \in Products, q \notin Stored(r),
         NEW n, NEW f,
         n.missing = r.missing, Stored(n) = Stored(r) \cup {q},
         n.copied \subseteq r.copied \cup {q},
         n.file = [r.file EXCEPT ![PathOf[q]] = f],
         q \in n.copied => f = q \/ (f = r.file[PathOf[q]] /\ f # NoFile),
         r.file[PathOf[q]] # NoFile => f # NoFile,
         n.available => r.available \/ f # NoFile
  PROVE  Held(n)
<1>1. r.file \in [Paths -> Products \cup {NoFile, Partial}]
      /\ \A p \in Products : PathOf[p] \in Paths
  BY DeliveryAssumption DEF Delivery
<1>2. r.copied \subseteq Products /\ r.copied \subseteq Stored(r)
      /\ Stored(r) \subseteq Products
  BY DEF Delivery, Stored
<1>3. /\ n.file[PathOf[q]] = f
      /\ \A x \in Paths \ {PathOf[q]} : n.file[x] = r.file[x]
  BY <1>1
<1>4. \A x \in Paths : r.file[x] # NoFile => \E p \in Stored(r) : PathOf[p] = x
  BY DEF Held
<1>5. ASSUME NEW p \in n.copied
      PROVE  \/ n.file[PathOf[p]] = p
             \/ \E s \in Stored(n) \ {p} : PathOf[s] = PathOf[p]
  <2>1. CASE p = q
    <3>1. CASE f = q
      BY <1>3, <2>1, <3>1
    <3>2. CASE f = r.file[PathOf[q]] /\ f # NoFile
      <4> PICK s \in Stored(r) : PathOf[s] = PathOf[q]
        BY <1>1, <1>4, <3>2
      <4> QED BY <2>1
    <3> QED BY <2>1, <3>1, <3>2
  <2>2. CASE p # q /\ PathOf[p] = PathOf[q]
    BY <2>2
  <2>3. CASE p # q /\ PathOf[p] # PathOf[q]
    <3>1. p \in r.copied /\ PathOf[p] \in Paths
      BY <1>1, <1>2, <2>3
    <3>2. n.file[PathOf[p]] = r.file[PathOf[p]]
      BY <1>3, <2>3, <3>1
    <3>3. \/ r.file[PathOf[p]] = p
          \/ \E s \in Stored(r) \ {p} : PathOf[s] = PathOf[p]
      BY <3>1 DEF Held, InPlace
    <3> QED BY <3>2, <3>3
  <2> QED BY <2>1, <2>2, <2>3
<1>6. ASSUME NEW x \in Paths, n.file[x] # NoFile
      PROVE  \E p \in Stored(n) : PathOf[p] = x
  BY <1>3, <1>4, <1>6
<1>7. n.available => \E x \in Paths : n.file[x] # NoFile
  <2>1. CASE f # NoFile
    BY <1>1, <1>3, <2>1
  <2>2. ASSUME f = NoFile, n.available PROVE \E x \in Paths : n.file[x] # NoFile
    <3> PICK x \in Paths : r.file[x] # NoFile
      BY <2>2 DEF Held
    <3> QED BY <1>3, <2>2
  <2> QED BY <2>1, <2>2
<1> QED BY <1>5, <1>6, <1>7 DEF Held, InPlace

LEMMA CopyServes ==
  ASSUME CoverInv, DeliveryTypeOK, NEW d \in Deliveries, Fulfilled(d),
         NEW q \in Products, Copy(d, q)
  PROVE  \E n : Serves(n) /\ delivery' = [delivery EXCEPT ![d] = n]
<1> DEFINE r == delivery[d]
           B(n) == /\ n.at = r.at /\ n.status = r.status /\ n.ids = r.ids
                   /\ n.checked = r.checked /\ n.todo = r.todo \ {q}
                   /\ Treated(n) = Treated(r) \cup {q}
<1>0. /\ r \in Delivery /\ Kept(r) /\ Held(r) /\ r.at = "copying" /\ q \in r.todo
      /\ PathOf[q] \in Paths /\ q \in Nat \ {0}
  BY DeliveryAssumption, CatalogAssumption
     DEF DeliveryTypeOK, Fulfilled, Copy, SourceMissing, Copied, CopyFails, Treating
<1>1. q \notin Treated(r) /\ q \notin Stored(r)
  BY <1>0 DEF Kept, Treated, Stored
<1>2. r.status # "READY"
  BY <1>0 DEF Kept
<1>3. ASSUME NEW n \in Delivery, B(n) PROVE Kept(n)
  <2>1. /\ \A p \in Products : Disturbed(p) \/
             (p \in r.checked <=> p \in r.todo \cup Treated(r))
        /\ r.ids \subseteq 1..ids /\ r.todo \cap Treated(r) = {}
        /\ \A p \in r.todo : disk[p] # 0 \/ p \in cleaned
    BY <1>0 DEF Kept
  <2>2. \A p \in Products : Disturbed(p) \/
             (p \in n.checked <=> p \in n.todo \cup Treated(n))
    BY <1>0, <1>3, <2>1
  <2>3. n.todo \cap Treated(n) = {}
    BY <1>3, <2>1
  <2> QED BY <1>0, <1>2, <1>3, <2>1, <2>2, <2>3 DEF Kept
<1>4. CASE SourceMissing(d, q)
  <2> DEFINE n == [r EXCEPT !.todo = r.todo \ {q}, !.missing = r.missing \cup {q}]
  <2>1. delivery' = [delivery EXCEPT ![d] = n] /\ disk[q] = 0
    BY <1>4 DEF SourceMissing
  <2>2. /\ n \in Delivery /\ n.at = r.at /\ n.status = r.status /\ n.ids = r.ids
        /\ n.checked = r.checked /\ n.todo = r.todo \ {q} /\ n.copied = r.copied
        /\ n.broken = r.broken /\ n.missing = r.missing \cup {q}
        /\ n.available = r.available /\ n.file = r.file
    BY <1>0 DEF Delivery
  <2> HIDE DEF n
  <2>3. B(n)
    BY <2>2 DEF Treated
  <2>4. q \in cleaned
    BY <1>0, <2>1 DEF Kept
  <2>5. Held(n)
    BY <1>0, <2>2, <2>4 DEF Held, InPlace, Stored
  <2>6. Kept(n)
    BY <1>3, <2>2, <2>3
  <2> QED BY <2>1, <2>2, <2>5, <2>6 DEF Serves
<1>5. CASE Copied(d, q)
  <2> PICK f \in Placed(d, q), fails \in BOOLEAN :
        delivery' = [delivery EXCEPT ![d] =
          [delivery[d] EXCEPT
             !.todo = delivery[d].todo \ {q},
             !.copied = delivery[d].copied \cup (IF fails THEN {} ELSE {q}),
             !.broken = delivery[d].broken \cup (IF fails THEN {q} ELSE {}),
             !.available = TRUE,
             !.file = [delivery[d].file EXCEPT ![PathOf[q]] = f]]]
    BY <1>5 DEF Copied
  <2> DEFINE g == [r.file EXCEPT ![PathOf[q]] = f]
             ok == IF fails THEN {} ELSE {q}
             no == IF fails THEN {q} ELSE {}
             n == [r EXCEPT !.todo = r.todo \ {q}, !.copied = r.copied \cup ok,
                            !.broken = r.broken \cup no, !.available = TRUE,
                            !.file = g]
  <2>1. delivery' = [delivery EXCEPT ![d] = n]
    OBVIOUS
  <2>2. f # NoFile /\ (f = q \/ f = r.file[PathOf[q]])
    BY <1>0 DEF Placed, NoFile
  <2>3. g \in [Paths -> Products \cup {NoFile, Partial}]
    BY <1>0, <2>2 DEF Delivery
  <2>4. ok \cup no = {q} /\ ok \subseteq Products /\ no \subseteq Products
    OBVIOUS
  <2> HIDE DEF g, ok, no
  <2>5. /\ n \in Delivery /\ n.at = r.at /\ n.status = r.status /\ n.ids = r.ids
        /\ n.checked = r.checked /\ n.todo = r.todo \ {q}
        /\ n.copied = r.copied \cup ok /\ n.broken = r.broken \cup no
        /\ n.missing = r.missing /\ n.available = TRUE /\ n.file = g
    BY <1>0, <2>3, <2>4 DEF Delivery
  <2> HIDE DEF n
  <2>6. B(n) /\ Stored(n) = Stored(r) \cup {q}
    BY <2>4, <2>5 DEF Treated, Stored
  <2>7. n.copied \subseteq r.copied \cup {q}
    BY <2>4, <2>5
  <2>8. n.file = [r.file EXCEPT ![PathOf[q]] = f]
    BY <2>5 DEF g
  <2>9. Held(n)
    BY <1>0, <1>1, <2>2, <2>5, <2>6, <2>7, <2>8, PlacedHeld
  <2>10. Kept(n)
    BY <1>3, <2>5, <2>6
  <2> QED BY <2>1, <2>5, <2>9, <2>10 DEF Serves
<1>6. CASE CopyFails(d, q)
  <2> PICK f \in {delivery[d].file[PathOf[q]], Partial, q} :
        delivery' = [delivery EXCEPT ![d] =
          [delivery[d] EXCEPT
             !.todo = delivery[d].todo \ {q},
             !.broken = delivery[d].broken \cup {q},
             !.file = [delivery[d].file EXCEPT ![PathOf[q]] = f]]]
    BY <1>6 DEF CopyFails
  <2> DEFINE g == [r.file EXCEPT ![PathOf[q]] = f]
             n == [r EXCEPT !.todo = r.todo \ {q}, !.broken = r.broken \cup {q},
                            !.file = g]
  <2>1. delivery' = [delivery EXCEPT ![d] = n]
    OBVIOUS
  <2>2. r.file[PathOf[q]] # NoFile => f # NoFile
    BY <1>0 DEF NoFile, Partial
  <2>3. g \in [Paths -> Products \cup {NoFile, Partial}]
    BY <1>0 DEF Delivery
  <2> HIDE DEF g
  <2>5. /\ n \in Delivery /\ n.at = r.at /\ n.status = r.status /\ n.ids = r.ids
        /\ n.checked = r.checked /\ n.todo = r.todo \ {q} /\ n.copied = r.copied
        /\ n.broken = r.broken \cup {q} /\ n.missing = r.missing
        /\ n.available = r.available /\ n.file = g
    BY <1>0, <2>3 DEF Delivery
  <2> HIDE DEF n
  <2>6. B(n) /\ Stored(n) = Stored(r) \cup {q} /\ q \notin n.copied
    BY <1>1, <2>5 DEF Treated, Stored
  <2>7. n.copied \subseteq r.copied \cup {q}
    BY <2>5
  <2>8. n.file = [r.file EXCEPT ![PathOf[q]] = f]
    BY <2>5 DEF g
  <2>9. Held(n)
    BY <1>0, <1>1, <2>2, <2>5, <2>6, <2>7, <2>8, PlacedHeld
  <2>10. Kept(n)
    BY <1>3, <2>5, <2>6
  <2> QED BY <2>1, <2>5, <2>9, <2>10 DEF Serves
<1> QED BY <1>4, <1>5, <1>6 DEF Copy

LEMMA JobFulfilled ==
  ASSUME CoverInv, DeliveryTypeOK, NEW d \in Deliveries, Fulfilled(d),
         \/ Start(d) \/ Resolve(d) \/ Close(d) \/ Die(d)
         \/ \E p \in Products : Copy(d, p)
  PROVE  Served(d)
<1> DEFINE r == delivery[d]
           Rest(n) == /\ n.ids = r.ids /\ n.checked = r.checked
                      /\ n.copied = r.copied /\ n.broken = r.broken
                      /\ n.missing = r.missing /\ n.available = r.available
                      /\ n.file = r.file
<1>0. r \in Delivery /\ delivery \in [Deliveries -> Delivery] /\ Kept(r) /\ Held(r)
  BY DEF DeliveryTypeOK, Fulfilled
<1>1. Still
  BY DEF Start, Resolve, Close, Die, Copy, SourceMissing, Copied, CopyFails, Still,
         vars, program, history
<1>2. ASSUME NEW n, n \in Delivery, Rest(n), Kept(n),
             delivery' = [delivery EXCEPT ![d] = n]
      PROVE  Served(d)
  <2>1. Serves(n)
    BY <1>0, <1>2, SameHeld DEF Serves
  <2> QED BY <1>1, <1>2, <2>1, ServesFulfilled
<1>3. ASSUME NEW n, Rest(n) PROVE Treated(n) = Treated(r)
  BY <1>3 DEF Treated
<1>4. CASE Start(d)
  <2> DEFINE n == [r EXCEPT !.at = "started", !.status = "RUNNING"]
  <2>1. r.at = "queued"
    BY <1>4 DEF Start
  <2>2. delivery' = [delivery EXCEPT ![d] = n]
    BY <1>0, <1>4 DEF Start
  <2>3. /\ n \in Delivery /\ n.at = "started" /\ n.status = "RUNNING"
        /\ Rest(n) /\ n.todo = r.todo
    BY <1>0 DEF Delivery, Steps, Statuses
  <2> HIDE DEF n
  <2>4. Kept(n)
    BY <1>0, <1>3, <2>1, <2>3 DEF Kept
  <2> QED BY <1>2, <2>2, <2>3, <2>4
<1>5. CASE Resolve(d)
  <2>1. r.at = "started" /\ r.status # "READY"
    BY <1>0, <1>5 DEF Resolve, Kept
  <2>2. CASE Resolved(d) = {}
    <3> DEFINE n == [r EXCEPT !.at = "over", !.status = "FAILED"]
    <3>1. delivery' = [delivery EXCEPT ![d] = n]
      BY <1>5, <2>2 DEF Resolve
    <3>2. /\ n \in Delivery /\ n.at = "over" /\ n.status = "FAILED"
          /\ Rest(n) /\ n.todo = r.todo
      BY <1>0 DEF Delivery, Steps, Statuses
    <3> HIDE DEF n
    <3>3. Kept(n)
      BY <1>0, <1>3, <3>2 DEF Kept
    <3> QED BY <1>2, <3>1, <3>2, <3>3
  <2>3. CASE Resolved(d) # {}
    <3> DEFINE n == [r EXCEPT !.at = "copying", !.todo = Resolved(d)]
    <3>1. delivery' = [delivery EXCEPT ![d] = n]
      BY <1>5, <2>3 DEF Resolve
    <3>2. Resolved(d) \subseteq Products
      BY DEF Resolved, Sources
    <3>3. /\ n \in Delivery /\ n.at = "copying" /\ n.status = r.status
          /\ Rest(n) /\ n.todo = Resolved(d)
      BY <1>0, <3>2 DEF Delivery, Steps, Statuses
    <3> HIDE DEF n
    <3>4. n.ids \subseteq 1..ids /\ Treated(n) = {}
      BY <1>0, <1>3, <2>1, <3>3 DEF Kept
    <3>5. \A p \in n.todo : disk[p] # 0 \/ p \in cleaned
      BY <3>2, <3>3 DEF CoverInv, OnDisk, Indexed, Resolved, Sources
    <3>6. ASSUME NEW p \in Products
          PROVE  Disturbed(p) \/ (p \in n.checked <=> p \in n.todo \cup Treated(n))
      <4>1. Disturbed(p) \/ (compat[p].id \in r.ids <=> p \in r.checked)
        BY <1>0, <2>1 DEF Kept
      <4>2. compat[p].id \in r.ids => compat[p].id > 0
        <5>1. r.ids \subseteq 1..ids /\ ids \in Nat
          BY <1>0 DEF Kept, CoverInv, TypeOK
        <5> QED BY <5>1
      <4>3. compat[p].id \in r.ids => Disturbed(p) \/ p \in Resolved(d)
        BY <2>3, <4>2, FoundAll DEF Resolved
      <4>4. p \in Resolved(d) => compat[p].id \in r.ids
        BY DEF Resolved, Sources
      <4> QED BY <3>3, <3>4, <4>1, <4>3, <4>4
    <3>7. Kept(n)
      BY <2>1, <3>3, <3>4, <3>5, <3>6 DEF Kept
    <3> QED BY <1>2, <3>1, <3>3, <3>7
  <2> QED BY <2>2, <2>3
<1>6. ASSUME NEW q \in Products, Copy(d, q) PROVE Served(d)
  BY <1>1, <1>6, CopyServes, ServesFulfilled
<1>7. CASE Close(d)
  <2> PICK status \in {"FAILED"} \cup
             (IF r.todo = {} THEN {Outcome(r.available)} ELSE {}) :
        delivery' = [delivery EXCEPT ![d] =
          [delivery[d] EXCEPT !.at = "over", !.status = status]]
    BY <1>7 DEF Close
  <2> DEFINE n == [r EXCEPT !.at = "over", !.status = status]
  <2>1. /\ r.at = "copying" /\ status \in Statuses
        /\ status = "READY" => r.todo = {} /\ r.available
    BY <1>7 DEF Close, Outcome, Statuses
  <2>2. n \in Delivery /\ n.at = "over" /\ n.status = status /\ n.todo = r.todo
        /\ Rest(n)
    BY <1>0, <2>1 DEF Delivery, Steps
  <2>3. delivery' = [delivery EXCEPT ![d] = n]
    OBVIOUS
  <2> HIDE DEF n
  <2>4. Kept(n)
    BY <1>0, <1>3, <2>1, <2>2 DEF Kept
  <2> QED BY <1>2, <2>2, <2>3, <2>4
<1>8. CASE Die(d)
  <2> DEFINE n == [r EXCEPT !.at = "over"]
  <2>1. /\ r.at \in {"started", "copying"} /\ r.status # "READY"
        /\ delivery' = [delivery EXCEPT ![d] = n]
    BY <1>0, <1>8 DEF Die, Kept
  <2>2. n \in Delivery /\ n.at = "over" /\ n.todo = r.todo /\ n.status = r.status
        /\ Rest(n)
    BY <1>0 DEF Delivery, Steps
  <2> HIDE DEF n
  <2>4. Kept(n)
    BY <1>0, <1>3, <2>1, <2>2 DEF Kept
  <2> QED BY <1>2, <2>1, <2>2, <2>4
<1> QED BY <1>4, <1>5, <1>6, <1>7, <1>8

LEMMA DieCatalog ==
  ASSUME CatalogInv, NEW d \in Deliveries, Die(d)
  PROVE  CatalogInv'
<1>1. UNCHANGED <<program, jobs, labels, cleanups, boots, history>>
      /\ crashes' = crashes + 1
  BY DEF Die
<1>2. crashes' \in Nat
  BY <1>1 DEF CatalogInv, CoverInv, TypeOK
<1>3. TypeOK'
  BY <1>1, <1>2 DEF CatalogInv, CoverInv, TypeOK, program, history
<1>4. Sound' /\ overlapped' = overlapped
  BY <1>1 DEF CatalogInv, CoverInv, Sound, OfPair, program, history
<1>5. \A p \in Products : (Indexed(p)' <=> Indexed(p)) /\ (Pending(p)' <=> Pending(p))
  BY <1>1 DEF Indexed, Pending, At, program, history
<1>6. OnDisk'
  BY <1>1, <1>5 DEF CatalogInv, CoverInv, OnDisk, program, history
<1>7. Covered => Covered'
  <2>1. \A t \in Sessions : Frame(t)
    BY <1>1 DEF Frame, program
  <2>2. Tables
    BY <1>1, <1>5 DEF Tables, program, history
  <2> QED BY <2>1, <2>2, CoveredStill
<1>8. PrintInv'
  <2>1. jobs \in Nat /\ jobs' = jobs /\ jobs >= jobs
    BY <1>1 DEF CatalogInv, CoverInv, TypeOK
  <2>2. \A t \in Sessions : Keeps(t)
    BY <1>1 DEF Keeps, program
  <2>3. \A p \in Products : /\ disk'[p] \in {disk[p], 0}
                            /\ row'[p].gen \in {row[p].gen, 0}
                            /\ print'[p] \in {print[p], 0}
    BY <1>1 DEF program
  <2> QED BY <2>1, <2>2, <2>3, QuietPrint DEF CatalogInv, CoverInv
<1>9. LabelInv'
  <2>1. \A e \in Pairs : Quiet(e)' => Quiet(e)
    BY <1>1 DEF Quiet, OfPair, history
  <2>2. Silent
    BY <1>1 DEF Silent, CatalogInv, LabelInv, InPairRead, At, program, history
  <2> QED BY <2>1, <2>2, SilentLabels DEF CatalogInv, CoverInv
<1> QED BY <1>3, <1>4, <1>6, <1>7, <1>8, <1>9 DEF CatalogInv, CoverInv

LEMMA DeliveryStep == DeliveryInv /\ [DeliveryNext]_allvars => DeliveryInv'
<1> SUFFICES ASSUME DeliveryInv, [DeliveryNext]_allvars PROVE DeliveryInv'
  OBVIOUS
<1>0. CatalogInv /\ CoverInv /\ PrintInv /\ DeliveryTypeOK /\ TypeOK
      /\ \A d \in Deliveries : Fulfilled(d)
  BY DEF DeliveryInv, CatalogInv, CoverInv
<1>1. ASSUME [Next]_vars PROVE CatalogInv' /\ CoverInv'
  BY <1>0, <1>1, CoverStep, PrintStep, LabelInvStep DEF CatalogInv
<1>2. CASE [Next]_vars /\ UNCHANGED <<delivery, asked>>
  BY <1>0, <1>1, <1>2, FulfilledNext DEF DeliveryInv, DeliveryTypeOK
<1>3. ASSUME NEW d \in Deliveries, Still, CatalogInv',
             Fulfilled(d)', delivery'[d] \in Delivery, asked' \in 0..MaxDeliveries,
             \A e \in Deliveries \ {d} : delivery'[e] = delivery[e],
             DOMAIN delivery' = Deliveries,
             delivery' = [e \in Deliveries |-> delivery'[e]]
      PROVE  DeliveryInv'
  <2>1. \A e \in Deliveries : delivery'[e] \in Delivery
    BY <1>0, <1>3 DEF DeliveryTypeOK
  <2>2. DeliveryTypeOK'
    BY <1>3, <2>1 DEF DeliveryTypeOK
  <2>3. \A e \in Deliveries : Fulfilled(e)'
    BY <1>0, <1>3, FulfilledSame
  <2> QED BY <1>3, <2>2, <2>3 DEF DeliveryInv
<1>4. ASSUME NEW d \in Deliveries,
             \/ Start(d) \/ Resolve(d) \/ Close(d) \/ Die(d)
             \/ \E p \in Products : Copy(d, p)
      PROVE  DeliveryInv'
  <2>1. asked' = asked /\ Still /\ (UNCHANGED vars \/ Die(d))
    BY <1>4 DEF Start, Resolve, Close, Die, Copy, SourceMissing, Copied, CopyFails,
                Still, vars, program, history
  <2>2. CatalogInv'
    BY <1>0, <1>1, <2>1, DieCatalog
  <2>3. delivery' = [e \in Deliveries |-> delivery'[e]]
    BY <1>0, <1>4 DEF Start, Resolve, Close, Die, Copy, SourceMissing, Copied,
                      CopyFails, DeliveryTypeOK
  <2>4. /\ Fulfilled(d)' /\ delivery'[d] \in Delivery
        /\ \A e \in Deliveries \ {d} : delivery'[e] = delivery[e]
    BY <1>0, <1>4, JobFulfilled DEF Served
  <2>5. asked' \in 0..MaxDeliveries /\ DOMAIN delivery' = Deliveries
    BY <1>0, <2>1, <2>3 DEF DeliveryTypeOK
  <2> QED BY <1>3, <2>1, <2>2, <2>3, <2>4, <2>5
<1>5. ASSUME NEW d \in Deliveries,
             NEW wanted \in SUBSET {compat[p].id : p \in Products},
             0 \notin wanted, Ask(d, wanted)
      PROVE  DeliveryInv'
  <2>1. UNCHANGED vars /\ Still
    BY <1>5 DEF Ask, Still, vars, program, history
  <2>2. CatalogInv'
    BY <1>1, <2>1
  <2>3. delivery' = [e \in Deliveries |-> delivery'[e]]
    BY <1>0, <1>5 DEF Ask, DeliveryTypeOK
  <2>4. /\ Fulfilled(d)' /\ delivery'[d] \in Delivery
        /\ \A e \in Deliveries \ {d} : delivery'[e] = delivery[e]
    BY <1>0, <1>5, AskFulfilled DEF Served
  <2>5. asked' \in 0..MaxDeliveries /\ DOMAIN delivery' = Deliveries
    BY <1>0, <1>5, <2>3, DeliveryAssumption DEF Ask, DeliveryTypeOK
  <2> QED BY <1>3, <2>1, <2>2, <2>3, <2>4, <2>5
<1> QED BY <1>2, <1>4, <1>5 DEF DeliveryNext, allvars

LEMMA DeliveryBegins == DeliveryInit => DeliveryInv
<1> SUFFICES ASSUME DeliveryInit PROVE DeliveryInv
  OBVIOUS
<1>1. CatalogInv
  BY CoverInit, PrintInit, LabelInvInit DEF DeliveryInit, CatalogInv
<1>2. NoDelivery \in Delivery
  BY DEF NoDelivery, NoFiles, Delivery, Steps, Statuses
<1>3. DeliveryTypeOK
  BY <1>2, DeliveryAssumption DEF DeliveryInit, DeliveryTypeOK
<1>4. ASSUME NEW d \in Deliveries PROVE Fulfilled(d)
  BY DEF DeliveryInit, NoDelivery, NoFiles, Fulfilled, Kept, Held, Treated, InPlace
<1> QED BY <1>1, <1>3, <1>4 DEF DeliveryInv

\* Every execution of the catalog with any number of deliveries.
THEOREM DeliveryInvariant == DeliverySpec => []DeliveryInv
BY DeliveryBegins, DeliveryStep, PTL DEF DeliverySpec

\* The invariant of the catalog, with deliveries or without them.
THEOREM CatalogHolds == Spec \/ DeliverySpec => []CatalogInv
<1>1. DeliveryInv => CatalogInv
  BY DEF DeliveryInv
<1> QED BY <1>1, CatalogInvariant, DeliveryInvariant, PTL

\* A start that orders no rebuild finds every row equal to its package.
THEOREM StartsNotice == Spec \/ DeliverySpec => []NoticedAtBoot
BY StartsRight, CatalogHolds, PTL

\* What was listed stays listed, and the labels that users gave stay in the
\* older table, whatever rebuilds, starts and deaths there are.
THEOREM ResultsHold == Spec \/ DeliverySpec => [](ListedStays /\ LabelsKept)
<1>1. Init => LabelsKept
  BY DEF Init, LabelsKept
<1>2. DeliveryInit => Init
  BY DEF DeliveryInit
<1>3. CatalogInv /\ LabelsKept /\ [Next]_vars => LabelsKept'
  BY LabelsStep DEF CatalogInv
<1>4. CatalogInv /\ LabelsKept /\ [DeliveryNext]_allvars => LabelsKept'
  <2> SUFFICES ASSUME CatalogInv, LabelsKept, [DeliveryNext]_allvars
               PROVE  LabelsKept'
    OBVIOUS
  <2>1. ASSUME NEW d \in Deliveries, Die(d)
        PROVE  UNCHANGED <<compat, labels, owner, cleaned, unread, overlapped>>
    BY <2>1 DEF Die, program, history
  <2>2. (\E d \in Deliveries : Die(d)) => LabelsKept'
    BY <2>1 DEF LabelsKept
  <2>3. [Next]_vars \/ \E d \in Deliveries : Die(d)
    BY DEF DeliveryNext, allvars, Start, Resolve, Close, Copy, SourceMissing, Copied,
           CopyFails, Ask
  <2> QED BY <1>3, <2>2, <2>3
<1>5. CatalogInv => ListedStays
  BY ListedRight DEF CatalogInv
<1> QED BY <1>1, <1>2, <1>3, <1>4, <1>5, CatalogHolds, PTL DEF Spec, DeliverySpec

\* Whose label a product shows: its own, or that of a later result of its pair
\* in whose place it stands, as long as nothing has disturbed the pair.
THEOREM LabelsRight == Spec \/ DeliverySpec => []LabelsOwn
BY LabelsOwned, CatalogHolds, PTL DEF CatalogInv, CoverInv

\* The ids of a request keep to its products through all rebuilds; the job has an
\* item for each that it has found, and what is COPIED is in its place, unless it
\* shares this place with another item.
THEOREM DeliveriesTrue == DeliverySpec => [](DeliveryInv /\ DeliveryTrue)
<1>1. DeliveryInv => DeliveryTrue
  <2> SUFFICES ASSUME DeliveryInv, NEW d \in Deliveries,
                      delivery[d].status = "READY"
               PROVE  /\ \A p \in Products :
                           \/ Disturbed(p)
                           \/ p \in delivery[d].checked
                                <=> p \in Treated(delivery[d])
                      /\ delivery[d].missing \subseteq cleaned
                      /\ \E x \in Paths : delivery[d].file[x] # NoFile
                      /\ InPlace(delivery[d])
    BY DEF DeliveryTrue
  <2>1. Kept(delivery[d]) /\ Held(delivery[d])
    BY DEF DeliveryInv, Fulfilled
  <2> QED BY <2>1 DEF Kept, Held
<1> QED BY <1>1, DeliveryInvariant, PTL
=============================================================================
