--------------------------- MODULE ResultCatalog ---------------------------
(* The catalog of D-InSAR results: packages on disk (a directory with a    *)
(* manifest per product), their rows in result_products, and the older     *)
(* table dinsar_results, which keeps the labels that users gave.           *)
(*                                                                         *)
(* Whoever has published a package rebuilds the whole catalog: it lists    *)
(* the manifests, deletes all rows, commits, inserts the rows anew and     *)
(* commits, and then carries the labels over from the older table, whose   *)
(* rows without a product it prunes.  Workers, the upload endpoint and     *)
(* rebuild jobs do so at any time, without a lock; the maintenance page    *)
(* deletes rows and packages meanwhile, users label products, and a start  *)
(* of the server compares disk, rows and the fingerprint of the last scan. *)
(*                                                                         *)
(* Products are numbered in the order of the paths of their manifests.     *)
(* Two products of one pair have the same name and the same bounding box.  *)
(* A generation numbers publications, so that two contents of a manifest   *)
(* differ; the fingerprint of a scan is the function of what it has seen.  *)
(* A label is the number of the act of labelling it stems from.            *)
EXTENDS Integers, FiniteSets

CONSTANTS Products, Pairs, PairOf,    \* PairOf[p]: the directory of its pair
          Sessions,                   \* coroutines that may rebuild
          MaxJobs, MaxLabels, MaxCleanups, MaxBoots, MaxCrashes

ASSUME CatalogAssumption ==
  /\ Products \subseteq Nat \ {0} /\ IsFiniteSet(Products)
  /\ PairOf \in [Products -> Pairs]
ASSUME CatalogBounds ==
  {MaxJobs, MaxLabels, MaxCleanups, MaxBoots, MaxCrashes} \subseteq Nat

NoRow == -1
Missing == [id |-> 0, label |-> 0]
NoPair == "none"
ASSUME NoPairAssumption == NoPair \notin Pairs

VARIABLES
  disk,      \* generation of the package of a product, 0: there is none,
             \* negative: its manifest has been opened and not yet written
  row,       \* its row in result_products: generation (0: no row) and label
  compat,    \* its row in dinsar_results: id (0: no row) and label (0: no label)
  ids,       \* the last id given to a row of dinsar_results
  print,     \* fingerprint of the last scan in result_catalog_states
  sess,      \* the sessions
  cleaning,  \* pair whose rows a clean-up has deleted and whose files it has not
  jobs, labels, cleanups, boots, crashes,
  owner,     \* history: the product that a label was given to
  cleaned,   \* history: products whose pair was cleaned up
  unread,    \* history: products whose manifest a rebuild could not load
  listed,    \* history: products that had a row when a rebuild recorded its end
  emptied,   \* history: a rebuild died after it had deleted the rows
  overlapped \* history: two rebuilds were at work at once

program == <<disk, row, compat, ids, print, sess, cleaning>>
bounds == <<jobs, labels, cleanups, boots, crashes>>
history == <<owner, cleaned, unread, listed, emptied, overlapped>>
vars == <<program, bounds, history>>

Nothing == [gen |-> 0, label |-> 0]
None == [p \in Products |-> 0]

Places == {"idle", "write", "begin", "scan", "empty", "insert", "commit",
           "record", "boot", "sync", "syncing"}

\* What a coroutine carries: the product whose manifest it writes (0: none), the
\* fingerprint it has loaded with the state, the manifests it has listed, the
\* rows it has inserted and not committed, the labels and the rows that it has
\* read in the two tables, which of the former are deleted by now, and whether
\* it prunes.
Session == [at : Places, of : Products \cup {0},
            print : [Products -> Int], snap : [Products -> Int],
            pend : [Products -> Nat],
            rows : [Products -> Nat \cup {NoRow}],
            kept : [Products -> [id : Nat, label : Nat]],
            gone : SUBSET Products, prune : BOOLEAN]

Idle == [at |-> "idle", of |-> 0, print |-> None, snap |-> None, pend |-> None,
         rows |-> None, kept |-> [p \in Products |-> Missing], gone |-> {},
         prune |-> FALSE]

Init ==
  /\ disk = None
  /\ row = [p \in Products |-> Nothing]
  /\ compat = [p \in Products |-> Missing] /\ ids = 0
  /\ print = None
  /\ sess = [s \in Sessions |-> Idle]
  /\ cleaning = NoPair
  /\ jobs = 0 /\ labels = 0 /\ cleanups = 0 /\ boots = 0 /\ crashes = 0
  /\ owner = [n \in 1..MaxLabels |-> 0]
  /\ cleaned = {} /\ unread = {} /\ listed = {}
  /\ emptied = FALSE /\ overlapped = FALSE

Become(s, new) == sess' = [sess EXCEPT ![s] = new]
At(s, place) == sess[s].at = place
Rebuilding(s) ==
  \/ sess[s].at \in {"scan", "empty", "insert", "commit", "record"}
  \/ sess[s].at \in {"sync", "syncing"} /\ sess[s].prune

(***************************************************************************)
(* Publication and rebuild.                                                *)
(***************************************************************************)

\* publish_from_sources opens the manifest of a new package, or of one it has
\* published before, for writing.  A run_key is never used again.
Publish(s, p) ==
  /\ At(s, "idle") /\ jobs < MaxJobs /\ p \notin cleaned
  /\ \A t \in Sessions : sess[t].of # p
  /\ jobs' = jobs + 1
  /\ disk' = [disk EXCEPT ![p] = -jobs']
  /\ Become(s, [Idle EXCEPT !.at = "write", !.of = p])
  /\ UNCHANGED <<row, compat, ids, print, cleaning, labels, cleanups, boots,
                 crashes, history>>

\* It is written; the caller rebuilds the catalog.
Written(s) ==
  /\ At(s, "write")
  /\ disk' = [disk EXCEPT ![sess[s].of] = -disk[sess[s].of]]
  /\ Become(s, [Idle EXCEPT !.at = "begin"])
  /\ UNCHANGED <<row, compat, ids, print, cleaning, bounds, history>>

\* A job that only rebuilds.
RebuildJob(s) ==
  /\ At(s, "idle") /\ jobs < MaxJobs
  /\ jobs' = jobs + 1
  /\ Become(s, [Idle EXCEPT !.at = "begin"])
  /\ UNCHANGED <<disk, row, compat, ids, print, cleaning, labels, cleanups, boots,
                 crashes, history>>

\* The status REBUILDING, which is written here, only informs the pages.
Begin(s) ==
  /\ At(s, "begin")
  /\ Become(s, [Idle EXCEPT !.at = "scan", !.print = print])
  /\ overlapped' = (overlapped \/ \E t \in Sessions \ {s} : Rebuilding(t))
  /\ UNCHANGED <<disk, row, compat, ids, print, cleaning, bounds, owner, cleaned,
                 unread, listed, emptied>>

Scan(s) ==
  /\ At(s, "scan")
  /\ Become(s, [sess[s] EXCEPT !.at = "empty", !.snap = disk])
  /\ UNCHANGED <<disk, row, compat, ids, print, cleaning, bounds, history>>

\* The rows of ps in result_products are deleted: sessions that have read them
\* will find none to update.
Deleted(ps, new) ==
  sess' = [t \in Sessions |->
    IF new[t].at = "syncing"
    THEN [new[t] EXCEPT !.gone = new[t].gone \cup {p \in ps : row[p].gen > 0}]
    ELSE new[t]]

\* All rows that are committed are deleted, and that is committed at once.
Empty(s) ==
  /\ At(s, "empty")
  /\ row' = [p \in Products |-> Nothing]
  /\ Deleted(Products, [sess EXCEPT ![s] = [sess[s] EXCEPT !.at = "insert"]])
  /\ UNCHANGED <<disk, compat, ids, print, cleaning, bounds, history>>

\* The manifests that were listed and can be loaded, as they are now.
Loadable(s) == {p \in Products : sess[s].snap[p] # 0 /\ disk[p] > 0}

\* Variant of Load: only the manifests that the last scan has not seen as they are.
LoadChanged(s) ==
  [p \in Products |-> IF p \in Loadable(s) /\ disk[p] # sess[s].print[p]
                      THEN disk[p] ELSE 0]

Load(s) == [p \in Products |-> IF p \in Loadable(s) THEN disk[p] ELSE 0]

\* product_id is unique: the insertion of a product waits for a session that
\* has inserted it and not committed.
Blocked(s) ==
  \E t \in Sessions \ {s}, p \in Products :
    At(t, "commit") /\ sess[t].pend[p] > 0 /\ Load(s)[p] > 0

Insert(s) ==
  /\ At(s, "insert") /\ ~Blocked(s)
  /\ \A p \in Products : Load(s)[p] > 0 => row[p].gen = 0
  /\ Become(s, [sess[s] EXCEPT !.at = "commit", !.pend = Load(s)])
  /\ unread' = unread \cup {p \in Products : sess[s].snap[p] # 0 /\ disk[p] < 0}
  /\ UNCHANGED <<disk, row, compat, ids, print, cleaning, bounds, owner, cleaned,
                 listed, emptied, overlapped>>

\* Somebody else has committed a row of one of the products: the flush fails,
\* the loop goes on over the exception, and the commit after it raises.
InsertFails(s) ==
  /\ At(s, "insert") /\ ~Blocked(s)
  /\ \E p \in Products : Load(s)[p] > 0 /\ row[p].gen > 0
  /\ Become(s, Idle)
  /\ UNCHANGED <<disk, row, compat, ids, print, cleaning, bounds, history>>

\* The new rows have no labels.
CommitRows(s) ==
  /\ At(s, "commit")
  /\ row' = [p \in Products |->
       IF sess[s].pend[p] > 0 THEN [gen |-> sess[s].pend[p], label |-> 0]
       ELSE row[p]]
  /\ Become(s, [sess[s] EXCEPT !.at = "record"])
  /\ emptied' = FALSE
  /\ UNCHANGED <<disk, compat, ids, print, cleaning, bounds, owner, cleaned, unread,
                 listed, overlapped>>

\* An assignment of the value that was loaded is not written.
Assigned(s) == IF sess[s].snap = sess[s].print THEN print ELSE sess[s].snap

Record(s) ==
  /\ At(s, "record")
  /\ print' = Assigned(s)
  /\ Become(s, [Idle EXCEPT !.at = "sync", !.prune = TRUE])
  /\ listed' = listed \cup {p \in Products : row[p].gen > 0}
  /\ UNCHANGED <<disk, row, compat, ids, cleaning, bounds, owner, cleaned, unread,
                 emptied, overlapped>>

(***************************************************************************)
(* sync_from_catalog: labels from the older table to the products.         *)
(***************************************************************************)

SyncRead(s) ==
  /\ At(s, "sync")
  /\ Become(s, [sess[s] EXCEPT
       !.at = "syncing",
       !.rows = [p \in Products |-> IF row[p].gen > 0 THEN row[p].label ELSE NoRow],
       !.kept = compat])
  /\ UNCHANGED <<disk, row, compat, ids, print, cleaning, bounds, history>>

Seen(s) == {p \in Products : sess[s].rows[p] # NoRow}
Known(s) == {p \in Products : sess[s].kept[p].id > 0}

\* The same name and the same bounding box.
Alike(p, q) == p # q /\ PairOf[p] = PairOf[q]

\* Variant of Unused: also the rows that a product before p has used.
UnusedOrUsed(s, take, p) == {q \in Known(s) : Alike(p, q)}

\* The rows of products like p that no product before p has used.
Unused(s, take, p) ==
  {q \in Known(s) : Alike(p, q) /\ ~(q \in Seen(s) /\ q < p)}
    \ {take[r] : r \in {r \in DOMAIN take : r < p}}

\* take[p] is the row that the product p, which has none of its own, takes over:
\* the oldest of these.  0: there is none.
Taking(s, take) ==
  \A p \in DOMAIN take :
    LET unused == Unused(s, take, p) IN
    IF unused = {} THEN take[p] = 0
    ELSE /\ take[p] \in unused
         /\ \A q \in unused : sess[s].kept[take[p]].id <= sess[s].kept[q].id

\* What is found for p: the label of its row in the older table.
Found(s, take, p) ==
  IF p \in Known(s) THEN sess[s].kept[p].label
  ELSE IF take[p] # 0 THEN sess[s].kept[take[p]].label ELSE sess[s].rows[p]

Relabelled(s, take) == {p \in Seen(s) : Found(s, take, p) # sess[s].rows[p]}
Created(s, take) == {p \in DOMAIN take : take[p] = 0}

\* Rows that change hands.  A row whose own product comes later goes back to it.
Moved(s, take) == {p \in DOMAIN take : take[p] # 0 /\ take[p] \notin Seen(s)}
Left(s, take) == {take[p] : p \in Moved(s, take)}

\* Variant of Pruned: whoever asked for the synchronisation.
PrunedAlways(s, take) ==
  {q \in (Known(s) \ Seen(s)) \ Left(s, take) : compat[q].id = sess[s].kept[q].id}

\* Rows that are deleted, if they are still there: nobody has used them.
Pruned(s, take) ==
  IF sess[s].prune
  THEN {q \in (Known(s) \ Seen(s)) \ Left(s, take) :
          compat[q].id = sess[s].kept[q].id}
  ELSE {}

\* An update of a row that is gone, or a second row of one product in the older
\* table, makes the whole synchronisation roll back.
Syncs(s, take) ==
  /\ Relabelled(s, take) \cap sess[s].gone = {}
  /\ \A q \in Left(s, take) : compat[q].id = sess[s].kept[q].id
  /\ \A p \in Created(s, take) \cup Moved(s, take) : compat[p].id = 0

Takings(s) ==
  {take \in [Seen(s) \ Known(s) -> Products \cup {0}] : Taking(s, take)}

SyncCommit(s) ==
  /\ At(s, "syncing")
  /\ \E take \in Takings(s) :
       /\ Syncs(s, take)
       /\ row' = [p \in Products |->
            IF p \in Relabelled(s, take)
            THEN [gen |-> row[p].gen, label |-> Found(s, take, p)] ELSE row[p]]
       /\ compat' = [p \in Products |->
            IF p \in Created(s, take)
            THEN [id |-> ids + Cardinality({q \in Created(s, take) : q <= p}),
                  label |-> sess[s].rows[p]]
            ELSE IF p \in Moved(s, take) THEN compat[take[p]]
            ELSE IF p \in Left(s, take) \cup Pruned(s, take) THEN Missing
            ELSE compat[p]]
       /\ ids' = ids + Cardinality(Created(s, take))
  /\ Become(s, Idle)
  /\ UNCHANGED <<disk, print, cleaning, bounds, history>>

SyncFails(s) ==
  /\ At(s, "syncing")
  /\ \E take \in Takings(s) : ~Syncs(s, take)
  /\ Become(s, Idle)
  /\ UNCHANGED <<disk, row, compat, ids, print, cleaning, bounds, history>>

(***************************************************************************)
(* The others: users, the maintenance page, the start of the server.       *)
(***************************************************************************)

\* A product is labelled by the id of its row in the older table.
SetLabel(p) ==
  /\ labels < MaxLabels /\ row[p].gen > 0 /\ compat[p].id > 0
  /\ labels' = labels + 1
  /\ row' = [row EXCEPT ![p] = [gen |-> row[p].gen, label |-> labels']]
  /\ compat' = [compat EXCEPT ![p] = [id |-> compat[p].id, label |-> labels']]
  /\ owner' = [owner EXCEPT ![labels'] = p]
  /\ UNCHANGED <<disk, ids, print, sess, cleaning, jobs, cleanups, boots, crashes,
                 cleaned, unread, listed, emptied, overlapped>>

OfPair(d) == {p \in Products : PairOf[p] = d}

\* The clean-up of a run deletes what the catalog has below the directories of
\* its pairs, whichever run has put it there, and then these directories.
CleanRows(d) ==
  /\ cleaning = NoPair /\ cleanups < MaxCleanups
  /\ cleanups' = cleanups + 1
  /\ cleaning' = d
  /\ row' = [p \in Products |-> IF p \in OfPair(d) THEN Nothing ELSE row[p]]
  /\ compat' = [p \in Products |->
       IF p \in OfPair(d) /\ row[p].gen > 0 THEN Missing ELSE compat[p]]
  /\ Deleted(OfPair(d), sess)
  /\ cleaned' = cleaned \cup OfPair(d)
  /\ UNCHANGED <<disk, ids, print, jobs, labels, boots, crashes, owner, unread,
                 listed, emptied, overlapped>>

CleanDisk ==
  /\ cleaning # NoPair
  /\ disk' = [p \in Products |-> IF p \in OfPair(cleaning) THEN 0 ELSE disk[p]]
  /\ cleaning' = NoPair
  /\ UNCHANGED <<row, compat, ids, print, sess, bounds, history>>

Present(f) == {p \in Products : f[p] # 0}
Rows == {p \in Products : row[p].gen > 0}

\* Variant of NeedsRebuild: only the numbers are compared.
NeedsRebuildCount(snap, indexed) == Cardinality(Rows) # Cardinality(Present(snap))

\* evaluate_manifest_reconcile
NeedsRebuild(snap, indexed) ==
  \/ Cardinality(Rows) # Cardinality(Present(snap))
  \/ Present(snap) # {} /\ indexed # snap

BootRead(s) ==
  /\ At(s, "idle") /\ boots < MaxBoots
  /\ boots' = boots + 1
  /\ Become(s, [Idle EXCEPT !.at = "boot", !.print = print, !.snap = disk])
  /\ UNCHANGED <<disk, row, compat, ids, print, cleaning, jobs, labels, cleanups,
                 crashes, history>>

\* A rebuild is queued, unless one is waiting or a setting forbids it.
BootRebuilds(s) ==
  /\ At(s, "boot") /\ NeedsRebuild(sess[s].snap, sess[s].print)
  /\ \/ Become(s, [Idle EXCEPT !.at = "begin"])
     \/ Become(s, Idle)
  /\ UNCHANGED <<disk, row, compat, ids, print, cleaning, bounds, history>>

BootSyncs(s) ==
  /\ At(s, "boot") /\ ~NeedsRebuild(sess[s].snap, sess[s].print)
  /\ print' = Assigned(s)
  /\ Become(s, [Idle EXCEPT !.at = "sync"])
  /\ UNCHANGED <<disk, row, compat, ids, cleaning, bounds, history>>

\* The process of a session dies.
Crash(s) ==
  /\ ~At(s, "idle") /\ crashes < MaxCrashes
  /\ crashes' = crashes + 1
  /\ emptied' = (emptied \/ sess[s].at \in {"insert", "commit"})
  /\ Become(s, Idle)
  /\ UNCHANGED <<disk, row, compat, ids, print, cleaning, jobs, labels, cleanups,
                 boots, owner, cleaned, unread, listed, overlapped>>

Work(s) ==
  \/ Written(s) \/ Begin(s) \/ Scan(s) \/ Empty(s) \/ Insert(s)
  \/ InsertFails(s) \/ CommitRows(s) \/ Record(s)
  \/ SyncRead(s) \/ SyncCommit(s) \/ SyncFails(s)
  \/ BootRebuilds(s) \/ BootSyncs(s)

Next ==
  \/ \E s \in Sessions :
       \/ Work(s) \/ RebuildJob(s) \/ BootRead(s) \/ Crash(s)
       \/ \E p \in Products : Publish(s, p)
  \/ \E p \in Products : SetLabel(p)
  \/ \E d \in Pairs : CleanRows(d)
  \/ CleanDisk

Spec == Init /\ [][Next]_vars

(***************************************************************************)
(* Properties.                                                             *)
(***************************************************************************)

TypeOK ==
  /\ disk \in [Products -> Int]
  /\ row \in [Products -> [gen : Nat, label : Nat]]
  /\ compat \in [Products -> [id : Nat, label : Nat]]
  /\ ids \in Nat /\ print \in [Products -> Int]
  /\ sess \in [Sessions -> Session]
  /\ cleaning \in Pairs \cup {NoPair}
  /\ jobs \in Nat /\ labels \in 0..MaxLabels /\ cleanups \in Nat
  /\ boots \in Nat /\ crashes \in Nat
  /\ owner \in [1..MaxLabels -> Products \cup {0}]
  /\ cleaned \subseteq Products /\ unread \subseteq Products
  /\ listed \subseteq Products
  /\ emptied \in BOOLEAN /\ overlapped \in BOOLEAN

\* The labels that were given belong to products, a row that is not there has
\* no label, the ids of the others were given, and clean-ups are of whole pairs.
Sound ==
  /\ \A n \in 1..labels : owner[n] \in Products
  /\ \A p \in Products : compat[p].id = 0 => compat[p].label = 0
  /\ \A p \in Products : compat[p].id <= ids
  /\ cleaning # NoPair => OfPair(cleaning) \subseteq cleaned
  /\ \A p \in cleaned : OfPair(PairOf[p]) \subseteq cleaned

\* A product that either table has, or a session has read there.
Indexed(p) ==
  \/ compat[p].id > 0 \/ row[p].gen > 0 \/ p \in listed
  \/ \E s \in Sessions :
       At(s, "syncing") /\ (sess[s].rows[p] # NoRow \/ sess[s].kept[p].id > 0)

Pending(p) == \E s \in Sessions : At(s, "commit") /\ sess[s].pend[p] > 0

OnDisk ==
  \A p \in Products : Indexed(p) \/ Pending(p) => disk[p] # 0 \/ p \in cleaned

OneRebuild ==
  \A s, t \in Sessions : Rebuilding(s) /\ Rebuilding(t) => s = t

\* What a rebuild carries from one step to the next covers what is indexed.
ScanCovers(s) ==
  sess[s].at \in {"empty", "insert"} =>
    \A p \in Products : Indexed(p) => sess[s].snap[p] # 0 \/ p \in cleaned
InsertCovers(s) ==
  At(s, "commit") =>
    \A p \in Products :
      Indexed(p) => sess[s].pend[p] > 0 \/ p \in cleaned \cup unread
RowsCover ==
  \A p \in Products : Indexed(p) => row[p].gen > 0 \/ p \in cleaned \cup unread
ReadCovers(s) ==
  At(s, "syncing") /\ (sess[s].prune \/ Seen(s) # {}) =>
    \A p \in Known(s) : p \in Seen(s) \cup cleaned \cup unread
Replacing(s) == sess[s].at \in {"insert", "commit"}

\* The table is complete, or empty between the two commits of a rebuild: for as
\* long as the rebuild takes, or since it died there.
Covered ==
  /\ OneRebuild
  /\ \A s \in Sessions :
       /\ ScanCovers(s) /\ InsertCovers(s) /\ ReadCovers(s)
       /\ Replacing(s) => Rows = {}
       /\ Rebuilding(s) /\ sess[s].at \in {"record", "sync", "syncing"} => RowsCover
  /\ Rows # {} => RowsCover
  /\ RowsCover \/ emptied \/ \E s \in Sessions : Replacing(s)

CoverInv == TypeOK /\ Sound /\ OnDisk /\ (overlapped \/ Covered)

\* What publications so far have made of a package.
Given(x) == -jobs <= x /\ x <= jobs

\* What was seen of the package of p: none of it is what is being written.
Old(p, x) == Given(x) /\ (disk[p] < 0 => x < -disk[p])

\* A package has one writer, and the insertion of a product one session.
Alone ==
  /\ \A s, t \in Sessions : sess[s].of = sess[t].of => s = t \/ sess[s].of = 0
  /\ \A s \in Sessions : At(s, "write") => sess[s].of # 0 /\ disk[sess[s].of] <= 0
  /\ \A s, t \in Sessions : At(s, "commit") /\ At(t, "commit") =>
       s = t \/ \A p \in Products : sess[s].pend[p] = 0 \/ sess[t].pend[p] = 0

\* Neither the row of p nor one that is about to be committed is of an older
\* publication than its package.
Settles(p) ==
  /\ row[p].gen \in {0, disk[p]}
  /\ \A s \in Sessions : At(s, "commit") => sess[s].pend[p] \in {0, disk[p]}

\* What a rebuild that has listed p as it is now goes on to do with it.
Carries(s, p) ==
  /\ At(s, "commit") => sess[s].pend[p] = disk[p]
  /\ At(s, "record") => Settles(p)

\* A fingerprint vouches for the row of a package that is still the same.
Vouched(p) ==
  /\ Given(disk[p]) /\ Old(p, print[p])
  /\ \A s \in Sessions : Old(p, sess[s].snap[p])
  /\ disk[p] > 0 /\ print[p] = disk[p] => Settles(p)
  /\ \A s \in Sessions :
       disk[p] > 0 /\ sess[s].snap[p] = disk[p] => Carries(s, p)

PrintInv == Alone /\ \A p \in Products : Vouched(p)

(***************************************************************************)
(* Whose label is shown.  In a pair that is Quiet the rows of the older    *)
(* table stay, so that the synchronisations that have read them differ in  *)
(* how many rows they have seen, and no two of them create one.            *)
(***************************************************************************)

Quiet(d) == ~overlapped /\ OfPair(d) \cap (cleaned \cup unread) = {}

RowsOf(d) == {p \in OfPair(d) : row[p].gen > 0}
HeldOf(d) == {p \in OfPair(d) : compat[p].id > 0}
SeenOf(s, d) == Seen(s) \cap OfPair(d)
KnownOf(s, d) == Known(s) \cap OfPair(d)

\* The rows held by later products that none before p takes.
Free(takers, held, f, p) ==
  {q \in held : q > p} \ {f[r] : r \in {r \in takers : r < p}}

\* A taking of the rows held by products of one pair, whose ids are in table.
Greedy(takers, held, table, f) ==
  /\ f \in [takers -> held \cup {0}]
  /\ \A p \in takers :
       IF Free(takers, held, f, p) = {} THEN f[p] = 0
       ELSE /\ f[p] \in Free(takers, held, f, p)
            /\ \A q \in Free(takers, held, f, p) : table[f[p]].id <= table[q].id

\* The products without a row of their own that get one, and those that do not.
Heirs(rows, held, table) ==
  {p \in rows \ held :
     \E f \in [rows \ held -> held \cup {0}] :
       Greedy(rows \ held, held, table, f) /\ f[p] # 0}
Orphans(rows, held, table) ==
  {p \in rows \ held :
     \E f \in [rows \ held -> held \cup {0}] :
       Greedy(rows \ held, held, table, f) /\ f[p] = 0}

HeirsNow(d) == Heirs(RowsOf(d), HeldOf(d), compat)
HeirsRead(s, d) == Heirs(SeenOf(s, d), KnownOf(s, d), sess[s].kept)
OrphansRead(s, d) == Orphans(SeenOf(s, d), KnownOf(s, d), sess[s].kept)

Own(n, p) == n > 0 => owner[n] = p
Lent(n, p, heirs) == Own(n, p) \/ (owner[n] > p /\ p \in heirs)

\* Where a label is shown, an heir has it, and remains one.
TablesOwn(d) ==
  \A p \in OfPair(d) :
    /\ Own(compat[p].label, p) /\ Lent(row[p].label, p, HeirsNow(d))
    /\ row[p].gen = 0 => row[p].label = 0
ReadOwn(s, d) ==
  \A p \in OfPair(d) :
    Own(sess[s].kept[p].label, p) /\ Lent(sess[s].rows[p], p, HeirsRead(s, d))
ReadHeld(s, d) == \A p \in KnownOf(s, d) : compat[p].id = sess[s].kept[p].id

\* What s would create nobody else has created, or else all that it has read
\* of the older table is all there is, or it will fail.
ReadLast(s, d) ==
  \/ OrphansRead(s, d) = {} \/ OrphansRead(s, d) \cap HeldOf(d) # {}
  \/ HeldOf(d) = KnownOf(s, d)

\* The rows that s would relabel are gone, or they are all there are.
ReadRows(s, d) ==
  \/ SeenOf(s, d) \subseteq sess[s].gone
  \/ /\ SeenOf(s, d) = RowsOf(d) /\ SeenOf(s, d) \cap sess[s].gone = {}
     /\ HeirsRead(s, d) \subseteq HeirsNow(d)

Compared(s, t, d) ==
  SeenOf(s, d) \subseteq SeenOf(t, d) \/ SeenOf(t, d) \subseteq SeenOf(s, d)

ReadInv(s, d) ==
  ReadOwn(s, d) /\ ReadHeld(s, d) /\ ReadLast(s, d) /\ ReadRows(s, d)

PairInv(d) ==
  /\ \A p, q \in HeldOf(d) : compat[p].id = compat[q].id => p = q
  /\ TablesOwn(d)
  /\ \A s \in Sessions : At(s, "syncing") =>
       /\ ReadInv(s, d)
       /\ \A t \in Sessions : At(t, "syncing") => Compared(s, t, d)

InPair(n, p) == n > 0 => n <= labels /\ PairOf[owner[n]] = PairOf[p]
InPairRead(s) ==
  IF At(s, "syncing")
  THEN \A p \in Products : InPair(sess[s].rows[p], p) /\ InPair(sess[s].kept[p].label, p)
  ELSE sess[s].gone = {}

LabelInv ==
  /\ \A p \in Products : InPair(row[p].label, p) /\ InPair(compat[p].label, p)
  /\ \A s \in Sessions : InPairRead(s)
  /\ \A d \in Pairs : Quiet(d) => PairInv(d)

\* Unless two rebuilds overlapped, every product that the catalog has listed or
\* that keeps a label is in what a rebuild has listed, in what it inserts and in
\* what it commits, so that readers find the table either whole or empty; and
\* even if they overlapped, the fingerprint of a scan is recorded only when the
\* rows of the packages it has seen are there or missing, never out of date.  In
\* a quiet pair a product shows its own label or one that a later product has
\* lent it, and no synchronisation that is under way will change that: the
\* inductive invariant.
CatalogInv == CoverInv /\ PrintInv /\ LabelInv

\* A start of the server that orders no rebuild finds the rows equal to the
\* packages, whatever rebuilds are at work, overlapped, failed or died before,
\* as long as no package was cleaned up and none is half written (then, numbers
\* and fingerprint can agree by chance).
NoticedAtBoot ==
  (/\ cleaned = {} /\ \A p \in Products : disk[p] >= 0
   /\ ~NeedsRebuild(disk, print))
    => \A p \in Products : row[p].gen = disk[p]

\* The last label that a user gave to a product is the one in the older table,
\* from which every rebuild takes it, although each rebuild deletes the row that
\* was labelled: unless two rebuilds overlapped, or the package was deleted or
\* found half written.
LabelsKept ==
  \A n \in 1..labels :
    LET p == owner[n] IN
    \/ p \in cleaned \cup unread \/ overlapped
    \/ \E m \in n+1..labels : owner[m] = p
    \/ compat[p].label = n

\* A product shows a label that was given to itself, with two exceptions.  A
\* result without a row in the older table inherits, through its name and its
\* bounding box, the label of a result of the same pair whose path comes later;
\* and once a result of the pair was deleted, or found half written, or rebuilds
\* overlapped, the rows of the older table may pass to other results of the pair.
LabelsOwn ==
  \A p \in Products :
    row[p].label > 0 =>
      LET q == owner[row[p].label] IN
      \/ q = p
      \/ PairOf[q] = PairOf[p] /\ p < q /\ compat[p].id = 0
      \/ /\ PairOf[q] = PairOf[p]
         /\ OfPair(PairOf[p]) \cap (cleaned \cup unread) # {} \/ overlapped

\* What a rebuild has listed is listed when no rebuild is at work, whatever the
\* start-ups, clean-ups of other pairs and deaths in between: unless rebuilds
\* overlapped, the last one died with the table empty, or a rebuild found the
\* package half written.
ListedStays ==
  (\A s \in Sessions : At(s, "idle"))
    => listed \subseteq cleaned \cup unread \cup Rows \/ emptied \/ overlapped
=============================================================================
