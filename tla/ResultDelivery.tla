-------------------------- MODULE ResultDelivery ---------------------------
(* Deliveries of results of the catalog to users.  A delivery is asked for *)
(* with ids of rows of the older table; the request is checked against the *)
(* catalog and stored with its ids.  Its job looks them up again when it   *)
(* runs, copies what it finds then, and closes the delivery.  The job has  *)
(* one attempt; meanwhile the catalog is rebuilt, relabelled and cleaned.  *)
(* A product is one file here.  Results of a pair may have the same path   *)
(* in a delivery: the folder is named for the task, the file as its source.*)
EXTENDS ResultCatalog

CONSTANTS Deliveries, MaxDeliveries, Paths, PathOf

ASSUME DeliveryAssumption ==
  MaxDeliveries \in Nat /\ PathOf \in [Products -> Paths]

VARIABLES
  delivery, \* the requests and what their jobs have done
  asked     \* number of requests made

allvars == <<vars, delivery, asked>>

Steps == {"none", "queued", "started", "copying", "over"}
Statuses == {"PENDING", "RUNNING", "READY", "FAILED"}

\* What is at a path of the delivery, besides the file of a product.
NoFile == 0
Partial == -1
NoFiles == [x \in Paths |-> NoFile]

\* ids: the ids that were asked for; checked: the products found for them at
\* that time (item_count); todo: those found by the job and not yet treated.
\* copied, broken: those whose item is COPIED or FAILED, missing those without a
\* source file; available: some file was copied or skipped.
Delivery == [at : Steps, status : Statuses, ids : SUBSET Nat,
             checked : SUBSET Products, todo : SUBSET Products,
             copied : SUBSET Products, broken : SUBSET Products,
             missing : SUBSET Products, available : BOOLEAN,
             file : [Paths -> Products \cup {NoFile, Partial}]]

NoDelivery == [at |-> "none", status |-> "PENDING", ids |-> {}, checked |-> {},
               todo |-> {}, copied |-> {}, broken |-> {}, missing |-> {},
               available |-> FALSE, file |-> NoFiles]

DeliveryInit ==
  /\ Init
  /\ delivery = [d \in Deliveries |-> NoDelivery]
  /\ asked = 0

DeliveryTypeOK ==
  delivery \in [Deliveries -> Delivery] /\ asked \in 0..MaxDeliveries

\* Products whose row in the older table has one of the ids, and which have a
\* row in the catalog.
Sources(wanted) == {p \in Products : compat[p].id \in wanted /\ row[p].gen > 0}

\* create_delivery: nothing found is an error.  The user chooses from a list he
\* has loaded before; an id that is no longer there is not missed.
Ask(d, wanted) ==
  /\ delivery[d].at = "none" /\ asked < MaxDeliveries
  /\ Sources(wanted) # {}
  /\ asked' = asked + 1
  /\ delivery' = [delivery EXCEPT ![d] =
       [NoDelivery EXCEPT !.at = "queued", !.ids = wanted,
                          !.checked = Sources(wanted)]]
  /\ UNCHANGED vars

Start(d) ==
  /\ delivery[d].at = "queued"
  /\ delivery' = [delivery EXCEPT ![d].at = "started", ![d].status = "RUNNING"]
  /\ UNCHANGED <<vars, asked>>

Resolved(d) == Sources(delivery[d].ids)

\* _build_delivery_files looks the ids up again; nothing found fails it.
Resolve(d) ==
  /\ delivery[d].at = "started"
  /\ delivery' = [delivery EXCEPT ![d] =
       IF Resolved(d) = {} THEN [delivery[d] EXCEPT !.at = "over", !.status = "FAILED"]
       ELSE [delivery[d] EXCEPT !.at = "copying", !.todo = Resolved(d)]]
  /\ UNCHANGED <<vars, asked>>

Treating(d, p) == delivery[d].at = "copying" /\ p \in delivery[d].todo

\* The package is gone: a failed item, without a file.
SourceMissing(d, p) ==
  /\ Treating(d, p) /\ disk[p] = 0
  /\ delivery' = [delivery EXCEPT ![d] =
       [delivery[d] EXCEPT !.todo = delivery[d].todo \ {p},
                           !.missing = delivery[d].missing \cup {p}]]
  /\ UNCHANGED <<vars, asked>>

\* Variant of Placed: a file is skipped for its size although none is there.
PlacedAny(d, p) == {p, delivery[d].file[PathOf[p]]}

\* Files that may be at the path of p afterwards: its own, or the one that was
\* there, if it has the same size (skipped).
Placed(d, p) == {p} \cup ({delivery[d].file[PathOf[p]]} \ {NoFile})

\* The file is copied or skipped, which counts even if its checksum then fails
\* and the item with it.
Copied(d, p) ==
  /\ Treating(d, p) /\ disk[p] # 0
  /\ \E f \in Placed(d, p), fails \in BOOLEAN :
       delivery' = [delivery EXCEPT ![d] =
         [delivery[d] EXCEPT
            !.todo = delivery[d].todo \ {p},
            !.copied = delivery[d].copied \cup (IF fails THEN {} ELSE {p}),
            !.broken = delivery[d].broken \cup (IF fails THEN {p} ELSE {}),
            !.available = TRUE,
            !.file = [delivery[d].file EXCEPT ![PathOf[p]] = f]]]
  /\ UNCHANGED <<vars, asked>>

\* The copy breaks off before it begins to write, in the middle, or at its end
\* (copy2 copies the times last); perhaps the source has just been deleted.
CopyFails(d, p) ==
  /\ Treating(d, p)
  /\ \E f \in {delivery[d].file[PathOf[p]], Partial, p} :
       delivery' = [delivery EXCEPT ![d] =
         [delivery[d] EXCEPT
            !.todo = delivery[d].todo \ {p},
            !.broken = delivery[d].broken \cup {p},
            !.file = [delivery[d].file EXCEPT ![PathOf[p]] = f]]]
  /\ UNCHANGED <<vars, asked>>

\* One turn of the loop over the sources, whose order is left open.
Copy(d, p) == SourceMissing(d, p) \/ Copied(d, p) \/ CopyFails(d, p)

Outcome(available) == IF available THEN "READY" ELSE "FAILED"

\* Failed items do not keep a delivery from being READY, an exception does: a
\* directory or the manifest cannot be written, or the archive is too large.
Close(d) ==
  /\ delivery[d].at = "copying"
  /\ \E status \in {"FAILED"} \cup (IF delivery[d].todo = {}
                                  THEN {Outcome(delivery[d].available)} ELSE {}) :
       delivery' = [delivery EXCEPT ![d] =
         [delivery[d] EXCEPT !.at = "over", !.status = status]]
  /\ UNCHANGED <<vars, asked>>

\* The worker dies: there is no second attempt, and nobody corrects the status.
Die(d) ==
  /\ delivery[d].at \in {"started", "copying"} /\ crashes < MaxCrashes
  /\ crashes' = crashes + 1
  /\ delivery' = [delivery EXCEPT ![d].at = "over"]
  /\ UNCHANGED <<program, jobs, labels, cleanups, boots, history, asked>>

DeliveryNext ==
  \/ Next /\ UNCHANGED <<delivery, asked>>
  \/ \E d \in Deliveries :
       \/ Start(d) \/ Resolve(d) \/ Close(d) \/ Die(d)
       \/ \E p \in Products : Copy(d, p)
       \/ \E wanted \in SUBSET {compat[p].id : p \in Products} \ {{}} :
            0 \notin wanted /\ Ask(d, wanted)

DeliverySpec == DeliveryInit /\ [][DeliveryNext]_allvars

(***************************************************************************)
(* Properties.                                                             *)
(***************************************************************************)

\* What a clean-up, a package found half written or an overlap of rebuilds may
\* have done to the rows of p.
Disturbed(p) ==
  overlapped \/ p \in cleaned \/ \E q \in unread : PairOf[q] = PairOf[p]

\* Products that have an item, and those whose file was found.
Treated(request) == request.copied \cup request.broken \cup request.missing
Stored(request) == request.copied \cup request.broken

\* A COPIED item has its own file at its path, unless another item of the
\* delivery has the same path.
InPlace(request) ==
  \A p \in request.copied :
    \/ request.file[PathOf[p]] = p
    \/ \E q \in Stored(request) \ {p} : PathOf[q] = PathOf[p]

\* The ids of a request keep to the products that were found for them, until the
\* job looks them up, and then to what it has found and treated.
Kept(request) ==
  /\ request.status = "READY" =>
       request.at = "over" /\ request.todo = {} /\ request.available
  /\ request.ids \subseteq 1..ids
  /\ request.at = "queued" \/ request.at = "started" =>
       \A p \in Products :
         Disturbed(p) \/ (compat[p].id \in request.ids <=> p \in request.checked)
  /\ request.at \in {"queued", "started"} => Treated(request) = {}
  /\ request.at = "copying" \/ request.status = "READY" =>
       \A p \in Products :
         \/ Disturbed(p)
         \/ p \in request.checked <=> p \in request.todo \cup Treated(request)
  /\ \A p \in request.todo : disk[p] # 0 \/ p \in cleaned
  /\ request.todo \cap Treated(request) = {}

\* What is in the directory of a delivery, whatever became of the request.
Held(request) ==
  /\ request.missing \subseteq cleaned
  /\ InPlace(request)
  /\ \A x \in Paths : request.file[x] # NoFile =>
       \E p \in Stored(request) : PathOf[p] = x
  /\ request.available => \E x \in Paths : request.file[x] # NoFile

Fulfilled(d) == Kept(delivery[d]) /\ Held(delivery[d])

\* The inductive invariant: that of the catalog, and that ids are never given
\* twice, so that the job finds what the request has found.
DeliveryInv ==
  CatalogInv /\ DeliveryTypeOK /\ \A d \in Deliveries : Fulfilled(d)

\* A delivery that is READY has an item for each of the products found when the
\* user asked for them, and for no other, although they are looked up again amid
\* rebuilds that delete and insert all rows (unless the pair was disturbed); only
\* what was cleaned up has no source.  Some file is there, and that of a COPIED
\* item is its own as long as no other item has its path.
DeliveryTrue ==
  \A d \in Deliveries :
    LET request == delivery[d] IN
    request.status = "READY" =>
      /\ \A p \in Products :
           Disturbed(p) \/ (p \in request.checked <=> p \in Treated(request))
      /\ request.missing \subseteq cleaned
      /\ \E x \in Paths : request.file[x] # NoFile
      /\ InPlace(request)
=============================================================================
