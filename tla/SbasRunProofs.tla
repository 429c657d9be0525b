---------------------------- MODULE SbasRunProofs ----------------------------
(***************************************************************************)
(* Proofs about SbasRun: the inductive invariant, and from it that the     *)
(* status of a run is backed by its records, that a RUNNING part has a     *)
(* runner, that a rejection stands, that a COMPLETED workflow took its     *)
(* steps in order and that no stage starts on an unfinished input.  What   *)
(* an operation does to a manifest is shown first, of any manifest: an     *)
(* execution applies it to the one it read long ago.  Then the actions     *)
(* have lemmas for each of the three parts of the invariant; the parts     *)
(* about the inputs and the workflow use the first.                        *)
(***************************************************************************)
EXTENDS SbasRun, WellFoundedInduction, TLAPS

-----------------------------------------------------------------------------
(* Manifests                                                               *)

\* Backed of a status and the records of the stages.
Fits(status, stage) ==
  \A s \in Stages :
    /\ status = <<s, "READY">> => Completed(stage[s])
    /\ status \in {<<s, "SCRIPT_READY">>, <<s, "RUNNING">>} => stage[s].script

LEMMA BackedFits == \A m : Backed(m) <=> Fits(m.status, m.stage)
BY DEF Backed, Fits

LEMMA Pair == \A a, b, c, d : <<a, b>> = <<c, d>> => a = c /\ b = d
OBVIOUS

LEMMA InferredStatus ==
  ASSUME NEW m \in Manifest
  PROVE  Inferred(m) \in Statuses /\ Fits(Inferred(m), m.stage)
<1>1. Inferred(m) \in Statuses
  BY DEF Inferred, Statuses, Planned, Stages, Inputs
<1> DEFINE st == Inferred(m)
<1>2. \/ \E s \in Stages : st = <<s, "READY">> /\ Completed(m.stage[s])
      \/ st = <<"coregistration", "SCRIPT_READY">> /\ m.stage["coregistration"].script
      \/ st \in {<<"baseline_audit", "READY">>, <<"baseline_audit", "SCRIPT_READY">>, Planned}
  BY DEF Inferred, Stages, Inputs
<1> HIDE DEF st
<1>3. ASSUME NEW s \in Stages
      PROVE  /\ st = <<s, "READY">> => Completed(m.stage[s])
             /\ st \in {<<s, "SCRIPT_READY">>, <<s, "RUNNING">>} => m.stage[s].script
  <2>1. CASE st \in {<<"baseline_audit", "READY">>, <<"baseline_audit", "SCRIPT_READY">>, Planned}
    <3>1. "baseline_audit" \notin Stages /\ "planned" \notin Stages
      BY DEF Stages, Inputs
    <3>2. \A phase : st # <<s, phase>>
      BY <2>1, <3>1, Pair DEF Planned
    <3> QED BY <3>2
  <2>2. CASE \E k \in Stages : st = <<k, "READY">> /\ Completed(m.stage[k])
    BY <2>2
  <2>3. CASE st = <<"coregistration", "SCRIPT_READY">> /\ m.stage["coregistration"].script
    BY <2>3
  <2> QED BY <1>2, <2>1, <2>2, <2>3
<1> QED BY <1>1, <1>3 DEF st, Fits

Updated(m, s, status, record) == [m EXCEPT !.status = status, !.stage[s] = record]

LEMMA UpdatedManifest ==
  ASSUME NEW m \in Manifest, NEW s \in Stages, NEW st \in Statuses, NEW r \in Record
  PROVE  /\ Updated(m, s, st, r) \in Manifest
         /\ Updated(m, s, st, r).audit = m.audit
         /\ Updated(m, s, st, r).status = st
         /\ Updated(m, s, st, r).stage = [m.stage EXCEPT ![s] = r]
<1> DEFINE x == [m.stage EXCEPT ![s] = r]
           n == Updated(m, s, st, r)
<1>1. m.stage \in [Stages -> Record] /\ m.audit \in Audit
  BY DEF Manifest
<1>2. x \in [Stages -> Record]
  BY <1>1
<1>3. n = [m EXCEPT !.status = st, !.stage = x]
  BY DEF Manifest, Updated
<1> HIDE DEF x, n
<1>4. n = [status |-> st, audit |-> m.audit, stage |-> x]
  BY <1>3 DEF Manifest
<1>5. n \in Manifest
  BY <1>1, <1>2, <1>4 DEF Manifest
<1> QED BY <1>4, <1>5 DEF x, n

LEMMA PreparedManifest ==
  ASSUME TypeOK, NEW m \in Manifest, NEW s \in Stages
  PROVE  /\ Prepared(s, m) \in Manifest
         /\ Prepared(s, m).audit = m.audit
         /\ Prepared(s, m).status \in {<<s, "SCRIPT_READY">>, <<"rdc_dem", "READY">>}
         /\ Prepared(s, m).stage[s].script
         /\ \A t \in Stages : Prepared(s, m).stage[t].ready \in {"", m.stage[t].ready}
         /\ Backed(m) => Backed(Prepared(s, m))
<1> DEFINE r == [script |-> TRUE, mark |-> "", ready |-> "",
                 net |-> IF s # "interferograms" THEN 0
                         ELSE IF disk.common > 0 THEN disk.common
                         ELSE disk.approved]
           st == IF s = "coregistration" /\ Completed(m.stage["rdc_dem"])
                 THEN <<"rdc_dem", "READY">> ELSE <<s, "SCRIPT_READY">>
<1>0. r.ready = ""
  OBVIOUS
<1>1. r \in Record /\ r.script
  BY DEF TypeOK, Disk, Record
<1>2. /\ st \in {<<s, "SCRIPT_READY">>, <<"rdc_dem", "READY">>}
      /\ st = <<"rdc_dem", "READY">> => s = "coregistration" /\ Completed(m.stage["rdc_dem"])
  BY DEF Stages, Inputs
<1>3. st \in Statuses
  BY <1>2 DEF Statuses, Stages, Inputs
<1>4. Prepared(s, m) = Updated(m, s, st, r)
  BY DEF Prepared, Updated
<1> HIDE DEF r, st
<1>5. /\ Prepared(s, m) \in Manifest
      /\ Prepared(s, m).audit = m.audit
      /\ Prepared(s, m).status = st
      /\ Prepared(s, m).stage = [m.stage EXCEPT ![s] = r]
  BY <1>1, <1>3, <1>4, UpdatedManifest
<1>6. m.stage \in [Stages -> Record]
  BY DEF Manifest
<1>7. Fits(st, [m.stage EXCEPT ![s] = r])
  BY <1>1, <1>2, <1>6 DEF Fits, Stages, Inputs
<1>8. \A t \in Stages : Prepared(s, m).stage[t].ready \in {"", m.stage[t].ready}
  BY <1>0, <1>5, <1>6
<1> QED BY <1>1, <1>2, <1>5, <1>6, <1>7, <1>8, BackedFits

LEMMA StartedManifest ==
  ASSUME TypeOK, NEW m \in Manifest, Backed(m), NEW s \in Stages, MayExecute(s, m)
  PROVE  LET n == Started(s, Opened(s, m)) IN
         /\ n \in Manifest
         /\ n.audit = m.audit
         /\ n.status = <<s, "RUNNING">>
         /\ \A t \in Stages : n.stage[t].ready = Opened(s, m).stage[t].ready
         /\ Backed(n)
<1> DEFINE o == Opened(s, m)
           n == Started(s, o)
           r == [o.stage[s] EXCEPT !.mark = "RUNNING"]
<1>1. o \in Manifest /\ o.audit = m.audit /\ o.stage[s].script
  BY PreparedManifest DEF Opened, Backed
<1>2. o.stage \in [Stages -> Record]
  BY <1>1 DEF Manifest
<1>3. r \in Record /\ r.script /\ r.ready = o.stage[s].ready
  BY <1>1, <1>2 DEF Record
<1>4. <<s, "RUNNING">> \in Statuses
  BY DEF Statuses
<1>5. n = Updated(o, s, <<s, "RUNNING">>, r)
  BY DEF Started, Updated
<1> HIDE DEF o, n, r
<1>6. /\ n \in Manifest /\ n.audit = o.audit /\ n.status = <<s, "RUNNING">>
      /\ n.stage = [o.stage EXCEPT ![s] = r]
  BY <1>1, <1>3, <1>4, <1>5, UpdatedManifest
<1>7. Fits(n.status, n.stage)
  BY <1>2, <1>3, <1>6 DEF Fits
<1>8. \A t \in Stages : n.stage[t].ready = o.stage[t].ready
  BY <1>2, <1>3, <1>6
<1> QED BY <1>1, <1>6, <1>7, <1>8, BackedFits DEF n, o

LEMMA EndedManifest ==
  ASSUME NEW m \in Manifest, NEW s \in Stages, NEW outcome \in Outcomes
  PROVE  /\ Ended(s, m, outcome) \in Manifest
         /\ Ended(s, m, outcome).audit = m.audit
         /\ \A k \in Kinds : Ended(s, m, outcome).status # <<k, "RUNNING">>
         /\ Ended(s, m, outcome).stage[s].ready \in {"yes", "no"}
         /\ Ended(s, m, outcome).status \in {<<s, "FAILED">>, <<s, "READY">>, <<"rdc_dem", "READY">>}
         /\ \A t \in Stages \ {s} : Ended(s, m, outcome).stage[t] = m.stage[t]
         /\ Backed(Ended(s, m, outcome))
<1> DEFINE r == [m.stage[s] EXCEPT
                  !.mark = IF outcome = "good" THEN "COMPLETED" ELSE "FAILED",
                  !.ready = IF outcome = "bad" THEN "no" ELSE "yes"]
           st == IF outcome # "good" THEN <<s, "FAILED">>
                 ELSE IF s = "coregistration" /\ Completed(m.stage["rdc_dem"])
                 THEN <<"rdc_dem", "READY">> ELSE <<s, "READY">>
<1>1. m.stage \in [Stages -> Record]
  BY DEF Manifest
<1>2. /\ r \in Record /\ r.ready \in {"yes", "no"}
      /\ outcome = "good" => Completed(r)
  BY <1>1 DEF Record, Completed
<1>3. \/ st = <<s, "FAILED">>
      \/ st = <<s, "READY">> /\ Completed(r)
      \/ st = <<"rdc_dem", "READY">> /\ s = "coregistration" /\ Completed(m.stage["rdc_dem"])
  BY <1>2
<1>4. Ended(s, m, outcome) = Updated(m, s, st, r)
  BY DEF Ended, Updated
<1> HIDE DEF r, st
<1>5. st \in Statuses /\ \A k \in Kinds : st # <<k, "RUNNING">>
  BY <1>3 DEF Statuses, Stages, Inputs
<1>6. /\ Ended(s, m, outcome) \in Manifest
      /\ Ended(s, m, outcome).audit = m.audit
      /\ Ended(s, m, outcome).status = st
      /\ Ended(s, m, outcome).stage = [m.stage EXCEPT ![s] = r]
  BY <1>2, <1>4, <1>5, UpdatedManifest
<1>7. Fits(st, [m.stage EXCEPT ![s] = r])
  BY <1>1, <1>2, <1>3 DEF Fits, Stages, Inputs
<1>8. /\ Ended(s, m, outcome).stage[s].ready \in {"yes", "no"}
      /\ \A t \in Stages \ {s} : Ended(s, m, outcome).stage[t] = m.stage[t]
  BY <1>1, <1>2, <1>6
<1>9. st \in {<<s, "FAILED">>, <<s, "READY">>, <<"rdc_dem", "READY">>}
  BY <1>3
<1> QED BY <1>5, <1>6, <1>7, <1>8, <1>9, BackedFits

-----------------------------------------------------------------------------
(* Threads                                                                 *)

LEMMA SlotStep ==
  ASSUME TypeOK, NEW e \in Slots, NEW x \in Thread, slot' = [slot EXCEPT ![e] = x]
  PROVE  /\ slot' \in [Slots -> Thread] /\ slot'[e] = x
         /\ \A d \in Slots \ {e} : slot'[d] = slot[d]
BY DEF TypeOK

LEMMA IdleThread ==
  ASSUME SbasAssumption
  PROVE  /\ Idle \in Thread /\ Pending \in StepStates
         /\ NewManifest \in Manifest /\ Backed(NewManifest)
<1>1. NoRecord \in Record
  BY DEF NoRecord, Record
<1>2. <<"workflow", "READY">> \in Statuses
  BY DEF Statuses
<1>3. NewManifest \in Manifest
  BY <1>1, <1>2 DEF NewManifest, Manifest, Audit
<1>4. Backed(NewManifest)
  <2>1. "workflow" \notin Stages BY DEF Stages, Inputs
  <2> QED BY <2>1, Pair DEF Backed, NewManifest
<1>5. Pending \in StepStates
  BY DEF Pending, StepStates
<1>6. Idle \in Thread
  BY <1>3, <1>5 DEF Idle, Thread
<1> QED BY <1>3, <1>4, <1>5, <1>6

LEMMA ComingIsAsked ==
  ASSUME TypeOK, SbasAssumption, NEW e \in Slots, slot[e].todo # {}
  PROVE  /\ Coming(e) \in slot[e].todo /\ Coming(e) \in Steps
         /\ \A j \in slot[e].todo : Coming(e) <= j
<1> DEFINE T == slot[e].todo
           R == OpToRel(<, Nat)
<1>1. T \subseteq Steps
  <2>1. slot[e] \in Thread BY DEF TypeOK
  <2> QED BY <2>1 DEF Thread
<1>2. Steps \subseteq Nat
  BY SbasAssumption DEF Steps
<1>3. \A i, j \in Nat : j < i => <<j, i>> \in R
  BY DEF OpToRel
<1> HIDE DEF R
<1>4. \E i \in T : \A j \in T : ~ (<<j, i>> \in R)
  BY <1>1, <1>2, NatLessThanWellFounded, WFMin, Zenon DEF R
<1>5. \E i \in T : \A j \in T : i <= j
  <2>1. PICK i \in T : \A j \in T : ~ (<<j, i>> \in R)
    BY <1>4
  <2>2. ASSUME NEW j \in T PROVE i <= j
    <3>1. i \in Nat /\ j \in Nat BY <1>1, <1>2
    <3>2. ~ (j < i) BY <1>3, <2>1, <3>1
    <3> QED BY <3>1, <3>2
  <2> QED BY <2>2
<1>6. Coming(e) \in T /\ \A j \in T : Coming(e) <= j
  BY <1>5 DEF Coming
<1> QED BY <1>1, <1>6

-----------------------------------------------------------------------------
(* The invariant by parts: the file, the runner of the file, the threads    *)

SlotOk(e) ==
  /\ Placed(e)
  /\ slot[e].at = "executing" => Backed(slot[e].view)
  /\ "decision" \notin lost /\ slot[e].kind \in Stages /\ slot[e].at = "executing" =>
       slot[e].view.audit.decision # "reject"

FileOk ==
  /\ Backed(manifest)
  /\ "decision" \notin lost =>
       /\ verdict = "reject" => manifest.audit.decision = "reject"
       /\ manifest.audit.decision = "reject" => manifest.status \in Withheld

LEMMA ByParts ==
  RecordsInv <=> TypeOK /\ FileOk /\ RunningHasRunner /\ \A e \in Slots : SlotOk(e)
BY Zenon DEF RecordsInv, SlotOk, FileOk, StatusBacked, RejectionKept

LEMMA ByPartsNext ==
  ASSUME TypeOK', FileOk', RunningHasRunner', \A e \in Slots : SlotOk(e)'
  PROVE  RecordsInv'
BY Zenon DEF RecordsInv, SlotOk, FileOk, StatusBacked, RejectionKept

\* A step that leaves the threads alone and starts nothing.
LEMMA FileStep ==
  ASSUME RecordsInv, TypeOK', FileOk', slot' = slot, crashed' = crashed,
         lost \subseteq lost',
         \A k \in Kinds : manifest'.status = <<k, "RUNNING">> => manifest.status = <<k, "RUNNING">>
  PROVE  RecordsInv'
<1>1. RunningHasRunner'
  BY ByParts DEF RunningHasRunner
<1>2. \A e \in Slots : SlotOk(e)'
  BY ByParts DEF SlotOk, Placed
<1> QED BY <1>1, <1>2, ByPartsNext

\* A step of one thread: RUNNING is said of its kind only while it is at work.
Runs(e, k) == slot[e].kind = k /\ slot[e].at # "claimed"

LEMMA ThreadStep ==
  ASSUME RecordsInv, NEW e \in Slots, TypeOK', FileOk', SlotOk(e)',
         \A d \in Slots \ {e} : slot'[d] = slot[d],
         crashed \subseteq crashed', lost \subseteq lost',
         \A k \in Kinds : manifest'.status = <<k, "RUNNING">> =>
            \/ k \in crashed' \/ Runs(e, k)'
            \/ manifest.status = <<k, "RUNNING">> /\ ~Runs(e, k)
  PROVE  RecordsInv'
<1>1. RunningHasRunner'
  <2> SUFFICES ASSUME NEW k \in Kinds, manifest'.status = <<k, "RUNNING">>, k \notin crashed'
               PROVE  \E d \in Slots : Runs(d, k)'
      BY DEF RunningHasRunner, Runs
  <2>1. CASE Runs(e, k)'
    BY <2>1
  <2>2. CASE manifest.status = <<k, "RUNNING">> /\ ~Runs(e, k)
    <3>1. PICK d \in Slots : Runs(d, k)
      BY <2>2, ByParts DEF RunningHasRunner, Runs
    <3>2. d # e /\ slot'[d] = slot[d]
      BY <2>2, <3>1
    <3> QED BY <3>1, <3>2 DEF Runs
  <2> QED BY <2>1, <2>2
<1>2. ASSUME NEW d \in Slots PROVE SlotOk(d)'
  <2>1. CASE d = e BY <2>1
  <2>2. CASE d # e
    BY <2>2, ByParts DEF SlotOk, Placed
  <2> QED BY <2>1, <2>2
<1> QED BY <1>1, <1>2, ByPartsNext

-----------------------------------------------------------------------------
(* The reviewer and the clients                                            *)

Audited(m, a, st) == [m EXCEPT !.audit = a, !.status = st]
Marked(m, st) == [m EXCEPT !.status = st]

LEMMA MarkedManifest ==
  ASSUME NEW m \in Manifest, NEW st \in Statuses
  PROVE  /\ Marked(m, st) \in Manifest /\ Marked(m, st).status = st
         /\ Marked(m, st).audit = m.audit /\ Marked(m, st).stage = m.stage
BY DEF Marked, Manifest

LEMMA AuditedManifest ==
  ASSUME NEW m \in Manifest, NEW st \in Statuses, NEW a \in Audit
  PROVE  /\ Audited(m, a, st) \in Manifest /\ Audited(m, a, st).status = st
         /\ Audited(m, a, st).audit = a /\ Audited(m, a, st).stage = m.stage
<1> DEFINE x == [m EXCEPT !.audit = a]
<1>1. x \in Manifest /\ x.audit = a /\ x.stage = m.stage
  BY DEF Manifest
<1>2. Audited(m, a, st) = Marked(x, st)
  BY DEF Audited, Marked
<1> HIDE DEF x
<1> QED BY <1>1, <1>2, MarkedManifest

\* A status that says nothing of a stage is backed by any records.
Silent == Statuses \ (Stages \X {"READY", "SCRIPT_READY", "RUNNING"})

LEMMA SilentFits ==
  ASSUME NEW st \in Silent, NEW stage PROVE Fits(st, stage)
BY DEF Silent, Fits

LEMMA SilentStatuses ==
  /\ \A w \in {"SCRIPT_READY", "READY", "FAILED"} :
       <<"baseline_audit", w>> \in Silent /\ \A k \in Kinds : <<"baseline_audit", w>> # <<k, "RUNNING">>
  /\ \A w \in {"approve", "reject"} :
       <<"itab", w>> \in Silent /\ \A k \in Kinds : <<"itab", w>> # <<k, "RUNNING">>
  /\ \A w \in {"READY", "RUNNING", "COMPLETED", "PARTIAL", "FAILED"} :
       /\ <<"workflow", w>> \in Silent \cap Withheld
       /\ w # "RUNNING" => \A k \in Kinds : <<"workflow", w>> # <<k, "RUNNING">>
<1>1. "baseline_audit" \notin Kinds /\ "itab" \notin Kinds /\ "workflow" \notin Stages
      /\ Stages \subseteq Kinds
  BY DEF Kinds, Stages, Inputs
<1>2. ASSUME NEW w \in {"SCRIPT_READY", "READY", "FAILED"}
      PROVE  <<"baseline_audit", w>> \in Silent
             /\ \A k \in Kinds : <<"baseline_audit", w>> # <<k, "RUNNING">>
  BY <1>1, Pair DEF Silent, Statuses
<1>3. ASSUME NEW w \in {"approve", "reject"}
      PROVE  <<"itab", w>> \in Silent /\ \A k \in Kinds : <<"itab", w>> # <<k, "RUNNING">>
  BY <1>1, Pair DEF Silent, Statuses
<1>4. ASSUME NEW w \in {"READY", "RUNNING", "COMPLETED", "PARTIAL", "FAILED"}
      PROVE  /\ <<"workflow", w>> \in Silent \cap Withheld
             /\ w # "RUNNING" => \A k \in Kinds : <<"workflow", w>> # <<k, "RUNNING">>
  BY <1>1, Pair DEF Silent, Statuses, Withheld
<1> QED BY <1>2, <1>3, <1>4

LEMMA PlanAuditStep ==
  ASSUME RecordsInv, PlanAudit PROVE RecordsInv'
<1> DEFINE a == [script |-> TRUE, summary |-> disk.adjacent > 0, decision |-> ""]
           st == IF disk.adjacent > 0 THEN <<"baseline_audit", "READY">>
                 ELSE <<"baseline_audit", "SCRIPT_READY">>
<1>1. TypeOK /\ manifest \in Manifest BY DEF RecordsInv, TypeOK
<1>2. a \in Audit /\ a.decision = ""
  <2>1. (disk.adjacent > 0) \in BOOLEAN OBVIOUS
  <2> QED BY <2>1 DEF Audit
<1>3. st \in Silent /\ st \in Statuses /\ \A k \in Kinds : st # <<k, "RUNNING">>
  BY SilentStatuses DEF Silent
<1>4. manifest' = Audited(manifest, a, st)
  BY DEF PlanAudit, Audited
<1> HIDE DEF a, st
<1>5. manifest' \in Manifest /\ manifest'.status = st /\ manifest'.audit = a
  BY <1>1, <1>2, <1>3, <1>4, AuditedManifest
<1>6. TypeOK'
  <2>1. disk' \in Disk BY <1>1 DEF PlanAudit, TypeOK, Disk
  <2> QED BY <1>1, <1>5, <2>1 DEF PlanAudit, TypeOK, Threads, bounds, wfHistory
<1>7. FileOk'
  <2>1. Backed(manifest') BY <1>3, <1>5, SilentFits, BackedFits
  <2> QED BY <1>2, <1>5, <2>1 DEF FileOk, PlanAudit
<1>8. slot' = slot /\ crashed' = crashed /\ lost' = lost
  BY DEF PlanAudit, Threads
<1> QED BY <1>3, <1>5, <1>6, <1>7, <1>8, FileStep

LEMMA DecideStep ==
  ASSUME RecordsInv, NEW decision \in {"approve", "reject"}, Decide(decision)
  PROVE  RecordsInv'
<1> DEFINE a == [manifest.audit EXCEPT !.decision = decision]
           st == IF decision = "approve" /\ manifest.status \in Onward
                 THEN manifest.status ELSE <<"itab", decision>>
<1>1. TypeOK /\ manifest \in Manifest BY DEF RecordsInv, TypeOK
<1>2. a \in Audit /\ a.decision = decision
  BY <1>1 DEF Audit, Manifest
<1>3. \/ st = manifest.status /\ decision = "approve"
      \/ st = <<"itab", decision>>
  OBVIOUS
<1>4. st \in Statuses
  BY <1>1, <1>3, SilentStatuses DEF Manifest, Silent
<1>5. manifest' = Audited(manifest, a, st)
  BY DEF Decide, Audited
<1> HIDE DEF a, st
<1>6. /\ manifest' \in Manifest /\ manifest'.status = st /\ manifest'.audit = a
      /\ manifest'.stage = manifest.stage
  BY <1>1, <1>2, <1>4, <1>5, AuditedManifest
<1>7. TypeOK'
  <2>1. disk' \in Disk BY <1>1 DEF Decide, TypeOK, Disk
  <2> QED BY <1>1, <1>6, <2>1 DEF Decide, TypeOK, Threads, bounds, wfHistory
<1>8. FileOk'
  <2>1. Backed(manifest')
    <3>1. CASE st = manifest.status
      BY <1>6, <3>1, BackedFits, ByParts DEF FileOk
    <3>2. CASE st = <<"itab", decision>>
      BY <1>6, <3>2, BackedFits, SilentStatuses, SilentFits
    <3> QED BY <1>3, <3>1, <3>2
  <2>2. decision = "reject" => manifest'.status \in Withheld
    BY <1>3, <1>6 DEF Withheld
  <2>3. verdict' = decision BY DEF Decide
  <2> QED BY <1>2, <1>6, <2>1, <2>2, <2>3 DEF FileOk
<1>9. slot' = slot /\ crashed' = crashed /\ lost' = lost
  BY DEF Decide, Threads
<1>10. \A k \in Kinds : manifest'.status = <<k, "RUNNING">> => manifest.status = <<k, "RUNNING">>
  BY <1>3, <1>6, SilentStatuses
<1> QED BY <1>7, <1>8, <1>9, <1>10, FileStep

\* A stage that may be prepared or executed has not been rejected.
LEMMA NotWithheld ==
  ASSUME NEW s \in Stages
  PROVE  /\ PrepareFrom(s) \cap Withheld = {}
         /\ <<s, "SCRIPT_READY">> \notin Withheld /\ <<s, "RUNNING">> \notin Withheld
<1>1. \A st \in Withheld : st[1] \in {"itab", "workflow"} /\ st # <<"itab", "approve">>
  BY DEF Withheld
<1>2. \A st \in PrepareFrom(s) : st = <<"itab", "approve">> \/ st[1] \notin {"itab", "workflow"}
  BY DEF PrepareFrom, Stages, Inputs
<1>3. <<s, "SCRIPT_READY">>[1] \notin {"itab", "workflow"} /\ <<s, "RUNNING">>[1] \notin {"itab", "workflow"}
  BY DEF Stages, Inputs
<1> QED BY <1>1, <1>2, <1>3

LEMMA NotRejected ==
  ASSUME RecordsInv, "decision" \notin lost, NEW s \in Stages,
         MayExecute(s, manifest)
  PROVE  manifest.audit.decision # "reject" /\ verdict # "reject"
<1>1. manifest.status \notin Withheld
  BY NotWithheld DEF MayExecute, MayPrepare
<1> QED BY <1>1, ByParts DEF FileOk

\* Preparing a stage keeps the parts of the invariant that are about the file.
LEMMA PreparedFile ==
  ASSUME RecordsInv, NEW s \in Stages, MayPrepare(s, manifest),
         manifest' = Prepared(s, manifest), lost' = lost, verdict' = verdict
  PROVE  /\ manifest' \in Manifest /\ FileOk'
         /\ \A k \in Kinds : manifest'.status # <<k, "RUNNING">>
<1>1. TypeOK /\ manifest \in Manifest /\ Backed(manifest)
  BY ByParts DEF TypeOK, FileOk
<1>2. manifest' \in Manifest /\ manifest'.audit = manifest.audit /\ Backed(manifest')
      /\ manifest'.status \in {<<s, "SCRIPT_READY">>, <<"rdc_dem", "READY">>}
  BY <1>1, PreparedManifest
<1>3. "decision" \notin lost => manifest.audit.decision # "reject" /\ verdict # "reject"
  BY NotRejected DEF MayExecute
<1>4. FileOk'
  BY <1>2, <1>3 DEF FileOk
<1>5. \A k \in Kinds : manifest'.status # <<k, "RUNNING">>
  BY <1>2, Pair
<1> QED BY <1>2, <1>4, <1>5

LEMMA PrepareStep ==
  ASSUME RecordsInv, NEW s \in Stages, Prepare(s) PROVE RecordsInv'
<1>1. /\ manifest' \in Manifest /\ FileOk'
      /\ \A k \in Kinds : manifest'.status # <<k, "RUNNING">>
  BY PreparedFile DEF Prepare
<1>2. TypeOK'
  BY <1>1 DEF RecordsInv, TypeOK, Prepare, Threads, bounds, wfHistory
<1>3. slot' = slot /\ crashed' = crashed /\ lost' = lost
  BY DEF Prepare, Threads
<1> QED BY <1>1, <1>2, <1>3, FileStep

LEMMA SubmittingStep ==
  ASSUME TypeOK, NEW k \in Kinds, NEW todo \in SUBSET Steps, NEW force \in BOOLEAN,
         Submitting(k, todo, force)
  PROVE  /\ queue' \subseteq Order /\ submitted' \in Nat
         /\ slot' = slot /\ crashed' = crashed /\ lost' = lost /\ verdict' = verdict
         /\ disk' = disk /\ audits' = audits /\ faults' = faults
<1>1. [kind |-> k, todo |-> todo, force |-> force] \in Order
  BY DEF Order
<1>2. PICK o \in Order : queue' = queue \cup {o}
  BY <1>1, Zenon DEF Submitting
<1>3. queue' \subseteq Order
  BY <1>2 DEF TypeOK
<1>4. submitted' \in Nat
  <2>1. submitted' = submitted + 1 /\ submitted \in Nat BY DEF Submitting, TypeOK
  <2> QED BY <2>1
<1> QED BY <1>3, <1>4 DEF Submitting

LEMMA SubmitStageStep ==
  ASSUME RecordsInv, NEW s \in Stages, SubmitStage(s) PROVE RecordsInv'
<1>1. TypeOK BY DEF RecordsInv
<1>2. s \in Kinds /\ {} \in SUBSET Steps /\ FALSE \in BOOLEAN
  BY DEF Kinds
<1>3. /\ queue' \subseteq Order /\ submitted' \in Nat
      /\ slot' = slot /\ crashed' = crashed /\ lost' = lost /\ verdict' = verdict
      /\ disk' = disk /\ audits' = audits /\ faults' = faults
  BY <1>1, <1>2, SubmittingStep DEF SubmitStage
<1>4. \/ MayPrepare(s, manifest) /\ manifest' = Prepared(s, manifest)
      \/ manifest' = manifest
  BY DEF SubmitStage
<1>5. manifest' \in Manifest /\ FileOk'
      /\ \A k \in Kinds : manifest'.status = <<k, "RUNNING">> => manifest.status = <<k, "RUNNING">>
  <2>1. CASE MayPrepare(s, manifest) /\ manifest' = Prepared(s, manifest)
    BY <1>3, <2>1, PreparedFile
  <2>2. CASE manifest' = manifest
    BY <1>1, <1>3, <2>2, ByParts DEF FileOk, TypeOK
  <2> QED BY <1>4, <2>1, <2>2
<1>6. TypeOK'
  BY <1>1, <1>3, <1>5 DEF TypeOK, SubmitStage, wfHistory
<1> QED BY <1>3, <1>5, <1>6, FileStep

LEMMA RecoveredManifest ==
  ASSUME NEW m \in Manifest, Backed(m)
  PROVE  /\ Recovered(m) \in Manifest /\ Recovered(m).audit = m.audit
         /\ Recovered(m).stage = m.stage /\ Backed(Recovered(m))
         /\ \A k \in Kinds : Recovered(m).status = <<k, "RUNNING">> => m.status = <<k, "RUNNING">>
<1>1. CASE Recovered(m) = m
  BY <1>1
<1>2. CASE Recovered(m) = Marked(m, Inferred(m))
  <2>1. Inferred(m) \in Statuses /\ Fits(Inferred(m), m.stage)
    BY InferredStatus
  <2>2. \A k \in Kinds : Inferred(m) # <<k, "RUNNING">>
    BY DEF Inferred, Planned
  <2>3. /\ Recovered(m) \in Manifest /\ Recovered(m).status = Inferred(m)
        /\ Recovered(m).audit = m.audit /\ Recovered(m).stage = m.stage
    BY <1>2, <2>1, MarkedManifest
  <2>4. Backed(Recovered(m))
    BY <2>1, <2>3, BackedFits
  <2> QED BY <2>2, <2>3, <2>4
<1> QED BY <1>1, <1>2 DEF Recovered, Marked

LEMMA PreparedWorkflow ==
  ASSUME RecordsInv, NEW force \in BOOLEAN, PrepareWorkflow(force),
         lost' = lost, verdict' = verdict, SbasAssumption
  PROVE  /\ manifest' \in Manifest /\ FileOk' /\ steps' \in StepStates
         /\ \A k \in Kinds : manifest'.status # <<k, "RUNNING">>
<1> DEFINE m == Recovered(manifest)
           st == <<"workflow", "READY">>
<1>1. TypeOK /\ manifest \in Manifest /\ FileOk /\ Backed(manifest)
  BY ByParts DEF TypeOK, FileOk
<1>2. m \in Manifest /\ m.audit = manifest.audit
  BY <1>1, RecoveredManifest
<1>3. st \in Silent /\ st \in Withheld /\ \A k \in Kinds : st # <<k, "RUNNING">>
  BY SilentStatuses
<1>4. manifest' = Marked(m, st)
  BY DEF PrepareWorkflow, Bound, Marked
<1> HIDE DEF m, st
<1>5. manifest' \in Manifest /\ manifest'.status = st /\ manifest'.audit = manifest.audit
  BY <1>2, <1>3, <1>4, MarkedManifest DEF Silent
<1>6. Backed(manifest')
  BY <1>3, <1>5, SilentFits, BackedFits
<1>7. FileOk'
  BY <1>1, <1>3, <1>5, <1>6 DEF FileOk
<1>8. steps' \in StepStates
  BY <1>1, IdleThread DEF PrepareWorkflow, TypeOK
<1> QED BY <1>3, <1>5, <1>7, <1>8

LEMMA BindWorkflowStep ==
  ASSUME RecordsInv, NEW force \in BOOLEAN, BindWorkflow(force), SbasAssumption
  PROVE  RecordsInv'
<1>1. /\ manifest' \in Manifest /\ FileOk' /\ steps' \in StepStates
      /\ \A k \in Kinds : manifest'.status # <<k, "RUNNING">>
  BY PreparedWorkflow DEF BindWorkflow
<1>2. TypeOK'
  BY <1>1 DEF RecordsInv, TypeOK, BindWorkflow, bounds, wfHistory
<1>3. slot' = slot /\ crashed' = crashed /\ lost' = lost
  BY DEF BindWorkflow
<1> QED BY <1>1, <1>2, <1>3, FileStep

LEMMA SubmitWorkflowStep ==
  ASSUME RecordsInv, NEW todo \in Selections, NEW force \in BOOLEAN,
         SubmitWorkflow(todo, force), SbasAssumption
  PROVE  RecordsInv'
<1>1. TypeOK BY DEF RecordsInv
<1>2. todo \in SUBSET Steps /\ "workflow" \in Kinds
  BY SbasAssumption DEF Steps, Kinds
<1>3. /\ queue' \subseteq Order /\ submitted' \in Nat
      /\ slot' = slot /\ crashed' = crashed /\ lost' = lost /\ verdict' = verdict
      /\ disk' = disk /\ audits' = audits /\ faults' = faults
  BY <1>1, <1>2, SubmittingStep DEF SubmitWorkflow
<1>4. /\ manifest' \in Manifest /\ FileOk' /\ steps' \in StepStates
      /\ \A k \in Kinds : manifest'.status # <<k, "RUNNING">>
  BY <1>3, PreparedWorkflow DEF SubmitWorkflow
<1>5. TypeOK'
  <2>1. overlapped' \in BOOLEAN BY DEF SubmitWorkflow
  <2> QED BY <1>1, <1>3, <1>4, <2>1 DEF TypeOK, SubmitWorkflow
<1> QED BY <1>3, <1>4, <1>5, FileStep

LEMMA CutWorkflowStep ==
  ASSUME RecordsInv, CutWorkflow PROVE RecordsInv'
<1>1. TypeOK /\ manifest \in Manifest /\ Backed(manifest)
  BY ByParts DEF TypeOK, FileOk
<1>2. /\ manifest' \in Manifest /\ Backed(manifest')
      /\ \A k \in Kinds : manifest'.status = <<k, "RUNNING">> => manifest.status = <<k, "RUNNING">>
  BY <1>1, RecoveredManifest DEF CutWorkflow
<1>3. lost' = lost \cup {"decision"} /\ slot' = slot /\ crashed' = crashed
  BY DEF CutWorkflow
<1>4. FileOk'
  BY <1>2, <1>3 DEF FileOk
<1>5. TypeOK'
  <2>1. lost' \subseteq Inputs \cup {"decision"} /\ faults' \in Nat
    <3>1. faults' = faults + 1 /\ faults \in Nat /\ lost \subseteq Inputs \cup {"decision"}
      BY <1>1 DEF TypeOK, CutWorkflow
    <3> QED BY <1>3, <3>1
  <2> QED BY <1>1, <1>2, <2>1 DEF TypeOK, CutWorkflow, Counters, wfHistory
<1> QED BY <1>2, <1>3, <1>4, <1>5, FileStep

-----------------------------------------------------------------------------
(* Executions                                                              *)

LEMMA FileKept ==
  ASSUME FileOk, manifest' = manifest, lost' = lost, verdict' = verdict
  PROVE  FileOk'
BY DEF FileOk

LEMMA OneSlot ==
  ASSUME RecordsInv, NEW e \in Slots
  PROVE  /\ slot[e] \in Thread /\ slot[e].view \in Manifest /\ SlotOk(e)
         /\ slot[e].memory \in StepStates /\ slot[e].todo \subseteq Steps
         /\ manifest \in Manifest /\ Backed(manifest) /\ TypeOK /\ FileOk
<1>1. slot[e] \in Thread /\ manifest \in Manifest /\ TypeOK
  BY DEF RecordsInv, TypeOK
<1>2. slot[e].view \in Manifest /\ slot[e].memory \in StepStates /\ slot[e].todo \subseteq Steps
  BY <1>1 DEF Thread
<1>3. SlotOk(e) /\ Backed(manifest) /\ FileOk
  BY ByParts DEF FileOk
<1> QED BY <1>1, <1>2, <1>3

LEMMA IdleFields == Idle.at = "idle" /\ Idle.kind = ""
BY DEF Idle

\* A thread with another value of a field.
WithKind(t, v) == [t EXCEPT !.kind = v]
WithAt(t, v) == [t EXCEPT !.at = v]
WithView(t, v) == [t EXCEPT !.view = v]
WithMemory(t, v) == [t EXCEPT !.memory = v]
WithTodo(t, v) == [t EXCEPT !.todo = v]
WithForce(t, v) == [t EXCEPT !.force = v]
WithCancelled(t, v) == [t EXCEPT !.cancelled = v]

LEMMA KindField ==
  ASSUME NEW t \in Thread, NEW v \in Kinds \cup {"", "baseline_audit"}
  PROVE  /\ WithKind(t, v) \in Thread /\ WithKind(t, v).kind = v
         /\ WithKind(t, v).at = t.at
         /\ WithKind(t, v).view = t.view
         /\ WithKind(t, v).memory = t.memory
         /\ WithKind(t, v).todo = t.todo
         /\ WithKind(t, v).force = t.force
BY DEF Thread, WithKind

LEMMA AtField ==
  ASSUME NEW t \in Thread, NEW v \in {"idle", "claimed", "executing", "stepping", "step"}
  PROVE  /\ WithAt(t, v) \in Thread /\ WithAt(t, v).at = v
         /\ WithAt(t, v).kind = t.kind
         /\ WithAt(t, v).view = t.view
         /\ WithAt(t, v).memory = t.memory
         /\ WithAt(t, v).todo = t.todo
         /\ WithAt(t, v).force = t.force
BY DEF Thread, WithAt

LEMMA ViewField ==
  ASSUME NEW t \in Thread, NEW v \in Manifest
  PROVE  /\ WithView(t, v) \in Thread /\ WithView(t, v).view = v
         /\ WithView(t, v).kind = t.kind
         /\ WithView(t, v).at = t.at
         /\ WithView(t, v).memory = t.memory
         /\ WithView(t, v).todo = t.todo
         /\ WithView(t, v).force = t.force
BY DEF Thread, WithView

LEMMA MemoryField ==
  ASSUME NEW t \in Thread, NEW v \in StepStates
  PROVE  /\ WithMemory(t, v) \in Thread /\ WithMemory(t, v).memory = v
         /\ WithMemory(t, v).kind = t.kind
         /\ WithMemory(t, v).at = t.at
         /\ WithMemory(t, v).view = t.view
         /\ WithMemory(t, v).todo = t.todo
         /\ WithMemory(t, v).force = t.force
BY DEF Thread, WithMemory

LEMMA TodoField ==
  ASSUME NEW t \in Thread, NEW v \in SUBSET Steps
  PROVE  /\ WithTodo(t, v) \in Thread /\ WithTodo(t, v).todo = v
         /\ WithTodo(t, v).kind = t.kind
         /\ WithTodo(t, v).at = t.at
         /\ WithTodo(t, v).view = t.view
         /\ WithTodo(t, v).memory = t.memory
         /\ WithTodo(t, v).force = t.force
BY DEF Thread, WithTodo

LEMMA ForceField ==
  ASSUME NEW t \in Thread, NEW v \in BOOLEAN
  PROVE  /\ WithForce(t, v) \in Thread /\ WithForce(t, v).force = v
         /\ WithForce(t, v).kind = t.kind
         /\ WithForce(t, v).at = t.at
         /\ WithForce(t, v).view = t.view
         /\ WithForce(t, v).memory = t.memory
         /\ WithForce(t, v).todo = t.todo
BY DEF Thread, WithForce

LEMMA CancelledField ==
  ASSUME NEW t \in Thread, NEW v \in BOOLEAN
  PROVE  /\ WithCancelled(t, v) \in Thread
         /\ WithCancelled(t, v).kind = t.kind
         /\ WithCancelled(t, v).at = t.at
         /\ WithCancelled(t, v).view = t.view
         /\ WithCancelled(t, v).memory = t.memory
         /\ WithCancelled(t, v).todo = t.todo
         /\ WithCancelled(t, v).force = t.force
BY DEF Thread, WithCancelled

\* A thread that is done.
LEMMA LeaveStep ==
  ASSUME RecordsInv, SbasAssumption, NEW e \in Slots, slot' = [slot EXCEPT ![e] = Idle],
         TypeOK', FileOk', crashed \subseteq crashed', lost \subseteq lost',
         \A k \in Kinds : manifest'.status = <<k, "RUNNING">> =>
            k \in crashed' \/ (manifest.status = <<k, "RUNNING">> /\ ~Runs(e, k))
  PROVE  RecordsInv'
<1>1. slot'[e] = Idle /\ \A d \in Slots \ {e} : slot'[d] = slot[d]
  BY SlotStep, IdleThread DEF RecordsInv
<1>2. slot'[e].at = "idle" /\ slot'[e].kind = ""
  BY <1>1, IdleFields
<1>3. SlotOk(e)'
  BY <1>2 DEF SlotOk, Placed, Stages, Inputs
<1> QED BY <1>1, <1>3, ThreadStep

LEMMA ClaimStep ==
  ASSUME RecordsInv, SbasAssumption, NEW e \in Slots, NEW o \in queue, Claim(e, o)
  PROVE  RecordsInv'
<1> DEFINE x == [Idle EXCEPT !.kind = o.kind, !.at = "claimed", !.todo = o.todo,
                             !.force = o.force]
<1>1. TypeOK /\ FileOk /\ Placed(e) /\ o \in Order
  BY OneSlot DEF SlotOk, TypeOK
<1>2. o.kind \in Kinds /\ o.todo \in SUBSET Steps /\ o.force \in BOOLEAN
  BY <1>1 DEF Order
<1>3. x = WithForce(WithTodo(WithAt(WithKind(Idle, o.kind), "claimed"), o.todo), o.force)
  BY DEF WithKind, WithAt, WithTodo, WithForce
<1>4. x \in Thread /\ x.kind \in Kinds /\ x.at = "claimed"
  <2>1. Idle \in Thread BY IdleThread
  <2> DEFINE w == WithKind(Idle, o.kind)
             y == WithAt(w, "claimed")
  <2>a. w \in Thread /\ w.kind = o.kind
    BY <1>2, <2>1, KindField
  <2> HIDE DEF w
  <2>2. y \in Thread /\ y.kind = o.kind /\ y.at = "claimed"
    BY <2>a, AtField
  <2> HIDE DEF y
  <2>3. WithTodo(y, o.todo) \in Thread /\ WithTodo(y, o.todo).kind = o.kind
        /\ WithTodo(y, o.todo).at = "claimed"
    BY <1>2, <2>2, TodoField
  <2> DEFINE z == WithTodo(y, o.todo)
  <2>4. x = WithForce(z, o.force)
    BY <1>3 DEF y, w
  <2> HIDE DEF x, z
  <2>5. x \in Thread /\ x.kind = o.kind /\ x.at = "claimed"
    BY <1>2, <2>3, <2>4, ForceField DEF z
  <2> QED BY <1>2, <2>5
<1>5. slot' = [slot EXCEPT ![e] = x]
  BY DEF Claim
<1> HIDE DEF x
<1>6. /\ slot' \in [Slots -> Thread] /\ slot'[e] = x
      /\ \A d \in Slots \ {e} : slot'[d] = slot[d]
  BY <1>1, <1>4, <1>5, SlotStep
<1>7. TypeOK'
  <2>1. queue' \subseteq Order BY <1>1 DEF Claim, TypeOK
  <2> QED BY <1>1, <1>6, <2>1 DEF Claim, TypeOK, Files, bounds, wfHistory
<1>8. FileOk'
  BY <1>1, FileKept DEF Claim, Files
<1>9. SlotOk(e)'
  <2>1. "baseline_audit" \notin Kinds /\ "" \notin Kinds BY DEF Kinds, Stages, Inputs
  <2> QED BY <1>4, <1>6, <2>1 DEF SlotOk, Placed
<1>10. manifest' = manifest /\ crashed' = crashed /\ lost' = lost
  BY DEF Claim, Files
<1>11. \A k \in Kinds : ~Runs(e, k)
  <2>1. slot[e].kind = "" BY <1>1 DEF Claim, Placed
  <2> QED BY <2>1 DEF Runs, Kinds, Stages, Inputs
<1> QED BY <1>6, <1>7, <1>8, <1>9, <1>10, <1>11, ThreadStep

LEMMA BeginThread ==
  ASSUME NEW t \in Thread, NEW m \in Manifest
  PROVE  LET x == [t EXCEPT !.at = "executing", !.view = m] IN
         x \in Thread /\ x.kind = t.kind /\ x.at = "executing" /\ x.view = m
<1> DEFINE y == WithAt(t, "executing")
<1>1. y \in Thread /\ y.kind = t.kind /\ y.at = "executing"
  BY AtField
<1>2. [t EXCEPT !.at = "executing", !.view = m] = WithView(y, m)
  BY DEF WithAt, WithView
<1> HIDE DEF y
<1>3. WithView(y, m) \in Thread /\ WithView(y, m).kind = t.kind
      /\ WithView(y, m).at = "executing" /\ WithView(y, m).view = m
  BY <1>1, ViewField
<1> QED BY <1>2, <1>3

LEMMA BeginOk ==
  ASSUME RecordsInv, NEW e \in Slots, Begin(e) PROVE RecordsInv'
<1> DEFINE s == slot[e].kind
           m == Started(s, Opened(s, manifest))
           x == [slot[e] EXCEPT !.at = "executing", !.view = m]
<1>1. /\ TypeOK /\ FileOk /\ SlotOk(e) /\ slot[e] \in Thread /\ manifest \in Manifest
      /\ Backed(manifest)
  BY OneSlot
<1>2. s \in Stages /\ MayExecute(s, manifest)
  BY DEF Begin
<1>3. /\ m \in Manifest /\ m.audit = manifest.audit /\ m.status = <<s, "RUNNING">>
      /\ Backed(m)
  BY <1>1, <1>2, StartedManifest
<1>4. x \in Thread /\ x.kind = s /\ x.at = "executing" /\ x.view = m
  BY <1>1, <1>3, BeginThread
<1>5. slot' = [slot EXCEPT ![e] = x] /\ manifest' = m
  BY DEF Begin
<1> HIDE DEF m, x
<1>6. /\ slot' \in [Slots -> Thread] /\ slot'[e] = x
      /\ \A d \in Slots \ {e} : slot'[d] = slot[d]
  BY <1>1, <1>4, <1>5, SlotStep
<1>7. TypeOK'
  BY <1>1, <1>3, <1>5, <1>6 DEF Begin, TypeOK, bounds, wfHistory
<1>8. "decision" \notin lost => manifest.audit.decision # "reject" /\ verdict # "reject"
  BY <1>2, NotRejected
<1>9. lost' = lost /\ verdict' = verdict /\ crashed' = crashed
  BY DEF Begin
<1>10. FileOk'
  BY <1>3, <1>5, <1>8, <1>9 DEF FileOk
<1>11. SlotOk(e)'
  <2>1. s \notin {"workflow", "baseline_audit", ""} BY <1>2 DEF Stages, Inputs
  <2> QED BY <1>2, <1>3, <1>4, <1>6, <1>8, <1>9, <2>1 DEF SlotOk, Placed
<1>12. ASSUME NEW k \in Kinds, manifest'.status = <<k, "RUNNING">> PROVE Runs(e, k)'
  <2>1. k = s BY <1>3, <1>5, <1>12, Pair
  <2> QED BY <1>4, <1>6, <2>1 DEF Runs
<1> QED BY <1>6, <1>7, <1>9, <1>10, <1>11, <1>12, ThreadStep

LEMMA DismissStep ==
  ASSUME RecordsInv, SbasAssumption, NEW e \in Slots, Dismiss(e) PROVE RecordsInv'
<1>1. TypeOK /\ FileOk BY OneSlot
<1>2. slot' = [slot EXCEPT ![e] = Idle] /\ manifest' = manifest /\ crashed' = crashed
      /\ lost' = lost /\ verdict' = verdict
  BY DEF Dismiss, Files
<1>3. TypeOK'
  <2>1. slot' \in [Slots -> Thread] BY <1>1, <1>2, SlotStep, IdleThread
  <2> QED BY <1>1, <2>1 DEF Dismiss, TypeOK, Files, bounds, wfHistory
<1>4. \A k \in Kinds : ~Runs(e, k)
  BY DEF Dismiss, Runs
<1> QED BY <1>1, <1>2, <1>3, <1>4, FileKept, LeaveStep

LEMMA EndOk ==
  ASSUME RecordsInv, SbasAssumption, NEW e \in Slots, NEW outcome \in Outcomes, End(e, outcome)
  PROVE  RecordsInv'
<1> DEFINE s == slot[e].kind
           m == Ended(s, slot[e].view, outcome)
<1>1. TypeOK /\ FileOk /\ SlotOk(e) /\ slot[e].view \in Manifest
  BY OneSlot
<1>2. s \in Stages /\ slot[e].at = "executing" /\ manifest' = m
      /\ slot' = [slot EXCEPT ![e] = Idle]
      /\ lost' = lost \cup (Overwritten(e) \ {s})
      /\ verdict' = verdict /\ crashed' = crashed
  BY DEF End
<1>3. /\ m \in Manifest /\ m.audit = slot[e].view.audit /\ Backed(m)
      /\ \A k \in Kinds : m.status # <<k, "RUNNING">>
      /\ m.stage[s].ready \in {"yes", "no"}
  BY <1>1, <1>2, EndedManifest
<1>4. disk' = [disk EXCEPT
        !.ready = [disk.ready EXCEPT ![s] = m.stage[s].ready],
        !.common = IF s = "coregistration" /\ outcome # "bad" THEN disk.approved ELSE disk.common]
  BY DEF End
<1> HIDE DEF m
<1>5. TypeOK'
  <2>1. slot' \in [Slots -> Thread] BY <1>1, <1>2, SlotStep, IdleThread
  <2>2. disk' \in Disk
    <3>1. disk \in Disk BY <1>1 DEF TypeOK
    <3>2. [disk.ready EXCEPT ![s] = m.stage[s].ready] \in [Stages -> {"", "yes", "no"}]
      BY <1>3, <3>1 DEF Disk
    <3> DEFINE ready == [disk.ready EXCEPT ![s] = m.stage[s].ready]
               common == IF s = "coregistration" /\ outcome # "bad" THEN disk.approved
                         ELSE disk.common
    <3>3. common \in Nat BY <3>1 DEF Disk
    <3>4. disk' = [disk EXCEPT !.ready = ready, !.common = common] BY <1>4
    <3> HIDE DEF ready, common
    <3> QED BY <3>1, <3>2, <3>3, <3>4 DEF Disk, ready
  <2>3. lost' \subseteq Inputs \cup {"decision"}
    <3>1. Overwritten(e) \subseteq Inputs \cup {"decision"} BY DEF Overwritten
    <3>2. lost \subseteq Inputs \cup {"decision"} BY <1>1 DEF TypeOK
    <3> QED BY <1>2, <3>1, <3>2
  <2> QED BY <1>1, <1>2, <1>3, <2>1, <2>2, <2>3 DEF End, TypeOK, bounds, wfHistory
<1>6. FileOk'
  <2> SUFFICES ASSUME "decision" \notin lost'
               PROVE  /\ verdict' = "reject" => manifest'.audit.decision = "reject"
                      /\ manifest'.audit.decision = "reject" => manifest'.status \in Withheld
      BY <1>2, <1>3 DEF FileOk
  <2>1. "decision" \notin lost
    BY <1>2
  <2>2. slot[e].view.audit.decision # "reject"
    BY <1>1, <1>2, <2>1 DEF SlotOk
  <2>3. slot[e].view.audit.decision = manifest.audit.decision
    <3>1. s # "decision" BY <1>2 DEF Stages, Inputs
    <3> QED BY <1>2, <3>1 DEF Overwritten
  <2>4. verdict # "reject"
    BY <1>1, <2>1, <2>2, <2>3 DEF FileOk
  <2> QED BY <1>2, <1>3, <2>2, <2>4
<1>7. \A k \in Kinds : manifest'.status # <<k, "RUNNING">>
  BY <1>2, <1>3
<1> QED BY <1>2, <1>5, <1>6, <1>7, LeaveStep

LEMMA BeginAuditStep ==
  ASSUME RecordsInv, SbasAssumption, NEW e \in Slots, BeginAudit(e) PROVE RecordsInv'
<1> DEFINE w == WithKind(Idle, "baseline_audit")
           y == WithAt(w, "executing")
           x == WithView(y, manifest)
<1>1. /\ TypeOK /\ FileOk /\ Placed(e) /\ manifest \in Manifest /\ Backed(manifest)
  BY OneSlot DEF SlotOk
<1>2. slot' = [slot EXCEPT ![e] = x]
  BY DEF BeginAudit, WithKind, WithAt, WithView
<1>3. w \in Thread /\ w.kind = "baseline_audit"
  BY IdleThread, KindField
<1> HIDE DEF w
<1>4. y \in Thread /\ y.kind = "baseline_audit" /\ y.at = "executing"
  BY <1>3, AtField
<1> HIDE DEF y
<1>5. x \in Thread /\ x.kind = "baseline_audit" /\ x.at = "executing" /\ x.view = manifest
  BY <1>1, <1>4, ViewField
<1> HIDE DEF x
<1>6. /\ slot' \in [Slots -> Thread] /\ slot'[e] = x
      /\ \A d \in Slots \ {e} : slot'[d] = slot[d]
  BY <1>1, <1>2, <1>5, SlotStep
<1>7. TypeOK'
  <2>1. audits' \in Nat
    <3>1. audits' = audits + 1 /\ audits \in Nat BY <1>1 DEF BeginAudit, TypeOK
    <3> QED BY <3>1
  <2> QED BY <1>1, <1>6, <2>1 DEF BeginAudit, TypeOK, Files, wfHistory
<1>8. manifest' = manifest /\ lost' = lost /\ verdict' = verdict /\ crashed' = crashed
  BY DEF BeginAudit, Files
<1>9. SlotOk(e)'
  BY <1>1, <1>5, <1>6 DEF SlotOk, Placed, Stages, Inputs
<1>10. \A k \in Kinds : ~Runs(e, k)
  <2>1. slot[e].kind = "" BY <1>1 DEF BeginAudit, Placed
  <2> QED BY <2>1 DEF Runs, Kinds, Stages, Inputs
<1> QED BY <1>1, <1>6, <1>7, <1>8, <1>9, <1>10, FileKept, ThreadStep

LEMMA EndAuditStep ==
  ASSUME RecordsInv, SbasAssumption, NEW e \in Slots, NEW good \in BOOLEAN, EndAudit(e, good)
  PROVE  RecordsInv'
<1> DEFINE a == [script |-> TRUE, summary |-> TRUE, decision |-> ""]
           st == <<"baseline_audit", IF good THEN "READY" ELSE "FAILED">>
<1>1. TypeOK /\ slot[e].view \in Manifest
  BY OneSlot
<1>2. a \in Audit /\ a.decision = ""
  BY DEF Audit
<1>3. st \in Silent /\ st \in Statuses /\ \A k \in Kinds : st # <<k, "RUNNING">>
  BY SilentStatuses DEF Silent
<1>4. manifest' = Audited(slot[e].view, a, st)
  BY DEF EndAudit, Audited
<1> HIDE DEF a, st
<1>5. manifest' \in Manifest /\ manifest'.status = st /\ manifest'.audit = a
  BY <1>1, <1>2, <1>3, <1>4, AuditedManifest, ZenonT(40)
<1>6. /\ slot' = [slot EXCEPT ![e] = Idle] /\ lost' = lost \cup Overwritten(e)
      /\ verdict' = "" /\ crashed' = crashed
  BY DEF EndAudit
<1>7. TypeOK'
  <2>1. slot' \in [Slots -> Thread] BY <1>1, <1>6, SlotStep, IdleThread
  <2>2. disk' \in Disk
    <3>1. disk \in Disk BY <1>1 DEF TypeOK
    <3>2. disk.adjacent + 1 \in Nat
      <4>1. disk.adjacent \in Nat BY <3>1 DEF Disk
      <4> QED BY <4>1
    <3>3. disk' = disk \/ disk' = [disk EXCEPT !.adjacent = disk.adjacent + 1, !.summary = TRUE]
      BY DEF EndAudit
    <3> QED BY <3>1, <3>2, <3>3 DEF Disk
  <2>3. lost' \subseteq Inputs \cup {"decision"}
    <3>1. Overwritten(e) \subseteq Inputs \cup {"decision"} BY DEF Overwritten
    <3>2. lost \subseteq Inputs \cup {"decision"} BY <1>1 DEF TypeOK
    <3> QED BY <1>6, <3>1, <3>2
  <2> QED BY <1>1, <1>5, <2>1, <2>2, <2>3 DEF EndAudit, TypeOK, bounds, wfHistory
<1>8. FileOk'
  <2>1. Backed(manifest') BY <1>3, <1>5, SilentFits, BackedFits
  <2> QED BY <1>2, <1>5, <1>6, <2>1 DEF FileOk
<1> QED BY <1>3, <1>5, <1>6, <1>7, <1>8, LeaveStep

LEMMA AuditTimeoutStep ==
  ASSUME RecordsInv, SbasAssumption, NEW e \in Slots, AuditTimeout(e) PROVE RecordsInv'
<1>1. TypeOK /\ FileOk BY OneSlot
<1>2. slot' = [slot EXCEPT ![e] = Idle] /\ manifest' = manifest /\ crashed' = crashed
      /\ lost' = lost /\ verdict' = verdict
  BY DEF AuditTimeout, Files
<1>3. TypeOK'
  <2>1. slot' \in [Slots -> Thread] BY <1>1, <1>2, SlotStep, IdleThread
  <2> QED BY <1>1, <2>1 DEF AuditTimeout, TypeOK, Files, bounds, wfHistory
<1>4. \A k \in Kinds : ~Runs(e, k)
  BY DEF AuditTimeout, Runs, Kinds, Stages, Inputs
<1> QED BY <1>1, <1>2, <1>3, <1>4, FileKept, LeaveStep

-----------------------------------------------------------------------------
(* The expert workflow and the faults                                      *)

LEMMA BeginWorkflowStep ==
  ASSUME RecordsInv, SbasAssumption, NEW e \in Slots, BeginWorkflow(e) PROVE RecordsInv'
<1> DEFINE st == <<"workflow", "RUNNING">>
           y == WithAt(slot[e], "stepping")
           x == WithMemory(y, steps)
<1>1. /\ TypeOK /\ FileOk /\ slot[e] \in Thread /\ manifest \in Manifest
      /\ steps \in StepStates /\ slot[e].kind = "workflow"
  BY OneSlot DEF TypeOK, BeginWorkflow
<1>2. slot' = [slot EXCEPT ![e] = x] /\ manifest' = Marked(manifest, st)
  BY DEF BeginWorkflow, WithAt, WithMemory, Marked
<1>3. y \in Thread /\ y.kind = "workflow" /\ y.at = "stepping"
  BY <1>1, AtField
<1> HIDE DEF y
<1>4. x \in Thread /\ x.kind = "workflow" /\ x.at = "stepping"
  BY <1>1, <1>3, MemoryField
<1> HIDE DEF x
<1>5. /\ slot' \in [Slots -> Thread] /\ slot'[e] = x
      /\ \A d \in Slots \ {e} : slot'[d] = slot[d]
  BY <1>1, <1>2, <1>4, SlotStep
<1>6. st \in Silent /\ st \in Statuses /\ st \in Withheld
  BY SilentStatuses DEF Silent
<1>7. manifest' \in Manifest /\ manifest'.status = st /\ manifest'.audit = manifest.audit
  BY <1>1, <1>2, <1>6, MarkedManifest
<1>8. lost' = lost /\ verdict' = verdict /\ crashed' = crashed
  BY DEF BeginWorkflow
<1>9. TypeOK'
  <2>1. leapt' \in BOOLEAN BY DEF BeginWorkflow
  <2> QED BY <1>1, <1>5, <1>7, <2>1 DEF BeginWorkflow, TypeOK, bounds
<1>10. FileOk'
  <2>1. Backed(manifest') BY <1>6, <1>7, SilentFits, BackedFits
  <2> QED BY <1>1, <1>6, <1>7, <1>8, <2>1 DEF FileOk
<1>11. SlotOk(e)'
  BY <1>4, <1>5 DEF SlotOk, Placed, Stages, Inputs
<1>12. ASSUME NEW k \in Kinds, manifest'.status = <<k, "RUNNING">> PROVE Runs(e, k)'
  <2>1. k = "workflow" BY <1>7, <1>12, Pair
  <2> QED BY <1>4, <1>5, <2>1 DEF Runs
<1> QED BY <1>5, <1>8, <1>9, <1>10, <1>11, <1>12, ThreadStep

\* A step of a workflow: its thread stays at work on the steps asked for.
LEMMA WorkStep ==
  ASSUME RecordsInv, NEW e \in Slots, slot[e].at \in {"stepping", "step"},
         NEW x \in Thread, slot' = [slot EXCEPT ![e] = x], x.kind = slot[e].kind,
         \/ x.at = "stepping"
         \/ x.at = "step" /\ x.todo # {},
         TypeOK', manifest' = manifest, lost' = lost, verdict' = verdict, crashed' = crashed
  PROVE  RecordsInv'
<1>1. TypeOK /\ FileOk /\ Placed(e)
  BY OneSlot DEF SlotOk
<1>2. slot'[e] = x /\ \A d \in Slots \ {e} : slot'[d] = slot[d]
  BY <1>1, SlotStep
<1>3. x.kind \notin Stages /\ x.kind \notin {"baseline_audit", ""}
  BY <1>1 DEF Placed
<1>4. SlotOk(e)'
  BY <1>2, <1>3 DEF SlotOk, Placed
<1>5. \A k \in Kinds : Runs(e, k) => Runs(e, k)'
  BY <1>2 DEF Runs
<1> QED BY <1>1, <1>2, <1>4, <1>5, FileKept, ThreadStep

LEMMA RememberingType ==
  ASSUME RecordsInv, NEW e \in Slots, NEW state \in {"PENDING", "RUNNING", "COMPLETED", "FAILED"}
  PROVE  Remembering(e, state) \in StepStates
<1>1. slot[e].memory \in StepStates
  BY OneSlot
<1> QED BY <1>1 DEF Remembering, StepStates

LEMMA BeginStepOk ==
  ASSUME RecordsInv, NEW e \in Slots, BeginStep(e) PROVE RecordsInv'
<1>1. /\ TypeOK /\ slot[e] \in Thread /\ slot[e].todo \in SUBSET Steps
      /\ slot[e].at = "stepping" /\ slot[e].todo # {}
  BY OneSlot DEF BeginStep
<1>2. /\ manifest' = manifest /\ lost' = lost /\ verdict' = verdict /\ crashed' = crashed
      /\ disk' = disk /\ queue' = queue /\ UNCHANGED bounds /\ UNCHANGED wfHistory
  BY DEF BeginStep
<1>3. CASE slot' = [slot EXCEPT ![e] = WithTodo(slot[e], slot[e].todo \ {Coming(e)})]
           /\ steps' = steps
  <2> DEFINE x == WithTodo(slot[e], slot[e].todo \ {Coming(e)})
  <2>1. slot[e].todo \ {Coming(e)} \in SUBSET Steps
    BY <1>1
  <2>2. x \in Thread /\ x.kind = slot[e].kind /\ x.at = "stepping"
    BY <1>1, <2>1, TodoField
  <2> HIDE DEF x
  <2>3. slot' = [slot EXCEPT ![e] = x]
    BY <1>3 DEF x
  <2>4. TypeOK'
    <3>1. slot' \in [Slots -> Thread] BY <1>1, <2>2, <2>3, SlotStep
    <3> QED BY <1>1, <1>2, <1>3, <3>1 DEF TypeOK, bounds, wfHistory
  <2> QED BY <1>1, <1>2, <2>2, <2>3, <2>4, WorkStep
<1>4. CASE /\ slot' = [slot EXCEPT ![e] =
                          WithMemory(WithAt(slot[e], "step"), Remembering(e, "RUNNING"))]
           /\ steps' = Remembering(e, "RUNNING")
  <2> DEFINE y == WithAt(slot[e], "step")
             x == WithMemory(y, Remembering(e, "RUNNING"))
  <2>1. Remembering(e, "RUNNING") \in StepStates
    BY RememberingType
  <2>2. y \in Thread /\ y.kind = slot[e].kind /\ y.at = "step" /\ y.todo = slot[e].todo
    BY <1>1, AtField
  <2> HIDE DEF y
  <2>3. x \in Thread /\ x.kind = slot[e].kind /\ x.at = "step" /\ x.todo # {}
    BY <1>1, <2>1, <2>2, MemoryField
  <2> HIDE DEF x
  <2>4. slot' = [slot EXCEPT ![e] = x]
    BY <1>4 DEF x, y
  <2>5. TypeOK'
    <3>1. slot' \in [Slots -> Thread] BY <1>1, <2>3, <2>4, SlotStep
    <3> QED BY <1>1, <1>2, <1>4, <2>1, <3>1 DEF TypeOK, bounds, wfHistory
  <2> QED BY <1>1, <1>2, <2>3, <2>4, <2>5, WorkStep
<1> QED BY <1>3, <1>4 DEF BeginStep, WithTodo, WithAt, WithMemory

LEMMA EndStepOk ==
  ASSUME RecordsInv, SbasAssumption, NEW e \in Slots, NEW good \in BOOLEAN, EndStep(e, good)
  PROVE  RecordsInv'
<1> DEFINE state == IF good THEN "COMPLETED" ELSE "FAILED"
           todo == IF good THEN slot[e].todo \ {Coming(e)} ELSE {}
           z == WithAt(slot[e], "stepping")
           y == WithMemory(z, Remembering(e, state))
           x == WithTodo(y, todo)
<1>1. /\ TypeOK /\ slot[e] \in Thread /\ slot[e].todo \subseteq Steps
      /\ slot[e].at = "step" /\ Placed(e)
  BY OneSlot DEF EndStep, SlotOk
<1>2. /\ manifest' = manifest /\ lost' = lost /\ verdict' = verdict /\ crashed' = crashed
      /\ disk' = disk /\ queue' = queue /\ UNCHANGED bounds
      /\ overlapped' = overlapped /\ leapt' = leapt
  BY DEF EndStep
<1>3. slot' = [slot EXCEPT ![e] = x] /\ steps' = Remembering(e, state)
  BY DEF EndStep, WithAt, WithMemory, WithTodo
<1>4. Remembering(e, state) \in StepStates /\ todo \in SUBSET Steps
  <2>1. state \in {"PENDING", "RUNNING", "COMPLETED", "FAILED"} OBVIOUS
  <2> HIDE DEF state
  <2> QED BY <1>1, <2>1, RememberingType
<1> HIDE DEF state, todo
<1>5. z \in Thread /\ z.kind = slot[e].kind /\ z.at = "stepping"
  BY <1>1, AtField
<1> HIDE DEF z
<1>6. y \in Thread /\ y.kind = slot[e].kind /\ y.at = "stepping"
  BY <1>4, <1>5, MemoryField
<1> HIDE DEF y
<1>7. x \in Thread /\ x.kind = slot[e].kind /\ x.at = "stepping"
  BY <1>4, <1>6, TodoField
<1> HIDE DEF x
<1>8. fresh' \subseteq Steps
  <2>1. Coming(e) \in Steps
    BY <1>1, ComingIsAsked DEF Placed
  <2>2. fresh \subseteq Steps
    BY <1>1 DEF TypeOK
  <2>3. \/ fresh' = {h \in fresh : h < Coming(e)} \cup {Coming(e)}
        \/ fresh' = {h \in fresh : h < Coming(e)}
    BY DEF EndStep
  <2> QED BY <2>1, <2>2, <2>3
<1>9. TypeOK'
  <2>1. slot' \in [Slots -> Thread] BY <1>1, <1>3, <1>7, SlotStep
  <2> QED BY <1>1, <1>2, <1>3, <1>4, <1>8, <2>1 DEF TypeOK, bounds
<1> QED BY <1>1, <1>2, <1>3, <1>7, <1>9, WorkStep

LEMMA EndWorkflowStep ==
  ASSUME RecordsInv, SbasAssumption, NEW e \in Slots, NEW audited \in BOOLEAN,
         EndWorkflow(e, audited)
  PROVE  RecordsInv'
<1> DEFINE st == <<"workflow", Summarized(audited)>>
<1>1. TypeOK /\ FileOk /\ manifest \in Manifest
  BY OneSlot
<1>2. Summarized(audited) \in {"FAILED", "COMPLETED", "PARTIAL"}
  BY DEF Summarized
<1>3. st \in Silent /\ st \in Statuses /\ st \in Withheld
      /\ \A k \in Kinds : st # <<k, "RUNNING">>
  BY <1>2, SilentStatuses DEF Silent
<1>4. manifest' = Marked(manifest, st)
  BY DEF EndWorkflow, Marked
<1> HIDE DEF st
<1>5. manifest' \in Manifest /\ manifest'.status = st /\ manifest'.audit = manifest.audit
  BY <1>1, <1>3, <1>4, MarkedManifest
<1>6. slot' = [slot EXCEPT ![e] = Idle] /\ crashed' = crashed
      /\ lost' = lost /\ verdict' = verdict
  BY DEF EndWorkflow
<1>7. TypeOK'
  <2>1. slot' \in [Slots -> Thread] BY <1>1, <1>6, SlotStep, IdleThread
  <2> QED BY <1>1, <1>5, <2>1 DEF EndWorkflow, TypeOK, bounds, wfHistory
<1>8. FileOk'
  <2>1. Backed(manifest') BY <1>3, <1>5, SilentFits, BackedFits
  <2> QED BY <1>1, <1>3, <1>5, <1>6, <2>1 DEF FileOk
<1> QED BY <1>3, <1>5, <1>6, <1>7, <1>8, LeaveStep

LEMMA CancelStep ==
  ASSUME RecordsInv, NEW e \in Slots, Cancel(e) PROVE RecordsInv'
<1> DEFINE x == WithCancelled(slot[e], TRUE)
<1>1. TypeOK /\ FileOk /\ slot[e] \in Thread /\ SlotOk(e)
  BY OneSlot
<1>2. x \in Thread /\ x.kind = slot[e].kind /\ x.at = slot[e].at
      /\ x.view = slot[e].view /\ x.todo = slot[e].todo
  BY <1>1, CancelledField
<1>3. slot' = [slot EXCEPT ![e] = x]
  BY <1>1 DEF Cancel, WithCancelled, TypeOK
<1> HIDE DEF x
<1>4. /\ slot' \in [Slots -> Thread] /\ slot'[e] = x
      /\ \A d \in Slots \ {e} : slot'[d] = slot[d]
  BY <1>1, <1>2, <1>3, SlotStep
<1>5. /\ manifest' = manifest /\ lost' = lost /\ verdict' = verdict /\ crashed' = crashed
  BY DEF Cancel, Files
<1>6. TypeOK'
  <2>1. faults' \in Nat
    <3>1. faults' = faults + 1 /\ faults \in Nat BY <1>1 DEF Cancel, TypeOK
    <3> QED BY <3>1
  <2> QED BY <1>1, <1>4, <2>1 DEF Cancel, TypeOK, Files, Counters, wfHistory
<1>7. SlotOk(e)'
  BY <1>1, <1>2, <1>4, <1>5 DEF SlotOk, Placed
<1>8. \A k \in Kinds : Runs(e, k) => Runs(e, k)'
  BY <1>2, <1>4 DEF Runs
<1> QED BY <1>1, <1>4, <1>5, <1>6, <1>7, <1>8, FileKept, ThreadStep

LEMMA CrashStep ==
  ASSUME RecordsInv, SbasAssumption, NEW e \in Slots, Crash(e) PROVE RecordsInv'
<1>1. TypeOK /\ FileOk BY OneSlot
<1>2. /\ slot' = [slot EXCEPT ![e] = Idle] /\ manifest' = manifest
      /\ crashed' = crashed \cup ({slot[e].kind} \cap Kinds)
      /\ lost' = lost /\ verdict' = verdict
  BY DEF Crash, Files
<1>3. TypeOK'
  <2>1. slot' \in [Slots -> Thread] BY <1>1, <1>2, SlotStep, IdleThread
  <2>2. faults' \in Nat
    <3>1. faults' = faults + 1 /\ faults \in Nat BY <1>1 DEF Crash, TypeOK
    <3> QED BY <3>1
  <2> QED BY <1>1, <1>2, <2>1, <2>2 DEF Crash, TypeOK, Files, Counters, wfHistory
<1>4. \A k \in Kinds : Runs(e, k) => k \in crashed'
  BY <1>2 DEF Runs
<1> QED BY <1>1, <1>2, <1>3, <1>4, FileKept, LeaveStep

-----------------------------------------------------------------------------
(* The first part of the invariant                                         *)

LEMMA RecordsInit == ASSUME SbasAssumption, Init PROVE RecordsInv
<1>1. slot \in [Slots -> Thread] /\ \A e \in Slots : slot[e] = Idle
  BY IdleThread DEF Init
<1>2. TypeOK
  <2>1. disk \in Disk BY DEF Init, Disk
  <2> QED BY <1>1, <2>1, IdleThread DEF Init, TypeOK
<1>3. manifest.status = <<"workflow", "READY">> /\ manifest.audit.decision = ""
      /\ Backed(manifest)
  BY IdleThread DEF Init, NewManifest
<1>4. FileOk BY <1>3 DEF FileOk, Init
<1>5. RunningHasRunner BY <1>3, Pair, ZenonT(40) DEF RunningHasRunner
<1>6. \A e \in Slots : SlotOk(e)
  BY <1>1, IdleFields DEF SlotOk, Placed, Stages, Inputs
<1> QED BY <1>2, <1>4, <1>5, <1>6, ByParts

LEMMA RecordsNext == ASSUME SbasAssumption, RecordsInv, [Next]_vars PROVE RecordsInv'
<1>1. CASE Review
  BY <1>1, PlanAuditStep, DecideStep DEF Review
<1>2. CASE Request
  BY <1>2, PrepareStep, SubmitStageStep, BindWorkflowStep, SubmitWorkflowStep DEF Request
<1>3. CASE CutWorkflow
  BY <1>3, CutWorkflowStep
<1>4. ASSUME NEW e \in Slots, Execute(e) PROVE RecordsInv'
  BY <1>4, ClaimStep, BeginOk, DismissStep, EndOk, BeginAuditStep, EndAuditStep,
     AuditTimeoutStep, BeginWorkflowStep, BeginStepOk, EndStepOk, EndWorkflowStep DEF Execute
<1>5. ASSUME NEW e \in Slots, Fault(e) PROVE RecordsInv'
  BY <1>5, CancelStep, CrashStep DEF Fault
<1>6. CASE UNCHANGED vars
  <2>1. /\ manifest' = manifest /\ disk' = disk /\ steps' = steps /\ slot' = slot
        /\ queue' = queue /\ verdict' = verdict /\ lost' = lost /\ crashed' = crashed
        /\ audits' = audits /\ submitted' = submitted /\ faults' = faults
        /\ overlapped' = overlapped /\ leapt' = leapt /\ fresh' = fresh
    BY <1>6 DEF vars, bounds, wfHistory
  <2>2. TypeOK' BY <2>1 DEF RecordsInv, TypeOK
  <2>3. \A e \in Slots : Placed(e)' BY <2>1 DEF RecordsInv, Placed
  <2>4. StatusBacked' BY <2>1 DEF RecordsInv, StatusBacked
  <2>5. RunningHasRunner' BY <2>1 DEF RecordsInv, RunningHasRunner
  <2>6. RejectionKept' BY <2>1 DEF RecordsInv, RejectionKept
  <2> QED BY <2>2, <2>3, <2>4, <2>5, <2>6 DEF RecordsInv
<1> QED BY <1>1, <1>2, <1>3, <1>4, <1>5, <1>6 DEF Next

-----------------------------------------------------------------------------
(* The inputs of the interferograms                                        *)

ToExecute == {"interferograms"} \X {"SCRIPT_READY", "RUNNING"}

\* A step that finishes no input and makes nothing ready to be executed.
LEMMA InputsKept ==
  ASSUME InputsTrue, disk'.ready = disk.ready, lost \subseteq lost',
         \A s \in Inputs \ lost' : manifest'.stage[s].ready \in {"", manifest.stage[s].ready},
         manifest'.status \in ToExecute =>
           \A s \in Inputs \ lost : disk.ready[s] = "yes"
  PROVE  InputsTrue'
BY DEF InputsTrue, ToExecute

LEMMA InputsSame ==
  ASSUME InputsTrue, disk'.ready = disk.ready, lost \subseteq lost',
         manifest'.stage = manifest.stage,
         manifest'.status \in ToExecute => manifest'.status = manifest.status
  PROVE  InputsTrue'
BY InputsKept DEF InputsTrue, ToExecute

LEMMA OtherPart ==
  \A a, b : a # "interferograms" => <<a, b>> \notin ToExecute
BY DEF ToExecute

LEMMA NothingToExecute ==
  ASSUME NEW s \in Stages
  PROVE  \A st \in {<<s, "FAILED">>, <<s, "READY">>, <<"rdc_dem", "READY">>} : st \notin ToExecute
BY DEF ToExecute

\* The inputs are asked for when the interferograms are prepared.
LEMMA InputsAsked ==
  ASSUME InputsTrue, MayPrepare("interferograms", manifest)
  PROVE  \A s \in Inputs \ lost : disk.ready[s] = "yes"
BY DEF InputsTrue, MayPrepare, Ready, Inputs

LEMMA InputsPrepared ==
  ASSUME RecordsInv, InputsTrue, NEW s \in Stages, MayPrepare(s, manifest),
         manifest' = Prepared(s, manifest), disk' = disk, lost' = lost
  PROVE  InputsTrue'
<1>1. TypeOK /\ manifest \in Manifest
  BY DEF RecordsInv, TypeOK
<1>2. /\ manifest'.status \in {<<s, "SCRIPT_READY">>, <<"rdc_dem", "READY">>}
      /\ \A t \in Stages : manifest'.stage[t].ready \in {"", manifest.stage[t].ready}
  <2> DEFINE n == Prepared(s, manifest)
  <2>1. /\ n.status \in {<<s, "SCRIPT_READY">>, <<"rdc_dem", "READY">>}
        /\ \A t \in Stages : n.stage[t].ready \in {"", manifest.stage[t].ready}
    BY <1>1, PreparedManifest
  <2> HIDE DEF n
  <2>2. manifest' = n BY DEF n
  <2> QED BY <2>1, <2>2
<1>3. manifest'.status \in ToExecute => s = "interferograms"
  BY <1>2, OtherPart
<1>4. \A t \in Inputs : t \in Stages BY DEF Stages
<1> QED BY <1>2, <1>3, <1>4, InputsAsked, InputsKept

\* What an execution of the interferograms finds was made of finished inputs.
LEMMA InputsFound ==
  ASSUME InputsTrue, MayExecute("interferograms", manifest)
  PROVE  \A s \in Inputs \ lost : disk.ready[s] = "yes"
<1>1. CASE manifest.status \in ToExecute
  BY <1>1 DEF InputsTrue, ToExecute
<1>2. CASE MayPrepare("interferograms", manifest)
  BY <1>2, InputsAsked
<1> QED BY <1>1, <1>2 DEF MayExecute, ToExecute

LEMMA InputsBegin ==
  ASSUME RecordsInv, InputsTrue, NEW e \in Slots, Begin(e) PROVE InputsTrue'
<1> DEFINE s == slot[e].kind
           m == Started(s, Opened(s, manifest))
<1>1. TypeOK /\ manifest \in Manifest /\ Backed(manifest)
  BY OneSlot
<1>2. s \in Stages /\ MayExecute(s, manifest) /\ manifest' = m /\ disk' = disk /\ lost' = lost
  BY DEF Begin
<1>3. /\ m.status = <<s, "RUNNING">>
      /\ \A t \in Stages : m.stage[t].ready = Opened(s, manifest).stage[t].ready
  BY <1>1, <1>2, StartedManifest
<1>4. \A t \in Stages : Opened(s, manifest).stage[t].ready \in {"", manifest.stage[t].ready}
  <2>1. \A t \in Stages : Prepared(s, manifest).stage[t].ready \in {"", manifest.stage[t].ready}
    BY <1>1, <1>2, PreparedManifest
  <2> QED BY <2>1 DEF Opened
<1> HIDE DEF m
<1>5. manifest'.status \in ToExecute => s = "interferograms"
  BY <1>2, <1>3, OtherPart
<1>6. \A t \in Inputs : t \in Stages BY DEF Stages
<1> QED BY <1>2, <1>3, <1>4, <1>5, <1>6, InputsFound, InputsKept

LEMMA InputsEnd ==
  ASSUME RecordsInv, InputsTrue, NEW e \in Slots, NEW outcome \in Outcomes, End(e, outcome)
  PROVE  InputsTrue'
<1> DEFINE s == slot[e].kind
           m == Ended(s, slot[e].view, outcome)
<1>1. TypeOK /\ slot[e].view \in Manifest /\ disk \in Disk
  BY OneSlot DEF TypeOK
<1>2. s \in Stages /\ manifest' = m /\ lost' = lost \cup (Overwritten(e) \ {s})
  BY DEF End
<1>3. /\ m.status \in {<<s, "FAILED">>, <<s, "READY">>, <<"rdc_dem", "READY">>}
      /\ \A t \in Stages \ {s} : m.stage[t] = slot[e].view.stage[t]
  BY <1>1, <1>2, EndedManifest
<1>4. disk'.ready = [disk.ready EXCEPT ![s] = m.stage[s].ready]
  <2> DEFINE r == [disk.ready EXCEPT ![s] = m.stage[s].ready]
  <2>1. disk' = [disk EXCEPT !.ready = r,
          !.common = IF s = "coregistration" /\ outcome # "bad" THEN disk.approved ELSE disk.common]
    BY DEF End
  <2> HIDE DEF r
  <2>2. disk'.ready = r BY <1>1, <2>1 DEF Disk
  <2> QED BY <2>2 DEF r
<1> HIDE DEF m
<1>5. manifest'.status \notin ToExecute
  BY <1>2, <1>3, NothingToExecute
<1>6. ASSUME NEW t \in Inputs \ lost' PROVE manifest'.stage[t].ready \in {"", disk'.ready[t]}
  <2>1. t \in Stages /\ t \notin lost BY <1>2 DEF Stages
  <2>2. disk.ready \in [Stages -> {"", "yes", "no"}] BY <1>1 DEF Disk
  <2>3. CASE t = s BY <1>2, <1>4, <2>1, <2>2, <2>3
  <2>4. CASE t # s
    <3>1. slot[e].view.stage[t] = manifest.stage[t] BY <1>2, <2>4 DEF Overwritten
    <3>2. manifest'.stage[t] = manifest.stage[t] BY <1>2, <1>3, <2>1, <2>4, <3>1
    <3>3. disk'.ready[t] = disk.ready[t] BY <1>4, <2>1, <2>2, <2>4
    <3> QED BY <2>1, <3>2, <3>3 DEF InputsTrue
  <2> QED BY <2>3, <2>4
<1> QED BY <1>5, <1>6 DEF InputsTrue, ToExecute

LEMMA InputsEndAudit ==
  ASSUME RecordsInv, InputsTrue, NEW e \in Slots, NEW good \in BOOLEAN, EndAudit(e, good)
  PROVE  InputsTrue'
<1> DEFINE w == IF good THEN "READY" ELSE "FAILED"
<1>1. slot[e].view \in Manifest /\ disk \in Disk
  BY OneSlot DEF TypeOK
<1>2. manifest'.status = <<"baseline_audit", w>> /\ manifest'.stage = slot[e].view.stage
  BY <1>1 DEF EndAudit, Manifest
<1> HIDE DEF w
<1>3. manifest'.status \notin ToExecute
  BY <1>2, OtherPart
<1>4. disk'.ready = disk.ready
  BY <1>1 DEF EndAudit, Disk
<1>5. lost' = lost \cup Overwritten(e)
  BY DEF EndAudit
<1>6. \A t \in Inputs \ lost' : manifest'.stage[t].ready = manifest.stage[t].ready
  BY <1>2, <1>5 DEF Overwritten
<1> QED BY <1>3, <1>4, <1>5, <1>6, InputsKept

LEMMA RecoveredToExecute ==
  ASSUME NEW m \in Manifest
  PROVE  /\ Recovered(m).stage = m.stage
         /\ Recovered(m).status \in ToExecute => Recovered(m).status = m.status
<1>1. Inferred(m) \notin ToExecute
  BY DEF Inferred, Planned, ToExecute
<1>2. CASE Recovered(m) = m BY <1>2
<1>3. CASE Recovered(m) = [m EXCEPT !.status = Inferred(m)]
  BY <1>1, <1>3 DEF Manifest
<1> QED BY <1>2, <1>3 DEF Recovered

LEMMA InputsReview ==
  ASSUME RecordsInv, InputsTrue, Review PROVE InputsTrue'
<1>1. manifest \in Manifest /\ disk \in Disk
  BY DEF RecordsInv, TypeOK
<1>2. CASE PlanAudit
  <2> DEFINE w == IF disk.adjacent > 0 THEN "READY" ELSE "SCRIPT_READY"
  <2>1. manifest'.status = <<"baseline_audit", w>> /\ manifest'.stage = manifest.stage
    BY <1>1, <1>2 DEF PlanAudit, Manifest
  <2>2. disk'.ready = disk.ready /\ lost' = lost
    BY <1>1, <1>2 DEF PlanAudit, Disk
  <2> QED BY <2>1, <2>2, OtherPart, InputsSame
<1>3. ASSUME NEW decision \in {"approve", "reject"}, Decide(decision) PROVE InputsTrue'
  <2>1. /\ manifest'.status \in {manifest.status, <<"itab", decision>>}
        /\ manifest'.stage = manifest.stage
    BY <1>1, <1>3 DEF Decide, Manifest
  <2>2. disk'.ready = disk.ready /\ lost' = lost
    BY <1>1, <1>3 DEF Decide, Disk
  <2> QED BY <2>1, <2>2, OtherPart, InputsSame
<1> QED BY <1>2, <1>3 DEF Review

LEMMA InputsWorkflow ==
  ASSUME RecordsInv, InputsTrue, NEW w, disk' = disk, lost' = lost,
         manifest' = [manifest EXCEPT !.status = <<"workflow", w>>]
  PROVE  InputsTrue'
<1>1. manifest'.status = <<"workflow", w>> /\ manifest'.stage = manifest.stage
  BY DEF RecordsInv, TypeOK, Manifest
<1> QED BY <1>1, OtherPart, InputsSame

LEMMA InputsBound ==
  ASSUME RecordsInv, InputsTrue, NEW force \in BOOLEAN, PrepareWorkflow(force),
         disk' = disk, lost' = lost
  PROVE  InputsTrue'
<1>1. manifest \in Manifest
  BY DEF RecordsInv, TypeOK
<1>2. Recovered(manifest) \in Manifest /\ Recovered(manifest).stage = manifest.stage
  BY <1>1, RecoveredManifest, ByParts DEF FileOk
<1>3. manifest'.status = <<"workflow", "READY">> /\ manifest'.stage = manifest.stage
  BY <1>2 DEF PrepareWorkflow, Bound, Manifest
<1> QED BY <1>3, OtherPart, InputsSame

LEMMA InputsRequest ==
  ASSUME RecordsInv, InputsTrue, Request PROVE InputsTrue'
<1>1. ASSUME NEW s \in Stages, Prepare(s) \/ SubmitStage(s) PROVE InputsTrue'
  <2>1. disk' = disk /\ lost' = lost
    BY <1>1 DEF Prepare, SubmitStage, Submitting
  <2>2. \/ MayPrepare(s, manifest) /\ manifest' = Prepared(s, manifest)
        \/ manifest' = manifest
    BY <1>1 DEF Prepare, SubmitStage
  <2> QED BY <2>1, <2>2, InputsPrepared, InputsSame
<1>2. ASSUME NEW force \in BOOLEAN, BindWorkflow(force) PROVE InputsTrue'
  BY <1>2, InputsBound DEF BindWorkflow
<1>3. ASSUME NEW force \in BOOLEAN, NEW todo \in Selections, SubmitWorkflow(todo, force)
      PROVE  InputsTrue'
  BY <1>3, InputsBound DEF SubmitWorkflow, Submitting
<1> QED BY <1>1, <1>2, <1>3 DEF Request

LEMMA InputsExecute ==
  ASSUME RecordsInv, InputsTrue, NEW e \in Slots, Execute(e) \/ Fault(e) PROVE InputsTrue'
<1>1. CASE /\ manifest' = manifest /\ disk' = disk /\ lost' = lost
  BY <1>1, InputsSame
<1>2. CASE Begin(e)
  BY <1>2, InputsBegin
<1>3. CASE \E outcome \in Outcomes : End(e, outcome)
  BY <1>3, InputsEnd
<1>4. CASE \E good \in BOOLEAN : EndAudit(e, good)
  BY <1>4, InputsEndAudit
<1>5. CASE BeginWorkflow(e) \/ \E audited \in BOOLEAN : EndWorkflow(e, audited)
  <2>1. disk' = disk /\ lost' = lost
    BY <1>5 DEF BeginWorkflow, EndWorkflow
  <2>2. \E w : manifest' = [manifest EXCEPT !.status = <<"workflow", w>>]
    BY <1>5 DEF BeginWorkflow, EndWorkflow
  <2> QED BY <2>1, <2>2, InputsWorkflow
<1> QED BY <1>1, <1>2, <1>3, <1>4, <1>5
        DEF Execute, Fault, Claim, Dismiss, BeginAudit, AuditTimeout, BeginStep, EndStep,
            Cancel, Crash, Files

LEMMA InputsCut ==
  ASSUME RecordsInv, InputsTrue, CutWorkflow PROVE InputsTrue'
<1>1. manifest \in Manifest /\ manifest' = Recovered(manifest) /\ disk' = disk
      /\ lost' = lost \cup {"decision"}
  BY DEF RecordsInv, TypeOK, CutWorkflow
<1> QED BY <1>1, RecoveredToExecute, InputsSame

\* Only Begin takes a claimed stage to its execution.
LEMMA ExecutionStarts ==
  ASSUME RecordsInv, Next, NEW e \in Slots, NEW s \in Stages, StartsOn(e, s)
  PROVE  Begin(e)
<1>1. slot \in [Slots -> Thread]
  BY DEF RecordsInv, TypeOK
<1>2. slot' # slot
  BY DEF StartsOn
<1>3. PICK d \in Slots : Execute(d) \/ Fault(d)
  BY <1>2 DEF Next, Review, PlanAudit, Decide, Request, Prepare, SubmitStage, BindWorkflow,
              SubmitWorkflow, Submitting, CutWorkflow, Threads
<1>4. d = e
  <2> SUFFICES ASSUME d # e PROVE slot'[e] = slot[e]
      BY DEF StartsOn
  <2>1. \E x : slot' = [slot EXCEPT ![d] = x]
    BY <1>3, Zenon DEF Execute, Fault, Claim, Begin, Dismiss, End, BeginAudit, EndAudit, AuditTimeout,
              BeginWorkflow, BeginStep, EndStep, EndWorkflow, Cancel, Crash
  <2> QED BY <1>1, <2>1
<1>5. slot[e].at = "claimed" /\ slot[e].kind = s /\ slot'[e].at = "executing"
  BY DEF StartsOn
<1>6. ~(slot'[e] = Idle) /\ ~(slot'[e].at = slot[e].at)
  BY <1>5, IdleFields
<1>7. ~Dismiss(e) /\ ~AuditTimeout(e) /\ ~Crash(e)
  BY <1>1, <1>6 DEF Dismiss, AuditTimeout, Crash
<1>8. \A outcome \in Outcomes : ~End(e, outcome)
  BY <1>5 DEF End
<1>9. \A good \in BOOLEAN : ~EndAudit(e, good) /\ ~EndStep(e, good) /\ ~EndWorkflow(e, good)
  BY <1>5 DEF EndAudit, EndStep, EndWorkflow, Stages, Inputs
<1>10. ~BeginAudit(e) /\ ~BeginStep(e) /\ ~BeginWorkflow(e) /\ \A o \in queue : ~Claim(e, o)
  BY <1>5 DEF BeginAudit, BeginStep, BeginWorkflow, Claim, Stages, Inputs
<1>11. ~Cancel(e)
  <2>1. ASSUME Cancel(e) PROVE slot'[e].at = slot[e].at
    <3>1. slot' = [slot EXCEPT ![e] = WithCancelled(slot[e], TRUE)]
      BY <1>1, <2>1 DEF Cancel, WithCancelled
    <3>2. slot[e] \in Thread BY <1>1
    <3> QED BY <1>1, <3>1, <3>2, CancelledField
  <2> QED BY <1>6, <2>1
<1> QED BY <1>3, <1>4, <1>7, <1>8, <1>9, <1>10, <1>11 DEF Execute, Fault

LEMMA InputsInit == ASSUME Init PROVE InputsTrue
<1>1. /\ manifest.status = <<"workflow", "READY">>
      /\ \A s \in Inputs : manifest.stage[s].ready = ""
  BY DEF Init, NewManifest, NoRecord, Stages
<1>2. manifest.status \notin ToExecute
  BY <1>1, OtherPart
<1> QED BY <1>1, <1>2 DEF InputsTrue, ToExecute

LEMMA InputsNext ==
  ASSUME RecordsInv, InputsTrue, [Next]_vars PROVE InputsTrue'
<1>1. CASE UNCHANGED vars
  BY <1>1, InputsSame DEF vars
<1> QED BY <1>1, InputsReview, InputsRequest, InputsExecute, InputsCut DEF Next

-----------------------------------------------------------------------------
(* The order of a workflow's steps: what it remembers, of any memory        *)

First(S) == CHOOSE i \in S : \A j \in S : i <= j
Left(memory, todo) == {i \in todo : memory[i] # "COMPLETED"}

\* InSequence of a memory, the steps still asked for and the fresh ones.
Sequence(memory, todo, force, new) ==
  /\ \A i \in Steps : memory[i] = "COMPLETED" => i \in new
  /\ force => Left(memory, todo) = todo
  /\ \A i \in Left(memory, todo), h \in Steps :
       /\ h < i => h \in Left(memory, todo) \/ memory[h] = "COMPLETED"
       /\ h > i => memory[h] # "COMPLETED"

LEMMA InSequenceOf ==
  ASSUME NEW e \in Slots
  PROVE  InSequence(e) <=>
           /\ Sequence(slot[e].memory, slot[e].todo, slot[e].force, fresh)
           /\ slot[e].at = "step" => First(slot[e].todo) \in Left(slot[e].memory, slot[e].todo)
BY Zenon DEF InSequence, Sequence, ToRun, Left, Coming, First

LEMMA InSequenceNext ==
  ASSUME NEW e \in Slots, NEW m, NEW todo, NEW force, NEW new,
         slot'[e].memory = m, slot'[e].todo = todo, slot'[e].force = force, fresh' = new,
         Sequence(m, todo, force, new),
         slot'[e].at = "step" => First(todo) \in Left(m, todo)
  PROVE  InSequence(e)'
<1>1. /\ Sequence(slot'[e].memory, slot'[e].todo, slot'[e].force, fresh')
      /\ slot'[e].at = "step" => First(slot'[e].todo) \in Left(slot'[e].memory, slot'[e].todo)
  BY Zenon
<1> QED BY <1>1, Zenon DEF InSequence, Sequence, ToRun, Left, Coming, First

\* The step that comes is the least of those asked for.
LEMMA FirstIsLeast ==
  ASSUME TypeOK, SbasAssumption, NEW e \in Slots, slot[e].todo # {}
  PROVE  LET c == First(slot[e].todo) IN
         /\ c = Coming(e) /\ c \in slot[e].todo /\ c \in Steps
         /\ \A j \in slot[e].todo : c <= j
BY ComingIsAsked DEF First, Coming

LEMMA SequenceSkips ==
  ASSUME NEW m, NEW todo, NEW new, NEW c, NEW force \in BOOLEAN,
         Sequence(m, todo, force, new), m[c] = "COMPLETED", ~force
  PROVE  Sequence(m, todo \ {c}, force, new)
<1>1. Left(m, todo \ {c}) = Left(m, todo) BY DEF Left
<1> QED BY <1>1 DEF Sequence

LEMMA SequenceStarts ==
  ASSUME NEW m \in StepStates, NEW todo \in SUBSET Steps, NEW new, NEW c \in todo,
         NEW force \in BOOLEAN, Sequence(m, todo, force, new), m[c] # "COMPLETED" \/ force
  PROVE  LET n == [m EXCEPT ![c] = "RUNNING"] IN
         Sequence(n, todo, force, new) /\ c \in Left(n, todo)
<1> DEFINE n == [m EXCEPT ![c] = "RUNNING"]
<1>1. c \in Left(m, todo) BY DEF Sequence, Left
<1>2. n[c] = "RUNNING" /\ \A i \in Steps \ {c} : n[i] = m[i]
  BY DEF StepStates
<1> HIDE DEF n
<1>3. Left(n, todo) = Left(m, todo)
  BY <1>1, <1>2 DEF Left
<1>4. Sequence(n, todo, force, new)
  BY <1>2, <1>3 DEF Sequence, Left
<1> QED BY <1>1, <1>3, <1>4 DEF n

\* What the end of step c makes of a sequence.
SequenceKept(m, todo, force, new, c) ==
  /\ \A h \in Steps : h < c => h \in new
  /\ Sequence([m EXCEPT ![c] = "COMPLETED"], todo \ {c}, force, {h \in new : h < c} \cup {c})
  /\ Sequence([m EXCEPT ![c] = "FAILED"], {}, force, {h \in new : h < c})

LEMMA SequenceEnds ==
  ASSUME NEW m \in StepStates, NEW todo \in SUBSET Steps, NEW new, NEW c \in todo,
         NEW force \in BOOLEAN, Sequence(m, todo, force, new), c \in Left(m, todo),
         \A j \in todo : c <= j, SbasAssumption
  PROVE  SequenceKept(m, todo, force, new, c)
<1>1. Steps \subseteq Nat /\ c \in Steps
  BY SbasAssumption DEF Steps
<1>2. ASSUME NEW h \in Steps, h < c PROVE m[h] = "COMPLETED" /\ h \in new
  <2>1. h \notin Left(m, todo) BY <1>1, <1>2 DEF Left
  <2> QED BY <1>2, <2>1 DEF Sequence
<1>3. ASSUME NEW i \in Steps, i # c, m[i] = "COMPLETED" PROVE i < c /\ i \in new
  <2>1. ~ (i > c) BY <1>3 DEF Sequence
  <2> QED BY <1>1, <1>3, <2>1 DEF Sequence
<1>4. Sequence([m EXCEPT ![c] = "COMPLETED"], todo \ {c}, force, {h \in new : h < c} \cup {c})
  <2> DEFINE n == [m EXCEPT ![c] = "COMPLETED"]
             T == todo \ {c}
             fr == {h \in new : h < c} \cup {c}
  <2>1. n[c] = "COMPLETED" /\ \A i \in Steps \ {c} : n[i] = m[i]
    BY <1>1 DEF StepStates
  <2> HIDE DEF n
  <2>2. Left(n, T) = Left(m, todo) \ {c}
    BY <2>1 DEF Left
  <2>3. \A i \in Steps : n[i] = "COMPLETED" => i \in fr
    BY <1>3, <2>1
  <2>4. force => Left(n, T) = T
    BY <2>2 DEF Sequence
  <2>5. ASSUME NEW i \in Left(n, T), NEW h \in Steps
        PROVE  /\ h < i => h \in Left(n, T) \/ n[h] = "COMPLETED"
               /\ h > i => n[h] # "COMPLETED"
    <3>1. i \in Left(m, todo) /\ i \in todo /\ i # c BY <2>2 DEF Left
    <3>2. c < i BY <1>1, <3>1
    <3>3. h < i => h \in Left(n, T) \/ n[h] = "COMPLETED"
      <4>1. CASE h = c BY <2>1, <4>1
      <4>2. CASE h # c BY <2>1, <2>2, <3>1, <4>2 DEF Sequence
      <4> QED BY <4>1, <4>2
    <3>4. ASSUME h > i PROVE n[h] # "COMPLETED"
      <4>1. h # c BY <1>1, <3>1, <3>2, <3>4
      <4> QED BY <2>1, <3>1, <3>4, <4>1 DEF Sequence
    <3> QED BY <3>3, <3>4
  <2> HIDE DEF T, fr
  <2>6. Sequence(n, T, force, fr)
    BY <2>3, <2>4, <2>5 DEF Sequence
  <2> QED BY <2>6 DEF n, T, fr
<1>5. Sequence([m EXCEPT ![c] = "FAILED"], {}, force, {h \in new : h < c})
  <2> DEFINE n == [m EXCEPT ![c] = "FAILED"]
  <2>1. n[c] = "FAILED" /\ \A i \in Steps \ {c} : n[i] = m[i]
    BY <1>1 DEF StepStates
  <2> HIDE DEF n
  <2>2. Left(n, {}) = {} BY DEF Left
  <2>3. \A i \in Steps : n[i] = "COMPLETED" => i \in {h \in new : h < c}
    BY <1>3, <2>1
  <2>4. Sequence(n, {}, force, {h \in new : h < c})
    BY <2>2, <2>3 DEF Sequence
  <2> QED BY <2>4 DEF n
<1> QED BY <1>2, <1>4, <1>5, Zenon DEF SequenceKept

-----------------------------------------------------------------------------
(* The second part of the invariant: the workflow                           *)

Done == <<"workflow", "COMPLETED">>

LEMMA NotDone ==
  /\ Done \notin {<<"workflow", "READY">>, <<"workflow", "RUNNING">>, Planned}
  /\ \A s \in Stages \cup {"baseline_audit", "itab"} : \A w : <<s, w>> # Done
<1>1. "workflow" \notin Stages \cup {"baseline_audit", "itab", "planned"}
  BY DEF Stages, Inputs
<1> QED BY <1>1, Pair DEF Done, Planned

\* What a step leaves alone of the thread of a workflow.
SameWork(t, u) ==
  t.kind = u.kind /\ t.at = u.at /\ t.memory = u.memory /\ t.todo = u.todo /\ t.force = u.force

\* A step of which no workflow notices more than a reset of its file.
LEMMA Quiet ==
  ASSUME WorkflowInv, Waiting' \subseteq Waiting,
         \A e \in Slots : slot'[e].kind = "workflow" => SameWork(slot'[e], slot[e]),
         steps' = steps \/ steps' = Pending,
         overlapped' = overlapped, leapt' = leapt, fresh' = fresh,
         manifest'.status = Done => manifest.status = Done
  PROVE  WorkflowInv'
<1>1. ASSUME NEW e \in Slots, Stepping(e)'
      PROVE  /\ Stepping(e)
             /\ slot'[e].at = slot[e].at /\ slot'[e].memory = slot[e].memory
             /\ slot'[e].todo = slot[e].todo /\ slot'[e].force = slot[e].force
  BY <1>1 DEF Stepping, SameWork
<1>2. Alone'
  <2>1. \A o, p \in Waiting' : o = p
    BY DEF WorkflowInv, Alone
  <2>2. ASSUME ~overlapped'
        PROVE  /\ Waiting' # {} => Working' = {}
               /\ \A d, e \in Working' : d = e
               /\ \A o \in Waiting' : o.force => steps' = Pending
               /\ \A e \in Working' : slot'[e].at = "claimed" /\ slot'[e].force => steps' = Pending
               /\ \A e \in Slots : Stepping(e)' => manifest'.status # <<"workflow", "COMPLETED">>
    <3>1. Working' \subseteq Working
      BY DEF Working, SameWork
    <3>2. /\ Waiting # {} => Working = {}
          /\ \A d, e \in Working : d = e
          /\ \A o \in Waiting : o.force => steps = Pending
          /\ \A e \in Working : slot[e].at = "claimed" /\ slot[e].force => steps = Pending
          /\ \A e \in Slots : Stepping(e) => manifest.status # Done
      BY <2>2 DEF WorkflowInv, Alone, Done
    <3>3. \A e \in Working' : slot'[e].at = "claimed" /\ slot'[e].force => steps' = Pending
      BY <3>1, <3>2 DEF Working, SameWork
    <3>4. \A e \in Slots : Stepping(e)' => manifest'.status # Done
      BY <1>1, <3>2
    <3> QED BY <3>1, <3>2, <3>3, <3>4 DEF Done
  <2> QED BY <2>1, <2>2, Zenon DEF Alone
<1>3. FreshInv'
  <2> SUFFICES ASSUME ~overlapped', ~leapt'
               PROVE  /\ \A i \in Steps : steps'[i] = "COMPLETED" => i \in fresh'
                      /\ \A e \in Slots : Stepping(e)' => InSequence(e)'
      BY Zenon DEF FreshInv
  <2>1. /\ \A i \in Steps : steps[i] = "COMPLETED" => i \in fresh
        /\ \A e \in Slots : Stepping(e) => InSequence(e)
    BY DEF WorkflowInv, FreshInv
  <2>2. \A i \in Steps : steps'[i] = "COMPLETED" => i \in fresh'
    BY <2>1 DEF Pending
  <2>3. ASSUME NEW e \in Slots, Stepping(e)' PROVE InSequence(e)'
    <3>1. InSequence(e) /\ slot'[e].at = slot[e].at BY <1>1, <2>1, <2>3
    <3>2. /\ Sequence(slot[e].memory, slot[e].todo, slot[e].force, fresh)
          /\ slot[e].at = "step" => First(slot[e].todo) \in Left(slot[e].memory, slot[e].todo)
      BY <3>1, InSequenceOf
    <3>3. slot'[e].memory = slot[e].memory
          /\ slot'[e].todo = slot[e].todo /\ slot'[e].force = slot[e].force
      BY <1>1, <2>3
    <3> QED BY <3>1, <3>2, <3>3, InSequenceNext
  <2> QED BY <2>2, <2>3
<1>4. WorkflowInOrder'
  BY DEF WorkflowInv, WorkflowInOrder, Done
<1> QED BY <1>2, <1>3, <1>4 DEF WorkflowInv

\* The same when the queue and the history are left alone and the file of the
\* steps is.
LEMMA QuietThread ==
  ASSUME WorkflowInv, queue' = queue, steps' = steps, UNCHANGED wfHistory,
         \A e \in Slots : slot'[e].kind = "workflow" => SameWork(slot'[e], slot[e]),
         manifest'.status = Done => manifest.status = Done
  PROVE  WorkflowInv'
BY Quiet DEF Waiting, wfHistory

LEMMA SameThreads ==
  ASSUME slot' = slot
  PROVE  \A e \in Slots : slot'[e].kind = "workflow" => SameWork(slot'[e], slot[e])
BY DEF SameWork

\* A thread that stops, or is none of a workflow.
LEMMA OtherThread ==
  ASSUME TypeOK, NEW e \in Slots, NEW x \in Thread, slot' = [slot EXCEPT ![e] = x],
         x.kind # "workflow"
  PROVE  \A d \in Slots : slot'[d].kind = "workflow" => SameWork(slot'[d], slot[d])
BY SlotStep DEF SameWork

LEMMA StoppedThread ==
  ASSUME RecordsInv, SbasAssumption, NEW e \in Slots, slot' = [slot EXCEPT ![e] = Idle]
  PROVE  \A d \in Slots : slot'[d].kind = "workflow" => SameWork(slot'[d], slot[d])
<1>1. Idle \in Thread /\ Idle.kind # "workflow" BY IdleThread DEF Idle
<1> QED BY <1>1, OtherThread DEF RecordsInv

\* No operation but the end of a workflow completes it.
LEMMA RecoveredNotDone ==
  ASSUME NEW m \in Manifest, Recovered(m).status = Done PROVE m.status = Done
<1>1. \A st : Marked(m, st).status = st BY DEF Marked, Manifest
<1>2. Inferred(m) # Done
  BY NotDone DEF Inferred, Stages, Inputs
<1> QED BY <1>1, <1>2 DEF Recovered, Marked

LEMMA PreparedNotDone ==
  ASSUME NEW m \in Manifest, NEW s \in Stages, Backed(m), TypeOK
  PROVE  Prepared(s, m).status # Done
<1>1. Prepared(s, m).status \in {<<s, "SCRIPT_READY">>, <<"rdc_dem", "READY">>}
  BY PreparedManifest
<1> QED BY <1>1, NotDone DEF Stages, Inputs

LEMMA BoundNotDone ==
  ASSUME NEW m \in Manifest, Backed(m) PROVE Bound(m).status # Done
<1>1. Recovered(m) \in Manifest BY RecoveredManifest
<1>2. Bound(m).status = <<"workflow", "READY">>
  BY <1>1 DEF Bound, Manifest
<1> QED BY <1>2, NotDone

LEMMA FromFirst ==
  ASSUME RecordsInv
  PROVE  /\ TypeOK /\ manifest \in Manifest /\ Backed(manifest)
         /\ \A e \in Slots : Placed(e) /\ slot[e] \in Thread
BY ByParts DEF FileOk, TypeOK, RecordsInv

LEMMA QuietReview ==
  ASSUME RecordsInv, WorkflowInv, Review PROVE WorkflowInv'
<1>1. manifest \in Manifest BY FromFirst
<1>2. manifest'.status = Done => manifest.status = Done
  <2>1. CASE PlanAudit
    <3>1. manifest'.status \in {"baseline_audit"} \X {"SCRIPT_READY", "READY"}
      BY <1>1, <2>1 DEF PlanAudit, Manifest
    <3> QED BY <3>1, NotDone
  <2>2. CASE \E decision \in {"approve", "reject"} : Decide(decision)
    <3>1. PICK decision \in {"approve", "reject"} : Decide(decision) BY <2>2
    <3>2. manifest'.status = manifest.status \/ manifest'.status = <<"itab", decision>>
      BY <1>1, <3>1 DEF Decide, Manifest
    <3> QED BY <3>2, NotDone
  <2> QED BY <2>1, <2>2 DEF Review
<1>3. queue' = queue /\ steps' = steps /\ slot' = slot /\ UNCHANGED wfHistory
  BY DEF Review, PlanAudit, Decide, Threads
<1> QED BY <1>2, <1>3, SameThreads, QuietThread

LEMMA QuietPrepare ==
  ASSUME RecordsInv, WorkflowInv, NEW s \in Stages, Prepare(s) PROVE WorkflowInv'
<1>1. manifest'.status # Done
  BY FromFirst, PreparedNotDone DEF Prepare
<1>2. queue' = queue /\ steps' = steps /\ slot' = slot /\ UNCHANGED wfHistory
  BY DEF Prepare, Threads
<1> QED BY <1>1, <1>2, SameThreads, QuietThread

LEMMA QuietSubmitStage ==
  ASSUME RecordsInv, WorkflowInv, NEW s \in Stages, SubmitStage(s) PROVE WorkflowInv'
<1>1. manifest'.status # Done
  <2>1. manifest'.status = <<s, "SCRIPT_READY">> BY DEF SubmitStage
  <2> QED BY <2>1, NotDone
<1>2. /\ queue' = queue \cup {[kind |-> s, todo |-> {}, force |-> FALSE]}
      /\ steps' = steps /\ slot' = slot /\ UNCHANGED wfHistory
  BY DEF SubmitStage, Submitting
<1>3. Waiting' \subseteq Waiting
  <2>1. s # "workflow" BY DEF Stages, Inputs
  <2> QED BY <1>2, <2>1 DEF Waiting
<1> QED BY <1>1, <1>2, <1>3, SameThreads, Quiet DEF wfHistory

LEMMA QuietBind ==
  ASSUME RecordsInv, WorkflowInv, NEW force \in BOOLEAN, BindWorkflow(force)
  PROVE  WorkflowInv'
<1>1. manifest'.status # Done
  BY FromFirst, BoundNotDone DEF BindWorkflow, PrepareWorkflow
<1>2. /\ Waiting' = Waiting /\ slot' = slot /\ UNCHANGED wfHistory
      /\ steps' = steps \/ steps' = Pending
  BY DEF BindWorkflow, PrepareWorkflow, Waiting
<1> QED BY <1>1, <1>2, SameThreads, Quiet DEF wfHistory

LEMMA QuietCut ==
  ASSUME RecordsInv, WorkflowInv, CutWorkflow PROVE WorkflowInv'
<1>1. manifest'.status = Done => manifest.status = Done
  BY FromFirst, RecoveredNotDone DEF CutWorkflow
<1>2. queue' = queue /\ steps' = steps /\ slot' = slot /\ UNCHANGED wfHistory
  BY DEF CutWorkflow
<1> QED BY <1>1, <1>2, SameThreads, QuietThread

\* A workflow that is submitted is alone, unless overlapped.
LEMMA WorkflowSubmitted ==
  ASSUME RecordsInv, WorkflowInv, NEW todo \in Selections, NEW force \in BOOLEAN,
         SubmitWorkflow(todo, force)
  PROVE  WorkflowInv'
<1> DEFINE new == [kind |-> "workflow", todo |-> todo, force |-> force]
<1>1. manifest'.status # Done
  BY FromFirst, BoundNotDone DEF SubmitWorkflow, PrepareWorkflow
<1>2. /\ queue' = queue \cup {new} /\ slot' = slot
      /\ leapt' = leapt /\ fresh' = fresh
      /\ overlapped' = (overlapped \/ Working # {})
      /\ steps' = IF force THEN Pending ELSE steps
      /\ Waiting = {}
  BY DEF SubmitWorkflow, PrepareWorkflow, Submitting, Active, Working, Waiting
<1>3. \A o \in Waiting' : o = new
  BY <1>2 DEF Waiting
<1>4. Working' = Working /\ \A e \in Slots : Stepping(e)' => e \in Working
  BY <1>2 DEF Working, Stepping
<1>5. new.force = force OBVIOUS
<1> HIDE DEF new
<1>6. Alone'
  BY <1>2, <1>3, <1>4, <1>5, Zenon DEF Alone
<1>7. FreshInv'
  <2> SUFFICES ASSUME ~overlapped', ~leapt'
               PROVE  \A i \in Steps : steps'[i] = "COMPLETED" => i \in fresh'
      BY <1>2, <1>4, Zenon DEF FreshInv
  <2>1. \A i \in Steps : steps[i] = "COMPLETED" => i \in fresh
    BY <1>2 DEF WorkflowInv, FreshInv
  <2> QED BY <1>2, <2>1 DEF Pending
<1>8. WorkflowInOrder'
  BY <1>1 DEF WorkflowInOrder, Done
<1> QED BY <1>6, <1>7, <1>8 DEF WorkflowInv

LEMMA ClaimedThread ==
  ASSUME RecordsInv, SbasAssumption, NEW e \in Slots, NEW o \in queue, Claim(e, o)
  PROVE  /\ slot'[e].kind = o.kind /\ slot'[e].at = "claimed" /\ slot'[e].force = o.force
         /\ \A d \in Slots \ {e} : slot'[d] = slot[d]
<1> DEFINE w == WithKind(Idle, o.kind)
           y == WithAt(w, "claimed")
           z == WithTodo(y, o.todo)
           x == WithForce(z, o.force)
<1>1. TypeOK /\ o.kind \in Kinds /\ o.todo \in SUBSET Steps /\ o.force \in BOOLEAN
  BY FromFirst DEF TypeOK, Order
<1>2. slot' = [slot EXCEPT ![e] = x]
  BY DEF Claim, WithKind, WithAt, WithTodo, WithForce
<1>3. w \in Thread /\ w.kind = o.kind
  BY <1>1, IdleThread, KindField, ZenonT(40)
<1> HIDE DEF w
<1>4. y \in Thread /\ y.kind = o.kind /\ y.at = "claimed"
  BY <1>3, AtField
<1> HIDE DEF y
<1>5. z \in Thread /\ z.kind = o.kind /\ z.at = "claimed"
  BY <1>1, <1>4, TodoField
<1> HIDE DEF z
<1>6. x \in Thread /\ x.kind = o.kind /\ x.at = "claimed" /\ x.force = o.force
  BY <1>1, <1>5, ForceField
<1> HIDE DEF x
<1> QED BY <1>1, <1>2, <1>6, SlotStep

LEMMA WorkflowClaimed ==
  ASSUME RecordsInv, WorkflowInv, SbasAssumption, NEW e \in Slots, NEW o \in queue, Claim(e, o)
  PROVE  WorkflowInv'
<1>1. /\ slot'[e].kind = o.kind /\ slot'[e].at = "claimed" /\ slot'[e].force = o.force
      /\ \A d \in Slots \ {e} : slot'[d] = slot[d]
  BY ClaimedThread
<1>2. /\ queue' = queue \ {o} /\ steps' = steps /\ UNCHANGED wfHistory
      /\ manifest' = manifest
  BY DEF Claim, Files
<1>3. CASE o.kind # "workflow"
  <2>1. \A d \in Slots : slot'[d].kind = "workflow" => SameWork(slot'[d], slot[d])
    BY <1>1, <1>3 DEF SameWork
  <2>2. Waiting' \subseteq Waiting BY <1>2 DEF Waiting
  <2> QED BY <1>2, <2>1, <2>2, Quiet DEF wfHistory
<1>4. CASE o.kind = "workflow"
  <2>1. o \in Waiting /\ Waiting' = {}
    BY <1>2, <1>4 DEF Waiting, WorkflowInv, Alone
  <2>2. ~overlapped => Working' = {e}
    BY <1>1, <1>4, <2>1 DEF WorkflowInv, Alone, Working
  <2>3. o.force /\ ~overlapped => steps = Pending
    BY <2>1 DEF WorkflowInv, Alone
  <2>4. ~overlapped => \A d \in Slots : ~Stepping(d)'
    BY <1>1, <2>2 DEF Working, Stepping
  <2>5. overlapped' = overlapped /\ leapt' = leapt /\ fresh' = fresh
    BY <1>2 DEF wfHistory
  <2>6. Alone'
    BY <1>1, <1>2, <2>1, <2>2, <2>3, <2>4, <2>5, Zenon DEF Alone
  <2>7. FreshInv'
    BY <1>2, <2>4, <2>5, Zenon DEF FreshInv, WorkflowInv
  <2>8. WorkflowInOrder'
    BY <1>2, <2>5 DEF WorkflowInOrder, WorkflowInv
  <2> QED BY <2>6, <2>7, <2>8 DEF WorkflowInv
<1> QED BY <1>3, <1>4

\* A workflow that begins finds what it has to run in sequence, unless it
\* leaves out a step.
LEMMA SequenceBegins ==
  ASSUME TypeOK, SbasAssumption, NEW e \in Slots, ~Skips(e),
         slot[e].force => steps = Pending,
         \A i \in Steps : steps[i] = "COMPLETED" => i \in fresh
  PROVE  Sequence(steps, slot[e].todo, slot[e].force, fresh)
<1> DEFINE T == slot[e].todo
           F == slot[e].force
           run == {i \in T : F \/ steps[i] # "COMPLETED"}
<1>1. T \subseteq Steps
  <2>1. slot[e] \in Thread BY DEF TypeOK
  <2> QED BY <2>1 DEF Thread
<1>2. \A i \in run, h \in Steps \ run :
        ~ (h < i /\ steps[h] # "COMPLETED") /\ ~ (h > i /\ steps[h] = "COMPLETED")
  BY DEF Skips
<1>3. F => \A i \in Steps : steps[i] = "PENDING"
  BY DEF Pending
<1>4. Left(steps, T) = run
  BY <1>1, <1>3 DEF Left
<1>5. \A i \in run : steps[i] # "COMPLETED"
  BY <1>4 DEF Left
<1>6. F => Left(steps, T) = T
  BY <1>4
<1> HIDE DEF T, F, run
<1>7. Sequence(steps, T, F, fresh)
  BY <1>2, <1>4, <1>5, <1>6 DEF Sequence
<1> QED BY <1>7 DEF T, F

\* A step of a workflow: its thread goes on, alone unless overlapped.
LEMMA WorkflowGoesOn ==
  ASSUME RecordsInv, WorkflowInv, NEW e \in Slots, slot[e].kind = "workflow",
         slot'[e].kind = "workflow", slot'[e].at \in {"stepping", "step"},
         \A d \in Slots \ {e} : slot'[d] = slot[d],
         queue' = queue, overlapped' = overlapped, leapt => leapt',
         ~overlapped => manifest'.status # Done,
         ~overlapped /\ ~leapt' =>
           /\ \A i \in Steps : steps'[i] = "COMPLETED" => i \in fresh'
           /\ InSequence(e)'
  PROVE  WorkflowInv'
<1>1. Waiting' = Waiting BY DEF Waiting
<1>2. Working' = Working /\ e \in Working BY DEF Working
<1>3. ~overlapped => Working = {e} /\ Waiting = {}
  BY <1>2 DEF WorkflowInv, Alone
<1>4. \A d \in Slots : Stepping(d)' => d \in Working'
  BY DEF Stepping, Working
<1>5. slot'[e].at # "claimed" OBVIOUS
<1>6. \A o, p \in Waiting : o = p BY DEF WorkflowInv, Alone
<1>7. Alone'
  BY <1>1, <1>2, <1>3, <1>5, <1>6, Zenon DEF Alone, Done
<1>8. FreshInv'
  BY <1>2, <1>3, <1>4, Zenon DEF FreshInv
<1>9. WorkflowInOrder' BY DEF WorkflowInOrder, Done
<1> QED BY <1>7, <1>8, <1>9 DEF WorkflowInv

LEMMA WorkflowBegun ==
  ASSUME RecordsInv, WorkflowInv, SbasAssumption, NEW e \in Slots, BeginWorkflow(e)
  PROVE  WorkflowInv'
<1> DEFINE y == WithAt(slot[e], "stepping")
           x == WithMemory(y, steps)
<1>1. /\ TypeOK /\ slot[e] \in Thread /\ manifest \in Manifest /\ steps \in StepStates
      /\ slot[e].kind = "workflow" /\ slot[e].at = "claimed"
  BY FromFirst DEF TypeOK, BeginWorkflow
<1>2. slot' = [slot EXCEPT ![e] = x]
  BY DEF BeginWorkflow, WithAt, WithMemory
<1>3. /\ y \in Thread /\ y.kind = "workflow" /\ y.at = "stepping"
      /\ y.todo = slot[e].todo /\ y.force = slot[e].force
  BY <1>1, AtField
<1> HIDE DEF y
<1>4. /\ x \in Thread /\ x.kind = "workflow" /\ x.at = "stepping" /\ x.memory = steps
      /\ x.todo = slot[e].todo /\ x.force = slot[e].force
  BY <1>1, <1>3, MemoryField
<1> HIDE DEF x
<1>5. slot'[e] = x /\ \A d \in Slots \ {e} : slot'[d] = slot[d]
  BY <1>1, <1>2, <1>4, SlotStep
<1>6. manifest'.status # Done
  <2>1. manifest'.status = <<"workflow", "RUNNING">>
    BY <1>1 DEF BeginWorkflow, Manifest
  <2> QED BY <2>1, NotDone
<1>7. /\ queue' = queue /\ overlapped' = overlapped /\ steps' = steps /\ fresh' = fresh
      /\ leapt' = (leapt \/ Skips(e))
  BY DEF BeginWorkflow
<1>8. ASSUME ~overlapped, ~leapt'
      PROVE  /\ \A i \in Steps : steps'[i] = "COMPLETED" => i \in fresh'
             /\ InSequence(e)'
  <2>1. \A i \in Steps : steps[i] = "COMPLETED" => i \in fresh
    BY <1>7, <1>8 DEF WorkflowInv, FreshInv
  <2>2. slot[e].force => steps = Pending
    BY <1>1, <1>8 DEF WorkflowInv, Alone, Working
  <2>3. ~Skips(e) BY <1>7, <1>8
  <2>4. Sequence(steps, slot[e].todo, slot[e].force, fresh)
    BY <1>1, <2>1, <2>2, <2>3, SequenceBegins
  <2>5. InSequence(e)'
    BY <1>4, <1>5, <1>7, <2>4, InSequenceNext
  <2> QED BY <1>7, <2>1, <2>5
<1>9. leapt => leapt' BY <1>7
<1>10. slot'[e].kind = "workflow" /\ slot'[e].at \in {"stepping", "step"}
  BY <1>4, <1>5
<1> QED BY <1>1, <1>5, <1>6, <1>7, <1>8, <1>9, <1>10, WorkflowGoesOn

\* What is known of a workflow that is about to take a step.
LEMMA AtWork ==
  ASSUME RecordsInv, WorkflowInv, NEW e \in Slots, slot[e].at \in {"stepping", "step"}
  PROVE  /\ slot[e].kind = "workflow"
         /\ ~overlapped => manifest.status # Done
         /\ ~overlapped /\ ~leapt =>
              /\ \A i \in Steps : steps[i] = "COMPLETED" => i \in fresh
              /\ Sequence(slot[e].memory, slot[e].todo, slot[e].force, fresh)
              /\ slot[e].at = "step" =>
                   First(slot[e].todo) \in Left(slot[e].memory, slot[e].todo)
<1>1. slot[e].kind = "workflow"
  <2>1. Placed(e) /\ slot[e] \in Thread BY FromFirst
  <2>2. slot[e].kind \in Kinds \cup {"", "baseline_audit"} BY <2>1 DEF Thread
  <2> QED BY <2>1, <2>2 DEF Placed, Kinds
<1>2. Stepping(e) BY <1>1 DEF Stepping
<1>3. ~overlapped => manifest.status # Done
  BY <1>2 DEF WorkflowInv, Alone, Done
<1>4. ASSUME ~overlapped, ~leapt
      PROVE  InSequence(e) /\ \A i \in Steps : steps[i] = "COMPLETED" => i \in fresh
  BY <1>2, <1>4 DEF WorkflowInv, FreshInv
<1> QED BY <1>1, <1>3, <1>4, InSequenceOf

LEMMA StepBegun ==
  ASSUME RecordsInv, WorkflowInv, SbasAssumption, NEW e \in Slots, BeginStep(e)
  PROVE  WorkflowInv'
<1> DEFINE c == First(slot[e].todo)
           m == slot[e].memory
           T == slot[e].todo
           F == slot[e].force
<1>1. /\ TypeOK /\ slot[e] \in Thread /\ slot[e].at = "stepping" /\ T # {}
      /\ m \in StepStates /\ T \in SUBSET Steps /\ F \in BOOLEAN
  <2>1. TypeOK /\ slot[e] \in Thread BY FromFirst
  <2> QED BY <2>1 DEF BeginStep, Thread
<1>2. c = Coming(e) /\ c \in T
  BY <1>1, FirstIsLeast
<1>3. /\ slot[e].kind = "workflow"
      /\ ~overlapped => manifest.status # Done
      /\ ~overlapped /\ ~leapt =>
           /\ \A i \in Steps : steps[i] = "COMPLETED" => i \in fresh
           /\ Sequence(m, T, F, fresh)
  BY <1>1, AtWork
<1>4. /\ queue' = queue /\ overlapped' = overlapped /\ leapt' = leapt /\ fresh' = fresh
      /\ manifest' = manifest
  BY DEF BeginStep, wfHistory
<1>5. CASE m[c] = "COMPLETED" /\ ~F
  <2> DEFINE x == WithTodo(slot[e], T \ {c})
  <2>1. slot' = [slot EXCEPT ![e] = x] /\ steps' = steps
    BY <1>2, <1>5 DEF BeginStep, WithTodo
  <2>2. T \ {c} \in SUBSET Steps BY <1>1
  <2>3. /\ x \in Thread /\ x.kind = "workflow" /\ x.at = "stepping" /\ x.memory = m
        /\ x.todo = T \ {c} /\ x.force = F
    BY <1>1, <1>3, <2>2, TodoField
  <2> HIDE DEF x
  <2>4. slot'[e] = x /\ \A d \in Slots \ {e} : slot'[d] = slot[d]
    BY <1>1, <2>1, <2>3, SlotStep
  <2> HIDE DEF c, m, T, F
  <2>5. ASSUME ~overlapped, ~leapt' PROVE InSequence(e)'
    <3>1. Sequence(m, T \ {c}, F, fresh)
      BY <1>1, <1>3, <1>4, <1>5, <2>5, SequenceSkips
    <3>2. slot'[e].at # "step" BY <2>3, <2>4
    <3> QED BY <1>4, <2>3, <2>4, <3>1, <3>2, InSequenceNext
  <2> QED BY <1>3, <1>4, <2>1, <2>3, <2>4, <2>5, WorkflowGoesOn
<1>6. CASE ~ (m[c] = "COMPLETED" /\ ~F)
  <2> DEFINE n == [m EXCEPT ![c] = "RUNNING"]
             y == WithAt(slot[e], "step")
             x == WithMemory(y, n)
  <2>1. slot' = [slot EXCEPT ![e] = x] /\ steps' = n
    BY <1>2, <1>6 DEF BeginStep, WithAt, WithMemory, Remembering
  <2>2. n \in StepStates BY <1>1 DEF StepStates
  <2> HIDE DEF n
  <2>3. y \in Thread /\ y.kind = "workflow" /\ y.at = "step" /\ y.todo = T /\ y.force = F
    BY <1>1, <1>3, AtField
  <2> HIDE DEF y
  <2>4. /\ x \in Thread /\ x.kind = "workflow" /\ x.at = "step" /\ x.memory = n
        /\ x.todo = T /\ x.force = F
    BY <2>2, <2>3, MemoryField
  <2> HIDE DEF x
  <2>5. slot'[e] = x /\ \A d \in Slots \ {e} : slot'[d] = slot[d]
    BY <1>1, <2>1, <2>4, SlotStep
  <2>6. c = First(T) OBVIOUS
  <2> HIDE DEF c, m, T, F
  <2>7. ASSUME ~overlapped, ~leapt'
        PROVE  InSequence(e)' /\ \A i \in Steps : steps'[i] = "COMPLETED" => i \in fresh'
    <3>1. Sequence(n, T, F, fresh) /\ First(T) \in Left(n, T)
      BY <1>1, <1>2, <1>3, <1>4, <1>6, <2>6, <2>7, SequenceStarts DEF n
    <3>2. InSequence(e)'
      BY <1>4, <2>4, <2>5, <3>1, InSequenceNext
    <3> QED BY <1>4, <2>1, <3>1, <3>2 DEF Sequence
  <2> QED BY <1>3, <1>4, <2>4, <2>5, <2>7, WorkflowGoesOn
<1> QED BY <1>5, <1>6

LEMMA StepEnded ==
  ASSUME RecordsInv, WorkflowInv, SbasAssumption, NEW e \in Slots, NEW good \in BOOLEAN,
         EndStep(e, good)
  PROVE  WorkflowInv'
<1> DEFINE c == First(slot[e].todo)
           m == slot[e].memory
           T == slot[e].todo
           F == slot[e].force
           n == [m EXCEPT ![c] = IF good THEN "COMPLETED" ELSE "FAILED"]
           U == IF good THEN T \ {c} ELSE {}
           z == WithAt(slot[e], "stepping")
           y == WithMemory(z, n)
           x == WithTodo(y, U)
<1>1. /\ TypeOK /\ slot[e] \in Thread /\ slot[e].at = "step" /\ T # {}
      /\ m \in StepStates /\ T \in SUBSET Steps /\ F \in BOOLEAN
  <2>1. TypeOK /\ slot[e] \in Thread /\ Placed(e) BY FromFirst
  <2> QED BY <2>1 DEF EndStep, Thread, Placed
<1>2. c = Coming(e) /\ c \in T /\ c \in Steps /\ \A j \in T : c <= j
  BY <1>1, FirstIsLeast
<1>3. /\ slot[e].kind = "workflow"
      /\ ~overlapped => manifest.status # Done
      /\ ~overlapped /\ ~leapt => Sequence(m, T, F, fresh) /\ c \in Left(m, T)
  BY <1>1, AtWork
<1>4. /\ queue' = queue /\ overlapped' = overlapped /\ leapt' = leapt
      /\ manifest' = manifest
  BY DEF EndStep
<1>5. slot' = [slot EXCEPT ![e] = x] /\ steps' = n
  BY <1>2 DEF EndStep, WithAt, WithMemory, WithTodo, Remembering
<1>6. n \in StepStates /\ U \in SUBSET Steps
  BY <1>1, <1>2 DEF StepStates
<1>7. fresh' = IF good /\ (\A h \in Steps : h < c => h \in fresh)
               THEN {h \in fresh : h < c} \cup {c} ELSE {h \in fresh : h < c}
  BY <1>2 DEF EndStep
<1> HIDE DEF n, U
<1>8. z \in Thread /\ z.kind = "workflow" /\ z.at = "stepping" /\ z.force = F
  BY <1>1, <1>3, AtField
<1> HIDE DEF z
<1>9. /\ y \in Thread /\ y.kind = "workflow" /\ y.at = "stepping" /\ y.force = F
      /\ y.memory = n
  BY <1>6, <1>8, MemoryField
<1> HIDE DEF y
<1>10. /\ x \in Thread /\ x.kind = "workflow" /\ x.at = "stepping" /\ x.force = F
       /\ x.memory = n /\ x.todo = U
  BY <1>6, <1>9, TodoField
<1> HIDE DEF x
<1>11. slot'[e] = x /\ \A d \in Slots \ {e} : slot'[d] = slot[d]
  BY <1>1, <1>5, <1>10, SlotStep
<1> HIDE DEF c, m, T, F
<1>12. ASSUME ~overlapped, ~leapt'
       PROVE  InSequence(e)' /\ \A i \in Steps : steps'[i] = "COMPLETED" => i \in fresh'
  <2>1. /\ \A h \in Steps : h < c => h \in fresh
        /\ Sequence([m EXCEPT ![c] = "COMPLETED"], T \ {c}, F, {h \in fresh : h < c} \cup {c})
        /\ Sequence([m EXCEPT ![c] = "FAILED"], {}, F, {h \in fresh : h < c})
    <3>1. Sequence(m, T, F, fresh) /\ c \in Left(m, T) BY <1>3, <1>4, <1>12
    <3>2. /\ m \in StepStates /\ T \in SUBSET Steps /\ F \in BOOLEAN
          /\ c \in T /\ \A j \in T : c <= j
      BY <1>1, <1>2
    <3>3. SequenceKept(m, T, F, fresh, c)
      BY <3>1, <3>2, SequenceEnds, Zenon
    <3> QED BY <3>3, Zenon DEF SequenceKept
  <2>2. Sequence(n, U, F, fresh')
    <3>1. CASE good
      <4>1. n = [m EXCEPT ![c] = "COMPLETED"] /\ U = T \ {c} BY <3>1 DEF n, U
      <4>2. fresh' = {h \in fresh : h < c} \cup {c} BY <1>7, <2>1, <3>1
      <4> QED BY <2>1, <4>1, <4>2
    <3>2. CASE ~good
      <4>1. n = [m EXCEPT ![c] = "FAILED"] /\ U = {} BY <3>2 DEF n, U
      <4>2. fresh' = {h \in fresh : h < c} BY <1>7, <3>2
      <4> QED BY <2>1, <4>1, <4>2
    <3> QED BY <3>1, <3>2
  <2>3. slot'[e].at # "step" BY <1>10, <1>11
  <2>4. PICK new : new = fresh' OBVIOUS
  <2>5. InSequence(e)'
    BY <1>10, <1>11, <2>2, <2>3, <2>4, InSequenceNext
  <2> QED BY <1>5, <2>2, <2>5 DEF Sequence
<1> QED BY <1>3, <1>4, <1>10, <1>11, <1>12, WorkflowGoesOn

\* A workflow whose file is COMPLETED at its end has run all steps in order.
LEMMA WorkflowEnded ==
  ASSUME RecordsInv, WorkflowInv, SbasAssumption, NEW e \in Slots, NEW audited \in BOOLEAN,
         EndWorkflow(e, audited)
  PROVE  WorkflowInv'
<1>1. TypeOK /\ manifest \in Manifest /\ slot[e].at = "stepping"
  BY FromFirst DEF EndWorkflow
<1>2. slot[e].kind = "workflow" BY <1>1, AtWork
<1>3. /\ queue' = queue /\ steps' = steps /\ slot' = [slot EXCEPT ![e] = Idle]
      /\ overlapped' = overlapped /\ leapt' = leapt /\ fresh' = fresh
  BY DEF EndWorkflow, wfHistory
<1>4. slot'[e] = Idle /\ \A d \in Slots \ {e} : slot'[d] = slot[d]
  BY <1>1, <1>3, SlotStep, IdleThread
<1>5. Waiting' = Waiting /\ \A o, p \in Waiting : o = p
  BY <1>3 DEF Waiting, WorkflowInv, Alone
<1>6. ~overlapped => Waiting = {} /\ Working' = {}
  <2>1. e \in Working BY <1>2 DEF Working
  <2>2. ~overlapped => Waiting = {} /\ Working = {e}
    BY <2>1 DEF WorkflowInv, Alone
  <2>3. Working' = Working \ {e}
    BY <1>4, IdleFields DEF Working
  <2> QED BY <2>2, <2>3
<1>7. \A d \in Slots : Stepping(d)' => d \in Working'
  BY DEF Stepping, Working
<1>8. Alone'
  BY <1>3, <1>5, <1>6, <1>7, Zenon DEF Alone
<1>9. FreshInv'
  BY <1>3, <1>6, <1>7, Zenon DEF FreshInv, WorkflowInv
<1>10. WorkflowInOrder'
  <2> SUFFICES ASSUME manifest'.status = Done, ~overlapped, ~leapt PROVE fresh = Steps
      BY <1>3 DEF WorkflowInOrder, Done
  <2>1. manifest'.status = <<"workflow", Summarized(audited)>>
    BY <1>1 DEF EndWorkflow, Manifest
  <2>2. Summarized(audited) = "COMPLETED" BY <2>1, Pair DEF Done
  <2>3. \A i \in Steps : steps[i] = "COMPLETED" BY <2>2 DEF Summarized
  <2>4. \A i \in Steps : i \in fresh BY <2>3 DEF WorkflowInv, FreshInv
  <2> QED BY <1>1, <2>4 DEF TypeOK
<1> QED BY <1>8, <1>9, <1>10 DEF WorkflowInv

\* The executions of the stages and the faults.
LEMMA QuietBegin ==
  ASSUME RecordsInv, WorkflowInv, NEW e \in Slots, Begin(e) PROVE WorkflowInv'
<1> DEFINE s == slot[e].kind
           m == Started(s, Opened(s, manifest))
           x == [slot[e] EXCEPT !.at = "executing", !.view = m]
<1>1. /\ TypeOK /\ slot[e] \in Thread /\ manifest \in Manifest /\ Backed(manifest)
      /\ s \in Stages /\ MayExecute(s, manifest)
  BY FromFirst DEF Begin
<1>2. m \in Manifest /\ m.status = <<s, "RUNNING">>
  BY <1>1, StartedManifest
<1>3. /\ slot' = [slot EXCEPT ![e] = x] /\ manifest' = m
      /\ queue' = queue /\ steps' = steps /\ UNCHANGED wfHistory
  BY DEF Begin
<1> HIDE DEF m
<1>4. x \in Thread /\ x.kind = s
  BY <1>1, <1>2, BeginThread
<1>5. s # "workflow" BY <1>1 DEF Stages, Inputs
<1> HIDE DEF x
<1>6. manifest'.status # Done BY <1>1, <1>2, <1>3, NotDone
<1> QED BY <1>1, <1>3, <1>4, <1>5, <1>6, OtherThread, QuietThread

LEMMA QuietEnd ==
  ASSUME RecordsInv, WorkflowInv, SbasAssumption, NEW e \in Slots, NEW outcome \in Outcomes,
         End(e, outcome)
  PROVE  WorkflowInv'
<1> DEFINE s == slot[e].kind
           m == Ended(s, slot[e].view, outcome)
<1>1. s \in Stages /\ slot[e].view \in Manifest
  BY OneSlot DEF End
<1>2. m.status \in {<<s, "FAILED">>, <<s, "READY">>, <<"rdc_dem", "READY">>}
  BY <1>1 DEF Ended, Manifest
<1>3. /\ slot' = [slot EXCEPT ![e] = Idle] /\ manifest' = m
      /\ queue' = queue /\ steps' = steps /\ UNCHANGED wfHistory
  BY DEF End
<1> HIDE DEF m
<1>4. manifest'.status # Done BY <1>1, <1>2, <1>3, NotDone DEF Stages, Inputs
<1> QED BY <1>3, <1>4, StoppedThread, QuietThread

LEMMA QuietBeginAudit ==
  ASSUME RecordsInv, WorkflowInv, NEW e \in Slots, BeginAudit(e), SbasAssumption
  PROVE  WorkflowInv'
<1> DEFINE w == WithKind(Idle, "baseline_audit")
           y == WithAt(w, "executing")
           x == WithView(y, manifest)
<1>1. TypeOK /\ manifest \in Manifest BY FromFirst
<1>2. /\ slot' = [slot EXCEPT ![e] = x] /\ manifest' = manifest
      /\ queue' = queue /\ steps' = steps /\ UNCHANGED wfHistory
  BY DEF BeginAudit, WithKind, WithAt, WithView, Files
<1>3. w \in Thread /\ w.kind = "baseline_audit"
  BY IdleThread, KindField
<1> HIDE DEF w
<1>4. y \in Thread /\ y.kind = "baseline_audit"
  BY <1>3, AtField
<1> HIDE DEF y
<1>5. x \in Thread /\ x.kind # "workflow"
  BY <1>1, <1>4, ViewField
<1> HIDE DEF x
<1> QED BY <1>1, <1>2, <1>5, OtherThread, QuietThread

LEMMA QuietEndAudit ==
  ASSUME RecordsInv, WorkflowInv, SbasAssumption, NEW e \in Slots, NEW good \in BOOLEAN,
         EndAudit(e, good)
  PROVE  WorkflowInv'
<1> DEFINE w == IF good THEN "READY" ELSE "FAILED"
<1>1. slot[e].view \in Manifest
  BY OneSlot
<1>2. manifest'.status = <<"baseline_audit", w>>
  BY <1>1 DEF EndAudit, Manifest
<1> HIDE DEF w
<1>3. /\ slot' = [slot EXCEPT ![e] = Idle]
      /\ queue' = queue /\ steps' = steps /\ UNCHANGED wfHistory
  BY DEF EndAudit
<1>4. manifest'.status # Done BY <1>2, NotDone
<1> QED BY <1>3, <1>4, StoppedThread, QuietThread

LEMMA QuietStop ==
  ASSUME RecordsInv, WorkflowInv, SbasAssumption, NEW e \in Slots,
         Dismiss(e) \/ AuditTimeout(e) \/ Crash(e)
  PROVE  WorkflowInv'
<1>1. /\ slot' = [slot EXCEPT ![e] = Idle] /\ manifest' = manifest
      /\ queue' = queue /\ steps' = steps /\ UNCHANGED wfHistory
  BY DEF Dismiss, AuditTimeout, Crash, Files
<1> QED BY <1>1, StoppedThread, QuietThread

LEMMA QuietCancel ==
  ASSUME RecordsInv, WorkflowInv, NEW e \in Slots, Cancel(e) PROVE WorkflowInv'
<1> DEFINE x == WithCancelled(slot[e], TRUE)
<1>1. TypeOK /\ slot[e] \in Thread
  BY FromFirst
<1>2. x \in Thread /\ SameWork(x, slot[e])
  BY <1>1, CancelledField DEF SameWork
<1>3. /\ slot' = [slot EXCEPT ![e] = x] /\ manifest' = manifest
      /\ queue' = queue /\ steps' = steps /\ UNCHANGED wfHistory
  BY <1>1 DEF Cancel, WithCancelled, TypeOK, Files
<1> HIDE DEF x
<1>4. slot'[e] = x /\ \A d \in Slots \ {e} : slot'[d] = slot[d]
  BY <1>1, <1>2, <1>3, SlotStep
<1>5. \A d \in Slots : slot'[d].kind = "workflow" => SameWork(slot'[d], slot[d])
  BY <1>2, <1>4 DEF SameWork
<1> QED BY <1>3, <1>5, QuietThread

LEMMA WorkflowInit == ASSUME SbasAssumption, Init PROVE WorkflowInv
<1>1. /\ queue = {} /\ \A e \in Slots : slot[e] = Idle
      /\ manifest.status # Done
      /\ \A i \in Steps : steps[i] # "COMPLETED"
  BY NotDone DEF Init, NewManifest, Pending
<1>2. \A e \in Slots : slot[e].kind # "workflow" BY <1>1, IdleFields
<1>3. Alone BY <1>1, <1>2 DEF Alone, Waiting, Working, Stepping
<1>4. FreshInv BY <1>1, <1>2 DEF FreshInv, Stepping
<1>5. WorkflowInOrder BY <1>1 DEF WorkflowInOrder, Done
<1> QED BY <1>3, <1>4, <1>5 DEF WorkflowInv

LEMMA WorkflowNext ==
  ASSUME SbasAssumption, RecordsInv, WorkflowInv, [Next]_vars PROVE WorkflowInv'
<1>1. CASE Review
  BY <1>1, QuietReview
<1>2. CASE Request
  BY <1>2, QuietPrepare, QuietSubmitStage, QuietBind, WorkflowSubmitted DEF Request
<1>3. CASE CutWorkflow
  BY <1>3, QuietCut
<1>4. ASSUME NEW e \in Slots, Execute(e) PROVE WorkflowInv'
  BY <1>4, WorkflowClaimed, QuietBegin, QuietStop, QuietEnd, QuietBeginAudit, QuietEndAudit,
     WorkflowBegun, StepBegun, StepEnded, WorkflowEnded DEF Execute
<1>5. ASSUME NEW e \in Slots, Fault(e) PROVE WorkflowInv'
  BY <1>5, QuietCancel, QuietStop DEF Fault
<1>6. CASE UNCHANGED vars
  <2>1. /\ manifest' = manifest /\ steps' = steps /\ slot' = slot /\ queue' = queue
        /\ UNCHANGED wfHistory
    BY <1>6 DEF vars
  <2> QED BY <2>1, SameThreads, QuietThread
<1> QED BY <1>1, <1>2, <1>3, <1>4, <1>5, <1>6 DEF Next

-----------------------------------------------------------------------------
(* Theorems                                                                *)

\* In every reachable state the threads, the file and the views of the
\* executions are as the first part of the inductive invariant says, and a
\* workflow that is not overlapped is alone and takes its steps in sequence.
THEOREM SbasInvariant == Spec => []SbasInv
<1>1. Init => SbasInv
  BY SbasAssumption, RecordsInit, InputsInit, WorkflowInit DEF SbasInv
<1>2. SbasInv /\ [Next]_vars => SbasInv'
  BY SbasAssumption, RecordsNext, InputsNext, WorkflowNext DEF SbasInv
<1> QED BY <1>1, <1>2, PTL DEF Spec

\* However writers overwrite one another, the status of a run never says more
\* of a stage than its record does, and a part that is RUNNING is run by a
\* thread unless an execution of it died.
THEOREM BackedStatus == Spec => [](StatusBacked /\ RunningHasRunner)
<1>1. SbasInv => StatusBacked /\ RunningHasRunner BY DEF SbasInv, RecordsInv
<1> QED BY <1>1, SbasInvariant, PTL

\* A rejected network is not used, unless the decision was overwritten.
THEOREM RejectionHolds == Spec => []RejectionStands
<1>1. SbasInv => RejectionStands
  BY DEF SbasInv, RecordsInv, RejectionKept, RejectionStands
<1> QED BY <1>1, SbasInvariant, PTL

\* A COMPLETED workflow ran every step after the steps before it, unless one
\* was submitted while another was executed or told to leave out steps.
THEOREM WorkflowsInOrder == Spec => []WorkflowInOrder
<1>1. SbasInv => WorkflowInOrder BY DEF SbasInv, WorkflowInv
<1> QED BY <1>1, SbasInvariant, PTL

\* The interferograms are started on a coregistration and an RDC DEM that are
\* finished, unless the record of one was overwritten.
THEOREM InputsChecked == Spec => InputsReady
<1>1. SbasInv /\ Next =>
        \A e \in Slots : StartsOn(e, "interferograms") =>
          \A s \in Inputs : disk.ready[s] = "yes" \/ s \in lost
  <2> SUFFICES ASSUME SbasInv, Next, NEW e \in Slots, StartsOn(e, "interferograms")
               PROVE  \A s \in Inputs : disk.ready[s] = "yes" \/ s \in lost
      OBVIOUS
  <2>1. Begin(e)
    BY ExecutionStarts DEF SbasInv, Stages
  <2> QED BY <2>1, InputsFound DEF Begin, StartsOn, SbasInv
<1> QED BY <1>1, SbasInvariant, PTL DEF Spec, InputsReady
=============================================================================
