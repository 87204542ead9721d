-------------------------- MODULE IngestionProofs --------------------------
(***************************************************************************)
(* Proofs about the ingestion module: the documents and their occurrences, *)
(* for any number of documents, jobs, workers, crashes and lapsed leases   *)
(* and any minimum of advertisements; the watch folder, for any number of  *)
(* scanning processes and crashes; the round over the districts, for any   *)
(* number of districts, municipalities and overlapping runs and any        *)
(* limits; and the search keys.                                            *)
(***************************************************************************)
EXTENDS MCIngestion, FiniteSetTheorems, FunctionTheorems, WellFoundedInduction, TLAPS

-----------------------------------------------------------------------------
(* Documents.  The proofs only use that a row is a record of four fields,  *)
(* until the kinds are at issue: nothing depends on which new id a run     *)
(* takes.                                                                  *)

Positions ==
  {"idle", "read", "mark", "markWrite", "work", "lock", "catch", "catchWrite", "fail",
   "onFailure", "onFailureWrite", "complete", "snapshot", "derive", "replace", "publish"}

IsRow(o) == o = [id |-> o.id, doc |-> o.doc, finding |-> o.finding, status |-> o.status]

\* One row for a finding of a document.
OneEach(R) ==
  \A o, p \in R : o.doc = p.doc => o.id = p.id /\ (o.finding = p.finding => o = p)

\* The kinds of the variables; a job, and who has claimed it, is about a
\* document.
Shape ==
  /\ dstate \in [Docs -> States] /\ origin \in [Docs -> Channels \cup {"none"}]
  /\ IsFiniteSet(rows) /\ \A o \in rows : IsRow(o)
  /\ stored \subseteq Docs
  /\ sweeping \in Docs \cup {"none"} /\ etappe \in Docs \cup {"none"}
  /\ slot \in [Slots -> Job]
  /\ \A s \in Slots : slot[s].st # "free" => slot[s].doc \in Docs
  /\ wpc \in [Workers -> Positions] /\ wdoc \in [Workers -> Docs \cup {"none"}]
  /\ \A w \in Workers : wpc[w] # "idle" => wdoc[w] \in Docs
  /\ found \in [Workers -> SUBSET Findings] /\ unsent \in [Workers -> SUBSET Findings]
  /\ snap = [w \in Workers |-> snap[w]]

\* A snapshot has the rows of the document once each, and ends with the job.
Snapshots ==
  \A w \in Workers : /\ OneEach(snap[w]) /\ \A o \in snap[w] : o.doc = wdoc[w]
                     /\ wpc[w] = "idle" => snap[w] = {}

\* Before it commits, a run has announced what it keeps, or will.  A document
\* nobody has stored comes from no source.
Announcing ==
  /\ \A w \in Workers : wpc[w] = "publish" =>
       \A f \in Kept(w) : <<wdoc[w], f>> \in detected \/ f \in unsent[w]
  /\ \A d \in Docs : dstate[d] = "absent" => origin[d] = "none"

SlotOK ==
  /\ slot \in [Slots -> Job]
  /\ \A s \in Slots : slot[s].st # "free" => slot[s].doc \in Docs

-----------------------------------------------------------------------------
(* The kinds of the variables.                                             *)

LEMMA SlotStep ==
  ASSUME SlotOK, NEW s \in Slots, NEW j \in Job, slot' = [slot EXCEPT ![s] = j],
         j.st # "free" => j.doc \in Docs
  PROVE  SlotOK'
  BY DEF SlotOK

LEMMA SubmitSlot ==
  ASSUME SlotOK, NEW d \in Docs, NEW n \in Nat, Submit(d, n)
  PROVE  SlotOK'
<1> DEFINE j == [FreeJob EXCEPT !.doc = d, !.st = "pending", !.left = n]
<1>1. j \in Job /\ j.st = "pending" /\ j.doc = d
  BY DEF FreeJob, Job
<1>2. PICK s \in Slots : slot' = [slot EXCEPT ![s] = j]
  BY DEF Submit
<1> QED BY <1>1, <1>2, SlotStep

LEMMA InitShape == DocumentsInit => Shape
<1> SUFFICES ASSUME DocumentsInit PROVE Shape
  OBVIOUS
<1>1. FreeJob \in Job /\ FreeJob.st = "free"
  BY DEF FreeJob, Job
<1>2. IsFiniteSet(rows)
  BY FS_EmptySet DEF DocumentsInit
<1> QED BY <1>1, <1>2 DEF DocumentsInit, Shape, States, Channels, Positions

\* Steps outside of the workers.
LEMMA OutsideShape ==
  ASSUME Shape,
         \/ \E d \in Docs : EnqueueStored(d) \/ IntakeFails(d) \/ \E c \in Channels : Persist(d, c)
         \/ \E s \in Slots : Lapse(s) \/ ReviveJob(s)
         \/ Sweep \/ EtappeApply \/ \E d \in Docs : EtappeCheck(d)
  PROVE  Shape'
<1> USE DocumentsAssumption
<1>1. SlotOK
  BY DEF Shape, SlotOK
<1>2. ASSUME NEW d \in Docs, NEW c \in Channels, Persist(d, c) PROVE Shape'
  BY <1>2 DEF Persist, Shape, States, runVars, planVars
<1>3. ASSUME NEW d \in Docs, EnqueueStored(d) PROVE Shape'
  <2>1. SlotOK'
    BY <1>1, <1>3, SubmitSlot DEF EnqueueStored
  <2> QED BY <1>3, <2>1 DEF EnqueueStored, Shape, SlotOK, rowVarsD, runVars, planVars
<1>4. ASSUME NEW d \in Docs, IntakeFails(d) \/ SweepCheck(d) \/ EtappeCheck(d) PROVE Shape'
  BY <1>4 DEF IntakeFails, SweepCheck, EtappeCheck, Shape, rowVarsD, runVars, planVars
<1>5. ASSUME NEW s \in Slots, Lapse(s) \/ ReviveJob(s) PROVE Shape'
  <2>1. slot[s] \in Job /\ slot[s].st # "free" /\ slot[s].doc \in Docs
    BY <1>5 DEF Lapse, ReviveJob, Shape
  <2>2. CASE Lapse(s)
    <3>1. slot' = [slot EXCEPT ![s] = [slot[s] EXCEPT !.lapsed = TRUE]]
      BY <1>1, <2>2 DEF Lapse, SlotOK
    <3>2. [slot[s] EXCEPT !.lapsed = TRUE] \in Job
          /\ [slot[s] EXCEPT !.lapsed = TRUE].doc = slot[s].doc
      BY <2>1 DEF Job
    <3>3. SlotOK'
      BY <1>1, <2>1, <3>1, <3>2, SlotStep
    <3> QED BY <2>2, <3>3 DEF Lapse, Shape, SlotOK, rowVarsD, runVars, planVars
  <2>3. CASE ReviveJob(s)
    <3> DEFINE j == [slot[s] EXCEPT !.st = "pending", !.left = MaxAttempts]
    <3>1. slot' = [slot EXCEPT ![s] = j]
      BY <1>1, <2>3 DEF ReviveJob, SlotOK
    <3>2. j \in Job /\ j.doc = slot[s].doc
      BY <2>1 DEF Job
    <3>3. SlotOK'
      BY <1>1, <2>1, <3>1, <3>2, SlotStep
    <3> QED BY <2>3, <3>3 DEF ReviveJob, Shape, SlotOK, rowVarsD, runVars, planVars
  <2> QED BY <1>5, <2>2, <2>3
<1>6. CASE SweepEnqueue
  <2>1. sweeping \in Docs
    BY <1>6 DEF SweepEnqueue, Shape
  <2>2. SlotOK'
    BY <1>1, <1>6, <2>1, SubmitSlot DEF SweepEnqueue
  <2> QED BY <1>6, <2>2 DEF SweepEnqueue, Shape, SlotOK, rowVarsD, runVars
<1>7. CASE EtappeApply
  <2>1. etappe \in Docs
    BY <1>7 DEF EtappeApply, Shape
  <2>2. SlotOK'
    BY <1>1, <1>7, <2>1, SubmitSlot DEF EtappeApply
  <2> QED BY <1>7, <2>1, <2>2 DEF EtappeApply, Shape, SlotOK, States, runVars
<1> QED BY <1>2, <1>3, <1>4, <1>5, <1>6, <1>7 DEF Sweep

\* A run that only moves on.
LEMMA MoveShape ==
  ASSUME Shape, NEW w \in Workers,
         \/ ReadDocument(w) \/ ReadForMark(w) \/ ReadForFailed(w) \/ PifAnswers(w) \/ PifFails(w)
         \/ LockJob(w) \/ TakeSnapshot(w) \/ UpsertClassification(w) \/ Replace(w)
         \/ PublishDetected(w) \/ TransactionFails(w) \/ WriteState(w)
  PROVE  Shape'
<1> USE DEF At
<1>1. wpc[w] # "idle" /\ wpc' \in [Workers -> Positions]
      /\ \A v \in Workers : wpc'[v] # "idle" => wpc[v] # "idle"
  BY DEF ReadDocument, ReadForMark, ReadForFailed, PifAnswers, PifFails, LockJob, TakeSnapshot,
     UpsertClassification, Replace, PublishDetected, TransactionFails, WriteState, InTransaction,
     Shape, Positions
<1>2. UNCHANGED <<origin, rows, stored, sweeping, etappe, slot, wdoc>>
  BY DEF ReadDocument, ReadForMark, ReadForFailed, PifAnswers, PifFails, LockJob, TakeSnapshot,
     UpsertClassification, Replace, PublishDetected, TransactionFails, WriteState, rowVarsD, planVars
<1>3. dstate' \in [Docs -> States]
  BY DEF ReadDocument, ReadForMark, ReadForFailed, PifAnswers, PifFails, LockJob, TakeSnapshot,
     UpsertClassification, Replace, PublishDetected, TransactionFails, WriteState, rowVarsD,
     Shape, States
<1>4. found' \in [Workers -> SUBSET Findings] /\ unsent' \in [Workers -> SUBSET Findings]
  <2>1. CASE PifAnswers(w)
    BY <2>1 DEF PifAnswers, Shape
  <2>2. CASE Replace(w) \/ PublishDetected(w)
    BY <2>2 DEF Replace, PublishDetected, Kept, Shape
  <2>3. CASE UpsertClassification(w) \/ TransactionFails(w)
    BY <2>3 DEF UpsertClassification, TransactionFails, Forget, Shape
  <2> QED BY <2>1, <2>2, <2>3 DEF ReadDocument, ReadForMark, ReadForFailed, PifFails, LockJob,
       TakeSnapshot, WriteState, Shape
<1>5. snap' = [v \in Workers |-> snap'[v]]
  <2>1. CASE TakeSnapshot(w)
    BY <2>1 DEF TakeSnapshot, Shape
  <2>2. CASE UpsertClassification(w) \/ TransactionFails(w)
    BY <2>2 DEF UpsertClassification, TransactionFails, Forget, Shape
  <2> QED BY <2>1, <2>2 DEF ReadDocument, ReadForMark, ReadForFailed, PifAnswers, PifFails,
       LockJob, Replace, PublishDetected, WriteState, Shape
<1> QED BY <1>1, <1>2, <1>3, <1>4, <1>5 DEF Shape

\* A job is claimed, and ends.
LEMMA JobShape ==
  ASSUME Shape, NEW w \in Workers,
         \/ CompleteJob(w) \/ FailJob(w) \/ WorkerCrash(w)
         \/ \E s \in Slots : Claim(w, s)
  PROVE  Shape'
<1> DEFINE t == wslot[w]
<1> USE DocumentsAssumption
<1>1. SlotOK
  BY DEF Shape, SlotOK
<1>2. ASSUME NEW s \in Slots, Claim(w, s) PROVE Shape'
  <2> DEFINE j == [slot[s] EXCEPT !.st = "running", !.holder = w, !.lapsed = FALSE,
                                  !.left = IF @ = 0 THEN 0 ELSE @ - 1]
  <2>1. slot[s] \in Job /\ slot[s].doc \in Docs
    BY <1>2 DEF Claim, Shape
  <2>2. j \in Job /\ j.doc = slot[s].doc
    <3>1. (IF slot[s].left = 0 THEN 0 ELSE slot[s].left - 1) \in Nat
      BY <2>1 DEF Job
    <3> QED BY <2>1, <3>1 DEF Job
  <2>3. slot' = [slot EXCEPT ![s] = j]
    BY <1>1, <1>2 DEF Claim, SlotOK
  <2>4. SlotOK'
    BY <1>1, <2>1, <2>2, <2>3, SlotStep
  <2>5. wdoc' = [wdoc EXCEPT ![w] = slot[s].doc] /\ wpc' = [wpc EXCEPT ![w] = "read"]
    BY <1>2 DEF Claim
  <2>6. /\ wpc' \in [Workers -> Positions] /\ wdoc' \in [Workers -> Docs \cup {"none"}]
        /\ \A v \in Workers : wpc'[v] # "idle" => wdoc'[v] \in Docs
    BY <2>1, <2>5 DEF Shape, Positions
  <2>7. UNCHANGED <<rowVarsD, stored, found, snap, unsent, planVars>>
    BY <1>2 DEF Claim
  <2> QED BY <2>4, <2>6, <2>7 DEF Shape, SlotOK, rowVarsD, planVars
<1>3. ASSUME Leave(w), SlotOK', UNCHANGED <<rowVarsD, stored, planVars>> PROVE Shape'
  BY <1>3 DEF Leave, Forget, Shape, SlotOK, Positions, rowVarsD, planVars
<1>4. t \in Slots => slot[t] \in Job /\ FreeJob \in Job /\ FreeJob.st = "free"
  BY DEF Shape, FreeJob, Job
<1>5. CASE CompleteJob(w)
  <2>1. SlotOK'
    <3>1. CASE t \in Slots /\ slot' = [slot EXCEPT ![t] = FreeJob]
      BY <1>1, <1>4, <3>1, SlotStep
    <3>2. CASE t \notin Slots \/ slot' = slot
      BY <1>1, <1>5, <3>2 DEF CompleteJob, SlotOK
    <3> QED BY <1>5, <3>1, <3>2 DEF CompleteJob
  <2> QED BY <1>3, <1>5, <2>1 DEF CompleteJob
<1>6. CASE WorkerCrash(w)
  <2>1. SlotOK'
    <3>1. CASE slot' = slot
      BY <1>1, <3>1 DEF SlotOK
    <3>2. CASE t \in Slots /\ HoldsLease(w) /\ slot' = [slot EXCEPT ![t].lapsed = TRUE]
      <4> DEFINE j == [slot[t] EXCEPT !.lapsed = TRUE]
      <4>1. slot' = [slot EXCEPT ![t] = j]
        BY <1>1, <3>2 DEF SlotOK
      <4>2. j \in Job /\ j.doc = slot[t].doc /\ slot[t].doc \in Docs
        BY <1>4, <3>2 DEF Job, HoldsLease, Shape
      <4> HIDE DEF j, t
      <4> QED BY <1>1, <3>2, <4>1, <4>2, SlotStep
    <3>3. CASE t \notin Slots
      BY <1>1, <1>6, <3>3 DEF WorkerCrash, SlotOK
    <3> QED BY <1>6, <3>1, <3>2, <3>3 DEF WorkerCrash
  <2> QED BY <1>3, <1>6, <2>1 DEF WorkerCrash
<1>7. CASE FailJob(w)
  <2>1. SlotOK'
    <3>1. CASE slot' = slot
      BY <1>1, <3>1 DEF SlotOK
    <3>2. ASSUME t \in Slots, HoldsLease(w), NEW st \in {"dead", "pending"},
                 slot' = [slot EXCEPT ![t].st = st, ![t].holder = "none", ![t].lapsed = FALSE]
          PROVE  SlotOK'
      <4> DEFINE j == [slot[t] EXCEPT !.st = st, !.holder = "none", !.lapsed = FALSE]
      <4>1. slot' = [slot EXCEPT ![t] = j]
        BY <1>1, <3>2 DEF SlotOK
      <4>2. j \in Job /\ j.doc = slot[t].doc /\ slot[t].doc \in Docs
        BY <1>4, <3>2 DEF Job, HoldsLease, Shape
      <4> HIDE DEF j, t
      <4> QED BY <1>1, <3>2, <4>1, <4>2, SlotStep
    <3>3. CASE t \notin Slots
      BY <1>1, <1>7, <3>3 DEF FailJob, SlotOK
    <3> QED BY <1>7, <3>1, <3>2, <3>3 DEF FailJob
  <2>2. CASE Leave(w)
    BY <1>3, <1>7, <2>1, <2>2 DEF FailJob
  <2>3. CASE wpc' = [wpc EXCEPT ![w] = "onFailure"] /\ UNCHANGED <<wslot, wdoc, found, snap, unsent>>
    BY <1>7, <2>1, <2>3 DEF FailJob, Shape, SlotOK, Positions, rowVarsD, planVars
  <2> QED BY <1>7, <2>2, <2>3 DEF FailJob
<1> QED BY <1>2, <1>5, <1>6, <1>7

\* What a run inserts: one row for each finding it keeps.
LEMMA NewRowsCount ==
  ASSUME NEW w \in Workers, Kept(w) \subseteq Findings
  PROVE  /\ IsFiniteSet(NewRows(w))
         /\ Cardinality(NewRows(w)) = Cardinality(Kept(w))
         /\ OneEach(NewRows(w))
         /\ \A o \in NewRows(w) : /\ IsRow(o) /\ o.doc = wdoc[w] /\ o.finding \in Kept(w)
                                 /\ o.status = CarriedStatus(w, o.finding)
<1> DEFINE used == IdsOf(rows) \cup UNION {IdsOf(snap[v]) : v \in Workers}
           run == CHOOSE i \in 0..Cardinality(used) : i \notin used /\ \A k \in 0..(i - 1) : k \in used
           r(f) == [id |-> run, doc |-> wdoc[w], finding |-> f, status |-> CarriedStatus(w, f)]
           F == [f \in Kept(w) |-> r(f)]
<1> HIDE DEF run
<1>1. NewRows(w) = {r(f) : f \in Kept(w)}
  BY DEF NewRows, run
<1>2. F \in [Kept(w) -> NewRows(w)] /\ \A a, b \in Kept(w) : F[a] = F[b] => a = b
  BY <1>1
<1>3. \A t \in NewRows(w) : \E f \in Kept(w) : F[f] = t
  BY <1>1
<1>4. F \in Bijection(Kept(w), NewRows(w))
  BY <1>2, <1>3, Fun_IsBij
<1>5. IsFiniteSet(Kept(w))
  BY DocumentsAssumption, FS_Subset
<1>6. IsFiniteSet(NewRows(w)) /\ Cardinality(NewRows(w)) = Cardinality(Kept(w))
  BY <1>4, <1>5, FS_Bijection DEF ExistsBijection
<1>7. OneEach(NewRows(w))
  BY <1>1 DEF OneEach
<1>8. \A o \in NewRows(w) : /\ IsRow(o) /\ o.doc = wdoc[w] /\ o.finding \in Kept(w)
                             /\ o.status = CarriedStatus(w, o.finding)
  BY <1>1 DEF IsRow
<1> QED BY <1>6, <1>7, <1>8

LEMMA ShapeNext ==
  ASSUME Shape, [DocumentsNext]_documentsVars
  PROVE  Shape'
<1>1. ASSUME NEW o \in rows, NEW st \in {"approved", "rejected"}, Review(o, st) \/ ApplyVerdict(o)
      PROVE  Shape'
  <2>1. PICK u : SetStatus(o, u)
    BY <1>1 DEF Review, ApplyVerdict
  <2>2. IsRow(o) /\ IsRow([o EXCEPT !.status = u])
    BY DEF Shape, IsRow
  <2>3. IsFiniteSet(rows')
    BY <2>1, FS_Difference, FS_Singleton, FS_Union DEF SetStatus, Shape
  <2>4. \A q \in rows' : IsRow(q)
    BY <2>1, <2>2 DEF SetStatus, Shape
  <2> QED BY <1>1, <2>3, <2>4 DEF Review, ApplyVerdict, Shape, runVars, planVars
<1>2. ASSUME NEW w \in Workers, CommitRun(w) PROVE Shape'
  <2>1. found[w] \subseteq Findings /\ Kept(w) \subseteq Findings
    BY DEF Shape, Kept
  <2>2. IsFiniteSet(NewRows(w))
    BY <2>1, NewRowsCount
  <2>3. IsFiniteSet(rows')
    BY <1>2, <2>2, FS_Difference, FS_Union DEF CommitRun, Shape
  <2>4. \A q \in NewRows(w) : IsRow(q)
    BY <2>1, NewRowsCount
  <2>5. \A q \in rows' : IsRow(q)
    BY <1>2, <2>4 DEF CommitRun, Shape
  <2>6. dstate' \in [Docs -> States] /\ wpc' = [wpc EXCEPT ![w] = "complete"] /\ wpc[w] = "publish"
    BY <1>2 DEF CommitRun, At, Shape, States
  <2>7. /\ found' \in [Workers -> SUBSET Findings] /\ snap' = [v \in Workers |-> snap'[v]]
        /\ UNCHANGED <<origin, stored, slot, wdoc, unsent, planVars>>
    BY <1>2 DEF CommitRun, Forget, Shape
  <2> QED BY <2>3, <2>5, <2>6, <2>7 DEF Shape, Positions, planVars
<1>3. CASE UNCHANGED documentsVars
  BY <1>3 DEF documentsVars, rowVarsD, runVars, planVars, Shape
<1>4. ASSUME NEW w \in Workers, RunStep(w) \/ RunFails(w) PROVE Shape'
  BY <1>2, <1>4, MoveShape, JobShape DEF RunStep, RunFails
<1> QED BY <1>1, <1>3, <1>4, OutsideShape DEF DocumentsNext

-----------------------------------------------------------------------------
(* The occurrences.                                                        *)

Counts ==
  \A d \in Docs :
    /\ dstate[d] = "rejected" => RowsOf(d) = {}
    /\ dstate[d] = "processed" /\ origin[d] = "source" => Cardinality(RowsOf(d)) >= MinAds

DocumentsInv ==
  Shape /\ Snapshots /\ Announcing /\ OneEach(rows) /\ Counts /\ OccurrencesAreAnnounced

\* A step that changes no occurrence, and no document to processed or rejected.
LEMMA RowsStay ==
  ASSUME DocumentsInv, rows' = rows, detected \subseteq detected',
         \A d \in Docs : \/ dstate'[d] \notin {"rejected", "processed"}
                         \/ dstate'[d] = dstate[d] /\ origin'[d] = origin[d]
  PROVE  OneEach(rows)' /\ Counts' /\ OccurrencesAreAnnounced'
  BY DEF DocumentsInv, OneEach, Counts, RowsOf, OccurrencesAreAnnounced

\* A reviewer, or a script, decides an occurrence.
LEMMA DecideInv ==
  ASSUME DocumentsInv, NEW o \in rows, NEW u, SetStatus(o, u),
         UNCHANGED <<dstate, origin, detected, runVars>>
  PROVE  Snapshots' /\ Announcing' /\ OneEach(rows)' /\ Counts' /\ OccurrencesAreAnnounced'
<1> DEFINE p == [o EXCEPT !.status = u]
<1>1. p.id = o.id /\ p.doc = o.doc /\ p.finding = o.finding
  BY DEF DocumentsInv, Shape, IsRow
<1> HIDE DEF p
<1>2. rows' = (rows \ {o}) \cup {p}
  BY DEF SetStatus, p
<1>3. OneEach(rows)'
  BY <1>1, <1>2 DEF DocumentsInv, OneEach
<1>4. Counts'
  <2> SUFFICES ASSUME NEW d \in Docs
               PROVE  /\ RowsOf(d) = {} => RowsOf(d)' = {}
                      /\ Cardinality(RowsOf(d)') = Cardinality(RowsOf(d))
    BY DEF Counts, DocumentsInv
  <2>1. CASE o.doc # d
    BY <1>1, <1>2, <2>1 DEF RowsOf
  <2>2. CASE o.doc = d
    <3>1. o \in RowsOf(d) /\ p \notin RowsOf(d) \ {o} /\ RowsOf(d)' = (RowsOf(d) \ {o}) \cup {p}
      BY <1>1, <1>2, <2>2 DEF RowsOf, DocumentsInv, OneEach
    <3>2. IsFiniteSet(RowsOf(d))
      BY FS_Subset DEF RowsOf, DocumentsInv, Shape
    <3>3. /\ IsFiniteSet(RowsOf(d) \ {o})
          /\ Cardinality(RowsOf(d) \ {o}) = Cardinality(RowsOf(d)) - 1
      BY <3>1, <3>2, FS_RemoveElement
    <3>4. Cardinality(RowsOf(d)') = Cardinality(RowsOf(d)) - 1 + 1
      BY <3>1, <3>3, FS_AddElement
    <3> QED BY <3>1, <3>2, <3>4, FS_CardinalityType
  <2> QED BY <2>1, <2>2
<1>5. Snapshots' /\ Announcing'
  BY DEF DocumentsInv, Snapshots, Announcing, runVars, Kept, Gated
<1>6. OccurrencesAreAnnounced'
  BY <1>1, <1>2 DEF DocumentsInv, OccurrencesAreAnnounced
<1> QED BY <1>3, <1>4, <1>5, <1>6

\* A run commits: its rows take the place of those there are.
LEMMA CommitInv ==
  ASSUME DocumentsInv, NEW w \in Workers, CommitRun(w)
  PROVE  Snapshots' /\ Announcing' /\ OneEach(rows)' /\ Counts' /\ OccurrencesAreAnnounced'
<1> DEFINE d == wdoc[w]
<1> USE DEF DocumentsInv
<1>1. /\ wpc[w] = "publish" /\ wpc' = [wpc EXCEPT ![w] = "complete"] /\ unsent[w] = {}
      /\ rows' = (rows \ RowsOf(d)) \cup NewRows(w)
      /\ dstate' = [dstate EXCEPT ![d] = IF Gated(w) THEN "rejected" ELSE "processed"]
      /\ found' = [found EXCEPT ![w] = {}] /\ snap' = [snap EXCEPT ![w] = {}]
      /\ UNCHANGED <<origin, detected, wdoc, unsent>>
  BY DEF CommitRun, At, Forget
<1>2. d \in Docs /\ Kept(w) \subseteq Findings /\ found[w] \subseteq Findings
  BY <1>1 DEF Shape, Kept
<1>3. /\ Cardinality(NewRows(w)) = Cardinality(Kept(w)) /\ OneEach(NewRows(w))
      /\ \A o \in NewRows(w) : o.doc = d /\ o.finding \in Kept(w)
  BY <1>2, NewRowsCount
<1>4. \A o \in rows \ RowsOf(d) : o.doc # d
  BY DEF RowsOf
<1>5. OneEach(rows)'
  BY <1>1, <1>3, <1>4 DEF OneEach
<1>6. /\ RowsOf(d)' = NewRows(w)
      /\ \A c \in Docs : c # d => RowsOf(c)' = RowsOf(c)
  BY <1>1, <1>3, <1>4 DEF RowsOf
<1>7. Counts'
  <2>1. ASSUME NEW c \in Docs, c # d
        PROVE  dstate'[c] = dstate[c] /\ RowsOf(c)' = RowsOf(c)
    BY <1>1, <1>6, <2>1 DEF Shape
  <2>2. CASE Gated(w)
    <3>1. NewRows(w) = {} /\ dstate'[d] = "rejected"
      BY <1>1, <1>2, <1>3, <2>2 DEF Kept, Shape
    <3> QED BY <1>1, <1>2, <1>6, <2>1, <3>1 DEF Counts
  <2>3. CASE ~Gated(w)
    <3>1. dstate'[d] = "processed" /\ Cardinality(NewRows(w)) = Cardinality(found[w])
      BY <1>1, <1>2, <1>3, <2>3 DEF Kept, Shape
    <3>2. origin[d] = "source" => Cardinality(found[w]) >= MinAds
      <4>1. Cardinality(found[w]) \in Nat
        BY <1>2, DocumentsAssumption, FS_Subset, FS_CardinalityType
      <4> QED BY <2>3, <4>1, DocumentsAssumption DEF Gated
    <3> QED BY <1>1, <1>2, <1>6, <2>1, <3>1, <3>2 DEF Counts
  <2> QED BY <2>2, <2>3
<1>8. OccurrencesAreAnnounced'
  <2>1. \A f \in Kept(w) : <<d, f>> \in detected
    BY <1>1 DEF Announcing
  <2> QED BY <1>1, <1>3, <2>1 DEF OccurrencesAreAnnounced
<1>9. Snapshots'
  BY <1>1 DEF Snapshots, OneEach, Shape
<1>10. Announcing'
  <2>1. \A v \in Workers : wpc'[v] = "publish" => v # w /\ wpc[v] = "publish"
                                                  /\ found'[v] = found[v]
    BY <1>1 DEF Shape
  <2>2. \A c \in Docs : dstate'[c] = "absent" => dstate[c] = "absent"
    BY <1>1, <1>2 DEF Shape
  <2> QED BY <1>1, <2>1, <2>2 DEF Announcing, Kept, Gated
<1> QED BY <1>5, <1>7, <1>8, <1>9, <1>10

\* Steps outside of the workers.
LEMMA OutsideInv ==
  ASSUME DocumentsInv,
         \/ \E d \in Docs : EnqueueStored(d) \/ IntakeFails(d) \/ \E c \in Channels : Persist(d, c)
         \/ \E s \in Slots : Lapse(s) \/ ReviveJob(s)
         \/ Sweep \/ EtappeApply \/ \E d \in Docs : EtappeCheck(d)
  PROVE  Snapshots' /\ Announcing' /\ OneEach(rows)' /\ Counts' /\ OccurrencesAreAnnounced'
<1>1. UNCHANGED <<rows, detected, runVars>>
  BY DEF EnqueueStored, IntakeFails, Persist, Lapse, ReviveJob, Sweep, SweepEnqueue, SweepCheck,
     EtappeApply, EtappeCheck, rowVarsD
<1>2. \A d \in Docs : \/ dstate'[d] = dstate[d] /\ origin'[d] = origin[d]
                      \/ dstate'[d] = "uploaded" /\ (origin'[d] = origin[d] \/ dstate[d] = "absent")
  BY DEF EnqueueStored, IntakeFails, Persist, Lapse, ReviveJob, Sweep, SweepEnqueue, SweepCheck,
     EtappeApply, EtappeCheck, rowVarsD, DocumentsInv, Shape
<1>3. OneEach(rows)' /\ Counts' /\ OccurrencesAreAnnounced'
  <2>1. \A d \in Docs : \/ dstate'[d] \notin {"rejected", "processed"}
                       \/ (dstate'[d] = dstate[d] /\ origin'[d] = origin[d])
    BY <1>2
  <2>2. rows' = rows /\ detected \subseteq detected'
    BY <1>1
  <2> QED BY <2>1, <2>2, RowsStay
<1>4. Snapshots'
  BY <1>1 DEF DocumentsInv, Snapshots, runVars
<1>5. Announcing'
  <2>1. \A d \in Docs : dstate'[d] = "absent" => origin'[d] = "none"
    BY <1>2 DEF DocumentsInv, Announcing
  <2>2. ASSUME NEW w \in Workers, wpc[w] = "publish"
        PROVE  Kept(w)' \subseteq Kept(w)
    <3>1. wdoc[w] \in Docs /\ UNCHANGED <<wdoc, found>>
      BY <1>1, <2>2 DEF DocumentsInv, Shape, runVars
    <3>2. origin'[wdoc[w]] = origin[wdoc[w]] \/ origin[wdoc[w]] = "none"
      BY <1>2, <3>1 DEF DocumentsInv, Announcing
    <3> QED BY <3>1, <3>2 DEF Kept, Gated
  <2> QED BY <1>1, <2>1, <2>2 DEF DocumentsInv, Announcing, runVars
<1> QED BY <1>3, <1>4, <1>5

\* What a worker does short of a commit.
LEMMA WorkerInv ==
  ASSUME DocumentsInv, NEW w \in Workers, RunStep(w) \/ RunFails(w), ~CommitRun(w)
  PROVE  Snapshots' /\ Announcing' /\ OneEach(rows)' /\ Counts' /\ OccurrencesAreAnnounced'
<1> USE DEF DocumentsInv, At
<1>1. UNCHANGED <<rows, origin>> /\ detected \subseteq detected'
  BY DEF RunStep, RunFails, ReadDocument, ReadForMark, ReadForFailed, WriteState, PifAnswers,
     PifFails, LockJob, TakeSnapshot, UpsertClassification, Replace, PublishDetected, CompleteJob,
     FailJob, Claim, TransactionFails, WorkerCrash, rowVarsD
<1>2. \A d \in Docs : dstate'[d] = dstate[d] \/ dstate'[d] \in {"processing", "failed"}
  BY DEF RunStep, RunFails, ReadDocument, ReadForMark, ReadForFailed, WriteState, PifAnswers,
     PifFails, LockJob, TakeSnapshot, UpsertClassification, Replace, PublishDetected, CompleteJob,
     FailJob, Claim, TransactionFails, WorkerCrash, rowVarsD, Shape
<1>3. OneEach(rows)' /\ Counts' /\ OccurrencesAreAnnounced'
  BY <1>1, <1>2, RowsStay
<1>4. \A d \in Docs : dstate'[d] = "absent" => origin'[d] = "none"
  BY <1>1, <1>2 DEF Announcing
<1>5. \A v \in Workers : v # w => /\ wpc'[v] = wpc[v] /\ wdoc'[v] = wdoc[v] /\ found'[v] = found[v]
                                 /\ snap'[v] = snap[v] /\ unsent'[v] = unsent[v]
  BY DEF RunStep, RunFails, ReadDocument, ReadForMark, ReadForFailed, WriteState, PifAnswers,
     PifFails, LockJob, TakeSnapshot, UpsertClassification, Replace, PublishDetected, CompleteJob,
     FailJob, Claim, TransactionFails, WorkerCrash, Leave, Forget, Shape
<1>6. Announcing'
  <2>1. ASSUME wpc'[w] = "publish"
        PROVE  \A f \in Kept(w)' : <<wdoc'[w], f>> \in detected' \/ f \in unsent'[w]
    <3>1. CASE Replace(w)
      BY <3>1 DEF Replace, Kept, Gated, Shape, rowVarsD
    <3>2. CASE PublishDetected(w)
      BY <3>2 DEF PublishDetected, Announcing, Kept, Gated, Shape
    <3>3. CASE ~Replace(w) /\ ~PublishDetected(w)
      BY <2>1, <3>3 DEF RunStep, RunFails, ReadDocument, ReadForMark, ReadForFailed, WriteState,
         PifAnswers, PifFails, LockJob, TakeSnapshot, UpsertClassification, CompleteJob, FailJob,
         Claim, TransactionFails, WorkerCrash, Leave, Shape
    <3> QED BY <3>1, <3>2, <3>3
  <2>2. ASSUME NEW v \in Workers, v # w, wpc'[v] = "publish"
        PROVE  \A f \in Kept(v)' : <<wdoc'[v], f>> \in detected' \/ f \in unsent'[v]
    BY <1>1, <1>5, <2>2 DEF Announcing, Kept, Gated
  <2> QED BY <1>4, <2>1, <2>2 DEF Announcing
<1>7. Snapshots'
  <2>1. OneEach(snap'[w]) /\ (\A o \in snap'[w] : o.doc = wdoc'[w])
        /\ (wpc'[w] = "idle" => snap'[w] = {})
    <3>1. CASE TakeSnapshot(w)
      BY <3>1 DEF TakeSnapshot, RowsOf, OneEach, Shape
    <3>2. CASE snap'[w] = {}
      BY <3>2 DEF OneEach
    <3>3. CASE snap'[w] = snap[w] /\ wdoc'[w] = wdoc[w] /\ wpc'[w] # "idle"
      BY <3>3 DEF Snapshots
    <3>4. \/ TakeSnapshot(w) \/ snap'[w] = {}
          \/ snap'[w] = snap[w] /\ wdoc'[w] = wdoc[w] /\ wpc'[w] # "idle"
      BY DEF RunStep, RunFails, ReadDocument, ReadForMark, ReadForFailed, WriteState, PifAnswers,
         PifFails, LockJob, UpsertClassification, Replace, PublishDetected, CompleteJob, FailJob,
         Claim, TransactionFails, WorkerCrash, Leave, Forget, Shape, Snapshots, InTransaction
    <3> QED BY <3>1, <3>2, <3>3, <3>4
  <2> QED BY <1>5, <2>1 DEF Snapshots
<1> QED BY <1>3, <1>6, <1>7

LEMMA DocumentsInitInv == DocumentsInit => DocumentsInv
<1> SUFFICES ASSUME DocumentsInit PROVE DocumentsInv
  OBVIOUS
<1>1. Shape
  BY InitShape
<1>2. Snapshots /\ Announcing
  BY DEF DocumentsInit, Snapshots, Announcing, OneEach
<1>3. OneEach(rows) /\ Counts /\ OccurrencesAreAnnounced
  BY DEF DocumentsInit, OneEach, Counts, OccurrencesAreAnnounced
<1> QED BY <1>1, <1>2, <1>3 DEF DocumentsInv

LEMMA DocumentsNextInv == DocumentsInv /\ [DocumentsNext]_documentsVars => DocumentsInv'
<1> SUFFICES ASSUME DocumentsInv, [DocumentsNext]_documentsVars PROVE DocumentsInv'
  OBVIOUS
<1>1. Shape'
  BY ShapeNext DEF DocumentsInv
<1>2. ASSUME NEW o \in rows, NEW st \in {"approved", "rejected"}, Review(o, st) \/ ApplyVerdict(o)
      PROVE  DocumentsInv'
  BY <1>1, <1>2, DecideInv DEF Review, ApplyVerdict, DocumentsInv
<1>3. ASSUME NEW w \in Workers, RunStep(w) \/ RunFails(w) PROVE DocumentsInv'
  BY <1>1, <1>3, CommitInv, WorkerInv DEF DocumentsInv
<1>4. CASE UNCHANGED documentsVars
  BY <1>1, <1>4 DEF documentsVars, rowVarsD, runVars, DocumentsInv, Snapshots, Announcing, Kept,
     Gated, Counts, RowsOf, OccurrencesAreAnnounced
<1>5. ASSUME Snapshots' /\ Announcing' /\ OneEach(rows)' /\ Counts' /\ OccurrencesAreAnnounced'
      PROVE  DocumentsInv'
  BY <1>1, <1>5 DEF DocumentsInv
<1> QED BY <1>2, <1>3, <1>4, <1>5, OutsideInv DEF DocumentsNext

\* A document shows the findings of one run, however rival runs, lapsed leases
\* and rollbacks interleave (drizzle-repository.ts replaceProcessedDocument
\* under the row lock of module.ts lockLease).
THEOREM OneRunShows == DocumentsSpec => []FindingsOfOneRun
<1>1. DocumentsInv => FindingsOfOneRun
  BY DEF DocumentsInv, OneEach, Counts, FindingsOfOneRun
<1> QED BY <1>1, DocumentsInitInv, DocumentsNextInv, PTL DEF DocumentsSpec

\* No occurrence is committed without its event, though the event goes through
\* a connection of its own (module.ts, the publication inside the transaction).
THEOREM RowsAnnounced == DocumentsSpec => []OccurrencesAreAnnounced
<1>1. DocumentsInv => OccurrencesAreAnnounced
  BY DEF DocumentsInv
<1> QED BY <1>1, DocumentsInitInv, DocumentsNextInv, PTL DEF DocumentsSpec

\* A step changes the decision about a finding by a reviewer, a script, or by
\* a run that could not have read it.
LEMMA DecisionStep ==
  ASSUME DocumentsInv, DocumentsNext, NEW o \in rows, NEW p \in rows',
         o.doc = p.doc, o.finding = p.finding, o.id # p.id, o.status # p.status
  PROVE  \E w \in Workers : wdoc[w] = o.doc /\ wpc[w] = "publish" /\ o \notin snap[w]
<1>1. p \notin rows
  BY DEF DocumentsInv, OneEach
<1>2. ~\E q \in rows, u \in Statuses : SetStatus(q, u)
  <2> SUFFICES ASSUME NEW q \in rows, NEW u \in Statuses, SetStatus(q, u) PROVE FALSE
    OBVIOUS
  <2>1. p = [q EXCEPT !.status = u]
    BY <1>1 DEF SetStatus
  <2>2. p.doc = q.doc /\ p.finding = q.finding /\ p.id = q.id
    BY <2>1 DEF DocumentsInv, Shape, IsRow
  <2> QED BY <2>2 DEF DocumentsInv, OneEach
<1>3. PICK w \in Workers : CommitRun(w)
  <2>1. ~\E q \in rows : ApplyVerdict(q) \/ \E st \in {"approved", "rejected"} : Review(q, st)
    BY <1>2 DEF ApplyVerdict, Review, Statuses
  <2>2. rows' # rows
    BY <1>1
  <2> QED BY <2>1, <2>2
       DEF DocumentsNext, RunStep, RunFails, EnqueueStored, IntakeFails, Persist, Lapse, ReviveJob,
           Sweep, SweepEnqueue, SweepCheck, EtappeApply, EtappeCheck, ReadDocument, ReadForMark,
           ReadForFailed, WriteState, PifAnswers, PifFails, LockJob, TakeSnapshot,
           UpsertClassification, Replace, PublishDetected, CompleteJob, FailJob, Claim,
           TransactionFails, WorkerCrash, rowVarsD
<1>4. wpc[w] = "publish" /\ p \in NewRows(w) /\ Kept(w) \subseteq Findings
  BY <1>1, <1>3 DEF CommitRun, At, DocumentsInv, Shape, Kept
<1>5. p.doc = wdoc[w] /\ p.status = CarriedStatus(w, p.finding)
  BY <1>4, NewRowsCount
<1>6. ASSUME o \in snap[w] PROVE FALSE
  <2>1. \A q \in snap[w] : q.finding = o.finding => q = o
    BY <1>6 DEF DocumentsInv, Snapshots, OneEach
  <2>2. (CHOOSE q \in snap[w] : q.finding = o.finding) = o
    BY <1>6, <2>1
  <2> QED BY <1>5, <1>6, <2>2 DEF CarriedStatus
<1> QED BY <1>4, <1>5, <1>6

\* A new run keeps the decisions it could have read (module.ts
\* ingestion.processing.run, the statuses carried over by fingerprint).
THEOREM DecisionsKept == DocumentsSpec => DecisionsSurvive
<1>1. DocumentsInv /\ [DocumentsNext]_documentsVars =>
        [\A o \in rows, p \in rows' :
           o.doc = p.doc /\ o.finding = p.finding /\ o.id # p.id /\ o.status # p.status
             => \E w \in Workers : wdoc[w] = o.doc /\ wpc[w] = "publish"
                                   /\ o \notin snap[w]]_documentsVars
  BY DecisionStep
<1> QED BY <1>1, DocumentsInitInv, DocumentsNextInv, PTL DEF DocumentsSpec, DecisionsSurvive

-----------------------------------------------------------------------------
(* The kinds of a document's variables.                                    *)

\* A set of natural numbers has a least element.
LEMMA LeastNatural ==
  ASSUME NEW S \in SUBSET Nat, S # {}
  PROVE  \E m \in S : \A k \in S : m <= k
<1> DEFINE R == OpToRel(<, Nat)
<1>1. IsWellFoundedOn(R, Nat)
  BY NatLessThanWellFounded
<1>2. \A x, y \in Nat : x < y => <<x, y>> \in R
  BY DEF OpToRel
<1> HIDE DEF R
<1>3. PICK m \in S : \A k \in S : ~(<<k, m>> \in R)
  BY <1>1, WFMin
<1>4. \A k \in S : ~(k < m)
  <2> SUFFICES ASSUME NEW k \in S, k < m PROVE FALSE
    OBVIOUS
  <2>1. <<k, m>> \in R
    BY <1>2
  <2> QED BY <1>3, <2>1
<1> QED BY <1>4

\* The values of a function on a finite set.
LEMMA ImageIsFinite ==
  ASSUME NEW S, IsFiniteSet(S), NEW f, f = [x \in S |-> f[x]]
  PROVE  IsFiniteSet({f[x] : x \in S})
<1> DEFINE T == {f[x] : x \in S}
<1>1. f \in Surjection(S, T)
  BY Fun_IsSurj
<1> QED BY <1>1, FS_Surjection

RecordKinds ==
  /\ rows \subseteq Row
  /\ classified \subseteq Docs /\ detected \subseteq Docs \X Findings
  /\ wslot \in [Workers -> Slots \cup {"none"}]
  /\ \A w \in Workers : snap[w] \subseteq Row /\ IsFiniteSet(snap[w])
  /\ unclassified \subseteq Workers /\ etapped \subseteq Docs
  /\ mishaps \in 0..MaxMishaps

\* There is a new id: among as many and one numbers, one that is not in use.
LEMMA NewIdIsNumber ==
  ASSUME Shape, RecordKinds, NEW w \in Workers
  PROVE  \A o \in NewRows(w) : o.id \in Nat
<1> DEFINE idsOf == [v \in Workers |-> IdsOf(snap[v])]
           used == IdsOf(rows) \cup UNION {IdsOf(snap[v]) : v \in Workers}
           n == Cardinality(used)
           run == CHOOSE i \in 0..Cardinality(used) : i \notin used /\ \A k \in 0..(i - 1) : k \in used
<1>1. ASSUME NEW R, R \subseteq Row, IsFiniteSet(R) PROVE IsFiniteSet(IdsOf(R)) /\ IdsOf(R) \subseteq Nat
  <2> DEFINE f == [o \in R |-> o.id]
  <2>1. IsFiniteSet({f[o] : o \in R})
    BY <1>1, ImageIsFinite
  <2>2. {f[o] : o \in R} = IdsOf(R)
    BY DEF IdsOf
  <2> QED BY <1>1, <2>1, <2>2 DEF IdsOf, Row
<1>2. IsFiniteSet(used) /\ used \subseteq Nat
  <2>1. IsFiniteSet({idsOf[v] : v \in Workers})
    BY ImageIsFinite, DocumentsAssumption
  <2>2. {idsOf[v] : v \in Workers} = {IdsOf(snap[v]) : v \in Workers}
    OBVIOUS
  <2>3. \A v \in Workers : IsFiniteSet(IdsOf(snap[v])) /\ IdsOf(snap[v]) \subseteq Nat
    BY <1>1 DEF RecordKinds
  <2>4. IsFiniteSet(UNION {IdsOf(snap[v]) : v \in Workers})
    BY <2>1, <2>2, <2>3, FS_UNION
  <2>5. IsFiniteSet(IdsOf(rows)) /\ IdsOf(rows) \subseteq Nat
    BY <1>1 DEF RecordKinds, Shape
  <2> QED BY <2>3, <2>4, <2>5, FS_Union
<1> HIDE DEF used
<1>3. n \in Nat
  BY <1>2, FS_CardinalityType
<1>4. (0..n) \ used # {}
  <2> SUFFICES ASSUME 0..n \subseteq used PROVE FALSE
    OBVIOUS
  <2>1. Cardinality(0..n) <= n
    BY <1>2, FS_Subset
  <2>2. Cardinality(0..n) = n + 1
    BY <1>3, FS_Interval
  <2> QED BY <1>3, <2>1, <2>2
<1>5. PICK m \in (0..n) \ used : \A k \in (0..n) \ used : m <= k
  <2>1. (0..n) \ used \in SUBSET Nat
    BY <1>3
  <2> QED BY <1>4, <2>1, LeastNatural
<1>6. \A k \in 0..(m - 1) : k \in used
  BY <1>3, <1>5
<1>7. run \in 0..n
  BY <1>5, <1>6
<1>8. \A o \in NewRows(w) : o.id = run
  BY DEF NewRows, used
<1> HIDE DEF run, n
<1> QED BY <1>3, <1>7, <1>8

LEMMA MishapBound ==
  ASSUME mishaps \in 0..MaxMishaps, Mishap \/ UNCHANGED mishaps
  PROVE  mishaps' \in 0..MaxMishaps
BY DocumentsAssumption DEF Mishap

\* A run's rows and snapshots are rows.
LEMMA RunKinds ==
  ASSUME DocumentsInv, RecordKinds, NEW w \in Workers, RunStep(w) \/ RunFails(w)
  PROVE  RecordKinds'
<1> USE DEF RecordKinds
<1>1. mishaps' \in 0..MaxMishaps
  BY MishapBound
     DEF RunStep, RunFails, ReadDocument, ReadForMark, ReadForFailed, WriteState, PifAnswers,
         PifFails, LockJob, TakeSnapshot, UpsertClassification, Replace, PublishDetected, CommitRun,
         CompleteJob, FailJob, Claim, TransactionFails, WorkerCrash
<1>2. ASSUME Forget(w) PROVE (\A v \in Workers : snap'[v] \subseteq Row /\ IsFiniteSet(snap'[v]))
                             /\ unclassified' \subseteq Workers
  BY <1>2, FS_EmptySet DEF Forget, DocumentsInv, Shape
<1>3. CASE ReadDocument(w) \/ ReadForMark(w) \/ ReadForFailed(w) \/ WriteState(w) \/ PifAnswers(w)
           \/ PifFails(w) \/ LockJob(w) \/ Replace(w)
  BY <1>1, <1>3 DEF ReadDocument, ReadForMark, ReadForFailed, WriteState, PifAnswers, PifFails,
     LockJob, Replace, rowVarsD, planVars
<1>4. CASE TakeSnapshot(w)
  <2>1. RowsOf(wdoc[w]) \subseteq Row /\ IsFiniteSet(RowsOf(wdoc[w]))
    BY FS_Subset DEF RowsOf, DocumentsInv, Shape
  <2>2. \A v \in Workers : snap'[v] \subseteq Row /\ IsFiniteSet(snap'[v])
    BY <1>4, <2>1 DEF TakeSnapshot, DocumentsInv, Shape
  <2> QED BY <1>1, <1>4, <2>2 DEF TakeSnapshot, rowVarsD, planVars
<1>5. CASE UpsertClassification(w) \/ TransactionFails(w)
  BY <1>1, <1>2, <1>5 DEF UpsertClassification, TransactionFails, rowVarsD, planVars
<1>6. CASE PublishDetected(w)
  <2>1. wdoc[w] \in Docs /\ unsent[w] \subseteq Findings
    BY <1>6 DEF PublishDetected, DocumentsInv, Shape
  <2> QED BY <1>1, <1>6, <2>1 DEF PublishDetected, planVars
<1>7. CASE CommitRun(w)
  <2>1. wdoc[w] \in Docs /\ Kept(w) \subseteq Findings
    BY <1>7 DEF CommitRun, At, DocumentsInv, Shape, Kept
  <2>2. \A f \in Findings : CarriedStatus(w, f) \in Statuses
    <3> SUFFICES ASSUME NEW f \in Findings, \E o \in snap[w] : o.finding = f
                 PROVE  (CHOOSE o \in snap[w] : o.finding = f).status \in Statuses
      BY DEF CarriedStatus, Statuses
    <3>1. (CHOOSE o \in snap[w] : o.finding = f) \in Row
      OBVIOUS
    <3> QED BY <3>1 DEF Row
  <2>3. NewRows(w) \subseteq Row
    <3> SUFFICES ASSUME NEW o \in NewRows(w) PROVE o \in Row
      OBVIOUS
    <3>1. o.id \in Nat
      BY NewIdIsNumber DEF DocumentsInv
    <3>2. IsRow(o) /\ o.doc = wdoc[w] /\ o.finding \in Kept(w) /\ o.status = CarriedStatus(w, o.finding)
      BY <2>1, NewRowsCount
    <3> QED BY <2>1, <2>2, <3>1, <3>2 DEF IsRow, Row
  <2> QED BY <1>1, <1>2, <1>7, <2>1, <2>3 DEF CommitRun, planVars
<1>8. CASE CompleteJob(w) \/ FailJob(w) \/ WorkerCrash(w) \/ \E s \in Slots : Claim(w, s)
  BY <1>1, <1>2, <1>8 DEF CompleteJob, FailJob, WorkerCrash, Claim, Leave, rowVarsD, planVars
<1> QED BY <1>3, <1>4, <1>5, <1>6, <1>7, <1>8 DEF RunStep, RunFails

LEMMA RecordKindsNext ==
  ASSUME DocumentsInv, RecordKinds, [DocumentsNext]_documentsVars
  PROVE  RecordKinds'
<1>1. ASSUME NEW o \in rows, NEW st \in {"approved", "rejected"}, Review(o, st) \/ ApplyVerdict(o)
      PROVE  RecordKinds'
  <2>1. PICK u \in Statuses : SetStatus(o, u)
    BY <1>1 DEF Review, ApplyVerdict, Statuses
  <2>2. [o EXCEPT !.status = u] \in Row
    BY DEF RecordKinds, Row
  <2>3. rows' \subseteq Row
    BY <2>1, <2>2 DEF SetStatus, RecordKinds
  <2> QED BY <1>1, <2>3 DEF Review, ApplyVerdict, RecordKinds, runVars, planVars
<1>2. CASE \/ \E d \in Docs : EnqueueStored(d) \/ IntakeFails(d) \/ \E c \in Channels : Persist(d, c)
           \/ \E s \in Slots : Lapse(s) \/ ReviveJob(s)
           \/ Sweep \/ EtappeApply \/ \E d \in Docs : EtappeCheck(d)
           \/ UNCHANGED documentsVars
  <2>1. mishaps' \in 0..MaxMishaps
    BY <1>2, MishapBound
       DEF EnqueueStored, IntakeFails, Persist, Lapse, ReviveJob, Sweep, SweepEnqueue, SweepCheck,
           EtappeApply, EtappeCheck, RecordKinds, documentsVars
  <2>2. UNCHANGED <<rows, classified, detected, runVars>>
    BY <1>2 DEF EnqueueStored, IntakeFails, Persist, Lapse, ReviveJob, Sweep, SweepEnqueue, SweepCheck,
       EtappeApply, EtappeCheck, documentsVars, rowVarsD
  <2>3. etapped' \subseteq Docs
    BY <1>2 DEF EnqueueStored, IntakeFails, Persist, Lapse, ReviveJob, Sweep, SweepEnqueue, SweepCheck,
       EtappeApply, EtappeCheck, RecordKinds, DocumentsInv, Shape, documentsVars, planVars
  <2> QED BY <2>1, <2>2, <2>3 DEF RecordKinds, runVars
<1> QED BY <1>1, <1>2, RunKinds DEF DocumentsNext

DocumentsKinds == DocumentsInv /\ RecordKinds

LEMMA DocumentsInitKinds == DocumentsInit => DocumentsKinds
<1> SUFFICES ASSUME DocumentsInit PROVE DocumentsKinds
  OBVIOUS
<1>1. 0 \in 0..MaxMishaps
  BY DocumentsAssumption
<1> QED BY <1>1, DocumentsInitInv, FS_EmptySet DEF DocumentsInit, DocumentsKinds, RecordKinds

LEMMA DocumentsKindsNext == DocumentsKinds /\ [DocumentsNext]_documentsVars => DocumentsKinds'
BY DocumentsNextInv, RecordKindsNext DEF DocumentsKinds

LEMMA DocumentsTypes == DocumentsKinds => DocumentsTypeOK
BY DEF DocumentsKinds, DocumentsInv, Shape, RecordKinds, DocumentsTypeOK, Positions, InTransaction
-----------------------------------------------------------------------------
(* Intake.                                                                 *)

\* Whoever has stored the row is the one to enqueue its job, and nobody else
\* is about to.
OneEnqueues ==
  /\ ~known => firstJobs = 0 /\ upload # "enqueue" /\ place \notin {"erfolgreich", "bereits-vorhanden"}
  /\ \A p \in Scanners :
       /\ scan[p] \in {"enqueue", "moveNew", "moveKnown"} => known
       /\ scan[p] = "enqueue" =>
            firstJobs = 0 /\ upload # "enqueue" /\ \A q \in Scanners : scan[q] = "enqueue" => q = p
       /\ scan[p] = "moveNew" => firstJobs = 1
  /\ upload = "enqueue" => firstJobs = 0

IntakeInv == IntakeTypeOK /\ OneEnqueues /\ TakenInOnce

LEMMA IntakeInitInv == IntakeInit => IntakeInv
<1> SUFFICES ASSUME IntakeInit PROVE IntakeInv
  OBVIOUS
<1>1. IntakeTypeOK
  <2>1. 0 \in 0..2 /\ 1 \in 1..2 /\ 0 \in 0..MaxCrashes
    BY IntakeAssumption
  <2> QED BY <2>1 DEF IntakeInit, IntakeTypeOK, Places
<1>2. OneEnqueues
  BY DEF IntakeInit, OneEnqueues
<1>3. TakenInOnce
  BY DEF IntakeInit, TakenInOnce
<1> QED BY <1>1, <1>2, <1>3 DEF IntakeInv

\* What a scanner does.
LEMMA ScannerStepInv ==
  ASSUME IntakeInv, NEW p \in Scanners, ScanStep(p) \/ ScannerCrash(p) \/ StatementFails(p)
  PROVE  IntakeInv'
<1> USE IntakeAssumption DEF IntakeInv, ScanTo
<1>1. CASE Observe(p)
  <2> USE <1>1 DEF Observe
  <2>1. IntakeTypeOK'
    BY DEF IntakeTypeOK
  <2> QED BY <2>1 DEF OneEnqueues, TakenInOnce
<1>2. CASE ReadFile(p)
  <2> USE <1>2 DEF ReadFile
  <2>1. IntakeTypeOK'
    BY DEF IntakeTypeOK
  <2>2. OneEnqueues'
    BY DEF IntakeTypeOK, OneEnqueues
  <2> QED BY <2>1, <2>2 DEF TakenInOnce
<1>3. CASE StoreFile(p)
  <2> USE <1>3 DEF StoreFile
  <2>1. IntakeTypeOK'
    BY DEF IntakeTypeOK
  <2>2. OneEnqueues'
    BY DEF IntakeTypeOK, OneEnqueues
  <2> QED BY <2>1, <2>2 DEF TakenInOnce
<1>4. CASE EnqueueFile(p)
  <2> USE <1>4 DEF EnqueueFile
  <2>1. IntakeTypeOK'
    BY DEF IntakeTypeOK
  <2>2. firstJobs' = 1
    BY DEF OneEnqueues
  <2>3. OneEnqueues'
    BY <2>2 DEF IntakeTypeOK, OneEnqueues
  <2> QED BY <2>1, <2>2, <2>3 DEF OneEnqueues, TakenInOnce
<1>5. CASE MoveFile(p)
  <2> USE <1>5 DEF MoveFile
  <2>1. IntakeTypeOK'
    BY DEF IntakeTypeOK, Places
  <2>2. OneEnqueues'
    BY DEF IntakeTypeOK, OneEnqueues
  <2> QED BY <2>1, <2>2 DEF OneEnqueues, TakenInOnce
<1>6. CASE ScannerCrash(p)
  <2> USE <1>6 DEF ScannerCrash
  <2>1. IntakeTypeOK'
    BY DEF IntakeTypeOK
  <2>2. OneEnqueues'
    BY DEF IntakeTypeOK, OneEnqueues
  <2> QED BY <2>1, <2>2 DEF TakenInOnce
<1>7. CASE StatementFails(p)
  <2> USE <1>7 DEF StatementFails
  <2>1. IntakeTypeOK'
    BY DEF IntakeTypeOK
  <2>2. OneEnqueues'
    BY DEF IntakeTypeOK, OneEnqueues
  <2> QED BY <2>1, <2>2 DEF TakenInOnce
<1> QED BY <1>1, <1>2, <1>3, <1>4, <1>5, <1>6, <1>7 DEF ScanStep

\* What the writer of the file and the upload do.
LEMMA OtherStepInv ==
  ASSUME IntakeInv, WriterEnds \/ Upload \/ UploadEnqueues
  PROVE  IntakeInv'
<1> USE DEF IntakeInv
<1>1. IntakeTypeOK'
  <2>1. CASE WriterEnds
    BY <2>1 DEF WriterEnds, IntakeTypeOK
  <2>2. CASE Upload
    BY <2>2 DEF Upload, IntakeTypeOK
  <2>3. CASE UploadEnqueues
    BY <2>3 DEF UploadEnqueues, IntakeTypeOK
  <2> QED BY <2>1, <2>2, <2>3
<1>2. OneEnqueues'
  BY DEF WriterEnds, Upload, UploadEnqueues, OneEnqueues, IntakeTypeOK
<1>3. TakenInOnce'
  BY DEF WriterEnds, Upload, UploadEnqueues, OneEnqueues, TakenInOnce
<1> QED BY <1>1, <1>2, <1>3

LEMMA IntakeNextInv == IntakeInv /\ [IntakeNext]_intakeVars => IntakeInv'
<1>1. ASSUME IntakeInv, UNCHANGED intakeVars PROVE IntakeInv'
  BY <1>1 DEF intakeVars, IntakeInv, IntakeTypeOK, OneEnqueues, TakenInOnce
<1> QED BY <1>1, ScannerStepInv, OtherStepInv DEF IntakeNext

\* A document gets one job from its intake at most, and no file is put aside as
\* taken in without it, however many processes scan (module.ts
\* scanWatchFolder, rest.ts handleUpload).
THEOREM IntakeOnce == IntakeSpec => []TakenInOnce
<1>1. IntakeInv => TakenInOnce
  BY DEF IntakeInv
<1> QED BY <1>1, IntakeInitInv, IntakeNextInv, PTL DEF IntakeSpec

-----------------------------------------------------------------------------
(* Areas.                                                                  *)

\* The municipalities a search with this offset has behind it at its end are
\* those before the offset and those selected.
LEMMA SelectedFollow ==
  ASSUME NEW n \in 0..Municipalities
  PROVE  /\ n + Cardinality(Selected(n)) \in 0..Municipalities
         /\ 1..(n + Cardinality(Selected(n))) \subseteq (1..n) \cup Selected(n)
<1> DEFINE last == IF n + SeedLimit > Municipalities THEN Municipalities ELSE n + SeedLimit
<1>1. last \in Int /\ n \in Int /\ n <= last /\ last <= Municipalities
  BY AreasAssumption
<1>2. Selected(n) = (n + 1)..last
  BY AreasAssumption, <1>1 DEF Selected
<1>3. Cardinality(Selected(n)) = last - n
  <2>1. n + 1 \in Int
    BY <1>1
  <2> HIDE DEF last
  <2>2. Cardinality((n + 1)..last) = IF n + 1 > last THEN 0 ELSE last - (n + 1) + 1
    BY <1>1, <2>1, FS_Interval
  <2> QED BY <1>1, <1>2, <2>2
<1> QED BY <1>1, <1>2, <1>3

\* What a run has listed lies behind it too, however old it is.
CopiesAreBehind ==
  \A r \in AreaRuns, a \in AreaIds : 1..acopy[r][a].offset \subseteq asked[a]

AreasInv == AreasTypeOK /\ CopiesAreBehind /\ NoMunicipalitySkipped

LEMMA AreasInitInv == AreasInit => AreasInv
<1> SUFFICES ASSUME AreasInit PROVE AreasInv
  OBVIOUS
<1>1. AreasTypeOK
  BY AreasAssumption DEF AreasInit, AreasTypeOK, Area, Null, NoCopies
<1>2. CopiesAreBehind /\ NoMunicipalitySkipped
  BY DEF AreasInit, NoCopies, CopiesAreBehind, NoMunicipalitySkipped
<1> QED BY <1>1, <1>2 DEF AreasInv

\* A run lists areas.
LEMMA ListAreasInv ==
  ASSUME AreasInv, NEW r \in AreaRuns, NEW S \in SUBSET AreaIds, ListAreas(r, S),
         areaJobs' \in 0..2, requests' \in 0..MaxRequests
  PROVE  AreasInv'
<1> USE DEF AreasInv, ListAreas
<1>1. acopy' \in [AreaRuns -> [AreaIds -> [offset : 0..Municipalities, tries : 0..GiveUpAfter]]]
  <2>1. \A a \in AreaIds : area[a] \in Area
    BY DEF AreasTypeOK
  <2> QED BY <2>1, AreasAssumption DEF AreasTypeOK, Area, NoCopies
<1>2. AreasTypeOK'
  BY <1>1 DEF AreasTypeOK
<1>3. CopiesAreBehind'
  BY DEF AreasTypeOK, CopiesAreBehind, NoMunicipalitySkipped, NoCopies
<1>4. NoMunicipalitySkipped'
  BY DEF NoMunicipalitySkipped
<1> QED BY <1>2, <1>3, <1>4

\* The search of an area ends: its row is written from the copy, and what the
\* copy had selected is asked by then.
LEMMA FinishAreaInv ==
  ASSUME AreasInv, NEW r \in AreaRuns, NEW complete \in BOOLEAN, FinishArea(r, complete)
  PROVE  AreasInv'
<1> DEFINE a == Least(todo[r])
           c == acopy[r][a]
           onward == complete \/ c.tries + 1 >= GiveUpAfter
<1> USE AreasAssumption DEF AreasInv
<1>1. CASE a \notin AreaIds
  <2>1. area' = area /\ asked' = asked
    BY <1>1 DEF FinishArea, AreasTypeOK
  <2>2. acopy' = acopy
    BY <1>1 DEF FinishArea, LeaveArea, AreasTypeOK
  <2>3. AreasTypeOK'
    BY <2>1, <2>2 DEF FinishArea, LeaveArea, AreasTypeOK
  <2> QED BY <2>1, <2>2, <2>3 DEF CopiesAreBehind, NoMunicipalitySkipped
<1>2. CASE a \in AreaIds
  <2>1. c.offset \in 0..Municipalities /\ c.tries \in 0..GiveUpAfter
    BY <1>2 DEF AreasTypeOK
  <2>2. /\ c.offset + Cardinality(Selected(c.offset)) \in 0..Municipalities
        /\ 1..(c.offset + Cardinality(Selected(c.offset)))
             \subseteq (1..c.offset) \cup Selected(c.offset)
    BY <2>1, SelectedFollow
  <2>3. 1..c.offset \subseteq asked[a]
    BY <1>2 DEF CopiesAreBehind
  <2>4. asked' = [asked EXCEPT ![a] = IF onward THEN @ \cup Selected(c.offset) ELSE @]
    BY <1>2 DEF FinishArea, AreasTypeOK
  <2>5. \A b \in AreaIds : asked[b] \subseteq asked'[b]
    BY <1>2, <2>4 DEF AreasTypeOK
  <2>6. area'[a].offset = IF onward THEN c.offset + Cardinality(Selected(c.offset))
                          ELSE area[a].offset
    BY <1>2 DEF FinishArea, AreasTypeOK, Area
  <2>7. \A b \in AreaIds : b # a => area'[b] = area[b]
    BY <1>2 DEF FinishArea, AreasTypeOK
  <2>8. area' \in [AreaIds -> Area]
    <3>1. area[a] \in Area
      BY <1>2 DEF AreasTypeOK
    <3>2. area'[a].status = "done" /\ area'[a].started = Null
      BY <1>2, <3>1 DEF FinishArea, AreasTypeOK, Area
    <3>3. area'[a].tries \in 0..GiveUpAfter
      BY <1>2, <2>1, <3>1 DEF FinishArea, AreasTypeOK, Area
    <3>4. area'[a].due \in Null..HalfYear
      BY <1>2, <3>1 DEF FinishArea, AreasTypeOK, Area, Null
    <3>5. area'[a].offset \in 0..Municipalities
      BY <2>2, <2>6, <3>1 DEF Area
    <3>6. area'[a] = [status |-> area'[a].status, due |-> area'[a].due, started |-> area'[a].started,
                      offset |-> area'[a].offset, tries |-> area'[a].tries]
      BY <1>2, <3>1 DEF FinishArea, AreasTypeOK, Area
    <3>7. area'[a] \in Area
      BY <3>2, <3>3, <3>4, <3>5, <3>6 DEF Area, Null
    <3> QED BY <2>7, <3>7 DEF FinishArea, AreasTypeOK
  <2>9. AreasTypeOK'
    <3>1. asked' \in [AreaIds -> SUBSET (1..Municipalities)]
      BY <2>4 DEF AreasTypeOK, Selected
    <3>2. acopy' \in [AreaRuns -> [AreaIds -> [offset : 0..Municipalities, tries : 0..GiveUpAfter]]]
      BY <1>2 DEF FinishArea, LeaveArea, AreasTypeOK, NoCopies
    <3>3. todo' \in [AreaRuns -> SUBSET AreaIds] /\ apc' \in [AreaRuns -> {"idle", "mark", "search"}]
      BY DEF FinishArea, LeaveArea, AreasTypeOK
    <3> QED BY <2>8, <3>1, <3>2, <3>3 DEF FinishArea, AreasTypeOK
  <2>10. CopiesAreBehind'
    <3>1. \A q \in AreaRuns, b \in AreaIds :
            acopy'[q][b] = acopy[q][b] \/ acopy'[q][b].offset = 0
      BY <1>2 DEF FinishArea, LeaveArea, AreasTypeOK, NoCopies
    <3> QED BY <2>5, <3>1 DEF CopiesAreBehind
  <2>11. NoMunicipalitySkipped'
    <3>1. 1..area'[a].offset \subseteq asked'[a]
      BY <1>2, <2>2, <2>3, <2>4, <2>6 DEF AreasTypeOK, NoMunicipalitySkipped
    <3> QED BY <2>5, <2>7, <3>1 DEF NoMunicipalitySkipped
  <2> QED BY <2>9, <2>10, <2>11
<1> QED BY <1>1, <1>2

\* Changing the status and the start of an area leaves its offset alone.
LEMMA StatusChange ==
  ASSUME NEW v \in Area, NEW s \in {"pending", "running", "done"}, NEW d \in Null..StaleAfter
  PROVE  /\ [v EXCEPT !.status = s, !.started = d] \in Area
         /\ [v EXCEPT !.status = s, !.started = d].offset = v.offset
  BY DEF Area

\* A step that neither asks a municipality nor moves an offset nor lists areas.
LEMMA OffsetsStay ==
  ASSUME AreasInv, asked' = asked,
         area' \in [AreaIds -> Area], \A b \in AreaIds : area'[b].offset = area[b].offset,
         acopy' \in [AreaRuns -> [AreaIds -> [offset : 0..Municipalities, tries : 0..GiveUpAfter]]],
         \A q \in AreaRuns, b \in AreaIds : acopy'[q][b] = acopy[q][b] \/ acopy'[q][b].offset = 0,
         todo' \in [AreaRuns -> SUBSET AreaIds], apc' \in [AreaRuns -> {"idle", "mark", "search"}],
         areaJobs' \in 0..2, requests' \in 0..MaxRequests, areaFaults' \in 0..MaxAreaFaults
  PROVE  AreasInv'
<1> USE DEF AreasInv
<1>1. AreasTypeOK'
  BY DEF AreasTypeOK
<1>2. CopiesAreBehind'
  <2> SUFFICES ASSUME NEW q \in AreaRuns, NEW b \in AreaIds
               PROVE  1..acopy'[q][b].offset \subseteq asked[b]
    BY DEF CopiesAreBehind
  <2>1. CASE acopy'[q][b] = acopy[q][b]
    BY <2>1 DEF CopiesAreBehind
  <2>2. CASE acopy'[q][b].offset = 0
    BY <2>2
  <2> QED BY <2>1, <2>2
<1>3. NoMunicipalitySkipped'
  BY DEF NoMunicipalitySkipped
<1> QED BY <1>1, <1>2, <1>3

\* A run marks an area, fails on it or dies.
LEMMA RunStepInv ==
  ASSUME AreasInv, NEW r \in AreaRuns, MarkRunning(r) \/ AreaThrows(r) \/ AreaRunCrash(r)
  PROVE  AreasInv'
<1> DEFINE a == Least(todo[r])
<1> USE AreasAssumption
<1>1. AreasTypeOK /\ (\A b \in AreaIds : area[b] \in Area)
  BY DEF AreasInv, AreasTypeOK
<1>2. CASE MarkRunning(r)
  <2>1. 0 \in Null..StaleAfter
    BY DEF Null
  <2>2. \A b \in AreaIds :
          area'[b] = IF b = a THEN [area[b] EXCEPT !.status = "running", !.started = 0] ELSE area[b]
    BY <1>1, <1>2 DEF MarkRunning, AreasTypeOK
  <2>3. \A b \in AreaIds : area'[b] \in Area /\ area'[b].offset = area[b].offset
    <3> SUFFICES ASSUME NEW b \in AreaIds
                 PROVE  area'[b] \in Area /\ area'[b].offset = area[b].offset
      OBVIOUS
    <3>1. CASE b = a
      <4>1. area[b] \in Area /\ area'[b] = [area[b] EXCEPT !.status = "running", !.started = 0]
        BY <1>1, <2>2, <3>1
      <4>2. /\ [area[b] EXCEPT !.status = "running", !.started = 0] \in Area
            /\ [area[b] EXCEPT !.status = "running", !.started = 0].offset = area[b].offset
        BY <2>1, <4>1, StatusChange
      <4> QED BY <4>1, <4>2
    <3> QED BY <1>1, <2>2, <3>1
  <2>4. area' \in [AreaIds -> Area]
    BY <1>1, <1>2, <2>3 DEF MarkRunning, AreasTypeOK
  <2> QED BY <1>1, <1>2, <2>3, <2>4, OffsetsStay DEF MarkRunning, AreasTypeOK
<1>3. CASE AreaThrows(r)
  <2>1. Null \in Null..StaleAfter
    BY DEF Null
  <2>2. \A b \in AreaIds :
          area'[b] = IF b = a THEN [area[b] EXCEPT !.status = "pending", !.started = Null] ELSE area[b]
    BY <1>1, <1>3 DEF AreaThrows, AreasTypeOK
  <2>3. \A b \in AreaIds : area'[b] \in Area /\ area'[b].offset = area[b].offset
    <3> SUFFICES ASSUME NEW b \in AreaIds
                 PROVE  area'[b] \in Area /\ area'[b].offset = area[b].offset
      OBVIOUS
    <3>1. CASE b = a
      <4>1. area[b] \in Area /\ area'[b] = [area[b] EXCEPT !.status = "pending", !.started = Null]
        BY <1>1, <2>2, <3>1
      <4>2. /\ [area[b] EXCEPT !.status = "pending", !.started = Null] \in Area
            /\ [area[b] EXCEPT !.status = "pending", !.started = Null].offset = area[b].offset
        BY <2>1, <4>1, StatusChange
      <4> QED BY <4>1, <4>2
    <3> QED BY <1>1, <2>2, <3>1
  <2>4. area' \in [AreaIds -> Area]
    BY <1>1, <1>3, <2>3 DEF AreaThrows, AreasTypeOK
  <2>5. /\ acopy' \in [AreaRuns -> [AreaIds -> [offset : 0..Municipalities, tries : 0..GiveUpAfter]]]
        /\ \A q \in AreaRuns, b \in AreaIds :
             acopy'[q][b] = acopy[q][b] \/ acopy'[q][b].offset = 0
    <3>1. acopy' = [acopy EXCEPT ![r] = [acopy[r] EXCEPT ![a] = NoCopies[a]]]
      BY <1>1, <1>3 DEF AreaThrows, LeaveArea, AreasTypeOK
    <3>2. \A b \in AreaIds : NoCopies[b] = [offset |-> 0, tries |-> 0]
      BY DEF NoCopies
    <3> HIDE DEF a
    <3>3. \A q \in AreaRuns, b \in AreaIds :
            acopy'[q][b] = IF q = r /\ b = a THEN [offset |-> 0, tries |-> 0] ELSE acopy[q][b]
      BY <1>1, <3>1, <3>2 DEF AreasTypeOK
    <3>4. \A q \in AreaRuns, b \in AreaIds :
            acopy'[q][b] \in [offset : 0..Municipalities, tries : 0..GiveUpAfter]
      BY <1>1, <3>3 DEF AreasTypeOK
    <3>5. acopy' \in [AreaRuns -> [AreaIds -> [offset : 0..Municipalities, tries : 0..GiveUpAfter]]]
      BY <1>1, <3>1, <3>4 DEF AreasTypeOK
    <3> QED BY <3>3, <3>5
  <2>6. /\ todo' \in [AreaRuns -> SUBSET AreaIds] /\ apc' \in [AreaRuns -> {"idle", "mark", "search"}]
        /\ areaJobs' \in 0..2 /\ requests' \in 0..MaxRequests /\ areaFaults' \in 0..MaxAreaFaults
    BY <1>1, <1>3 DEF AreaThrows, LeaveArea, AreaFault, AreasTypeOK
  <2> QED BY <1>3, <2>3, <2>4, <2>5, <2>6, OffsetsStay DEF AreaThrows
<1>4. CASE AreaRunCrash(r)
  <2>1. /\ acopy' \in [AreaRuns -> [AreaIds -> [offset : 0..Municipalities, tries : 0..GiveUpAfter]]]
        /\ \A q \in AreaRuns, b \in AreaIds :
             acopy'[q][b] = acopy[q][b] \/ acopy'[q][b].offset = 0
    BY <1>1, <1>4 DEF AreaRunCrash, NoCopies, AreasTypeOK
  <2>2. areaJobs' \in 0..2 /\ areaFaults' \in 0..MaxAreaFaults
    BY <1>1, <1>4 DEF AreaRunCrash, AreaFault, AreasTypeOK
  <2> QED BY <1>1, <1>4, <2>1, <2>2, OffsetsStay DEF AreaRunCrash, AreasTypeOK
<1> QED BY <1>2, <1>3, <1>4

\* Days pass and people request runs.
LEMMA DayInv ==
  ASSUME AreasInv, RequestRun \/ NextDay
  PROVE  AreasInv'
<1> USE AreasAssumption
<1>1. AreasTypeOK /\ (\A b \in AreaIds : area[b] \in Area)
  BY DEF AreasInv, AreasTypeOK
<1>2. CASE RequestRun
  <2>1. areaJobs' \in 0..2 /\ requests' \in 0..MaxRequests
    BY <1>1, <1>2 DEF RequestRun, Request, AreasTypeOK
  <2> QED BY <1>1, <1>2, <2>1, OffsetsStay DEF RequestRun, AreasTypeOK
<1>3. CASE NextDay
  <2>1. \A b \in AreaIds : area'[b] \in Area /\ area'[b].offset = area[b].offset
    <3> SUFFICES ASSUME NEW b \in AreaIds
                 PROVE  area'[b] \in Area /\ area'[b].offset = area[b].offset
      OBVIOUS
    <3>1. /\ Earlier(area[b].due) \in Null..HalfYear
          /\ (IF area[b].started = Null \/ area[b].started = StaleAfter
              THEN area[b].started ELSE area[b].started + 1) \in Null..StaleAfter
      BY <1>1 DEF Area, Null, Earlier
    <3>2. area'[b] = [area[b] EXCEPT !.due = Earlier(area[b].due),
            !.started = IF area[b].started = Null \/ area[b].started = StaleAfter
                        THEN area[b].started ELSE area[b].started + 1]
      BY <1>1, <1>3 DEF NextDay, Area
    <3> QED BY <1>1, <3>1, <3>2 DEF Area
  <2>2. area' \in [AreaIds -> Area]
    <3>1. area' = [b \in AreaIds |-> area'[b]]
      BY <1>3 DEF NextDay
    <3> QED BY <2>1, <3>1
  <2>3. areaJobs' \in 0..2
    <3>1. areaJobs' = 1
      BY <1>3 DEF NextDay
    <3> QED BY <3>1
  <2> QED BY <1>1, <1>3, <2>1, <2>2, <2>3, OffsetsStay DEF NextDay, AreasTypeOK
<1> QED BY <1>2, <1>3

LEMMA AreasNextInv == AreasInv /\ [AreasNext]_areasVars => AreasInv'
<1> SUFFICES ASSUME AreasInv, [AreasNext]_areasVars PROVE AreasInv'
  OBVIOUS
<1>1. ASSUME NEW r \in AreaRuns, StartRun(r) PROVE AreasInv'
  <2>1. areaJobs' \in 0..2 /\ requests' \in 0..MaxRequests
    BY <1>1 DEF StartRun, AreasInv, AreasTypeOK
  <2> DEFINE S == First({a \in AreaIds : IsDue(area[a])}, AreaLimit)
  <2>2. S \in SUBSET AreaIds
    BY DEF First
  <2>3. CASE ListAreas(r, S)
    BY <2>1, <2>2, <2>3, ListAreasInv
  <2>4. CASE UNCHANGED <<area, todo, acopy, apc, asked, areaFaults>>
    BY <2>1, <2>4 DEF AreasInv, AreasTypeOK, CopiesAreBehind, NoMunicipalitySkipped
  <2> QED BY <1>1, <2>3, <2>4 DEF StartRun
<1>2. ASSUME NEW r \in AreaRuns, NEW a \in AreaIds, StartRequested(r, a) PROVE AreasInv'
  BY <1>2, ListAreasInv, AreasAssumption DEF StartRequested, Request, AreasInv, AreasTypeOK
<1>3. CASE RequestRun \/ NextDay
  BY <1>3, DayInv
<1>4. CASE UNCHANGED areasVars
  BY <1>4 DEF areasVars, AreasInv, AreasTypeOK, CopiesAreBehind, NoMunicipalitySkipped
<1> QED BY <1>1, <1>2, <1>3, <1>4, FinishAreaInv, RunStepInv DEF AreasNext, AreaStep

\* No municipality is passed over, though overlapping runs of one district each
\* write its offset from what they listed (module.ts ingestion.discovery.run).
THEOREM NoneSkipped == AreasSpec => []NoMunicipalitySkipped
<1>1. AreasInv => NoMunicipalitySkipped
  BY DEF AreasInv
<1> QED BY <1>1, AreasInitInv, AreasNextInv, PTL DEF AreasSpec
-----------------------------------------------------------------------------
(* The search keys, and the parts together.                                *)

LEMMA SearchKeysInitType == SearchKeysInit => SearchKeysTypeOK
<1> SUFFICES ASSUME SearchKeysInit PROVE SearchKeysTypeOK
  OBVIOUS
<1>1. 0 \in 0..KeyPause /\ 0 \in 0..MaxSwitches /\ 0 \in 0..MaxKeyFaults
  BY SearchKeysAssumption
<1>2. [there |-> FALSE, pending |-> TRUE, due |-> 0] \in SearchKey
  BY <1>1 DEF SearchKey
<1>3. key \in [KeyIds -> SearchKey]
  BY <1>2 DEF SearchKeysInit
<1>4. keyRun \in BOOLEAN /\ keyTodo \subseteq KeyIds /\ inactive \subseteq KeyIds
  BY DEF SearchKeysInit
<1>5. keyJobs \in 0..2 /\ switches \in 0..MaxSwitches /\ keyFaults \in 0..MaxKeyFaults
  BY <1>1 DEF SearchKeysInit
<1> QED BY <1>3, <1>4, <1>5 DEF SearchKeysTypeOK

LEMMA SearchKeysNextType == SearchKeysTypeOK /\ [SearchKeysNext]_searchKeysVars => SearchKeysTypeOK'
<1> SUFFICES ASSUME SearchKeysTypeOK, [SearchKeysNext]_searchKeysVars PROVE SearchKeysTypeOK'
  OBVIOUS
<1> USE DEF SearchKeysTypeOK
<1>1. CASE SeedKeys
  BY <1>1 DEF SeedKeys, SearchKey
<1>2. CASE ListKeys
  BY <1>2 DEF ListKeys, FirstKeys
<1>3. ASSUME NEW k \in KeyIds, NEW ok \in BOOLEAN, SearchOneKey(k, ok) PROVE SearchKeysTypeOK'
  <2>1. (IF ok THEN KeyPause ELSE 1) \in 0..KeyPause
    BY SearchKeysAssumption
  <2>2. [key[k] EXCEPT !.pending = FALSE, !.due = IF ok THEN KeyPause ELSE 1] \in SearchKey
    BY <2>1 DEF SearchKey
  <2>3. key' \in [KeyIds -> SearchKey]
    BY <1>3, <2>2 DEF SearchOneKey
  <2> QED BY <1>3, <2>3 DEF SearchOneKey
<1>4. CASE KeyRunEnds
  <2>1. keyJobs' \in 0..2
    BY <1>4 DEF KeyRunEnds
  <2>2. keyRun' = FALSE /\ UNCHANGED <<key, inactive, keyTodo, switches, keyFaults>>
    BY <1>4 DEF KeyRunEnds
  <2> QED BY <2>1, <2>2
<1>5. CASE KeyRunCrash
  <2>1. keyJobs' \in 0..2
    BY <1>5 DEF KeyRunCrash
  <2>2. keyRun' = FALSE /\ keyTodo' = {} /\ UNCHANGED <<key, inactive, switches>>
    BY <1>5 DEF KeyRunCrash
  <2>3. keyFaults' \in 0..MaxKeyFaults
    BY <1>5, SearchKeysAssumption DEF KeyRunCrash, KeyFault
  <2> QED BY <2>1, <2>2, <2>3
<1>6. CASE NextDayOfKeys
  BY <1>6, SearchKeysAssumption DEF NextDayOfKeys, SearchKey
<1>7. ASSUME NEW k \in KeyIds, SwitchTerm(k) PROVE SearchKeysTypeOK'
  BY <1>7, SearchKeysAssumption DEF SwitchTerm
<1>8. CASE UNCHANGED searchKeysVars
  BY <1>8 DEF searchKeysVars
<1> QED BY <1>1, <1>2, <1>3, <1>4, <1>5, <1>6, <1>7, <1>8 DEF SearchKeysNext, KeyStep

\* The invariants of the parts, of which one moves at a time.
IngestionInv == DocumentsKinds /\ IntakeInv /\ AreasInv /\ SearchKeysTypeOK

LEMMA IngestionNextInv == IngestionInv /\ [Next]_vars => IngestionInv'
<1> SUFFICES ASSUME IngestionInv, [Next]_vars PROVE IngestionInv'
  OBVIOUS
<1> USE DEF IngestionInv
<1>1. CASE (InDocuments \/ InRivals) /\ DocumentsNext
  <2>1. UNCHANGED <<intakeVars, areasVars, searchKeysVars>>
    BY <1>1 DEF InDocuments, InRivals
  <2> QED BY <1>1, <2>1, DocumentsKindsNext, IntakeNextInv, AreasNextInv, SearchKeysNextType
<1>2. CASE InIntake /\ IntakeNext
  <2>1. UNCHANGED <<documentsVars, areasVars, searchKeysVars>>
    BY <1>2 DEF InIntake
  <2> QED BY <1>2, <2>1, DocumentsKindsNext, IntakeNextInv, AreasNextInv, SearchKeysNextType
<1>3. CASE InAreas /\ AreasNext
  <2>1. UNCHANGED <<documentsVars, intakeVars, searchKeysVars>>
    BY <1>3 DEF InAreas
  <2> QED BY <1>3, <2>1, DocumentsKindsNext, IntakeNextInv, AreasNextInv, SearchKeysNextType
<1>4. CASE InSearchKeys /\ SearchKeysNext
  <2>1. UNCHANGED <<documentsVars, intakeVars, areasVars>>
    BY <1>4 DEF InSearchKeys
  <2> QED BY <1>4, <2>1, DocumentsKindsNext, IntakeNextInv, AreasNextInv, SearchKeysNextType
<1>5. CASE UNCHANGED vars
  <2>1. UNCHANGED <<documentsVars, intakeVars, areasVars, searchKeysVars>>
    BY <1>5 DEF vars
  <2> QED BY <2>1, DocumentsKindsNext, IntakeNextInv, AreasNextInv, SearchKeysNextType
<1> QED BY <1>1, <1>2, <1>3, <1>4, <1>5 DEF Next

\* Whatever the module does, its rows, jobs and files are of their kinds: ids
\* are numbers, no count leaves its bounds, a run's snapshot has occurrences of
\* the schema (schema.ts of the ingestion module).
THEOREM IngestionTypes == Spec => []TypeOK
<1>1. Init => IngestionInv
  BY DocumentsInitKinds, IntakeInitInv, AreasInitInv, SearchKeysInitType DEF Init, IngestionInv
<1>2. IngestionInv => TypeOK
  BY DocumentsTypes DEF IngestionInv, IntakeInv, AreasInv, TypeOK
<1> QED BY <1>1, <1>2, IngestionNextInv, PTL DEF Spec

\* And of the steps of all parts together, what is proved of each part alone.
THEOREM IngestionIsSafe ==
  Spec => /\ [](FindingsOfOneRun /\ OccurrencesAreAnnounced /\ TakenInOnce /\ NoMunicipalitySkipped)
          /\ DecisionsSurvive
<1>1. Init => DocumentsInv /\ IntakeInv /\ AreasInv
  BY DocumentsInitInv, IntakeInitInv, AreasInitInv DEF Init
<1>2. [Next]_vars =>
        [DocumentsNext]_documentsVars /\ [IntakeNext]_intakeVars /\ [AreasNext]_areasVars
  BY DEF Next, vars, InDocuments, InRivals, InIntake, InAreas, InSearchKeys
<1>3. DocumentsInv => FindingsOfOneRun /\ OccurrencesAreAnnounced
  BY DEF DocumentsInv, OneEach, Counts, FindingsOfOneRun
<1>4. IntakeInv => TakenInOnce
  BY DEF IntakeInv
<1>5. AreasInv => NoMunicipalitySkipped
  BY DEF AreasInv
<1>6. DocumentsInv /\ [DocumentsNext]_documentsVars =>
        [\A o \in rows, p \in rows' :
           o.doc = p.doc /\ o.finding = p.finding /\ o.id # p.id /\ o.status # p.status
             => \E w \in Workers : wdoc[w] = o.doc /\ wpc[w] = "publish"
                                   /\ o \notin snap[w]]_documentsVars
  BY DecisionStep
<1> QED BY <1>1, <1>2, <1>3, <1>4, <1>5, <1>6, DocumentsNextInv, IntakeNextInv, AreasNextInv, PTL
        DEF Spec, DecisionsSurvive
=============================================================================
