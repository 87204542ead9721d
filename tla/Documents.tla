----------------------------- MODULE Documents -----------------------------
(***************************************************************************)
(* The life of a document in modules/ingestion: it is stored by an upload, *)
(* the watch folder or a source fetch, processed by a job, reviewed,       *)
(* processed anew, and put back by the scripts of the operator.  What the  *)
(* runs enqueue for the artwork service is the matter of Handoffs, what    *)
(* they announce to the CRM that of Leads.                                 *)
(*                                                                         *)
(* One action is one SQL statement or one call of a service with the       *)
(* JavaScript up to the next await; a transaction under REPEATABLE READ    *)
(* reads the snapshot of its first plain SELECT, while its UPDATE, DELETE  *)
(* and SELECT ... FOR UPDATE meet the rows as they are now.                *)
(*                                                                         *)
(* A finding stands for its fingerprint (page, company, preview, box); the *)
(* queue is reduced to what LeaseQueue promises: a job has one holder, and *)
(* a lapsed lease can be claimed by another worker.                        *)
(***************************************************************************)
EXTENDS Integers, FiniteSets

CONSTANTS
  Docs,         \* documents, by the sha256 of their bytes
  Findings,     \* fingerprints print ingest may report
  Slots,        \* rows of jobs named ingestion.processing.run
  Workers,      \* concurrent Worker.run loops
  MinAds,       \* MIN_DOCUMENT_ADVERTISEMENTS, 3 in the code
  MaxAttempts,  \* attempts of a job enqueued without maxAttempts
  MaxMishaps    \* bound on crashes, lapsed leases, failing services, revivals

ASSUME DocumentsAssumption ==
  /\ MinAds \in Nat /\ MaxAttempts \in Nat \ {0} /\ MaxMishaps \in Nat
  /\ "none" \notin Docs \cup Workers \cup Slots
  /\ IsFiniteSet(Findings) /\ IsFiniteSet(Workers)

\* where persistDocumentBytes is called; "folder" differs from "upload" in name only
Channels == {"upload", "source"}
States == {"absent", "uploaded", "processing", "processed", "rejected", "failed"}
Statuses == {"detected", "approved", "rejected"}

VARIABLES
  \* ingestion_document, ingestion_occurrence, ingestion_document_classification
  dstate, origin, rows,
  classified,   \* documents with a classification row
  detected,     \* <<document, finding>>: key of an advertisement.detected event
  stored,       \* documents whose first job is not enqueued yet
  \* jobs
  slot,
  \* Worker.run with ingestion.processing.run
  wpc, wslot, wdoc, found, snap, unclassified, unsent,
  \* Sammellauf and the scripts
  sweeping, etapped, etappe,
  mishaps

rowVarsD == <<dstate, origin, rows, classified, detected>>
runVars == <<wpc, wslot, wdoc, found, snap, unclassified, unsent>>
planVars == <<sweeping, etapped, etappe>>
documentsVars == <<rowVarsD, stored, slot, runVars, planVars, mishaps>>

Row == [id : Nat, doc : Docs, finding : Findings, status : Statuses]
Job == [doc : Docs \cup {"none"}, st : {"free", "pending", "running", "dead"},
        left : Nat, holder : Workers \cup {"none"}, lapsed : BOOLEAN]
FreeJob == [doc |-> "none", st |-> "free", left |-> 0, holder |-> "none", lapsed |-> FALSE]

InTransaction == {"snapshot", "derive", "replace", "publish"}

DocumentsTypeOK ==
  /\ dstate \in [Docs -> States] /\ origin \in [Docs -> Channels \cup {"none"}]
  /\ rows \subseteq Row
  /\ classified \subseteq Docs /\ detected \subseteq Docs \X Findings
  /\ stored \subseteq Docs
  /\ slot \in [Slots -> Job]
  /\ wpc \in [Workers -> {"idle", "read", "mark", "markWrite", "work", "lock", "catch",
                "catchWrite", "fail", "onFailure", "onFailureWrite", "complete"} \cup InTransaction]
  /\ wslot \in [Workers -> Slots \cup {"none"}]
  /\ wdoc \in [Workers -> Docs \cup {"none"}]
  /\ found \in [Workers -> SUBSET Findings]
  /\ \A w \in Workers : snap[w] \subseteq Row /\ unsent[w] \subseteq Findings
  /\ unclassified \subseteq Workers
  /\ sweeping \in Docs \cup {"none"}
  /\ etapped \subseteq Docs /\ etappe \in Docs \cup {"none"}
  /\ mishaps \in 0..MaxMishaps

DocumentsInit ==
  /\ dstate = [d \in Docs |-> "absent"] /\ origin = [d \in Docs |-> "none"]
  /\ rows = {} /\ classified = {} /\ detected = {}
  /\ stored = {}
  /\ slot = [s \in Slots |-> FreeJob]
  /\ wpc = [w \in Workers |-> "idle"] /\ wslot = [w \in Workers |-> "none"]
  /\ wdoc = [w \in Workers |-> "none"]
  /\ found = [w \in Workers |-> {}]
  /\ snap = [w \in Workers |-> {}] /\ unclassified = {}
  /\ unsent = [w \in Workers |-> {}]
  /\ sweeping = "none" /\ etapped = {} /\ etappe = "none"
  /\ mishaps = 0

Mishap == mishaps < MaxMishaps /\ mishaps' = mishaps + 1

-----------------------------------------------------------------------------
(* Helpers.                                                                *)

RowsOf(d) == {o \in rows : o.doc = d}
IdsOf(R) == {o.id : o \in R}
Active(d) == \E s \in Slots : slot[s].doc = d /\ slot[s].st \in {"pending", "running"}
Pending(d) == dstate[d] \in {"uploaded", "failed", "processing"}
HoldsLease(w) == slot[wslot[w]].st = "running" /\ slot[wslot[w]].holder = w

\* A transaction has written the classification row of d; its occurrences and
\* the document's own row.
ClassificationLocked(d) == \E v \in Workers : wdoc[v] = d /\ wpc[v] \in {"replace", "publish"}
DocumentLocked(d) == \E v \in Workers : wdoc[v] = d /\ wpc[v] = "publish"
JobLocked(s) == \E v \in Workers : wslot[v] = s /\ wpc[v] \in InTransaction

\* allowed[current.state] of setDocumentState
Allowed(from, to) ==
  \/ from = "uploaded" /\ to \in {"processing", "failed"}
  \/ from = "processing" /\ to \in {"processed", "failed"}
  \/ from = "failed" /\ to = "processing"
  \/ from = "processed" /\ to = "rejected"

\* LeaseQueue.enqueue: a row of jobs for d; which one does not matter.  A dead
\* job gives up its row when no other is left.
Submit(d, attempts) ==
  LET at(st) == {s \in Slots : slot[s].st = st}
      s == IF at("free") # {} THEN CHOOSE x \in at("free") : TRUE
           ELSE CHOOSE x \in at("dead") : TRUE IN
  /\ at("free") \cup at("dead") # {}
  /\ slot' = [slot EXCEPT ![s] = [FreeJob EXCEPT !.doc = d, !.st = "pending", !.left = attempts]]

-----------------------------------------------------------------------------
(* Intake: an upload, the watch folder (see Intake) or a source fetch.     *)

\* persistDocumentBytes: one transaction, repeated on a duplicate key until it
\* finds the row of the rival.
Persist(d, c) ==
  /\ dstate[d] = "absent"
  /\ dstate' = [dstate EXCEPT ![d] = "uploaded"]
  /\ origin' = [origin EXCEPT ![d] = c]
  /\ stored' = stored \cup {d}
  /\ UNCHANGED <<rows, classified, detected, slot, runVars, planVars, mishaps>>

\* The job is enqueued by a statement of its own, after the commit.
EnqueueStored(d) ==
  /\ d \in stored
  /\ Submit(d, MaxAttempts)
  /\ stored' = stored \ {d}
  /\ UNCHANGED <<rowVarsD, runVars, planVars, mishaps>>

\* The process dies after the commit, or the enqueue fails.
IntakeFails(d) ==
  /\ d \in stored
  /\ Mishap
  /\ stored' = stored \ {d}
  /\ UNCHANGED <<rowVarsD, slot, runVars, planVars>>

-----------------------------------------------------------------------------
(* The queue, as far as a handler sees it.                                 *)

Claim(w, s) ==
  /\ wpc[w] = "idle" /\ ~JobLocked(s)
  /\ \/ slot[s].st = "pending"
     \/ slot[s].st = "running" /\ slot[s].lapsed
  /\ slot' = [slot EXCEPT ![s].st = "running", ![s].holder = w, ![s].lapsed = FALSE,
                          ![s].left = IF @ = 0 THEN 0 ELSE @ - 1]
  /\ wslot' = [wslot EXCEPT ![w] = s] /\ wdoc' = [wdoc EXCEPT ![w] = slot[s].doc]
  /\ wpc' = [wpc EXCEPT ![w] = "read"]
  /\ UNCHANGED <<rowVarsD, stored, found, snap, unclassified, unsent,
                 planVars, mishaps>>

\* No heartbeat reaches the row in time although the worker lives.
Lapse(s) ==
  /\ slot[s].st = "running" /\ ~slot[s].lapsed
  /\ Mishap
  /\ slot' = [slot EXCEPT ![s].lapsed = TRUE]
  /\ UNCHANGED <<rowVarsD, stored, runVars, planVars>>

\* The locals of the try block are gone, those of the turn.
Forget(w) ==
  /\ found' = [found EXCEPT ![w] = {}] /\ snap' = [snap EXCEPT ![w] = {}]
  /\ unclassified' = unclassified \ {w}

Leave(w) ==
  /\ wpc' = [wpc EXCEPT ![w] = "idle"] /\ wslot' = [wslot EXCEPT ![w] = "none"]
  /\ wdoc' = [wdoc EXCEPT ![w] = "none"] /\ unsent' = [unsent EXCEPT ![w] = {}]
  /\ Forget(w)

\* An open transaction is rolled back, the lease runs out.
WorkerCrash(w) ==
  /\ wpc[w] # "idle"
  /\ Mishap
  /\ slot' = IF HoldsLease(w) THEN [slot EXCEPT ![wslot[w]].lapsed = TRUE] ELSE slot
  /\ Leave(w)
  /\ UNCHANGED <<rowVarsD, stored, planVars>>

\* complete, refused without the lease
CompleteJob(w) ==
  /\ wpc[w] = "complete"
  /\ slot' = IF HoldsLease(w) THEN [slot EXCEPT ![wslot[w]] = FreeJob] ELSE slot
  /\ Leave(w)
  /\ UNCHANGED <<rowVarsD, stored, planVars, mishaps>>

\* fail, refused without the lease; onFailure follows a recorded death.
FailJob(w) ==
  LET s == wslot[w] IN
  /\ wpc[w] = "fail"
  /\ IF HoldsLease(w) /\ slot[s].left = 0
     THEN /\ slot' = [slot EXCEPT ![s].st = "dead", ![s].holder = "none", ![s].lapsed = FALSE]
          /\ wpc' = [wpc EXCEPT ![w] = "onFailure"]
          /\ UNCHANGED <<wslot, wdoc, found, snap, unclassified, unsent>>
     ELSE /\ slot' = IF HoldsLease(w)
                     THEN [slot EXCEPT ![s].st = "pending", ![s].holder = "none", ![s].lapsed = FALSE]
                     ELSE slot
          /\ Leave(w)
  /\ UNCHANGED <<rowVarsD, stored, planVars, mishaps>>

\* system.jobs.requeue of a dead job
ReviveJob(s) ==
  /\ slot[s].st = "dead"
  /\ Mishap
  /\ slot' = [slot EXCEPT ![s].st = "pending", ![s].left = MaxAttempts]
  /\ UNCHANGED <<rowVarsD, stored, runVars, planVars>>

-----------------------------------------------------------------------------
(* ingestion.processing.run with a documentId.                             *)

At(w, from, to) ==
  /\ wpc[w] = from
  /\ wpc' = [wpc EXCEPT ![w] = to]

\* getDocument: nothing is done for a document that is not pending.
ReadDocument(w) ==
  /\ wpc[w] = "read"
  /\ \/ Pending(wdoc[w]) /\ dstate[wdoc[w]] # "processing" /\ At(w, "read", "mark")
     \/ dstate[wdoc[w]] = "processing" /\ At(w, "read", "work")
     \/ ~Pending(wdoc[w]) /\ At(w, "read", "complete")
  /\ UNCHANGED <<rowVarsD, stored, slot, wslot, wdoc, found, snap, unclassified,
                 unsent, planVars, mishaps>>

\* setDocumentState is a SELECT, a check of the transition, and an UPDATE by id
\* alone.  Here: the SELECT and the check, to "processing" before the try.
ReadForMark(w) ==
  /\ wpc[w] = "mark"
  /\ IF Allowed(dstate[wdoc[w]], "processing")
     THEN At(w, "mark", "markWrite") ELSE At(w, "mark", "fail")
  /\ UNCHANGED <<rowVarsD, stored, slot, wslot, wdoc, found, snap, unclassified,
                 unsent, planVars, mishaps>>

\* to "failed": from the catch, where a refused transition throws as well, and
\* from onFailure, where it is logged.
ReadForFailed(w) ==
  /\ wpc[w] \in {"catch", "onFailure"}
  /\ IF Allowed(dstate[wdoc[w]], "failed")
     THEN At(w, "catch", "catchWrite") \/ At(w, "onFailure", "onFailureWrite")
     ELSE At(w, "catch", "fail") \/ At(w, "onFailure", "complete")
  /\ UNCHANGED <<rowVarsD, stored, slot, wslot, wdoc, found, snap, unclassified,
                 unsent, planVars, mishaps>>

\* The UPDATE of setDocumentState, whatever the state has become meanwhile.
WriteState(w) ==
  /\ ~DocumentLocked(wdoc[w])
  /\ \/ At(w, "markWrite", "work") /\ dstate' = [dstate EXCEPT ![wdoc[w]] = "processing"]
     \/ At(w, "catchWrite", "fail") /\ dstate' = [dstate EXCEPT ![wdoc[w]] = "failed"]
     \/ At(w, "onFailureWrite", "complete") /\ dstate' = [dstate EXCEPT ![wdoc[w]] = "failed"]
  /\ UNCHANGED <<origin, rows, classified, detected, stored, slot, wslot, wdoc,
                 found, snap, unclassified, unsent, planVars, mishaps>>

\* createPifProcessor: the original from the storage, the findings from print
\* ingest.
PifAnswers(w) ==
  /\ At(w, "work", "lock")
  /\ \E F \in SUBSET Findings : found' = [found EXCEPT ![w] = F]
  /\ UNCHANGED <<rowVarsD, stored, slot, wslot, wdoc, snap, unclassified,
                 unsent, planVars, mishaps>>

\* No original, no answer, or a status that is not 2xx.
PifFails(w) ==
  /\ At(w, "work", "catch")
  /\ Mishap
  /\ UNCHANGED <<rowVarsD, stored, slot, wslot, wdoc, found, snap, unclassified,
                 unsent, planVars>>

\* lockLease: SELECT ... FOR UPDATE of the job row.  ProcessingLeaseLostError
\* passes the catch without writing.
LockJob(w) ==
  /\ wpc[w] = "lock"
  /\ IF HoldsLease(w) THEN At(w, "lock", "snapshot") ELSE At(w, "lock", "fail")
  /\ UNCHANGED <<rowVarsD, stored, slot, wslot, wdoc, found, snap, unclassified,
                 unsent, planVars, mishaps>>

\* listOccurrences, the first plain SELECT, opens the snapshot.
TakeSnapshot(w) ==
  /\ At(w, "snapshot", "derive")
  /\ snap' = [snap EXCEPT ![w] = RowsOf(wdoc[w])]
  /\ unclassified' = IF wdoc[w] \in classified THEN unclassified ELSE unclassified \cup {w}
  /\ UNCHANGED <<rowVarsD, stored, slot, wslot, wdoc, found, unsent,
                 planVars, mishaps>>

\* upsertDerivedClassification: waits for a rival that has written the row; an
\* INSERT by a snapshot without the row meets the rival's as a duplicate.
UpsertClassification(w) ==
  /\ ~ClassificationLocked(wdoc[w])
  /\ IF w \in unclassified /\ wdoc[w] \in classified
     THEN At(w, "derive", "catch") /\ Forget(w)
     ELSE At(w, "derive", "replace") /\ UNCHANGED <<found, snap, unclassified>>
  /\ UNCHANGED <<rowVarsD, stored, slot, wslot, wdoc, unsent, planVars, mishaps>>

Gated(w) == origin[wdoc[w]] = "source" /\ Cardinality(found[w]) < MinAds

\* The bug: every run begins with new decisions.
CarriedNothing(w, f) == "detected"

\* The status of the finding in the snapshot, by fingerprint.
CarriedStatus(w, f) ==
  IF \E o \in snap[w] : o.finding = f
  THEN (CHOOSE o \in snap[w] : o.finding = f).status ELSE "detected"

\* What the run leaves: nothing if the gate rejects the document.
Kept(w) == IF Gated(w) THEN {} ELSE found[w]

\* replaceProcessedDocument: deletes the occurrences there are and inserts
\* those found, both seen by the other connections at the commit.
Replace(w) ==
  /\ At(w, "replace", "publish")
  /\ unsent' = [unsent EXCEPT ![w] = Kept(w)]
  /\ UNCHANGED <<rowVarsD, stored, slot, wslot, wdoc, found, snap, unclassified,
                 planVars, mishaps>>

\* deps.publish drops the executor: the event is stored at once, through a
\* connection of its own; an existing key is left as it is.
PublishDetected(w) ==
  /\ wpc[w] = "publish"
  /\ \E f \in unsent[w] :
       /\ detected' = detected \cup {<<wdoc[w], f>>}
       /\ unsent' = [unsent EXCEPT ![w] = @ \ {f}]
  /\ UNCHANGED <<dstate, origin, rows, classified, stored, slot, wpc, wslot, wdoc,
                 found, snap, unclassified, planVars, mishaps>>

\* The occurrences with new ids.  Nothing here keeps the id of a row that is
\* gone, but an open snapshot; so the ids not in use stand for the next ones.
NewRows(w) ==
  LET used == IdsOf(rows) \cup UNION {IdsOf(snap[v]) : v \in Workers}
      run == CHOOSE i \in 0..Cardinality(used) : i \notin used /\ \A k \in 0..(i - 1) : k \in used
  IN {[id |-> run, doc |-> wdoc[w], finding |-> f, status |-> CarriedStatus(w, f)] : f \in Kept(w)}

\* The bug: the run deletes the occurrences it has read.
CommitOverSnapshot(w) ==
  LET d == wdoc[w] IN
  /\ At(w, "publish", "complete")
  /\ unsent[w] = {}
  /\ rows' = (rows \ snap[w]) \cup NewRows(w)
  /\ classified' = classified \cup {d}
  /\ dstate' = [dstate EXCEPT ![d] = IF Gated(w) THEN "rejected" ELSE "processed"]
  /\ Forget(w)
  /\ UNCHANGED <<origin, detected, stored, slot, wslot, wdoc, unsent, planVars, mishaps>>

\* The bug: the commit does not await the publications.
CommitUnsent(w) ==
  LET d == wdoc[w] IN
  /\ At(w, "publish", "complete")
  /\ rows' = (rows \ RowsOf(d)) \cup NewRows(w)
  /\ classified' = classified \cup {d}
  /\ dstate' = [dstate EXCEPT ![d] = IF Gated(w) THEN "rejected" ELSE "processed"]
  /\ unsent' = [unsent EXCEPT ![w] = {}] /\ Forget(w)
  /\ UNCHANGED <<origin, detected, stored, slot, wslot, wdoc, planVars, mishaps>>

\* The commit: occurrences, classification, state, audit entry.  (The jobs that
\* withdraw and hand in items are enqueued with it, see Handoffs.)
CommitRun(w) ==
  LET d == wdoc[w] IN
  /\ At(w, "publish", "complete")
  /\ unsent[w] = {}
  /\ rows' = (rows \ RowsOf(d)) \cup NewRows(w)
  /\ classified' = classified \cup {d}
  /\ dstate' = [dstate EXCEPT ![d] = IF Gated(w) THEN "rejected" ELSE "processed"]
  /\ Forget(w)
  /\ UNCHANGED <<origin, detected, stored, slot, wslot, wdoc, unsent, planVars, mishaps>>

\* A deadlock, a lost connection, an event that cannot be stored: rollback.
TransactionFails(w) ==
  /\ wpc[w] \in InTransaction
  /\ Mishap
  /\ wpc' = [wpc EXCEPT ![w] = "catch"]
  /\ Forget(w) /\ unsent' = [unsent EXCEPT ![w] = {}]
  /\ UNCHANGED <<rowVarsD, stored, slot, wslot, wdoc, planVars>>

-----------------------------------------------------------------------------
(* ingestion.processing.run without a documentId: the Sammellauf.          *)

\* The bug: only new documents are taken up.
SweepNewOnly(d) ==
  /\ sweeping = "none"
  /\ dstate[d] = "uploaded" /\ ~Active(d)
  /\ sweeping' = d
  /\ UNCHANGED <<rowVarsD, stored, slot, runVars, etapped, etappe, mishaps>>

\* A pending document for which hasActiveDocumentJob, one statement, finds none:
\* the list was read before, but the job itself looks at the state again.
SweepCheck(d) ==
  /\ sweeping = "none"
  /\ Pending(d) /\ ~Active(d)
  /\ sweeping' = d
  /\ UNCHANGED <<rowVarsD, stored, slot, runVars, etapped, etappe, mishaps>>

\* the enqueue, with maxAttempts 1, another.
SweepEnqueue ==
  /\ sweeping # "none"
  /\ Submit(sweeping, 1)
  /\ sweeping' = "none"
  /\ UNCHANGED <<rowVarsD, stored, runVars, etapped, etappe, mishaps>>

-----------------------------------------------------------------------------
(* Reviewers and the scripts of the operator.                              *)

SetStatus(o, st) == rows' = (rows \ {o}) \cup {[o EXCEPT !.status = st]}

\* reviewOccurrence: the UPDATE waits for a run that has deleted the row.
Review(o, st) ==
  /\ o \in rows /\ ~DocumentLocked(o.doc)
  /\ o.status # st
  /\ SetStatus(o, st)
  /\ UNCHANGED <<dstate, origin, classified, detected, stored, slot, runVars,
                 planVars, mishaps>>

\* scripts/inserenten-test-anwenden: rejects what is still only detected.
ApplyVerdict(o) ==
  /\ o \in rows /\ ~DocumentLocked(o.doc)
  /\ o.status = "detected"
  /\ SetStatus(o, "rejected")
  /\ UNCHANGED <<dstate, origin, classified, detected, stored, slot, runVars,
                 planVars, mishaps>>

\* scripts/run50-etappe, one transaction per document: the SELECTs,
EtappeCheck(d) ==
  /\ etappe = "none"
  /\ dstate[d] = "processed" /\ d \notin etapped
  /\ \A o \in RowsOf(d) : o.status # "approved"
  /\ ~Active(d)
  /\ etappe' = d
  /\ UNCHANGED <<rowVarsD, stored, slot, runVars, sweeping, etapped, mishaps>>

\* and the writes: state, audit entry, job.
EtappeApply ==
  /\ etappe # "none" /\ ~DocumentLocked(etappe)
  /\ dstate' = [dstate EXCEPT ![etappe] = "uploaded"]
  /\ etapped' = etapped \cup {etappe}
  /\ Submit(etappe, 1)
  /\ etappe' = "none"
  /\ UNCHANGED <<origin, rows, classified, detected, stored, runVars,
                 sweeping, mishaps>>

-----------------------------------------------------------------------------

RunStep(w) ==
  \/ ReadDocument(w) \/ ReadForMark(w) \/ ReadForFailed(w) \/ WriteState(w)
  \/ PifAnswers(w) \/ LockJob(w) \/ TakeSnapshot(w) \/ UpsertClassification(w)
  \/ Replace(w) \/ PublishDetected(w) \/ CommitRun(w) \/ CompleteJob(w) \/ FailJob(w)
  \/ \E s \in Slots : Claim(w, s)

RunFails(w) == PifFails(w) \/ TransactionFails(w) \/ WorkerCrash(w)

Sweep == SweepEnqueue \/ \E d \in Docs : SweepCheck(d)

DocumentsNext ==
  \/ \E d \in Docs : EnqueueStored(d) \/ IntakeFails(d) \/ \E c \in Channels : Persist(d, c)
  \/ \E s \in Slots : Lapse(s) \/ ReviveJob(s)
  \/ \E w \in Workers : RunStep(w) \/ RunFails(w)
  \/ Sweep
  \/ \E o \in rows : ApplyVerdict(o) \/ \E st \in {"approved", "rejected"} : Review(o, st)
  \/ \E d \in Docs : EtappeCheck(d)
  \/ EtappeApply

\* The schedules enqueue the Sammellauf every day, the worker loops go on
\* until the process is stopped; INGESTION_AUTO_PROCESS is set.
DocumentsFairness ==
  /\ WF_documentsVars(Sweep)
  /\ \A w \in Workers : WF_documentsVars(RunStep(w))

DocumentsSpec == DocumentsInit /\ [][DocumentsNext]_documentsVars /\ DocumentsFairness

-----------------------------------------------------------------------------
(* Properties.                                                             *)

\* A document never shows the findings of two runs at once, however rival runs,
\* lost leases and rollbacks interleave: its occurrences were inserted by one
\* run, which lists no finding twice; a source document that passed has its
\* minimum of advertisements, and one the gate rejected has none.
FindingsOfOneRun ==
  /\ \A o, p \in rows : o.doc = p.doc => o.id = p.id /\ (o.finding = p.finding => o = p)
  /\ \A d \in Docs :
       /\ dstate[d] = "rejected" => RowsOf(d) = {}
       /\ dstate[d] = "processed" /\ origin[d] = "source" => Cardinality(RowsOf(d)) >= MinAds

\* Every occurrence other modules can see has its advertisement.detected event
\* in the outbox: replaceProcessedDocument and the publication, though on two
\* connections, never commit the row without the event.
OccurrencesAreAnnounced ==
  \A o \in rows : <<o.doc, o.finding>> \in detected

\* A new run keeps the reviewers' decisions: an occurrence replaced by one with
\* the same fingerprint has the same status, unless it was decided (or
\* inserted) after the run had read the occurrences.
DecisionsSurvive ==
  [][\A o \in rows, p \in rows' :
       o.doc = p.doc /\ o.finding = p.finding /\ o.id # p.id /\ o.status # p.status
         => \E w \in Workers : wdoc[w] = o.doc /\ wpc[w] = "publish" /\ o \notin snap[w]]_documentsVars

\* Every document, once stored, comes to rest processed or rejected: neither a
\* crash between commit and enqueue, nor a dead job, nor a state written from a
\* stale read keeps it pending for ever.
DocumentsSettle ==
  <>[](\A d \in Docs : dstate[d] \in {"absent", "processed", "rejected"})
=============================================================================
