------------------------------- MODULE Leads -------------------------------
(***************************************************************************)
(* From a finding to a lead: the run that derives a document's period and  *)
(* announces its occurrences, the people who correct the period or decide  *)
(* whether the document is current, the event advertisement.detected, and  *)
(* the handler of the CRM that makes the customer.                         *)
(*                                                                         *)
(* One document with at most one finding; a finding has a new occurrence   *)
(* id after every run, its events have keys that do not contain the id.    *)
(* Rival runs are the matter of Documents, the dispatcher that of          *)
(* EventOutbox.                                                            *)
(***************************************************************************)
EXTENDS Naturals

CONSTANTS
  People,       \* requests documents.correct and documents.actuality
  MaxLeadRuns,  \* bound on runs
  MaxEdits,     \* bound on corrections and decisions
  MaxLeadFaults \* bound on crashes and rollbacks

ASSUME LeadsAssumption == {MaxLeadRuns, MaxEdits, MaxLeadFaults} \subseteq Nat

Periods == {"none", "new", "old"}
Actualities == {"current", "outdated", "unverified"}
\* The event of the first announcement, and one for each status from which a
\* document can become current.
Keys == {"detected", "unverified-current", "outdated-current"}

VARIABLES
  cls,      \* the row of ingestion_document_classification
  occ,      \* id of the occurrence, 0 if there is none
  lastOcc,
  rpc,      \* next statement of the run
  rprev,    \* document.actualityStatus read at its start
  rmanual,  \* the period was manual in its snapshot
  rhad,     \* there were occurrences in it
  rcls,     \* the row it has written
  rfound,   \* it has found the finding
  ppc, pprev, pvalue, \* person -> next statement, status read before, input
  event,    \* key -> the row of the outbox
  leads,    \* occurrence id -> customers made from it
  missed,   \* history: an announcement was lost, see CurrentBecomesLead
  edits, leadFaults

runVarsL == <<rpc, rprev, rmanual, rhad, rcls, rfound>>
peopleVars == <<ppc, pprev, pvalue, edits>>
leadsVars == <<cls, occ, lastOcc, runVarsL, peopleVars, event, leads, missed, leadFaults>>

Classification == [there : BOOLEAN, period : Periods, manual : BOOLEAN,
                   decision : {"none", "current", "outdated"}]
NoClassification == [there |-> FALSE, period |-> "none", manual |-> FALSE, decision |-> "none"]
EventRow == [state : {"none", "pending", "read", "delivered"}, occ : 0..MaxLeadRuns,
             said : BOOLEAN, read : BOOLEAN]   \* current, as announced and as the handler reads
NoEvent == [state |-> "none", occ |-> 0, said |-> FALSE, read |-> FALSE]
\* Nothing reads the rest of a row that is delivered.
Delivered == [NoEvent EXCEPT !.state = "delivered"]

LeadsTypeOK ==
  /\ {cls, rcls} \subseteq Classification
  /\ lastOcc \in 0..MaxLeadRuns /\ occ \in 0..lastOcc
  /\ rpc \in {"idle", "snapshot", "derive", "transition", "announce", "commit"}
  /\ rprev \in Actualities /\ {rmanual, rhad} \subseteq BOOLEAN /\ rfound \in BOOLEAN
  /\ ppc \in [People -> {"idle", "correct", "decide", "after", "publish"}]
  /\ pprev \in [People -> Actualities] /\ pvalue \in [People -> Periods \cup Actualities]
  /\ event \in [Keys -> EventRow]
  /\ leads \in [1..MaxLeadRuns -> Nat]
  /\ missed \in BOOLEAN /\ edits \in 0..MaxEdits /\ leadFaults \in 0..MaxLeadFaults

LeadsInit ==
  /\ cls = NoClassification /\ occ = 0 /\ lastOcc = 0
  /\ rpc = "idle" /\ rprev = "unverified" /\ rmanual = FALSE /\ rhad = FALSE
  /\ rcls = NoClassification /\ rfound = FALSE
  /\ ppc = [p \in People |-> "idle"] /\ pprev = [p \in People |-> "unverified"]
  /\ pvalue = [p \in People |-> "none"]
  /\ event = [k \in Keys |-> NoEvent]
  /\ leads = [i \in 1..MaxLeadRuns |-> 0]
  /\ missed = FALSE /\ edits = 0 /\ leadFaults = 0

LeadFault == leadFaults < MaxLeadFaults /\ leadFaults' = leadFaults + 1

\* The decision of a person, otherwise documentActualityStatus of the period.
Status(c) ==
  IF c.decision # "none" THEN c.decision
  ELSE IF c.period = "new" THEN "current" ELSE IF c.period = "old" THEN "outdated" ELSE "unverified"

\* The run has written the row of the classification.
RowLocked == rpc \in {"transition", "announce", "commit"}

\* publish: an existing key is left as it is.
Put(k, id, said) ==
  event' = IF event[k].state # "none" THEN event
           ELSE [event EXCEPT ![k] = [NoEvent EXCEPT !.state = "pending", !.occ = id, !.said = said]]

TransitionKey(from) == IF from = "outdated" THEN "outdated-current" ELSE "unverified-current"

-----------------------------------------------------------------------------
(* ingestion.processing.run, as far as the lead depends on it.             *)

RunGo(from, to) == rpc = from /\ rpc' = to

RunStarts ==
  /\ lastOcc < MaxLeadRuns
  /\ RunGo("idle", "snapshot")
  /\ rprev' = Status(cls)
  /\ UNCHANGED <<cls, occ, lastOcc, rmanual, rhad, rcls, rfound, peopleVars, event, leads, missed, leadFaults>>

RunSnapshot ==
  /\ RunGo("snapshot", "derive")
  /\ rmanual' = cls.manual /\ rhad' = (occ # 0)
  /\ UNCHANGED <<cls, occ, lastOcc, rprev, rcls, rfound, peopleVars, event, leads, missed, leadFaults>>

\* The bug: what a person has entered is derived anew.
DeriveAll(p) ==
  /\ RunGo("derive", "transition")
  /\ rcls' = [cls EXCEPT !.there = TRUE, !.period = p, !.manual = FALSE]
  /\ rfound' \in BOOLEAN
  /\ UNCHANGED <<cls, occ, lastOcc, rprev, rmanual, rhad, peopleVars, event, leads, missed, leadFaults>>

\* upsertDerivedClassification: leaves a period that is manual in the snapshot.
Derive(p) ==
  /\ RunGo("derive", "transition")
  /\ rcls' = IF rmanual THEN cls
             ELSE [cls EXCEPT !.there = TRUE, !.period = p, !.manual = FALSE]
  /\ rfound' \in BOOLEAN
  /\ UNCHANGED <<cls, occ, lastOcc, rprev, rmanual, rhad, peopleVars, event, leads, missed, leadFaults>>

\* The document has become current since the handler read it.
RunPublishesTransition ==
  /\ RunGo("transition", "announce")
  /\ IF rfound /\ rhad /\ rprev # "current" /\ Status(rcls) = "current"
     THEN Put(TransitionKey(rprev), lastOcc + 1, TRUE) ELSE UNCHANGED event
  /\ rprev' = "unverified" /\ rhad' = FALSE   \* not read again
  /\ UNCHANGED <<cls, occ, lastOcc, rmanual, rcls, rfound, peopleVars, leads, missed, leadFaults>>

\* The announcement of the occurrence, in the outbox before the commit.
RunAnnounces ==
  /\ RunGo("announce", "commit")
  /\ IF rfound THEN Put("detected", lastOcc + 1, Status(rcls) = "current") ELSE UNCHANGED event
  /\ UNCHANGED <<cls, occ, lastOcc, rprev, rmanual, rhad, rcls, rfound, peopleVars, leads, missed, leadFaults>>

EndRun ==
  /\ rpc' = "idle" /\ rprev' = "unverified" /\ rmanual' = FALSE /\ rhad' = FALSE
  /\ rcls' = NoClassification /\ rfound' = FALSE
  /\ lastOcc' = lastOcc + 1

\* If the finding is gone, a later run that finds it again does not count as a
\* transition, and its first announcement has its key already.
RunCommits ==
  /\ rpc = "commit" /\ EndRun
  /\ cls' = rcls
  /\ occ' = IF rfound THEN lastOcc + 1 ELSE 0
  /\ missed' = (missed \/ (~rfound /\ occ # 0))
  /\ UNCHANGED <<peopleVars, event, leads, leadFaults>>

\* The rollback leaves what it has published.
RunAborts ==
  /\ rpc # "idle" /\ LeadFault /\ EndRun
  /\ missed' = (missed \/ rpc \in {"announce", "commit"})
  /\ UNCHANGED <<cls, occ, peopleVars, event, leads>>

-----------------------------------------------------------------------------
(* documents.correct and documents.actuality.                              *)

PersonGo(p, from, to) == ppc[p] = from /\ ppc' = [ppc EXCEPT ![p] = to]
\* The locals of a request end with it.
EndEdit(p) ==
  /\ ppc' = [ppc EXCEPT ![p] = "idle"]
  /\ pprev' = [pprev EXCEPT ![p] = "unverified"] /\ pvalue' = [pvalue EXCEPT ![p] = "none"]

\* Both read the status before.
StartEdit(p, kind, value) ==
  /\ cls.there /\ edits < MaxEdits /\ edits' = edits + 1
  /\ PersonGo(p, "idle", kind)
  /\ kind = "decide" => value # Status(cls)
  /\ pprev' = [pprev EXCEPT ![p] = Status(cls)]
  /\ pvalue' = [pvalue EXCEPT ![p] = value]
  /\ UNCHANGED <<cls, occ, lastOcc, runVarsL, event, leads, missed, leadFaults>>

\* p has read a status another has changed since, or changes one of which
\* another edit has yet to find that it made the document current.
Miscounts(p) ==
  \/ pprev[p] = "current" /\ Status(cls) # "current"
  \/ Status(cls) = "current" /\ \E q \in People \ {p} : ppc[q] = "after" /\ pprev[q] # "current"

\* updateClassificationManual: a new period takes the decision back.
CorrectPeriod(p) ==
  /\ ~RowLocked /\ PersonGo(p, "correct", "after")
  /\ cls' = [cls EXCEPT !.period = pvalue[p], !.manual = TRUE, !.decision = "none"]
  /\ pvalue' = [pvalue EXCEPT ![p] = "none"]
  /\ missed' = (missed \/ Miscounts(p))
  /\ UNCHANGED <<occ, lastOcc, runVarsL, pprev, edits, event, leads, leadFaults>>

\* decideDocumentActuality
DecideActuality(p) ==
  /\ ~RowLocked /\ PersonGo(p, "decide", "after")
  /\ cls' = [cls EXCEPT !.decision = pvalue[p]]
  /\ pvalue' = [pvalue EXCEPT ![p] = "none"]
  /\ missed' = (missed \/ Miscounts(p))
  /\ UNCHANGED <<occ, lastOcc, runVarsL, pprev, edits, event, leads, leadFaults>>

\* getDocument after the update: published is a change to "current".
ReadAfter(p) ==
  /\ ppc[p] = "after"
  /\ IF pprev[p] # "current" /\ Status(cls) = "current"
     THEN PersonGo(p, "after", "publish") /\ UNCHANGED <<pprev, pvalue>> ELSE EndEdit(p)
  /\ UNCHANGED <<cls, occ, lastOcc, runVarsL, edits, event, leads, missed, leadFaults>>

\* publishCurrentActualityTransition for the occurrences there are now.
PublishTransition(p) ==
  /\ ppc[p] = "publish" /\ EndEdit(p)
  /\ IF occ # 0 THEN Put(TransitionKey(pprev[p]), occ, TRUE) ELSE UNCHANGED event
  /\ UNCHANGED <<cls, occ, lastOcc, runVarsL, edits, leads, missed, leadFaults>>

\* The process dies between the update and the publication.
PersonCrash(p) ==
  /\ ppc[p] \in {"after", "publish"} /\ LeadFault
  /\ EndEdit(p)
  /\ missed' = TRUE
  /\ UNCHANGED <<cls, occ, lastOcc, runVarsL, edits, event, leads>>

-----------------------------------------------------------------------------
(* The handler of advertisement.detected in the CRM.                       *)

\* getDocumentActuality, outside the transaction.
ReadActuality(k) ==
  /\ event[k].state = "pending"
  /\ event' = [event EXCEPT ![k].state = "read", ![k].read = (Status(cls) = "current")]
  /\ UNCHANGED <<cls, occ, lastOcc, runVarsL, peopleVars, leads, missed, leadFaults>>

\* The bug: an event delivered again makes another customer.
MakeLeadAgain(id) == leads' = [leads EXCEPT ![id] = @ + 1]

\* hasIngestionLead, createCustomer, and the unique index behind them.
MakeLead(id) == leads' = [leads EXCEPT ![id] = 1]

\* The transaction, and the event is marked as handled, unless the process
\* dies before: then it is delivered again.
HandleDetected(k) ==
  /\ event[k].state = "read"
  /\ IF event[k].read
     THEN MakeLead(event[k].occ) /\ UNCHANGED missed
     ELSE missed' = (missed \/ event[k].said) /\ UNCHANGED leads
  /\ \/ event' = [event EXCEPT ![k] = Delivered] /\ UNCHANGED leadFaults
     \/ event' = [event EXCEPT ![k].state = "pending", ![k].read = NoEvent.read] /\ LeadFault
  /\ UNCHANGED <<cls, occ, lastOcc, runVarsL, peopleVars>>

-----------------------------------------------------------------------------

LeadRun == RunStarts \/ RunSnapshot \/ (\E p \in Periods : Derive(p)) \/ RunPublishesTransition
           \/ RunAnnounces \/ RunCommits \/ RunAborts

Person(p) ==
  \/ \E value \in Periods : StartEdit(p, "correct", value)
  \/ \E value \in {"current", "outdated"} : StartEdit(p, "decide", value)
  \/ CorrectPeriod(p) \/ DecideActuality(p) \/ ReadAfter(p) \/ PublishTransition(p) \/ PersonCrash(p)

LeadsNext ==
  \/ LeadRun
  \/ \E p \in People : Person(p)
  \/ \E k \in Keys : ReadActuality(k) \/ HandleDetected(k)

LeadsSpec == LeadsInit /\ [][LeadsNext]_leadsVars

-----------------------------------------------------------------------------
(* Properties.                                                             *)

Quiet == /\ rpc = "idle" /\ \A p \in People : ppc[p] = "idle"
         /\ \A k \in Keys : event[k].state \in {"none", "delivered"}

\* Once all is delivered, a document that is current with a finding has led to
\* a lead, whichever of the runs and the people made it current and however
\* they overlapped, and an occurrence never to two.  An announcement is lost,
\* as the code stands, if the handler reads the document before the run that
\* announces it has committed or after it has been outdated again, if that run
\* is rolled back after the announcement, if a process dies between an edit and
\* its event, if of two overlapping edits one compares with a status the other
\* has changed since, and if the finding was gone for a run.
CurrentBecomesLead ==
  /\ \A i \in 1..MaxLeadRuns : leads[i] <= 1
  /\ Quiet /\ occ # 0 /\ Status(cls) = "current" /\ ~missed => \E i \in 1..MaxLeadRuns : leads[i] = 1

\* No run changes a period a person has entered, but one whose snapshot is
\* older than the entry.
CorrectionsSurvive ==
  [][cls.manual /\ cls'.period # cls.period =>
       \/ \E p \in People : ppc[p] = "correct" /\ ppc'[p] = "after"
       \/ rpc = "commit" /\ ~rmanual]_leadsVars
=============================================================================
