---------------------------- MODULE LeadsProofs ----------------------------
(***************************************************************************)
(* Proofs about Leads for any number of people, runs, edits and faults:    *)
(* what people have entered is kept, and a finding of a current document   *)
(* has become a lead once all is delivered, unless one of the losses that  *)
(* `missed` records has happened.                                          *)
(***************************************************************************)
EXTENDS Leads, TLAPS

-----------------------------------------------------------------------------
(* Corrections.                                                            *)

\* A run that has seen a period a person has entered writes it back as it is:
\* the row is locked from then on.
RunKeepsCorrection ==
  /\ {cls, rcls} \subseteq Classification
  /\ ppc \in [People -> {"idle", "correct", "decide", "after", "publish"}]
  /\ pvalue \in [People -> Periods \cup Actualities]
  /\ \A p \in People : ppc[p] = "correct" => pvalue[p] \in Periods
  /\ \A p \in People : ppc[p] = "decide" => pvalue[p] \in {"current", "outdated"}
  /\ RowLocked /\ rmanual = TRUE => rcls.period = cls.period

LEMMA RunKeepsCorrectionNext ==
  ASSUME RunKeepsCorrection, [LeadsNext]_leadsVars
  PROVE  RunKeepsCorrection'
<1> USE DEF RunKeepsCorrection, RowLocked
<1>1. CASE RunStarts \/ RunSnapshot \/ RunPublishesTransition \/ RunAnnounces
  BY <1>1 DEF RunStarts, RunSnapshot, RunPublishesTransition, RunAnnounces, RunGo, peopleVars
<1>2. ASSUME NEW p \in Periods, Derive(p) PROVE RunKeepsCorrection'
  BY <1>2 DEF Derive, RunGo, peopleVars, Classification
<1>3. CASE RunCommits \/ RunAborts
  <2>1. NoClassification \in Classification
    BY DEF NoClassification, Classification, Periods
  <2>2. cls' \in Classification /\ rcls' \in Classification
    BY <1>3, <2>1 DEF RunCommits, RunAborts, EndRun
  <2>3. rpc' = "idle" /\ UNCHANGED <<ppc, pvalue>>
    BY <1>3 DEF RunCommits, RunAborts, EndRun, peopleVars
  <2> QED BY <2>2, <2>3
<1>4. ASSUME NEW p \in People, NEW value \in Periods, StartEdit(p, "correct", value)
      PROVE  RunKeepsCorrection'
  BY <1>4 DEF StartEdit, PersonGo, runVarsL
<1>5. ASSUME NEW p \in People, NEW value \in {"current", "outdated"}, StartEdit(p, "decide", value)
      PROVE  RunKeepsCorrection'
  BY <1>5 DEF StartEdit, PersonGo, runVarsL, Actualities
<1>6. ASSUME NEW p \in People, CorrectPeriod(p) \/ DecideActuality(p) PROVE RunKeepsCorrection'
  <2>1. cls' \in Classification
    BY <1>6 DEF CorrectPeriod, DecideActuality, PersonGo, Classification
  <2>2. /\ ppc' = [ppc EXCEPT ![p] = "after"] /\ ~RowLocked
        /\ UNCHANGED <<rcls, rmanual, rpc>>
        /\ pvalue' = [pvalue EXCEPT ![p] = "none"] /\ "none" \in Periods
    BY <1>6 DEF CorrectPeriod, DecideActuality, PersonGo, runVarsL, Periods
  <2> QED BY <2>1, <2>2
<1>7. ASSUME NEW p \in People, ReadAfter(p) \/ PublishTransition(p) \/ PersonCrash(p)
      PROVE  RunKeepsCorrection'
  BY <1>7 DEF ReadAfter, PublishTransition, PersonCrash, PersonGo, EndEdit, runVarsL, Periods
<1>8. ASSUME UNCHANGED <<cls, runVarsL, ppc, pvalue>> PROVE RunKeepsCorrection'
  BY <1>8 DEF runVarsL
<1> QED BY <1>1, <1>2, <1>3, <1>4, <1>5, <1>6, <1>7, <1>8
     DEF LeadsNext, LeadRun, Person, ReadActuality, HandleDetected, leadsVars, peopleVars

\* A period a person has entered is changed by a person, or by a run whose
\* snapshot is older than the entry (drizzle-repository.ts
\* upsertDerivedClassification).
THEOREM CorrectionsKept == LeadsSpec => CorrectionsSurvive
<1>1. LeadsInit => RunKeepsCorrection
  BY DEF LeadsInit, RunKeepsCorrection, RowLocked, NoClassification, Classification, Periods, Actualities
<1>2. RunKeepsCorrection /\ [LeadsNext]_leadsVars => RunKeepsCorrection'
  BY RunKeepsCorrectionNext
<1>3. RunKeepsCorrection /\ [LeadsNext]_leadsVars =>
        [cls.manual /\ cls'.period # cls.period =>
           \/ \E p \in People : ppc[p] = "correct" /\ ppc'[p] = "after"
           \/ rpc = "commit" /\ ~rmanual]_leadsVars
  <2> SUFFICES ASSUME RunKeepsCorrection, LeadsNext, cls'.period # cls.period,
                      ~(rpc = "commit" /\ ~rmanual)
               PROVE  \E p \in People : ppc[p] = "correct" /\ ppc'[p] = "after"
    OBVIOUS
  <2>1. ~RunCommits
    BY DEF RunCommits, RunKeepsCorrection, RowLocked
  <2>2. \A p \in People : ~DecideActuality(p)
    BY DEF DecideActuality, RunKeepsCorrection, Classification
  <2>3. PICK p \in People : CorrectPeriod(p)
    BY <2>1, <2>2
       DEF LeadsNext, LeadRun, Person, RunStarts, RunSnapshot, Derive, RunPublishesTransition,
           RunAnnounces, RunAborts, StartEdit, ReadAfter, PublishTransition, PersonCrash,
           ReadActuality, HandleDetected
  <2>4. ppc[p] = "correct" /\ ppc' = [ppc EXCEPT ![p] = "after"]
    BY <2>3 DEF CorrectPeriod, PersonGo
  <2> QED BY <2>4 DEF RunKeepsCorrection
<1> QED BY <1>1, <1>2, <1>3, PTL DEF LeadsSpec, CorrectionsSurvive
-----------------------------------------------------------------------------
(* Leads.                                                                  *)

\* The kinds of the variables: runs and edits stay within their bounds.
LEMMA LeadsInitType == LeadsInit => LeadsTypeOK
<1> SUFFICES ASSUME LeadsInit PROVE LeadsTypeOK
  OBVIOUS
<1>1. NoClassification \in Classification
  BY DEF NoClassification, Classification, Periods
<1>2. NoEvent \in EventRow
  BY LeadsAssumption DEF NoEvent, EventRow
<1>3. /\ ppc \in [People -> {"idle", "correct", "decide", "after", "publish"}]
      /\ pprev \in [People -> Actualities] /\ pvalue \in [People -> Periods \cup Actualities]
  BY DEF LeadsInit, Actualities, Periods
<1>4. {rmanual, rhad} \subseteq BOOLEAN /\ rfound \in BOOLEAN /\ missed \in BOOLEAN
  BY DEF LeadsInit
<1>5. /\ MaxLeadRuns \in Nat /\ MaxEdits \in Nat /\ MaxLeadFaults \in Nat
  BY LeadsAssumption
<1>6. /\ lastOcc \in 0..MaxLeadRuns /\ occ \in 0..lastOcc
      /\ edits \in 0..MaxEdits /\ leadFaults \in 0..MaxLeadFaults
      /\ leads \in [1..MaxLeadRuns -> Nat]
  BY <1>5 DEF LeadsInit
<1>7. rprev \in Actualities /\ rpc = "idle"
  BY DEF LeadsInit, Actualities
<1>8. {cls, rcls} \subseteq Classification /\ event \in [Keys -> EventRow]
  BY <1>1, <1>2 DEF LeadsInit
<1> QED BY <1>3, <1>4, <1>6, <1>7, <1>8 DEF LeadsTypeOK

\* What is published is a row of the outbox.
LEMMA PutType ==
  ASSUME event \in [Keys -> EventRow], NEW k \in Keys, NEW id \in 0..MaxLeadRuns,
         NEW said \in BOOLEAN, Put(k, id, said)
  PROVE  event' \in [Keys -> EventRow]
<1>1. [NoEvent EXCEPT !.state = "pending", !.occ = id, !.said = said] \in EventRow
  BY DEF NoEvent, EventRow
<1> QED BY <1>1 DEF Put

\* A fault is one of those allowed.
LEMMA FaultType ==
  ASSUME leadFaults \in 0..MaxLeadFaults, LeadFault \/ UNCHANGED leadFaults
  PROVE  leadFaults' \in 0..MaxLeadFaults
BY LeadsAssumption DEF LeadFault

LEMMA RunType ==
  ASSUME LeadsTypeOK, rpc # "idle" => lastOcc < MaxLeadRuns, LeadRun
  PROVE  LeadsTypeOK' /\ (rpc # "idle" => lastOcc < MaxLeadRuns)'
<1> USE LeadsAssumption DEF LeadsTypeOK, RunGo
<1>1. CASE RunStarts \/ RunSnapshot
  BY <1>1 DEF RunStarts, RunSnapshot, peopleVars, Status, Actualities, Classification
<1>2. ASSUME NEW p \in Periods, Derive(p)
      PROVE  LeadsTypeOK' /\ (rpc # "idle" => lastOcc < MaxLeadRuns)'
  BY <1>2 DEF Derive, peopleVars, Classification
<1>3. CASE RunPublishesTransition
  <2>1. TransitionKey(rprev) \in Keys /\ lastOcc + 1 \in 0..MaxLeadRuns
    BY <1>3 DEF RunPublishesTransition, TransitionKey, Keys
  <2>2. event' \in [Keys -> EventRow]
    BY <1>3, <2>1, PutType DEF RunPublishesTransition
  <2> QED BY <1>3, <2>2 DEF RunPublishesTransition, peopleVars, Actualities
<1>4. CASE RunAnnounces
  <2>1. "detected" \in Keys /\ lastOcc + 1 \in 0..MaxLeadRuns
    BY <1>4 DEF RunAnnounces, Keys
  <2>2. event' \in [Keys -> EventRow]
    BY <1>4, <2>1, PutType DEF RunAnnounces
  <2> QED BY <1>4, <2>2 DEF RunAnnounces, peopleVars
<1>5. CASE RunCommits \/ RunAborts
  <2>1. NoClassification \in Classification
    BY DEF NoClassification, Classification, Periods
  <2>2. /\ cls' \in {cls, rcls} /\ rcls' = NoClassification /\ lastOcc < MaxLeadRuns
        /\ occ' \in {occ, lastOcc + 1, 0} /\ rpc' = "idle" /\ rprev' = "unverified"
        /\ rmanual' = FALSE /\ rhad' = FALSE /\ rfound' = FALSE /\ lastOcc' = lastOcc + 1
        /\ UNCHANGED <<ppc, pprev, pvalue, edits, event, leads>>
    BY <1>5 DEF RunCommits, RunAborts, EndRun, peopleVars
  <2>3. missed' \in BOOLEAN
    BY <1>5 DEF RunCommits, RunAborts
  <2>4. leadFaults' \in 0..MaxLeadFaults
    BY <1>5 DEF RunCommits, RunAborts, LeadFault
  <2>5. lastOcc' \in 0..MaxLeadRuns /\ occ' \in 0..lastOcc'
    BY <2>2
  <2>6. {cls', rcls'} \subseteq Classification /\ rprev' \in Actualities
    BY <2>1, <2>2 DEF Actualities
  <2> QED BY <2>2, <2>3, <2>4, <2>5, <2>6
<1> QED BY <1>1, <1>2, <1>3, <1>4, <1>5 DEF LeadRun

LEMMA PersonType ==
  ASSUME LeadsTypeOK, RunKeepsCorrection, NEW p \in People, Person(p)
  PROVE  LeadsTypeOK' /\ UNCHANGED <<rpc, lastOcc>>
<1> USE LeadsAssumption DEF LeadsTypeOK
<1>0. Status(cls) \in Actualities
  BY DEF Status, Classification, Actualities
<1>1. ASSUME NEW value \in Periods \cup Actualities,
             StartEdit(p, "correct", value) \/ StartEdit(p, "decide", value)
      PROVE  LeadsTypeOK' /\ UNCHANGED <<rpc, lastOcc>>
  <2>1. edits' \in 0..MaxEdits
    BY <1>1 DEF StartEdit
  <2>2. /\ ppc' \in [People -> {"idle", "correct", "decide", "after", "publish"}]
        /\ pprev' \in [People -> Actualities] /\ pvalue' \in [People -> Periods \cup Actualities]
    BY <1>0, <1>1 DEF StartEdit, PersonGo
  <2>3. UNCHANGED <<cls, occ, lastOcc, runVarsL, event, leads, missed, leadFaults>>
    BY <1>1 DEF StartEdit
  <2> QED BY <2>1, <2>2, <2>3 DEF runVarsL
<1>2. CASE CorrectPeriod(p) \/ DecideActuality(p)
  <2>1. cls' \in Classification
    BY <1>2 DEF CorrectPeriod, DecideActuality, PersonGo, Classification, RunKeepsCorrection
  <2>2. missed' \in BOOLEAN
    BY <1>2 DEF CorrectPeriod, DecideActuality
  <2>3. ppc' = [ppc EXCEPT ![p] = "after"] /\ pvalue' = [pvalue EXCEPT ![p] = "none"]
    BY <1>2 DEF CorrectPeriod, DecideActuality, PersonGo
  <2>4. UNCHANGED <<occ, lastOcc, runVarsL, pprev, edits, event, leads, leadFaults>>
    BY <1>2 DEF CorrectPeriod, DecideActuality
  <2>5. ppc' \in [People -> {"idle", "correct", "decide", "after", "publish"}]
        /\ pvalue' \in [People -> Periods \cup Actualities]
    BY <2>3 DEF Periods
  <2> QED BY <2>1, <2>2, <2>4, <2>5 DEF runVarsL
<1>3. CASE ReadAfter(p) \/ PublishTransition(p) \/ PersonCrash(p)
  <2>1. /\ ppc' \in [People -> {"idle", "correct", "decide", "after", "publish"}]
        /\ pprev' \in [People -> Actualities] /\ pvalue' \in [People -> Periods \cup Actualities]
    BY <1>3 DEF ReadAfter, PublishTransition, PersonCrash, PersonGo, EndEdit, Periods, Actualities
  <2>2. event' \in [Keys -> EventRow]
    <3>1. CASE PublishTransition(p) /\ occ # 0
      <4>1. TransitionKey(pprev[p]) \in Keys /\ occ \in 0..MaxLeadRuns
        BY DEF TransitionKey, Keys
      <4> QED BY <3>1, <4>1, PutType DEF PublishTransition
    <3> QED BY <1>3, <3>1 DEF ReadAfter, PublishTransition, PersonCrash
  <2>3. missed' \in BOOLEAN
    BY <1>3 DEF ReadAfter, PublishTransition, PersonCrash
  <2>5. leadFaults' \in 0..MaxLeadFaults
    BY <1>3, FaultType DEF ReadAfter, PublishTransition, PersonCrash
  <2>4. UNCHANGED <<cls, occ, lastOcc, runVarsL, edits, leads>>
    BY <1>3 DEF ReadAfter, PublishTransition, PersonCrash
  <2> QED BY <2>1, <2>2, <2>3, <2>4, <2>5 DEF runVarsL
<1> QED BY <1>1, <1>2, <1>3 DEF Person, Actualities

\* An event that is handled names an occurrence.
EventsHaveOccurrence == \A k \in Keys : event[k].state \in {"pending", "read"} => event[k].occ # 0

LEMMA HandlerType ==
  ASSUME LeadsTypeOK, EventsHaveOccurrence, NEW k \in Keys, ReadActuality(k) \/ HandleDetected(k)
  PROVE  LeadsTypeOK' /\ UNCHANGED <<rpc, lastOcc>>
<1> USE LeadsAssumption DEF LeadsTypeOK
<1>1. /\ event' \in [Keys -> EventRow] /\ leads' \in [1..MaxLeadRuns -> Nat]
      /\ missed' \in BOOLEAN /\ leadFaults' \in 0..MaxLeadFaults
  <2>1. CASE ReadActuality(k)
    BY <2>1 DEF ReadActuality, EventRow
  <2>2. CASE HandleDetected(k)
    <3>1. leadFaults' \in 0..MaxLeadFaults
      BY <2>2, FaultType DEF HandleDetected
    <3>4. Delivered \in EventRow /\ NoEvent.read = FALSE
      <4>0. NoEvent \in EventRow
        BY DEF NoEvent, EventRow
      <4>1. Delivered \in EventRow
        BY <4>0 DEF Delivered, EventRow
      <4>2. NoEvent.read = FALSE
        BY DEF NoEvent
      <4> QED BY <4>1, <4>2
    <3>5. [event[k] EXCEPT !.state = "pending", !.read = FALSE] \in EventRow
      BY DEF EventRow
    <3>6. event' = [event EXCEPT ![k] = Delivered]
          \/ event' = [event EXCEPT ![k] = [event[k] EXCEPT !.state = "pending", !.read = FALSE]]
      BY <2>2, <3>4 DEF HandleDetected
    <3>7. event' \in [Keys -> EventRow]
      BY <3>4, <3>5, <3>6
    <3>2. leads' \in [1..MaxLeadRuns -> Nat]
      BY <2>2 DEF HandleDetected, MakeLead
    <3>3. missed' \in BOOLEAN
      BY <2>2 DEF HandleDetected
    <3> QED BY <3>1, <3>2, <3>3, <3>7
  <2> QED BY <2>1, <2>2
<1>2. UNCHANGED <<cls, occ, lastOcc, runVarsL, peopleVars>>
  BY DEF ReadActuality, HandleDetected
<1> QED BY <1>1, <1>2 DEF runVarsL, peopleVars

\* The invariant the kinds need: a run has an id to give.
LeadsKinds ==
  /\ LeadsTypeOK /\ RunKeepsCorrection /\ EventsHaveOccurrence
  /\ rpc # "idle" => lastOcc < MaxLeadRuns

LEMMA LeadsKindsNext == LeadsKinds /\ [LeadsNext]_leadsVars => LeadsKinds'
<1> SUFFICES ASSUME LeadsKinds, [LeadsNext]_leadsVars PROVE LeadsKinds'
  OBVIOUS
<1> USE DEF LeadsKinds
<1>1. RunKeepsCorrection'
  BY RunKeepsCorrectionNext
<1>2. LeadsTypeOK' /\ (rpc # "idle" => lastOcc < MaxLeadRuns)'
  <2>1. CASE LeadRun
    BY <2>1, RunType
  <2>2. ASSUME NEW p \in People, Person(p)
        PROVE  LeadsTypeOK' /\ UNCHANGED <<rpc, lastOcc>>
    BY <2>2, PersonType
  <2>3. ASSUME NEW k \in Keys, ReadActuality(k) \/ HandleDetected(k)
        PROVE  LeadsTypeOK' /\ UNCHANGED <<rpc, lastOcc>>
    BY <2>3, HandlerType
  <2>4. CASE UNCHANGED leadsVars
    BY <2>4 DEF leadsVars, runVarsL, peopleVars, LeadsTypeOK
  <2> QED BY <2>1, <2>2, <2>3, <2>4 DEF LeadsNext
<1>3. EventsHaveOccurrence'
  <2> USE DEF EventsHaveOccurrence
  <2>1. ASSUME NEW k \in Keys, NEW id \in 1..MaxLeadRuns, NEW said, Put(k, id, said)
        PROVE  EventsHaveOccurrence'
    BY <2>1 DEF Put, NoEvent, LeadsTypeOK, EventRow
  <2>2. CASE UNCHANGED event
    BY <2>2
  <2>3. CASE RunPublishesTransition \/ RunAnnounces
    <3>1. lastOcc < MaxLeadRuns
      BY <2>3 DEF RunPublishesTransition, RunAnnounces, RunGo
    <3>2. lastOcc + 1 \in 1..MaxLeadRuns
      BY <3>1, LeadsAssumption DEF LeadsTypeOK
    <3>3. TransitionKey(rprev) \in Keys /\ "detected" \in Keys
      BY DEF TransitionKey, Keys
    <3> QED BY <2>1, <2>2, <2>3, <3>2, <3>3 DEF RunPublishesTransition, RunAnnounces
  <2>4. ASSUME NEW p \in People, PublishTransition(p) PROVE EventsHaveOccurrence'
    <3>1. TransitionKey(pprev[p]) \in Keys
      BY DEF TransitionKey, Keys
    <3>2. occ # 0 => occ \in 1..MaxLeadRuns
      BY LeadsAssumption DEF LeadsTypeOK
    <3> QED BY <2>1, <2>2, <2>4, <3>1, <3>2 DEF PublishTransition
  <2>5. ASSUME NEW k \in Keys, ReadActuality(k) \/ HandleDetected(k) PROVE EventsHaveOccurrence'
    BY <2>5 DEF ReadActuality, HandleDetected, Delivered, NoEvent, LeadsTypeOK, EventRow
  <2> QED BY <2>2, <2>3, <2>4, <2>5
       DEF LeadsNext, LeadRun, Person, RunStarts, RunSnapshot, Derive, RunCommits, RunAborts,
           StartEdit, CorrectPeriod, DecideActuality, ReadAfter, PersonCrash, leadsVars
<1> QED BY <1>1, <1>2, <1>3

-----------------------------------------------------------------------------
(* What is due.                                                            *)

\* Whenever the document is current with a finding, or is about to be, a lead
\* is due, unless an announcement was lost.  It is due if it is promised: there
\* is one, or an event that says so is not handled yet; or if an edit that made
\* the document current has yet to publish it.
Announced == \E k \in Keys : event[k].state \in {"pending", "read"} /\ event[k].said
Promised == (\E i \in 1..MaxLeadRuns : leads[i] = 1) \/ Announced
Owed == \E p \in People :
  \/ ppc[p] = "publish"
  \/ ppc[p] = "after" /\ pprev[p] # "current" /\ Status(cls) = "current"
Due == Promised \/ Owed

\* Nothing is announced before the first run has found something, and a
\* transition that has its event is promised.
AnnouncedOnce ==
  /\ occ = 0 /\ ~(rpc = "commit" /\ rfound) => event["detected"].state = "none"
  /\ \A k \in Keys \ {"detected"} : event[k].state # "none" => Promised

\* A run has read whether there were occurrences; what it has found is due
\* before it commits, by the status it had read, its transition or its event.
\* A first finding is promised, as no edit publishes without an occurrence.
RunIsDue ==
  /\ rpc \in {"derive", "transition"} => (rhad <=> occ # 0)
  /\ rpc \in {"snapshot", "derive", "transition"} /\ rprev = "current" /\ occ # 0 => Due
  /\ rpc = "announce" /\ rfound /\ occ # 0 /\ Status(rcls) = "current" => Due
  /\ rpc = "commit" /\ rfound /\ Status(rcls) = "current" => Due /\ (occ = 0 => Promised)

CurrentIsDue == occ # 0 /\ Status(cls) = "current" => Due

LeadsInv ==
  /\ LeadsKinds
  /\ \A i \in 1..MaxLeadRuns : leads[i] <= 1
  /\ ~missed => AnnouncedOnce /\ RunIsDue /\ CurrentIsDue

\* An event keeps its content until its handler reads or handles it, and only
\* the handler makes customers.
LEMMA EventsStay ==
  ASSUME LeadsTypeOK, [LeadsNext]_leadsVars
  PROVE  \/ UNCHANGED leads /\ \A k \in Keys : event[k].state # "none" => event'[k] = event[k]
         \/ \E k \in Keys : ReadActuality(k) \/ HandleDetected(k)
<1>1. ASSUME NEW k \in Keys, NEW id, NEW said, Put(k, id, said)
      PROVE  \A j \in Keys : event[j].state # "none" => event'[j] = event[j]
  BY <1>1 DEF Put, LeadsTypeOK
<1>2. "detected" \in Keys /\ \A from : TransitionKey(from) \in Keys
  BY DEF TransitionKey, Keys
<1>3. ASSUME NEW k \in Keys, NEW id, NEW said, Put(k, id, said) \/ UNCHANGED event
      PROVE  \A j \in Keys : event[j].state # "none" => event'[j] = event[j]
  BY <1>1, <1>3
<1>4. CASE RunPublishesTransition \/ RunAnnounces
  BY <1>2, <1>3, <1>4 DEF RunPublishesTransition, RunAnnounces
<1>5. ASSUME NEW p \in People, PublishTransition(p)
      PROVE  UNCHANGED leads /\ \A k \in Keys : event[k].state # "none" => event'[k] = event[k]
  BY <1>2, <1>3, <1>5 DEF PublishTransition
<1>6. CASE UNCHANGED <<leads, event>>
  BY <1>6
<1> QED BY <1>4, <1>5, <1>6
     DEF LeadsNext, LeadRun, Person, RunStarts, RunSnapshot, Derive, RunCommits, RunAborts,
         StartEdit, CorrectPeriod, DecideActuality, ReadAfter, PersonCrash, leadsVars

\* A loss is never forgotten.
LEMMA MissedStays == ASSUME [LeadsNext]_leadsVars, ~missed' PROVE ~missed
BY DEF LeadsNext, LeadRun, Person, RunStarts, RunSnapshot, Derive, RunPublishesTransition,
       RunAnnounces, RunCommits, RunAborts, StartEdit, CorrectPeriod, DecideActuality, ReadAfter,
       PublishTransition, PersonCrash, ReadActuality, HandleDetected, leadsVars

\* What is promised stays so: an event that says "current" makes a customer when
\* it is handled, or its handler has read that the document is not current,
\* which is a loss.
LEMMA PromiseStays ==
  ASSUME LeadsKinds, [LeadsNext]_leadsVars, Promised, ~missed'
  PROVE  Promised'
<1> USE DEF Promised, Announced
<1>1. CASE UNCHANGED leads /\ \A k \in Keys : event[k].state # "none" => event'[k] = event[k]
  BY <1>1
<1>2. ASSUME NEW k \in Keys, ReadActuality(k) PROVE Promised'
  BY <1>2 DEF ReadActuality, LeadsKinds, LeadsTypeOK
<1>3. ASSUME NEW k \in Keys, HandleDetected(k) PROVE Promised'
  <2>1. event[k].occ \in 1..MaxLeadRuns
    BY <1>3, LeadsAssumption DEF HandleDetected, LeadsKinds, LeadsTypeOK, EventsHaveOccurrence, EventRow
  <2>2. CASE event[k].read
    BY <1>3, <2>1, <2>2 DEF HandleDetected, MakeLead, LeadsKinds, LeadsTypeOK
  <2>3. CASE ~event[k].read
    <3>1. ~event[k].said /\ UNCHANGED leads
      BY <1>3, <2>3 DEF HandleDetected
    <3>2. \A j \in Keys \ {k} : event'[j] = event[j]
      BY <1>3 DEF HandleDetected, LeadsKinds, LeadsTypeOK
    <3> QED BY <3>1, <3>2
  <2> QED BY <2>2, <2>3
<1> QED BY <1>1, <1>2, <1>3, EventsStay DEF LeadsKinds

\* A publication that says "current" is a promise, or the key had its row.
LEMMA PutPromises ==
  ASSUME LeadsTypeOK, NEW k \in Keys, NEW id, Put(k, id, TRUE)
  PROVE  event[k].state # "none" \/ Promised'
BY DEF Put, Promised, Announced, LeadsTypeOK, NoEvent

LEMMA TransitionPromises ==
  ASSUME LeadsKinds, AnnouncedOnce, [LeadsNext]_leadsVars, ~missed',
         NEW from, NEW id, Put(TransitionKey(from), id, TRUE)
  PROVE  Promised'
<1>1. TransitionKey(from) \in Keys \ {"detected"}
  BY DEF TransitionKey, Keys
<1>2. CASE event[TransitionKey(from)].state # "none"
  BY <1>1, <1>2, PromiseStays DEF AnnouncedOnce
<1> QED BY <1>1, <1>2, PutPromises DEF LeadsKinds

\* What is due stays due while the finding is there: who owes it publishes it,
\* dies, or another edit counts its change as its own, which are losses.
LEMMA DueStays ==
  ASSUME LeadsKinds, AnnouncedOnce, [LeadsNext]_leadsVars, Due, ~missed',
         RunCommits => Status(rcls) = "current", occ # 0 \/ RunCommits
  PROVE  Due'
<1> USE DEF Due
<1>1. CASE Promised
  BY <1>1, PromiseStays
<1>2. ASSUME NEW p \in People,
             \/ ppc[p] = "publish"
             \/ ppc[p] = "after" /\ pprev[p] # "current" /\ Status(cls) = "current"
      PROVE  Due'
  <2> USE DEF Owed, LeadsKinds, LeadsTypeOK
  <2>1. CASE UNCHANGED <<cls, ppc, pprev>>
    BY <1>2, <2>1 DEF Status
  <2>2. CASE RunCommits
    BY <1>2, <2>2 DEF RunCommits, peopleVars, Status
  <2>3. ASSUME NEW q \in People, NEW value, NEW kind \in {"correct", "decide"},
               StartEdit(q, kind, value)
        PROVE  Due'
    BY <1>2, <2>3 DEF StartEdit, PersonGo, Status
  <2>4. ASSUME NEW q \in People, CorrectPeriod(q) \/ DecideActuality(q) PROVE Due'
    <3>1. q # p /\ ~Miscounts(q) /\ ppc' = [ppc EXCEPT ![q] = "after"] /\ UNCHANGED pprev
      BY <1>2, <2>4 DEF CorrectPeriod, DecideActuality, PersonGo
    <3>2. ppc[p] = "publish"
      BY <1>2, <3>1 DEF Miscounts
    <3> QED BY <3>1, <3>2
  <2>5. ASSUME NEW q \in People, ReadAfter(q) PROVE Due'
    BY <1>2, <2>5 DEF ReadAfter, PersonGo, EndEdit, Status
  <2>6. ASSUME NEW q \in People, PublishTransition(q) PROVE Due'
    <3>1. CASE q = p
      <4>1. Put(TransitionKey(pprev[q]), occ, TRUE)
        BY <2>6 DEF PublishTransition, RunCommits, EndRun, runVarsL
      <4> QED BY <4>1, TransitionPromises
    <3>2. CASE q # p
      BY <1>2, <2>6, <3>2 DEF PublishTransition, EndEdit, Status
    <3> QED BY <3>1, <3>2
  <2>7. \A q \in People : ~PersonCrash(q)
    BY DEF PersonCrash
  <2> QED BY <2>1, <2>2, <2>3, <2>4, <2>5, <2>6, <2>7
       DEF LeadsNext, LeadRun, Person, RunStarts, RunSnapshot, Derive, RunPublishesTransition,
           RunAnnounces, RunAborts, ReadActuality, HandleDetected, leadsVars, peopleVars
<1> QED BY <1>1, <1>2 DEF Owed

\* The three parts are kept by every step.
LEMMA CurrentStaysDue ==
  ASSUME LeadsInv, [LeadsNext]_leadsVars, ~missed'
  PROVE  CurrentIsDue'
<1>0. AnnouncedOnce /\ RunIsDue /\ CurrentIsDue /\ LeadsKinds
  BY MissedStays DEF LeadsInv
<1> SUFFICES ASSUME occ' # 0, Status(cls)' = "current" PROVE Due'
  BY DEF CurrentIsDue
<1>1. CASE RunCommits
  <2>1. rfound /\ Status(rcls) = "current" /\ rpc = "commit"
    BY <1>1 DEF RunCommits, Status
  <2> QED BY <1>0, <1>1, <2>1, DueStays DEF RunIsDue
<1>2. ASSUME NEW p \in People, CorrectPeriod(p) \/ DecideActuality(p) PROVE Due'
  <2>1. /\ ppc' = [ppc EXCEPT ![p] = "after"] /\ UNCHANGED <<pprev, occ>> /\ ~Miscounts(p)
        /\ ~RunCommits
    BY <1>2 DEF CorrectPeriod, DecideActuality, PersonGo, RowLocked, RunCommits
  <2>2. CASE pprev[p] # "current"
    BY <1>0, <2>1, <2>2 DEF Due, Owed, LeadsKinds, LeadsTypeOK, Status
  <2>3. CASE pprev[p] = "current"
    BY <1>0, <2>1, <2>3, DueStays DEF Miscounts, CurrentIsDue
  <2> QED BY <2>2, <2>3
<1>3. CASE UNCHANGED <<cls, occ>> /\ ~RunCommits
  BY <1>0, <1>3, DueStays DEF CurrentIsDue, Status
<1> QED BY <1>1, <1>2, <1>3
     DEF LeadsNext, LeadRun, Person, RunStarts, RunSnapshot, Derive, RunPublishesTransition,
         RunAnnounces, RunAborts, StartEdit, ReadAfter, PublishTransition, PersonCrash,
         ReadActuality, HandleDetected, leadsVars

LEMMA RunStaysDue ==
  ASSUME LeadsInv, [LeadsNext]_leadsVars, ~missed'
  PROVE  RunIsDue'
<1>0. AnnouncedOnce /\ RunIsDue /\ CurrentIsDue /\ LeadsKinds
  BY MissedStays DEF LeadsInv
<1>due. Due /\ occ # 0 /\ ~RunCommits => Due'
  BY <1>0, DueStays
<1>promised. Promised => Promised'
  BY <1>0, PromiseStays
<1>1. CASE RunStarts
  BY <1>0, <1>1, <1>due DEF RunStarts, RunGo, RunCommits, RunIsDue, CurrentIsDue
<1>2. CASE RunSnapshot
  BY <1>0, <1>2, <1>due DEF RunSnapshot, RunGo, RunCommits, RunIsDue
<1>3. ASSUME NEW p \in Periods, Derive(p) PROVE RunIsDue'
  BY <1>0, <1>3, <1>due DEF Derive, RunGo, RunCommits, RunIsDue
<1>4. CASE RunPublishesTransition
  <2>1. rpc = "transition" /\ rpc' = "announce" /\ UNCHANGED <<rfound, occ, rcls>>
    BY <1>4 DEF RunPublishesTransition, RunGo
  <2>2. ASSUME rfound, occ # 0, Status(rcls) = "current" PROVE Due'
    <3>1. CASE rprev = "current"
      BY <1>0, <2>1, <2>2, <3>1, <1>due DEF RunIsDue, RunCommits
    <3>2. CASE rprev # "current"
      <4>1. rhad
        BY <1>0, <2>1, <2>2 DEF RunIsDue
      <4>2. Put(TransitionKey(rprev), lastOcc + 1, TRUE)
        BY <1>4, <2>2, <3>2, <4>1 DEF RunPublishesTransition
      <4> QED BY <1>0, <4>2, TransitionPromises DEF Due
    <3> QED BY <3>1, <3>2
  <2> QED BY <2>1, <2>2 DEF RunIsDue, Status
<1>5. CASE RunAnnounces
  <2>1. rpc = "announce" /\ rpc' = "commit" /\ UNCHANGED <<rfound, occ, rcls>>
    BY <1>5 DEF RunAnnounces, RunGo
  <2>2. ASSUME rfound, Status(rcls) = "current" PROVE Due' /\ (occ = 0 => Promised')
    <3>1. CASE occ # 0
      BY <1>0, <2>1, <2>2, <3>1, <1>due DEF RunIsDue, RunCommits
    <3>2. CASE occ = 0
      <4>1. event["detected"].state = "none"
        BY <1>0, <2>1, <3>2 DEF AnnouncedOnce
      <4>2. Put("detected", lastOcc + 1, TRUE)
        BY <1>5, <2>2 DEF RunAnnounces
      <4>3. "detected" \in Keys
        BY DEF Keys
      <4> QED BY <1>0, <4>1, <4>2, <4>3, PutPromises DEF Due, LeadsKinds
    <3> QED BY <3>1, <3>2
  <2> QED BY <2>1, <2>2 DEF RunIsDue, Status
<1>6. CASE rpc' = "idle"
  BY <1>6 DEF RunIsDue
<1>7. CASE UNCHANGED <<occ, runVarsL>>
  <2>1. ~RunCommits \/ rpc' = "idle"
    BY DEF RunCommits, EndRun
  <2>2. UNCHANGED <<rpc, rprev, rhad, rcls, rfound, occ>>
    BY <1>7 DEF runVarsL
  <2> QED BY <1>0, <1>6, <2>1, <2>2, <1>due, <1>promised DEF RunIsDue, Status, Due
<1> QED BY <1>1, <1>2, <1>3, <1>4, <1>5, <1>6, <1>7
     DEF LeadsNext, LeadRun, Person, RunCommits, RunAborts, EndRun, StartEdit, CorrectPeriod,
         DecideActuality, ReadAfter, PublishTransition, PersonCrash, ReadActuality,
         HandleDetected, leadsVars

LEMMA AnnouncedStaysOnce ==
  ASSUME LeadsInv, [LeadsNext]_leadsVars, ~missed'
  PROVE  AnnouncedOnce'
<1>0. AnnouncedOnce /\ LeadsKinds
  BY MissedStays DEF LeadsInv
<1>1. ASSUME NEW k \in Keys \ {"detected"}, event'[k].state # "none" PROVE Promised'
  <2>1. CASE event[k].state # "none"
    BY <1>0, <2>1, PromiseStays DEF AnnouncedOnce
  <2>2. ASSUME event[k].state = "none", NEW j \in Keys, ReadActuality(j) \/ HandleDetected(j)
        PROVE  FALSE
    BY <1>0, <1>1, <2>2 DEF ReadActuality, HandleDetected, LeadsKinds, LeadsTypeOK
  <2>3. CASE RunPublishesTransition
    BY <1>0, <1>1, <2>3, TransitionPromises, <2>1 DEF RunPublishesTransition
  <2>4. CASE RunAnnounces
    BY <1>0, <1>1, <2>1, <2>4 DEF RunAnnounces, Put, LeadsKinds, LeadsTypeOK
  <2>5. ASSUME NEW p \in People, PublishTransition(p) PROVE Promised'
    BY <1>0, <1>1, <2>5, TransitionPromises, <2>1 DEF PublishTransition
  <2>6. CASE UNCHANGED event
    BY <1>1, <2>1, <2>6
  <2> QED BY <2>1, <2>2, <2>3, <2>4, <2>5, <2>6
       DEF LeadsNext, LeadRun, Person, RunStarts, RunSnapshot, Derive, RunCommits, RunAborts,
           StartEdit, CorrectPeriod, DecideActuality, ReadAfter, PersonCrash, leadsVars
<1>2. ASSUME occ' = 0, ~(rpc' = "commit" /\ rfound') PROVE event'["detected"].state = "none"
  <2>0. "detected" \in Keys /\ \A from : TransitionKey(from) \in Keys \ {"detected"}
    BY DEF TransitionKey, Keys
  <2>1. occ = 0 /\ ~(rpc = "commit" /\ rfound)
    <3>1. CASE RunCommits
      <4>1. lastOcc + 1 # 0
        BY <1>0 DEF LeadsKinds, LeadsTypeOK
      <4> QED BY <1>2, <3>1, <4>1 DEF RunCommits
    <3>2. CASE RunAborts
      BY <1>2, <3>2 DEF RunAborts
    <3>3. CASE RunStarts \/ RunSnapshot \/ (\E p \in Periods : Derive(p)) \/ RunPublishesTransition
               \/ RunAnnounces
      BY <1>2, <3>3 DEF RunStarts, RunSnapshot, Derive, RunPublishesTransition, RunAnnounces, RunGo
    <3>4. CASE UNCHANGED <<occ, rpc, rfound>>
      BY <1>2, <3>4
    <3> QED BY <3>1, <3>2, <3>3, <3>4
         DEF LeadsNext, LeadRun, Person, StartEdit, CorrectPeriod, DecideActuality, ReadAfter,
             PublishTransition, PersonCrash, ReadActuality, HandleDetected, leadsVars, runVarsL
  <2>2. event["detected"].state = "none"
    BY <1>0, <2>1 DEF AnnouncedOnce
  <2>3. ASSUME NEW from, NEW id, NEW said, Put(TransitionKey(from), id, said)
        PROVE  event'["detected"].state = "none"
    BY <1>0, <2>0, <2>2, <2>3 DEF Put, LeadsKinds, LeadsTypeOK
  <2>4. CASE RunAnnounces
    BY <1>2, <2>2, <2>4 DEF RunAnnounces, RunGo
  <2>5. ASSUME NEW k \in Keys, ReadActuality(k) \/ HandleDetected(k)
        PROVE  event'["detected"].state = "none"
    BY <1>0, <2>0, <2>2, <2>5 DEF ReadActuality, HandleDetected, LeadsKinds, LeadsTypeOK
  <2>6. CASE UNCHANGED event
    BY <2>2, <2>6
  <2> QED BY <2>3, <2>4, <2>5, <2>6
       DEF LeadsNext, LeadRun, Person, RunStarts, RunSnapshot, Derive, RunPublishesTransition,
           RunCommits, RunAborts, StartEdit, CorrectPeriod, DecideActuality, ReadAfter,
           PublishTransition, PersonCrash, leadsVars
<1> QED BY <1>1, <1>2 DEF AnnouncedOnce

LEMMA LeadsInvNext == LeadsInv /\ [LeadsNext]_leadsVars => LeadsInv'
<1> SUFFICES ASSUME LeadsInv, [LeadsNext]_leadsVars PROVE LeadsInv'
  OBVIOUS
<1>1. LeadsKinds'
  BY LeadsKindsNext DEF LeadsInv
<1>2. (\A i \in 1..MaxLeadRuns : leads[i] <= 1)'
  <2>1. CASE UNCHANGED leads
    BY <2>1 DEF LeadsInv
  <2>2. ASSUME NEW k \in Keys, HandleDetected(k)
        PROVE  \A i \in 1..MaxLeadRuns : leads'[i] <= 1
    <3>1. UNCHANGED leads \/ leads' = [leads EXCEPT ![event[k].occ] = 1]
      BY <2>2 DEF HandleDetected, MakeLead
    <3>2. \A i \in 1..MaxLeadRuns : leads'[i] = leads[i] \/ leads'[i] = 1
      BY <3>1 DEF LeadsInv, LeadsKinds, LeadsTypeOK
    <3> QED BY <3>2 DEF LeadsInv
  <2>3. ASSUME NEW k \in Keys, ReadActuality(k) PROVE UNCHANGED leads
    BY <2>3 DEF ReadActuality
  <2> QED BY <2>1, <2>2, <2>3, EventsStay DEF LeadsInv, LeadsKinds
<1>3. ~missed' => AnnouncedOnce' /\ RunIsDue' /\ CurrentIsDue'
  BY AnnouncedStaysOnce, RunStaysDue, CurrentStaysDue
<1> QED BY <1>1, <1>2, <1>3 DEF LeadsInv

LEMMA LeadsInitInv == LeadsInit => LeadsInv
<1> SUFFICES ASSUME LeadsInit PROVE LeadsInv
  OBVIOUS
<1>1. LeadsTypeOK
  BY LeadsInitType
<1>2. RunKeepsCorrection
  BY <1>1 DEF LeadsTypeOK, LeadsInit, RunKeepsCorrection, RowLocked
<1>3. \A k \in Keys : event[k].state = "none"
  BY DEF LeadsInit, NoEvent
<1>4. EventsHaveOccurrence
  BY <1>3 DEF EventsHaveOccurrence
<1>5. \A i \in 1..MaxLeadRuns : leads[i] <= 1
  BY DEF LeadsInit
<1>6. AnnouncedOnce /\ RunIsDue /\ CurrentIsDue
  BY <1>3 DEF AnnouncedOnce, RunIsDue, CurrentIsDue, LeadsInit, Keys
<1> QED BY <1>1, <1>2, <1>4, <1>5, <1>6 DEF LeadsInv, LeadsKinds, LeadsInit

LEMMA LeadsInvHolds == LeadsSpec => []LeadsInv
BY LeadsInitInv, LeadsInvNext, PTL DEF LeadsSpec

\* When nothing is on its way any more, a current document with a finding has
\* led to a customer and no occurrence to two, unless an announcement was lost
\* (ingestion.processing.run, publishCurrentActualityTransition, the CRM's
\* handler of advertisement.detected).
THEOREM FindingsBecomeLeads == LeadsSpec => []CurrentBecomesLead
<1>1. LeadsInv => CurrentBecomesLead
  <2> SUFFICES ASSUME LeadsInv, Quiet, occ # 0, Status(cls) = "current", ~missed
               PROVE  \E i \in 1..MaxLeadRuns : leads[i] = 1
    BY DEF CurrentBecomesLead, LeadsInv
  <2>1. Due
    BY DEF LeadsInv, CurrentIsDue
  <2>2. ~Announced /\ ~Owed
    BY DEF Quiet, Announced, Owed
  <2> QED BY <2>1, <2>2 DEF Due, Promised
<1> QED BY <1>1, LeadsInvHolds, PTL
=============================================================================
