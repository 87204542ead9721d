------------------------------ MODULE Sources ------------------------------
(***************************************************************************)
(* One source (ingestion_source) between the jobs that find it             *)
(* (ingestion.discovery.run, ingestion.search_keys.run, the visit of a     *)
(* page that links it), the job that visits it again                       *)
(* (ingestion.source.revisit), the job that fetches it                     *)
(* (ingestion.source.fetch) and the people who approve or reject it.  Each *)
(* decides by the row it has read before and writes some of its columns.   *)
(***************************************************************************)
EXTENDS Naturals

CONSTANTS
  Discoverers,  \* runs of ingestion.discovery.run over the source's area
  KeyRuns,      \* runs of ingestion.search_keys.run
  Linkers,      \* visits of another source of the same host that link this one
  Visitors,     \* visits of this source
  DeadAfter,    \* failing visits until a source is dead, 3 in the code
  MaxSourceFaults  \* bound on crashes and enqueues that fail

ASSUME SourcesAssumption == MaxSourceFaults \in Nat /\ DeadAfter \in Nat \ {0}

Finders == Discoverers \cup KeyRuns \cup Linkers

VARIABLES
  registered,  \* isRegisteredMunicipalUrl: its host is in the website register
  source,      \* the row
  fpc, fcopy,  \* finder -> next statement, row it has read
  vpc, vfailures, \* visitor -> next statement, revisitFailures it has read
  fetchQueued, \* a job ingestion.source.fetch is pending
  revived,     \* history: "approved" is what a visit has written over a decision
  sourceFaults

sourcesVars == <<registered, source, fpc, fcopy, vpc, vfailures, fetchQueued, revived,
                 sourceFaults>>

SourceRow == [there : BOOLEAN,
              status : {"proposed", "approved", "rejected", "dead"},
              approvedBy : {"none", "human", "Ingestion-Register", "Ingestion-Worker"},
              old : BOOLEAN,       \* approvedAt is a day ago, of an approval by the register
              area : BOOLEAN,      \* areaId is the area of the Discoverers, or null
              fetched : BOOLEAN,   \* lastFetchedAt
              error : BOOLEAN,     \* lastError
              failures : 0..DeadAfter, \* revisitFailures, as far as they count
              visits : BOOLEAN]    \* nextCheckAt is set; the day may have come

Proposed(inArea) ==
  [there |-> TRUE, status |-> "proposed", approvedBy |-> "none", old |-> FALSE, area |-> inArea,
   fetched |-> FALSE, error |-> FALSE, failures |-> 0,
   visits |-> inArea]
NoSource == [Proposed(FALSE) EXCEPT !.there = FALSE]
CopyRow == [status : {"proposed", "approved", "rejected", "dead"},
            approvedBy : {"none", "human", "Ingestion-Register", "Ingestion-Worker"},
            old : BOOLEAN, visits : BOOLEAN, error : BOOLEAN]
NoCopy == [status |-> "proposed", approvedBy |-> "none", old |-> FALSE, visits |-> FALSE,
           error |-> FALSE]
\* What finder f uses of the row it has read: for a rollback, the five columns
\* it will write.
Copy(f, s) ==
  IF f \in Linkers \/ s.status = "approved" \/ ~registered
  THEN [NoCopy EXCEPT !.status = s.status]
  ELSE [status |-> s.status, approvedBy |-> s.approvedBy, old |-> s.old,
        visits |-> s.visits, error |-> s.error]

SourcesTypeOK ==
  /\ registered \in BOOLEAN /\ source \in SourceRow
  /\ fpc \in [Finders -> {"idle", "adopt", "approve", "enqueue", "restore", "list", "orphan"}]
  /\ fcopy \in [Finders -> CopyRow]
  /\ vpc \in [Visitors -> {"idle", "asked", "changed", "answered", "publish"}]
  /\ vfailures \in [Visitors -> 0..DeadAfter]
  /\ fetchQueued \in BOOLEAN /\ revived \in BOOLEAN
  /\ sourceFaults \in 0..MaxSourceFaults

SourcesInit ==
  /\ registered \in BOOLEAN /\ source = NoSource
  /\ fpc = [f \in Finders |-> "idle"] /\ fcopy = [f \in Finders |-> NoCopy]
  /\ vpc = [v \in Visitors |-> "idle"] /\ vfailures = [v \in Visitors |-> 0]
  /\ fetchQueued = FALSE /\ revived = FALSE /\ sourceFaults = 0

SourceFault == sourceFaults < MaxSourceFaults /\ sourceFaults' = sourceFaults + 1

\* The copy is a local of the turn of the loop.
FRead(f, from, to, row) ==
  /\ fpc[f] = from /\ fpc' = [fpc EXCEPT ![f] = to]
  /\ fcopy' = [fcopy EXCEPT ![f] = IF to \in {"idle", "list", "orphan"} THEN NoCopy ELSE row]
FGo(f, from, to) == FRead(f, from, to, fcopy[f])
VGo(v, from, to) ==
  /\ vpc[v] = from /\ vpc' = [vpc EXCEPT ![v] = to]
  /\ vfailures' = [vfailures EXCEPT ![v] = IF to = "idle" THEN 0 ELSE @]

\* A discovery run ends with the loop over the sources there are.
AfterProposals(f) == IF f \in Discoverers THEN "list" ELSE "idle"

-----------------------------------------------------------------------------
(* Finding and approving.                                                  *)

\* createSource returns the row there is, whatever its status.
CreateSource(f) ==
  LET row == IF source.there THEN source ELSE Proposed(TRUE) IN
  /\ FRead(f, "idle", IF f \in Discoverers /\ ~row.area THEN "adopt" ELSE "approve", Copy(f, row))
  /\ source' = row
  /\ UNCHANGED <<registered, vpc, vfailures, fetchQueued, revived, sourceFaults>>

\* sources.search of a person: the proposal has no area.
SearchSource ==
  /\ ~source.there
  /\ source' = Proposed(FALSE)
  /\ UNCHANGED <<registered, fpc, fcopy, vpc, vfailures, fetchQueued, revived, sourceFaults>>

AdoptArea(f) ==
  /\ FGo(f, "adopt", "approve")
  /\ source' = [source EXCEPT !.area = TRUE]
  /\ UNCHANGED <<registered, vpc, vfailures, fetchQueued, revived, sourceFaults>>

Approved(by) ==
  [source EXCEPT !.status = "approved", !.approvedBy = by, !.old = FALSE,
                 !.visits = TRUE, !.error = FALSE]

\* approveRegisteredSource, or the trusted host of a link: what the copy does
\* not show as approved becomes approved, a rejected source too.
ApproveFound(f) ==
  LET due == fcopy[f].status # "approved" /\ (registered \/ f \in Linkers) IN
  /\ FGo(f, "approve", IF due THEN "enqueue" ELSE AfterProposals(f))
  /\ source' = IF due THEN Approved(IF f \in Linkers THEN "Ingestion-Worker" ELSE "Ingestion-Register")
                      ELSE source
  /\ revived' = (revived /\ ~due)
  /\ UNCHANGED <<registered, vpc, vfailures, fetchQueued, sourceFaults>>

\* The fetch job of a source just approved, or of one whose job was lost.  A
\* link reads the row once more before.
EnqueueFetch(f) ==
  /\ FGo(f, "enqueue", AfterProposals(f)) \/ FGo(f, "orphan", "idle")
  /\ fetchQueued' = (fetchQueued \/ f \notin Linkers \/ source.status = "approved")
  /\ UNCHANGED <<registered, source, vpc, vfailures, revived, sourceFaults>>

\* A link only counts the failure against the source it was found on.
EnqueueThrows(f) ==
  /\ \/ FGo(f, "enqueue", IF f \in Linkers THEN "idle" ELSE "restore")
     \/ FGo(f, "orphan", "idle")
  /\ SourceFault
  /\ UNCHANGED <<registered, source, vpc, vfailures, fetchQueued, revived>>

\* The bug: the rollback forgets that the status was changed too.
RestoreSignatureOnly(f) ==
  LET c == fcopy[f] IN
  /\ FGo(f, "restore", AfterProposals(f))
  /\ source' = [source EXCEPT !.approvedBy = c.approvedBy, !.old = c.old,
                              !.visits = c.visits, !.error = c.error]
  /\ revived' = FALSE
  /\ UNCHANGED <<registered, vpc, vfailures, fetchQueued, sourceFaults>>

\* `previous` of the stale copy.
RestorePrevious(f) ==
  LET c == fcopy[f] IN
  /\ FGo(f, "restore", AfterProposals(f))
  /\ source' = [source EXCEPT !.status = c.status, !.approvedBy = c.approvedBy, !.old = c.old,
                              !.visits = c.visits, !.error = c.error]
  /\ revived' = FALSE
  /\ UNCHANGED <<registered, vpc, vfailures, fetchQueued, sourceFaults>>

\* The search of a discovery run did not return the source, or failed for it.
MissSource(f) ==
  /\ f \in Discoverers /\ FGo(f, "idle", "list")
  /\ UNCHANGED <<registered, source, vpc, vfailures, fetchQueued, revived, sourceFaults>>

\* Approved by the register for a day, neither fetched nor failed.
Orphan ==
  /\ source.there /\ source.area /\ source.status = "approved"
  /\ source.approvedBy = "Ingestion-Register"
  /\ ~source.fetched /\ ~source.error

\* The bug: orphans are not looked for.
ListProposedOnly(f) ==
  LET again == source.there /\ source.area /\ source.status = "proposed" /\ registered IN
  /\ FRead(f, "list", IF again THEN "approve" ELSE "idle", Copy(f, source))
  /\ UNCHANGED <<registered, source, vpc, vfailures, fetchQueued, revived, sourceFaults>>

\* listSources: a proposed source of the area is approved now, an orphan gets
\* its fetch job again.
ListSources(f) ==
  LET again == source.there /\ source.area /\ source.status = "proposed" /\ registered IN
  /\ FRead(f, "list", IF again THEN "approve" ELSE IF Orphan /\ source.old THEN "orphan" ELSE "idle",
           Copy(f, source))
  /\ UNCHANGED <<registered, source, vpc, vfailures, fetchQueued, revived, sourceFaults>>

FinderCrash(f) ==
  /\ fpc[f] # "idle" /\ SourceFault
  /\ FGo(f, fpc[f], "idle")
  /\ UNCHANGED <<registered, source, vpc, vfailures, fetchQueued, revived>>

-----------------------------------------------------------------------------
(* People.                                                                 *)

HumanApproves ==
  /\ source.there
  /\ source' = Approved("human")
  /\ revived' = FALSE
  /\ UNCHANGED <<registered, fpc, fcopy, vpc, vfailures, fetchQueued, sourceFaults>>

HumanRejects ==
  /\ source.there
  /\ source' = [source EXCEPT !.status = "rejected", !.approvedBy = "none", !.old = FALSE]
  /\ revived' = FALSE
  /\ UNCHANGED <<registered, fpc, fcopy, vpc, vfailures, fetchQueued, sourceFaults>>

HumanFetches ==
  /\ source.there /\ source.status = "approved"
  /\ fetchQueued' = TRUE
  /\ UNCHANGED <<registered, source, fpc, fcopy, vpc, vfailures, revived, sourceFaults>>

-----------------------------------------------------------------------------
(* ingestion.source.revisit.                                               *)

StartVisit(v) ==
  /\ source.there /\ source.status = "approved" /\ source.visits
  /\ vpc[v] = "idle" /\ vpc' = [vpc EXCEPT ![v] = "asked"]
  /\ vfailures' = [vfailures EXCEPT ![v] = source.failures]
  /\ UNCHANGED <<registered, source, fpc, fcopy, fetchQueued, revived, sourceFaults>>

\* The page answers: changed without a new PDF, or not.
VisitAnswered(v) ==
  /\ VGo(v, "asked", "changed") \/ VGo(v, "asked", "answered")
  /\ UNCHANGED <<registered, source, fpc, fcopy, fetchQueued, revived, sourceFaults>>

VisitEnqueues(v) ==
  /\ VGo(v, "changed", "answered")
  /\ fetchQueued' = TRUE
  /\ UNCHANGED <<registered, source, fpc, fcopy, revived, sourceFaults>>

VisitSucceeds(v) ==
  /\ VGo(v, "answered", "publish")
  /\ source' = [source EXCEPT !.visits = TRUE, !.error = FALSE, !.failures = 0]
  /\ UNCHANGED <<registered, fpc, fcopy, fetchQueued, revived, sourceFaults>>

VisitPublishes(v) ==
  /\ VGo(v, "publish", "idle")
  /\ UNCHANGED <<registered, source, fpc, fcopy, fetchQueued, revived, sourceFaults>>

\* HTTP 400 and more, or anything throws, the publication after the success
\* included: failures + 1 and the status it has read, approved.
VisitFails(v) ==
  LET n == vfailures[v] + 1
      status == IF n >= DeadAfter THEN "dead" ELSE "approved" IN
  /\ \/ VGo(v, "asked", "idle") /\ UNCHANGED sourceFaults
     \/ (VGo(v, "changed", "idle") \/ VGo(v, "publish", "idle")) /\ SourceFault
  /\ source' = [source EXCEPT !.status = status, !.failures = IF n > DeadAfter THEN DeadAfter ELSE n,
                              !.visits = n < DeadAfter, !.error = TRUE]
  /\ revived' = (status = "approved" /\ (revived \/ source.status # "approved"))
  /\ UNCHANGED <<registered, fpc, fcopy, fetchQueued>>

VisitorCrash(v) ==
  /\ vpc[v] # "idle" /\ SourceFault
  /\ VGo(v, vpc[v], "idle")
  /\ UNCHANGED <<registered, source, fpc, fcopy, fetchQueued, revived>>

-----------------------------------------------------------------------------
(* ingestion.source.fetch.                                                 *)

\* The job reads the row, fetches, and writes two columns without reading
\* again: what happens between leaves the same as one step at the write.  A
\* crash leaves the job in the queue.

\* Without an approval it throws and writes nothing: tried again or dead.
FetchRefused ==
  /\ fetchQueued /\ source.status # "approved"
  /\ fetchQueued' \in BOOLEAN
  /\ UNCHANGED <<registered, source, fpc, fcopy, vpc, vfailures, revived, sourceFaults>>

\* The bytes are persisted (Documents).
FetchSucceeds ==
  /\ fetchQueued /\ source.status = "approved"
  /\ fetchQueued' = FALSE
  /\ source' = [source EXCEPT !.fetched = TRUE, !.error = FALSE]
  /\ UNCHANGED <<registered, fpc, fcopy, vpc, vfailures, revived, sourceFaults>>

\* Tried again, or dead: a permanent error or the last of ten attempts.
FetchFails ==
  /\ fetchQueued /\ source.status = "approved"
  /\ fetchQueued' \in BOOLEAN
  /\ source' = [source EXCEPT !.error = TRUE]
  /\ UNCHANGED <<registered, fpc, fcopy, vpc, vfailures, revived, sourceFaults>>

DayPasses ==
  /\ source.approvedBy = "Ingestion-Register" /\ ~source.old
  /\ source' = [source EXCEPT !.old = TRUE]
  /\ UNCHANGED <<registered, fpc, fcopy, vpc, vfailures, fetchQueued, revived, sourceFaults>>

-----------------------------------------------------------------------------

FinderStep(f) ==
  CreateSource(f) \/ MissSource(f) \/ AdoptArea(f) \/ ApproveFound(f) \/ EnqueueFetch(f)
  \/ RestorePrevious(f) \/ ListSources(f)

Visit(v) == StartVisit(v) \/ VisitAnswered(v) \/ VisitEnqueues(v) \/ VisitSucceeds(v)
            \/ VisitPublishes(v) \/ VisitFails(v)

FetchStep == FetchRefused \/ FetchSucceeds \/ FetchFails

SourcesNext ==
  \/ \E f \in Finders : FinderStep(f) \/ EnqueueThrows(f) \/ FinderCrash(f)
  \/ \E v \in Visitors : Visit(v) \/ VisitorCrash(v)
  \/ SearchSource \/ HumanApproves \/ HumanRejects \/ HumanFetches
  \/ FetchStep \/ DayPasses

SourcesSpec == SourcesInit /\ [][SourcesNext]_sourcesVars

-----------------------------------------------------------------------------
(* Properties.                                                             *)

\* A source is approved only with the name of who approved it, and it has a
\* date of its next visit, whoever found, restored, rejected or visited it
\* meanwhile; the one exception is a visit that writes back the status it had
\* read after a person has rejected the source.
ApprovalIsSigned ==
  source.status = "approved" /\ ~revived => source.approvedBy # "none" /\ source.visits

\* A source of an area that the register has approved does not wait for its
\* first fetch for ever, though the job may be lost between the approval and
\* the enqueue: some run over the area enqueues it again.
RegisteredIsFetched == []<>~Orphan
=============================================================================
