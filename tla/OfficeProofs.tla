---------------------------- MODULE OfficeProofs ----------------------------
(***************************************************************************)
(* Proofs about what surrounds the documents: the sources, for any number  *)
(* of finders and visitors; the handoffs, for any number of runs and       *)
(* couriers; the number ranges, for any number of clerks and years; the    *)
(* proposals and the budget of the assistant, for any number of requests   *)
(* and calls.                                                              *)
(***************************************************************************)
EXTENDS MCOffice, LeadsProofs, CalculationsProofs, FiniteSetTheorems, TLAPS

-----------------------------------------------------------------------------
(* Sources.                                                                *)

\* Who approves a source, or takes the approval back, has read it before
\* without one.
CopiesWithoutApproval ==
  \A f \in Finders : fpc[f] \in {"enqueue", "restore"} => fcopy[f].status # "approved"

SourcesInv == SourcesTypeOK /\ CopiesWithoutApproval /\ ApprovalIsSigned

LEMMA CopyType ==
  ASSUME NEW f \in Finders, NEW s \in SourceRow, registered \in BOOLEAN
  PROVE  Copy(f, s) \in CopyRow
  BY DEF Copy, SourceRow, CopyRow, NoCopy

LEMMA SourceBounds == 0 \in 0..DeadAfter /\ 0 \in 0..MaxSourceFaults
  BY SourcesAssumption

LEMMA SourcesInitInv == SourcesInit => SourcesInv
<1> SUFFICES ASSUME SourcesInit PROVE SourcesInv
  OBVIOUS
<1>1. source \in SourceRow /\ source.status = "proposed"
  BY SourceBounds DEF SourcesInit, NoSource, Proposed, SourceRow
<1>2. SourcesTypeOK
  BY <1>1, SourceBounds DEF SourcesInit, SourcesTypeOK, NoCopy, CopyRow
<1> QED BY <1>1, <1>2 DEF SourcesInv, SourcesInit, CopiesWithoutApproval, ApprovalIsSigned

\* What a finder does.
LEMMA FinderInv ==
  ASSUME SourcesInv, NEW f \in Finders, FinderStep(f) \/ EnqueueThrows(f) \/ FinderCrash(f)
  PROVE  SourcesInv'
<1> USE SourcesAssumption DEF SourcesInv, FRead, FGo, AfterProposals
<1>0. /\ SourcesTypeOK /\ NoCopy \in CopyRow /\ Copy(f, source) \in CopyRow
      /\ fcopy[f] \in CopyRow
  BY CopyType DEF SourcesTypeOK, NoCopy, CopyRow
<1>1. CASE CreateSource(f)
  <2> DEFINE row == IF source.there THEN source ELSE Proposed(TRUE)
  <2>1. row \in SourceRow
    BY <1>0 DEF SourcesTypeOK, SourceRow, Proposed
  <2>2. Copy(f, row) \in CopyRow
    BY <1>0, <2>1, CopyType DEF SourcesTypeOK
  <2>3. ApprovalIsSigned'
    BY <1>1 DEF CreateSource, ApprovalIsSigned, Proposed
  <2> QED BY <1>0, <1>1, <2>1, <2>2, <2>3 DEF CreateSource, SourcesTypeOK, CopiesWithoutApproval
<1>2. CASE AdoptArea(f)
  BY <1>0, <1>2 DEF AdoptArea, SourcesTypeOK, SourceRow, CopiesWithoutApproval, ApprovalIsSigned
<1>3. CASE ApproveFound(f)
  <2>1. SourcesTypeOK'
    BY <1>0, <1>3 DEF ApproveFound, Approved, SourcesTypeOK, SourceRow
  <2>2. CopiesWithoutApproval'
    BY <1>0, <1>3 DEF ApproveFound, SourcesTypeOK, CopiesWithoutApproval
  <2>3. ApprovalIsSigned'
    BY <1>0, <1>3 DEF ApproveFound, Approved, SourcesTypeOK, SourceRow, ApprovalIsSigned
  <2> QED BY <2>1, <2>2, <2>3
<1>4. CASE EnqueueFetch(f) \/ EnqueueThrows(f)
  <2>1. SourcesTypeOK'
    <3>1. fpc' \in [Finders -> {"idle", "adopt", "approve", "enqueue", "restore", "list", "orphan"}]
      BY <1>0, <1>4 DEF EnqueueFetch, EnqueueThrows, SourcesTypeOK
    <3>2. fcopy' \in [Finders -> CopyRow]
      BY <1>0, <1>4 DEF EnqueueFetch, EnqueueThrows, SourcesTypeOK
    <3>3. sourceFaults' \in 0..MaxSourceFaults
      BY <1>0, <1>4 DEF EnqueueFetch, EnqueueThrows, SourceFault, SourcesTypeOK
    <3>4. fetchQueued' \in BOOLEAN
      BY Zenon, <1>0, <1>4 DEF EnqueueFetch, EnqueueThrows, SourcesTypeOK
    <3> QED BY <1>0, <1>4, <3>1, <3>2, <3>3, <3>4 DEF EnqueueFetch, EnqueueThrows, SourcesTypeOK
  <2>2. CopiesWithoutApproval'
    BY <1>0, <1>4 DEF EnqueueFetch, EnqueueThrows, SourcesTypeOK, CopiesWithoutApproval
  <2>3. ApprovalIsSigned'
    BY <1>4 DEF EnqueueFetch, EnqueueThrows, ApprovalIsSigned
  <2> QED BY <2>1, <2>2, <2>3
<1>5. CASE RestorePrevious(f)
  <2>1. SourcesTypeOK'
    BY <1>0, <1>5 DEF RestorePrevious, SourcesTypeOK, SourceRow, CopyRow
  <2>2. CopiesWithoutApproval'
    BY <1>0, <1>5 DEF RestorePrevious, SourcesTypeOK, CopiesWithoutApproval
  <2>3. ApprovalIsSigned'
    BY <1>0, <1>5 DEF RestorePrevious, SourcesTypeOK, SourceRow, CopiesWithoutApproval,
       ApprovalIsSigned
  <2> QED BY <2>1, <2>2, <2>3
<1>6. CASE MissSource(f)
  BY <1>0, <1>6 DEF MissSource, SourcesTypeOK, CopiesWithoutApproval, ApprovalIsSigned
<1>7. CASE ListSources(f)
  <2>1. SourcesTypeOK'
    BY <1>0, <1>7 DEF ListSources, SourcesTypeOK
  <2> QED BY <1>0, <1>7, <2>1 DEF ListSources, SourcesTypeOK, CopiesWithoutApproval, ApprovalIsSigned
<1>8. CASE FinderCrash(f)
  BY <1>0, <1>8 DEF FinderCrash, SourceFault, SourcesTypeOK, CopiesWithoutApproval, ApprovalIsSigned
<1> QED BY <1>1, <1>2, <1>3, <1>4, <1>5, <1>6, <1>7, <1>8 DEF FinderStep

\* What a visit does.
LEMMA VisitorInv ==
  ASSUME SourcesInv, NEW v \in Visitors, Visit(v) \/ VisitorCrash(v)
  PROVE  SourcesInv'
<1> USE SourcesAssumption DEF SourcesInv, VGo
<1>0. SourcesTypeOK /\ vfailures[v] \in 0..DeadAfter /\ source \in SourceRow
  BY DEF SourcesTypeOK
<1>1. CASE StartVisit(v) \/ VisitAnswered(v) \/ VisitEnqueues(v) \/ VisitPublishes(v) \/ VisitorCrash(v)
  <2>1. source.failures \in 0..DeadAfter /\ 0 \in 0..DeadAfter
    BY <1>0 DEF SourceRow
  <2>2. /\ vpc' \in [Visitors -> {"idle", "asked", "changed", "answered", "publish"}]
        /\ vfailures' \in [Visitors -> 0..DeadAfter]
    BY <1>0, <1>1, <2>1
       DEF StartVisit, VisitAnswered, VisitEnqueues, VisitPublishes, VisitorCrash, SourcesTypeOK
  <2>3. sourceFaults' \in 0..MaxSourceFaults
    BY <1>0, <1>1
       DEF StartVisit, VisitAnswered, VisitEnqueues, VisitPublishes, VisitorCrash, SourceFault,
           SourcesTypeOK
  <2>5. fetchQueued' \in BOOLEAN
    BY Zenon, <1>0, <1>1
       DEF StartVisit, VisitAnswered, VisitEnqueues, VisitPublishes, VisitorCrash, SourcesTypeOK
  <2>4. SourcesTypeOK'
    BY <1>0, <1>1, <2>2, <2>3, <2>5
       DEF StartVisit, VisitAnswered, VisitEnqueues, VisitPublishes, VisitorCrash, SourcesTypeOK
  <2> QED BY <1>1, <2>4
       DEF StartVisit, VisitAnswered, VisitEnqueues, VisitPublishes, VisitorCrash,
           CopiesWithoutApproval, ApprovalIsSigned
<1>2. CASE VisitSucceeds(v)
  <2>1. SourcesTypeOK'
    BY <1>0, <1>2, SourceBounds DEF VisitSucceeds, SourcesTypeOK, SourceRow
  <2> QED BY <1>0, <1>2, <2>1 DEF VisitSucceeds, SourceRow, CopiesWithoutApproval, ApprovalIsSigned
<1>3. CASE VisitFails(v)
  <2> DEFINE n == vfailures[v] + 1
             s == IF n >= DeadAfter THEN "dead" ELSE "approved"
             w == [source EXCEPT !.status = s, !.failures = IF n > DeadAfter THEN DeadAfter ELSE n,
                                 !.visits = n < DeadAfter, !.error = TRUE]
  <2>1. /\ w \in SourceRow /\ w.status = s /\ w.visits = (n < DeadAfter)
        /\ w.approvedBy = source.approvedBy
    <3>1. (IF n > DeadAfter THEN DeadAfter ELSE n) \in 0..DeadAfter /\ (n < DeadAfter) \in BOOLEAN
      BY <1>0
    <3>2. s \in {"proposed", "approved", "rejected", "dead"}
      OBVIOUS
    <3> HIDE DEF s, n
    <3> QED BY <1>0, <3>1, <3>2 DEF SourceRow
  <2>2. source' = w /\ revived' = (s = "approved" /\ (revived \/ source.status # "approved"))
    BY <1>3 DEF VisitFails
  <2>3. vpc' \in [Visitors -> {"idle", "asked", "changed", "answered", "publish"}]
        /\ vfailures' \in [Visitors -> 0..DeadAfter] /\ sourceFaults' \in 0..MaxSourceFaults
    BY <1>0, <1>3 DEF VisitFails, SourceFault, SourcesTypeOK
  <2>4. SourcesTypeOK'
    <3> HIDE DEF w, s, n
    <3> QED BY <1>0, <1>3, <2>1, <2>2, <2>3 DEF VisitFails, SourcesTypeOK
  <2>5. ApprovalIsSigned'
    <3>1. s = "approved" <=> n < DeadAfter
      BY <1>0
    <3> HIDE DEF w, n
    <3> QED BY <2>1, <2>2, <3>1 DEF ApprovalIsSigned
  <2> QED BY <1>3, <2>4, <2>5 DEF VisitFails, CopiesWithoutApproval
<1> QED BY <1>1, <1>2, <1>3 DEF Visit

\* What people, fetch jobs and days do.
LEMMA SourceInv ==
  ASSUME SourcesInv,
         SearchSource \/ HumanApproves \/ HumanRejects \/ HumanFetches \/ FetchStep \/ DayPasses
  PROVE  SourcesInv'
<1> USE SourcesAssumption DEF SourcesInv
<1>0. source \in SourceRow /\ fetchQueued \in BOOLEAN /\ revived \in BOOLEAN
  BY DEF SourcesTypeOK
<1>1. source' \in SourceRow /\ fetchQueued' \in BOOLEAN /\ revived' \in BOOLEAN
  <2>1. CASE SearchSource
    BY <1>0, <2>1, SourceBounds DEF SearchSource, Proposed, SourceRow
  <2>2. CASE HumanApproves \/ HumanRejects \/ HumanFetches
    BY <1>0, <2>2 DEF HumanApproves, HumanRejects, HumanFetches, Approved, SourceRow
  <2>3. CASE FetchStep \/ DayPasses
    BY <1>0, <2>3 DEF FetchStep, FetchRefused, FetchSucceeds, FetchFails, DayPasses, SourceRow
  <2> QED BY <2>1, <2>2, <2>3
<1>2. SourcesTypeOK' /\ CopiesWithoutApproval'
  <2>1. UNCHANGED <<registered, fpc, fcopy, vpc, vfailures, sourceFaults>>
    BY DEF SearchSource, HumanApproves, HumanRejects, HumanFetches, FetchStep, FetchRefused,
       FetchSucceeds, FetchFails, DayPasses
  <2> QED BY <1>1, <2>1 DEF SourcesTypeOK, CopiesWithoutApproval
<1>3. ApprovalIsSigned'
  <2>1. CASE SearchSource
    BY <2>1 DEF SearchSource, Proposed, ApprovalIsSigned
  <2>3. CASE HumanApproves
    BY <1>0, <2>3 DEF HumanApproves, Approved, SourceRow, ApprovalIsSigned
  <2>4. CASE HumanRejects
    BY <1>0, <2>4 DEF HumanRejects, SourceRow, ApprovalIsSigned
  <2>5. CASE HumanFetches
    BY <2>5 DEF HumanFetches, ApprovalIsSigned
  <2>2. CASE FetchStep \/ DayPasses
    BY <1>0, <2>2 DEF FetchStep, FetchRefused, FetchSucceeds, FetchFails, DayPasses, SourceRow,
       ApprovalIsSigned
  <2> QED BY <2>1, <2>2, <2>3, <2>4, <2>5
<1> QED BY <1>2, <1>3

LEMMA SourcesNextInv == SourcesInv /\ [SourcesNext]_sourcesVars => SourcesInv'
<1>1. CASE UNCHANGED sourcesVars
  BY <1>1 DEF sourcesVars, SourcesInv, SourcesTypeOK, CopiesWithoutApproval, ApprovalIsSigned
<1> QED BY <1>1, FinderInv, VisitorInv, SourceInv DEF SourcesNext

\* However jobs, visits and people overlap, an approved source has the name of
\* who approved it and the date of its next visit (module.ts
\* approveRegisteredSource, ingestion.source.revisit; router.ts sources).
THEOREM ApprovalsSigned == SourcesSpec => []ApprovalIsSigned
<1>1. SourcesInv => ApprovalIsSigned
  BY DEF SourcesInv
<1> QED BY <1>1, SourcesInitInv, SourcesNextInv, PTL DEF SourcesSpec

-----------------------------------------------------------------------------
(* Handoffs.                                                               *)

\* The artwork service has an item of an occurrence that is gone only while the
\* job that withdraws it is queued, but for the two exceptions that the history
\* names (artwork-handoff.ts, the withdrawal at the commit of a run).
THEOREM DeskFollows == HandoffsSpec => []DeskFollowsOccurrences
<1>1. HandoffsInit => DeskFollowsOccurrences
  BY DEF HandoffsInit, DeskFollowsOccurrences
<1>2. DeskFollowsOccurrences /\ [HandoffsNext]_handoffsVars => DeskFollowsOccurrences'
  <2> SUFFICES ASSUME DeskFollowsOccurrences, [HandoffsNext]_handoffsVars
               PROVE  DeskFollowsOccurrences'
    OBVIOUS
  <2> USE DEF DeskFollowsOccurrences, Named
  <2>1. ASSUME NEW r \in Runs, NEW n \in 0..1, CommitOccurrences(r, n)
        PROVE  DeskFollowsOccurrences'
    BY <2>1 DEF CommitOccurrences
  <2>2. ASSUME NEW c \in Couriers, HandInItem(c) PROVE DeskFollowsOccurrences'
    BY <2>2 DEF HandInItem
  <2>3. ASSUME NEW W \in withdrawals, Withdraw(W) \/ WithdrawAgain(W)
        PROVE  DeskFollowsOccurrences'
    BY <2>3 DEF Withdraw, WithdrawAgain
  <2>4. ASSUME UNCHANGED <<live, withdrawals, desk, overtaken>> PROVE DeskFollowsOccurrences'
    BY <2>4
  <2> QED BY <2>1, <2>2, <2>3, <2>4
       DEF HandoffsNext, ReadOccurrences, AbortRun, Decline, HandInStock, SubmitFails,
           ReadProvenance, handoffsVars
<1> QED BY <1>1, <1>2, PTL DEF HandoffsSpec

\* The ids in use are ids that were given.
LEMMA HandoffsInitType == HandoffsInit => HandoffsTypeOK
<1> SUFFICES ASSUME HandoffsInit PROVE HandoffsTypeOK
  OBVIOUS
<1>1. 0 \in 0..MaxRuns /\ 0 \in 0..MaxLost /\ 0 \in 0..0 /\ 0 \in Nat
  BY HandoffsAssumption
<1> QED BY <1>1 DEF HandoffsInit, HandoffsTypeOK

LEMMA HandoffsNextType == HandoffsTypeOK /\ [HandoffsNext]_handoffsVars => HandoffsTypeOK'
<1> SUFFICES ASSUME HandoffsTypeOK, [HandoffsNext]_handoffsVars PROVE HandoffsTypeOK'
  OBVIOUS
<1> USE HandoffsAssumption DEF HandoffsTypeOK
<1>1. ASSUME NEW r \in Runs, ReadOccurrences(r) PROVE HandoffsTypeOK'
  BY <1>1 DEF ReadOccurrences
<1>2. ASSUME NEW r \in Runs, AbortRun(r) PROVE HandoffsTypeOK'
  BY <1>2 DEF AbortRun
<1>3. ASSUME NEW r \in Runs, NEW n \in 0..1, CommitOccurrences(r, n) PROVE HandoffsTypeOK'
  <2> DEFINE new == (lastId + 1)..(lastId + n)
  <2>1. lastId' = lastId + n /\ lastId' \in Nat
    BY <1>3 DEF CommitOccurrences
  <2>2. new \subseteq 1..lastId' /\ 1..lastId \subseteq 1..lastId' /\ 0..lastId \subseteq 0..lastId'
    BY <2>1
  <2>3. /\ live' = new /\ declined' \subseteq new /\ handoffs' = handoffs \cup new
        /\ desk' = desk /\ overtaken' \subseteq overtaken \cup desk
        /\ carrying' = carrying
        /\ withdrawals' \subseteq withdrawals \cup {snapshot[r]}
        /\ snapshot' = [snapshot EXCEPT ![r] = {}] /\ open' \subseteq Runs
    BY <1>3 DEF CommitOccurrences
  <2>4. committed' \in 0..MaxRuns /\ answersLost' \in 0..MaxLost
    BY <1>3 DEF CommitOccurrences
  <2> HIDE DEF new
  <2>5. live' \cup declined' \cup handoffs' \cup desk' \cup overtaken' \subseteq 1..lastId'
    BY <2>2, <2>3
  <2>6. snapshot' \in [Runs -> SUBSET (1..lastId')]
    BY <2>2, <2>3
  <2>7. carrying' \in [Couriers -> 0..lastId']
    BY <2>2, <2>3
  <2>8. withdrawals' \subseteq SUBSET (1..lastId')
    BY <2>2, <2>3
  <2> QED BY <2>1, <2>3, <2>4, <2>5, <2>6, <2>7, <2>8
<1>4. ASSUME NEW i \in live, Decline(i) \/ HandInStock(i) PROVE HandoffsTypeOK'
  BY <1>4 DEF Decline, HandInStock
<1>5. ASSUME NEW c \in Couriers, HandInItem(c) PROVE HandoffsTypeOK'
  <2>1. carrying[c] \in 1..lastId
    BY <1>5 DEF HandInItem
  <2>2. answersLost' \in 0..MaxLost
    BY <1>5 DEF HandInItem
  <2>3. handoffs' \subseteq handoffs
    BY <1>5 DEF HandInItem
  <2> QED BY <1>5, <2>1, <2>2, <2>3 DEF HandInItem
<1>6. ASSUME NEW c \in Couriers, SubmitFails(c) \/ \E i \in handoffs : ReadProvenance(c, i)
      PROVE  HandoffsTypeOK'
  <2>1. handoffs' \subseteq handoffs /\ carrying' \in [Couriers -> 0..lastId]
    BY <1>6 DEF SubmitFails, ReadProvenance
  <2> QED BY <1>6, <2>1 DEF SubmitFails, ReadProvenance
<1>7. ASSUME NEW W \in withdrawals, Withdraw(W) \/ WithdrawAgain(W) PROVE HandoffsTypeOK'
  <2>1. answersLost' \in 0..MaxLost
    BY <1>7 DEF Withdraw, WithdrawAgain
  <2>2. desk' \subseteq desk /\ overtaken' \subseteq overtaken /\ withdrawals' \subseteq withdrawals
    BY <1>7 DEF Withdraw, WithdrawAgain
  <2>3. UNCHANGED <<live, declined, lastId, snapshot, open, committed, handoffs, carrying>>
    BY <1>7 DEF Withdraw, WithdrawAgain
  <2> QED BY <2>1, <2>2, <2>3
<1>8. CASE UNCHANGED handoffsVars
  BY <1>8 DEF handoffsVars
<1> QED BY <1>1, <1>2, <1>3, <1>4, <1>5, <1>6, <1>7, <1>8 DEF HandoffsNext

-----------------------------------------------------------------------------
(* NumberRanges.                                                           *)

\* The numbers S of a kind and its counter k, as RunsOn says of them.
Continues(S, k) ==
  \A y \in Years : \E n \in 0..LastNumber :
    /\ \A i \in 1..LastNumber : <<y, i>> \in S <=> i <= n
    /\ k.of = y => k.next = n + 1
    /\ k.of < y => n = 0

\* The next number leaves the numbers without a gap; it is the next one if it
\* is not given yet.
LEMMA NextNumber ==
  ASSUME NEW S \in SUBSET Numbers, NEW k \in Counter, Continues(S, k),
         NEW y \in Years, k.of <= y, NEW n \in 1..LastNumber,
         k.of = y => n <= k.next, k.of < y => n = 1
  PROVE  /\ (k.of = y /\ n = k.next) \/ k.of < y => <<y, n>> \notin S
         /\ <<y, n>> \notin S => Continues(S \cup {<<y, n>>}, [next |-> n + 1, of |-> y])
<1> USE NumberRangesAssumption DEF Years, Counter
<1>1. PICK m \in 0..LastNumber :
        /\ \A i \in 1..LastNumber : <<y, i>> \in S <=> i <= m
        /\ k.of = y => k.next = m + 1
        /\ k.of < y => m = 0
  BY DEF Continues
<1>2. (k.of = y /\ n = k.next) \/ k.of < y => <<y, n>> \notin S
  BY <1>1
<1>3. ASSUME <<y, n>> \notin S
      PROVE  Continues(S \cup {<<y, n>>}, [next |-> n + 1, of |-> y])
  <2>1. n = m + 1
    BY <1>1, <1>3
  <2> DEFINE T == S \cup {<<y, n>>}
             l == [next |-> n + 1, of |-> y]
  <2>2. ASSUME NEW z \in Years
        PROVE  \E j \in 0..LastNumber : /\ \A i \in 1..LastNumber : <<z, i>> \in T <=> i <= j
                                        /\ l.of = z => l.next = j + 1
                                        /\ l.of < z => j = 0
    <3>1. CASE z = y
      <4>1. \A i \in 1..LastNumber : <<z, i>> \in T <=> i <= n
        BY <1>1, <2>1, <3>1
      <4> QED BY <3>1, <4>1
    <3>2. CASE z # y
      <4>1. PICK j \in 0..LastNumber : /\ \A i \in 1..LastNumber : <<z, i>> \in S <=> i <= j
                                       /\ k.of < z => j = 0
        BY DEF Continues
      <4>2. \A i \in 1..LastNumber : <<z, i>> \in T <=> i <= j
        BY <3>2, <4>1
      <4>3. l.of < z => j = 0
        BY <4>1
      <4> QED BY <3>2, <4>2, <4>3
    <3> QED BY <3>1, <3>2
  <2> QED BY <2>2 DEF Continues
<1> QED BY <1>2, <1>3

\* What a clerk has read of the counters.
Readings ==
  \A c \in Clerks :
    /\ npc[c] = "locked" =>
         /\ local[c].of \in Years /\ issuer["quote"].of <= local[c].of /\ local[c].of <= year
         /\ local[c].next = IF issuer["quote"].of = local[c].of THEN issuer["quote"].next ELSE 1
         /\ \A d \in Clerks : npc[d] = "locked" => d = c
    /\ npc[c] = "number" =>
         /\ nkind[c] = "invoice" /\ local[c].of \in Years /\ local[c].of <= year
         /\ ~mixed /\ local[c].of > issuer["invoice"].of => local[c].next = 1
    /\ npc[c] = "read" /\ ~mixed => local[c].of <= issuer["invoice"].of
    /\ npc[c] \in {"read", "number"} /\ ~mixed /\ local[c].of = issuer["invoice"].of =>
         local[c].next <= issuer["invoice"].next
    /\ local[c].next >= 1

NumbersInv ==
  /\ NumberRangesTypeOK
  /\ \A k \in {"quote", "invoice"} : issuer[k].next >= 1 /\ issuer[k].of <= year
  /\ Readings
  /\ Continues(numbered["quote"], issuer["quote"]) /\ "quote" \notin refused
  /\ ~mixed => Continues(numbered["invoice"], issuer["invoice"])

LEMMA NumbersInitInv == NumberRangesInit => NumbersInv
<1> SUFFICES ASSUME NumberRangesInit PROVE NumbersInv
  OBVIOUS
<1>1. NoCounter \in Counter /\ NoCounter.next = 1 /\ NoCounter.of = 0
  BY NumberRangesAssumption DEF NoCounter, Counter
<1>2. NumberRangesTypeOK
  <2>1. 1 \in Years
    BY NumberRangesAssumption DEF Years
  <2> QED BY <1>1, <2>1 DEF NumberRangesInit, NumberRangesTypeOK, Kinds
<1>3. Continues({}, NoCounter)
  BY <1>1, NumberRangesAssumption DEF Continues, Years
<1>4. \A k \in {"quote", "invoice"} : issuer[k] = NoCounter /\ numbered[k] = {}
  BY DEF NumberRangesInit, Kinds
<1>5. Readings
  BY <1>1 DEF NumberRangesInit, Readings
<1>6. year = 1 /\ refused = {}
  BY DEF NumberRangesInit
<1>7. \A k \in {"quote", "invoice"} : issuer[k].next >= 1 /\ issuer[k].of <= year
  BY <1>1, <1>4, <1>6
<1> QED BY <1>2, <1>3, <1>4, <1>5, <1>6, <1>7 DEF NumbersInv

LEMMA FollowingType ==
  ASSUME NEW k \in Counter, year \in Years
  PROVE  Following(k) \in Counter
  BY DEF Following, Counter, Years

\* Steps that give no number.
LEMMA NoNumberInv ==
  ASSUME NumbersInv,
         NewYear \/ \E c \in Clerks : \/ LockIssuer(c) \/ TakeYear(c) \/ RollBack(c)
                                      \/ \E kind \in {"invoice", "credit"} : ReadIssuer(c, kind)
  PROVE  NumbersInv'
<1> USE NumberRangesAssumption DEF NumbersInv
<1>0. /\ NumberRangesTypeOK /\ year \in Years /\ issuer["quote"] \in Counter
      /\ issuer["invoice"] \in Counter /\ \A c \in Clerks : local[c] \in Counter
  BY DEF NumberRangesTypeOK
<1>1. CASE NewYear
  <2>1. year' \in Years /\ year' = year + 1
    BY <1>0, <1>1 DEF NewYear, Years
  <2>2. NumberRangesTypeOK' /\ UNCHANGED <<issuer, numbered, npc, nkind, local, refused, mixed>>
    BY <1>1, <2>1 DEF NewYear, NumberRangesTypeOK
  <2>3. Readings'
    BY <1>0, <2>1, <2>2 DEF Readings, Counter, Years
  <2> QED BY <1>0, <2>1, <2>2, <2>3 DEF Continues, Counter, Years
<1>2. ASSUME NEW c \in Clerks, LockIssuer(c) PROVE NumbersInv'
  <2>1. Following(issuer["quote"]) \in Counter
    BY <1>0, FollowingType
  <2>2. NumberRangesTypeOK'
    BY <1>0, <1>2, <2>1 DEF LockIssuer, NumberRangesTypeOK
  <2>3. Readings'
    BY <1>0, <1>2 DEF LockIssuer, RowHeld, Readings, Following, Counter, Years, NumberRangesTypeOK
  <2> QED BY <1>2, <2>2, <2>3 DEF LockIssuer, Continues
<1>3. ASSUME NEW c \in Clerks, TakeYear(c) PROVE NumbersInv'
  <2>1. Following(local[c]) \in Counter
    BY <1>0, FollowingType
  <2>2. NumberRangesTypeOK'
    BY <1>0, <1>3, <2>1 DEF TakeYear, NumberRangesTypeOK
  <2>3. Readings'
    BY <1>0, <1>3 DEF TakeYear, Readings, Following, Counter, Years, NumberRangesTypeOK
  <2> QED BY <1>3, <2>2, <2>3 DEF TakeYear, Continues
<1>4. ASSUME NEW c \in Clerks, RollBack(c) PROVE NumbersInv'
  <2>1. NoCounter \in Counter /\ NoCounter.next = 1
    BY DEF NoCounter, Counter
  <2>2. NumberRangesTypeOK'
    BY <1>0, <1>4, <2>1 DEF RollBack, EndRequest, NumberRangesTypeOK, Kinds
  <2>3. Readings'
    BY <1>0, <1>4, <2>1 DEF RollBack, EndRequest, Readings, NumberRangesTypeOK
  <2> QED BY <1>4, <2>2, <2>3 DEF RollBack, Continues
<1>5. ASSUME NEW c \in Clerks, NEW kind \in {"invoice", "credit"}, ReadIssuer(c, kind)
      PROVE  NumbersInv'
  <2>1. NumberRangesTypeOK'
    BY <1>0, <1>5 DEF ReadIssuer, NumberRangesTypeOK, Kinds
  <2>2. Readings'
    BY <1>0, <1>5 DEF ReadIssuer, Readings, NumberRangesTypeOK, Counter
  <2> QED BY <1>5, <2>1, <2>2 DEF ReadIssuer, Continues
<1> QED BY <1>1, <1>2, <1>3, <1>4, <1>5
\* A quote takes the number the locked row says.
LEMMA CreateQuoteInv ==
  ASSUME NumbersInv, NEW c \in Clerks, CreateQuote(c)
  PROVE  NumbersInv'
<1> DEFINE n == local[c].next
           y == local[c].of
           k == issuer["quote"]
           S == numbered["quote"]
           l == [next |-> n + 1, of |-> y]
<1> USE NumberRangesAssumption DEF NumbersInv
<1>0. /\ NumberRangesTypeOK /\ year \in Years /\ k \in Counter
      /\ issuer["invoice"] \in Counter /\ \A d \in Clerks : local[d] \in Counter
      /\ S \in SUBSET Numbers /\ npc[c] = "locked"
  BY DEF NumberRangesTypeOK, Kinds, CreateQuote
<1>1. /\ y \in Years /\ k.of <= y /\ y <= year /\ n \in 1..LastNumber
      /\ n = (IF k.of = y THEN k.next ELSE 1)
      /\ \A d \in Clerks : npc[d] = "locked" => d = c
  BY <1>0 DEF CreateQuote, Readings, Counter
<1>2. <<y, n>> \notin S /\ Continues(S \cup {<<y, n>>}, l)
  <2>1. k.of = y => n <= k.next
    BY <1>0, <1>1 DEF Counter
  <2>2. k.of < y => n = 1
    BY <1>0, <1>1 DEF Counter, Years
  <2>3. k.of = y \/ k.of < y
    BY <1>0, <1>1 DEF Counter, Years
  <2> HIDE DEF n, y, k, S
  <2>4. Continues(S, k)
    BY DEF k, S
  <2> QED BY <1>0, <1>1, <2>1, <2>2, <2>3, <2>4, NextNumber
<1>3. [local[c] EXCEPT !.next = n + 1] = l
  BY <1>0 DEF Counter
<1>4. /\ numbered' = [numbered EXCEPT !["quote"] = S \cup {<<y, n>>}]
      /\ issuer' = [issuer EXCEPT !["quote"] = l] /\ refused' = refused
  BY <1>2, <1>3 DEF CreateQuote, Insert
<1>5. l \in Counter /\ l.next = n + 1 /\ l.of = y
  BY <1>1 DEF Counter, Years
<1>6. NoCounter \in Counter /\ NoCounter.next = 1
  BY DEF NoCounter, Counter
<1>7. <<y, n>> \in Numbers
  BY <1>1 DEF Numbers
<1>8. NumberRangesTypeOK'
  BY <1>0, <1>4, <1>5, <1>6, <1>7 DEF CreateQuote, EndRequest, NumberRangesTypeOK, Kinds
<1>9. issuer'["quote"] = l /\ issuer'["invoice"] = issuer["invoice"]
      /\ numbered'["quote"] = S \cup {<<y, n>>} /\ numbered'["invoice"] = numbered["invoice"]
  BY <1>0, <1>4 DEF NumberRangesTypeOK, Kinds
<1>10. Readings'
  BY <1>0, <1>1, <1>6, <1>9 DEF CreateQuote, EndRequest, Readings, NumberRangesTypeOK
<1> QED BY <1>1, <1>2, <1>4, <1>5, <1>8, <1>9, <1>10 DEF CreateQuote

\* An invoice, of a snapshot that may be old.
LEMMA CreateInvoiceInv ==
  ASSUME NumbersInv, NEW c \in Clerks, CreateInvoice(c)
  PROVE  NumbersInv'
<1> DEFINE n == local[c].next
           y == local[c].of
           k == issuer["invoice"]
           S == numbered["invoice"]
           l == [next |-> n + 1, of |-> y]
<1> USE NumberRangesAssumption DEF NumbersInv
<1>0. /\ NumberRangesTypeOK /\ year \in Years /\ k \in Counter
      /\ issuer["quote"] \in Counter /\ \A d \in Clerks : local[d] \in Counter
      /\ S \in SUBSET Numbers /\ npc[c] = "number"
  BY DEF NumberRangesTypeOK, Kinds, CreateInvoice
<1>1. y \in Years /\ y <= year /\ n \in 1..LastNumber
  BY <1>0 DEF CreateInvoice, Readings, Counter
<1>2. [local[c] EXCEPT !.next = n + 1] = l
  BY <1>0 DEF Counter
<1>3. l \in Counter /\ l.next = n + 1 /\ l.of = y
  BY <1>1 DEF Counter, Years
<1>4. NoCounter \in Counter /\ NoCounter.next = 1
  BY DEF NoCounter, Counter
<1>5. <<y, n>> \in Numbers
  BY <1>1 DEF Numbers
<1>6. CASE <<y, n>> \in S
  <2>1. UNCHANGED <<issuer, numbered>> /\ refused' = refused \cup {"invoice"}
    BY <1>6 DEF CreateInvoice, Insert
  <2>2. NumberRangesTypeOK'
    BY <1>0, <1>4, <2>1 DEF CreateInvoice, EndRequest, NumberRangesTypeOK, Kinds
  <2>3. Readings'
    BY <1>0, <1>4, <2>1 DEF CreateInvoice, EndRequest, Readings, NumberRangesTypeOK
  <2> QED BY <2>1, <2>2, <2>3 DEF CreateInvoice
<1>7. CASE <<y, n>> \notin S
  <2>1. /\ numbered' = [numbered EXCEPT !["invoice"] = S \cup {<<y, n>>}]
        /\ issuer' = [issuer EXCEPT !["invoice"] = l] /\ refused' = refused
    BY <1>2, <1>7 DEF CreateInvoice, Insert
  <2>2. /\ issuer'["quote"] = issuer["quote"] /\ issuer'["invoice"] = l
        /\ numbered'["quote"] = numbered["quote"] /\ numbered'["invoice"] = S \cup {<<y, n>>}
    BY <1>0, <2>1 DEF NumberRangesTypeOK, Kinds
  <2>3. NumberRangesTypeOK'
    BY <1>0, <1>3, <1>4, <1>5, <2>1 DEF CreateInvoice, EndRequest, NumberRangesTypeOK, Kinds
  <2>4. ~mixed' => ~mixed /\ k.of <= y
    <3>1. mixed' = (mixed \/ y < k.of)
      BY DEF CreateInvoice
    <3>2. y \in Nat /\ k.of \in Nat
      BY <1>0, <1>1 DEF Counter, Years
    <3> HIDE DEF y, k
    <3>3. ~(y < k.of) => k.of <= y
      BY <3>2
    <3> QED BY Zenon, <3>1, <3>3
  <2>5. ~mixed' => (k.of = y => n <= k.next) /\ (k.of < y => n = 1)
    BY <1>0, <1>1, <2>4 DEF Readings, Counter, Years
  <2>6. ~mixed' => Continues(numbered'["invoice"], issuer'["invoice"])
    <3> HIDE DEF n, y, k, S
    <3>1. ~mixed' => Continues(S, k)
      BY <2>4 DEF k, S
    <3>2. ~mixed' => Continues(S \cup {<<y, n>>}, l)
      BY <1>0, <1>1, <1>7, <2>4, <2>5, <3>1, NextNumber DEF S
    <3> QED BY <2>2, <3>2
  <2>7. ~mixed' /\ k.of = y => n = k.next
    <3> HIDE DEF n, y, k, S
    <3>1. ~mixed' => Continues(S, k)
      BY <2>4 DEF k, S
    <3> QED BY <1>0, <1>1, <1>7, <2>5, <3>1 DEF Continues, Counter, Years
  <2>8. Readings'
    <3> SUFFICES ASSUME NEW d \in Clerks
                 PROVE  /\ npc'[d] = "locked" =>
                             /\ local'[d].of \in Years /\ issuer'["quote"].of <= local'[d].of
                             /\ local'[d].of <= year'
                             /\ local'[d].next = IF issuer'["quote"].of = local'[d].of
                                                 THEN issuer'["quote"].next ELSE 1
                             /\ \A e \in Clerks : npc'[e] = "locked" => e = d
                        /\ npc'[d] = "number" =>
                             /\ nkind'[d] = "invoice" /\ local'[d].of \in Years
                             /\ local'[d].of <= year'
                             /\ ~mixed' /\ local'[d].of > issuer'["invoice"].of =>
                                  local'[d].next = 1
                        /\ npc'[d] = "read" /\ ~mixed' => local'[d].of <= issuer'["invoice"].of
                        /\ npc'[d] \in {"read", "number"} /\ ~mixed'
                           /\ local'[d].of = issuer'["invoice"].of =>
                             local'[d].next <= issuer'["invoice"].next
                        /\ local'[d].next >= 1
      BY DEF Readings
    <3>1. CASE d = c
      <4>1. npc'[d] = "idle" /\ local'[d] = NoCounter
        BY <1>0, <3>1 DEF CreateInvoice, EndRequest, NumberRangesTypeOK
      <4> QED BY <1>4, <4>1
    <3>2. CASE d # c
      <4>1. npc'[d] = npc[d] /\ local'[d] = local[d] /\ nkind'[d] = nkind[d] /\ year' = year
        BY <1>0, <3>2 DEF CreateInvoice, EndRequest, NumberRangesTypeOK
      <4>2. npc[d] # "locked"
        BY DEF CreateInvoice, RowHeld
      <4>3. npc[d] = "number" => /\ nkind[d] = "invoice" /\ local[d].of \in Years
                                 /\ local[d].of <= year
                                 /\ ~mixed /\ local[d].of > k.of => local[d].next = 1
        BY DEF Readings
      <4>4. /\ npc[d] = "read" /\ ~mixed => local[d].of <= k.of
            /\ npc[d] \in {"read", "number"} /\ ~mixed /\ local[d].of = k.of =>
                 local[d].next <= k.next
            /\ local[d].next >= 1
        BY DEF Readings
      <4>5. local[d] \in Counter /\ local[d].of \in Nat /\ local[d].next \in Nat /\ y \in Nat
            /\ k.of \in Nat /\ k.next \in Nat /\ n \in Nat /\ n >= 1
        BY <1>0, <1>1 DEF Counter, Years
      <4> HIDE DEF n, y, k
      <4>6. npc[d] = "number" /\ ~mixed' /\ local[d].of > y => local[d].next = 1
        BY <2>4, <4>3, <4>5
      <4>7. npc[d] = "read" /\ ~mixed' => local[d].of <= y
        BY <2>4, <4>4, <4>5
      <4>8. npc[d] \in {"read", "number"} /\ ~mixed' /\ local[d].of = y => local[d].next <= n + 1
        BY <2>4, <2>7, <4>3, <4>4, <4>5
      <4> QED BY <1>3, <2>2, <4>1, <4>2, <4>3, <4>4, <4>6, <4>7, <4>8
    <3> QED BY <3>1, <3>2
  <2> QED BY <1>1, <1>3, <2>1, <2>2, <2>3, <2>6, <2>8 DEF CreateInvoice
<1> QED BY <1>6, <1>7

\* A credit note ends what is promised of the invoices.
LEMMA CreateCreditNoteInv ==
  ASSUME NumbersInv, NEW c \in Clerks, CreateCreditNote(c)
  PROVE  NumbersInv'
<1> DEFINE l == [issuer["invoice"] EXCEPT !.next = @ + 1]
<1> USE NumberRangesAssumption DEF NumbersInv
<1>0. /\ NumberRangesTypeOK /\ year \in Years /\ issuer["invoice"] \in Counter
      /\ issuer["quote"] \in Counter /\ local[c] \in Counter
  BY DEF NumberRangesTypeOK
<1>1. NoCounter \in Counter /\ NoCounter.next = 1
  BY DEF NoCounter, Counter
<1>2. l \in Counter /\ l.next = issuer["invoice"].next + 1 /\ l.of = issuer["invoice"].of
  BY <1>0 DEF Counter
<1>3. <<year, local[c].next>> \in Numbers
  BY <1>0 DEF CreateCreditNote, Readings, Counter, Numbers
<1>4. /\ issuer' = issuer \/ issuer' = [issuer EXCEPT !["invoice"] = l]
      /\ \/ numbered' = numbered
         \/ numbered' = [numbered EXCEPT !["credit"] = @ \cup {<<year, local[c].next>>}]
      /\ refused' = refused \/ refused' = refused \cup {"credit"}
      /\ mixed' = TRUE
  BY DEF CreateCreditNote, Insert
<1>5. NumberRangesTypeOK'
  BY <1>0, <1>1, <1>2, <1>3, <1>4 DEF CreateCreditNote, EndRequest, NumberRangesTypeOK, Kinds
<1>6. /\ issuer'["quote"] = issuer["quote"] /\ numbered'["quote"] = numbered["quote"]
      /\ issuer'["invoice"] = issuer["invoice"] \/ issuer'["invoice"] = l
  BY <1>0, <1>4 DEF NumberRangesTypeOK, Kinds
<1>7. Readings'
  BY <1>0, <1>1, <1>4, <1>6 DEF CreateCreditNote, EndRequest, Readings, NumberRangesTypeOK
<1> QED BY <1>0, <1>2, <1>4, <1>5, <1>6, <1>7 DEF CreateCreditNote, Counter

LEMMA NumbersNextInv == NumbersInv /\ [NumberRangesNext]_numbersVars => NumbersInv'
<1>1. CASE UNCHANGED numbersVars
  BY <1>1 DEF numbersVars, NumbersInv, NumberRangesTypeOK, Readings, Continues
<1> QED BY <1>1, NoNumberInv, CreateQuoteInv, CreateInvoiceInv, CreateCreditNoteInv
     DEF NumberRangesNext, Clerk

\* Quotes are numbered without a gap and none is refused for its number, and so
\* are the invoices of an issuer whose counter no credit note and no invoice of
\* an old year has touched (billing/src/drizzle-repository.ts createQuote,
\* createInvoice, nextCreditNumber).
THEOREM NumbersContinue == NumberRangesSpec => []NumbersRunOn
<1>1. NumbersInv => NumbersRunOn
  BY DEF NumbersInv, NumbersRunOn, RunsOn, Continues
<1> QED BY <1>1, NumbersInitInv, NumbersNextInv, PTL DEF NumberRangesSpec

-----------------------------------------------------------------------------
(* Assistant.                                                              *)

\* While a proposal is approved an approval is left for its execution, and what
\* the calls under way may still cost fits in.
AssistantInv ==
  /\ AssistantTypeOK
  /\ executions <= approvals /\ (proposal = "approved" => executions < approvals)
  /\ WithinBudget

\* A call fewer under way, or one more while the budget is not used up.
LEMMA InFlightCounts ==
  ASSUME AssistantTypeOK
  PROVE  /\ IsFiniteSet(InFlight) /\ Cardinality(InFlight) \in Nat /\ Cardinality(Callers) \in Nat
         /\ \A c \in InFlight : Cardinality(InFlight \ {c}) = Cardinality(InFlight) - 1
         /\ \A c \in Callers \ InFlight :
              Cardinality(InFlight \cup {c}) = Cardinality(InFlight) + 1
         /\ \A S \in SUBSET Callers : Cardinality(S) <= Cardinality(Callers)
<1>1. InFlight \subseteq Callers /\ IsFiniteSet(Callers)
  BY AssistantAssumption DEF InFlight
<1>2. IsFiniteSet(InFlight)
  BY <1>1, FS_Subset
<1> QED BY <1>1, <1>2, FS_CardinalityType, FS_AddElement, FS_RemoveElement, FS_Subset

LEMMA CallInv ==
  ASSUME AssistantInv, NEW c \in Callers,
         \/ \E mode \in {"automatic", "suggestion", "human_required"}, approved \in BOOLEAN :
              Prepare(c, mode, approved)
         \/ AssertBudgetBefore(c) \/ CallProvider(c) \/ CheckAfter(c)
         \/ \E cost \in 0..CallCost : Record(c, cost)
  PROVE  AssistantInv'
<1> DEFINE K == Cardinality(InFlight)
           N == Cardinality(Callers)
<1> USE AssistantAssumption DEF AssistantInv, CallTo
<1>0. AssistantTypeOK /\ K \in Nat /\ N \in Nat /\ spent \in Nat
  BY InFlightCounts DEF AssistantTypeOK
<1>1. AssistantTypeOK'
  BY <1>0 DEF Prepare, AssertBudgetBefore, CallProvider, CheckAfter, Record, AssistantTypeOK,
     proposalVars
<1>2. UNCHANGED <<proposal, approvals, executions>>
  BY DEF Prepare, AssertBudgetBefore, CallProvider, CheckAfter, Record, proposalVars
<1>3. CASE spent' = spent /\ InFlight' = InFlight
  BY <1>1, <1>2, <1>3 DEF WithinBudget
<1>4. CASE spent' = spent /\ c \in InFlight /\ InFlight' = InFlight \ {c}
  <2>1. Cardinality(InFlight') = K - 1
    BY <1>0, <1>4, InFlightCounts
  <2>2. (K - 1) * CallCost <= K * CallCost
    BY <1>0
  <2> QED BY <1>0, <1>1, <1>2, <1>4, <2>1, <2>2 DEF WithinBudget
<1>5. CASE spent' <= spent + CallCost /\ c \in InFlight /\ InFlight' = InFlight \ {c}
  <2>1. Cardinality(InFlight') = K - 1
    BY <1>0, <1>5, InFlightCounts
  <2>2. (K - 1) * CallCost = K * CallCost - CallCost
    BY <1>0
  <2>3. spent' \in Nat
    BY <1>1 DEF AssistantTypeOK
  <2> QED BY <1>0, <1>1, <1>2, <1>5, <2>1, <2>2, <2>3 DEF WithinBudget
<1>6. CASE spent < Budget /\ spent' = spent /\ c \notin InFlight /\ InFlight' = InFlight \cup {c}
  <2>1. K + 1 <= N /\ Cardinality(InFlight') = K + 1
    <3>1. InFlight \cup {c} \in SUBSET Callers
      BY DEF InFlight
    <3> QED BY <1>0, <1>6, <3>1, InFlightCounts
  <2>2. (K + 1) * CallCost <= N * CallCost
    BY <1>0, <2>1
  <2> QED BY <1>0, <1>1, <1>2, <1>6, <2>1, <2>2 DEF WithinBudget
<1>7. \/ spent' = spent /\ InFlight' = InFlight
      \/ spent' = spent /\ c \in InFlight /\ InFlight' = InFlight \ {c}
      \/ spent' <= spent + CallCost /\ c \in InFlight /\ InFlight' = InFlight \ {c}
      \/ spent < Budget /\ spent' = spent /\ c \notin InFlight /\ InFlight' = InFlight \cup {c}
  <2>0. callPc \in [Callers -> {"idle", "budget", "provider", "record", "check"}]
    BY <1>0 DEF AssistantTypeOK
  <2>1. ASSUME spent >= Budget, AssertBudgetBefore(c)
        PROVE  spent' = spent /\ InFlight' = InFlight
    BY <2>0, <2>1 DEF AssertBudgetBefore, InFlight
  <2>2. ASSUME ~(spent >= Budget), AssertBudgetBefore(c)
        PROVE  spent < Budget /\ spent' = spent /\ c \notin InFlight /\ InFlight' = InFlight \cup {c}
    <3>1. spent < Budget
      BY <1>0, <2>2
    <3>2. spent' = spent /\ callPc[c] = "budget" /\ callPc' = [callPc EXCEPT ![c] = "provider"]
      BY <2>2 DEF AssertBudgetBefore
    <3> QED BY <2>0, <3>1, <3>2 DEF InFlight
  <2>3. ASSUME CallProvider(c)
        PROVE  /\ spent' = spent
               /\ \/ InFlight' = InFlight
                  \/ c \in InFlight /\ InFlight' = InFlight \ {c}
    <3>1. /\ spent' = spent /\ callPc[c] = "provider"
          /\ \/ callPc' = [callPc EXCEPT ![c] = "record"]
             \/ callPc' = [callPc EXCEPT ![c] = "idle"]
      BY <2>3 DEF CallProvider
    <3>2. CASE callPc' = [callPc EXCEPT ![c] = "record"]
      BY <2>0, <3>1, <3>2 DEF InFlight
    <3>3. CASE callPc' = [callPc EXCEPT ![c] = "idle"]
      BY <2>0, <3>1, <3>3 DEF InFlight
    <3> QED BY <3>1, <3>2, <3>3
  <2>4. ASSUME NEW cost \in 0..CallCost, Record(c, cost)
        PROVE  spent' <= spent + CallCost /\ c \in InFlight /\ InFlight' = InFlight \ {c}
    BY <1>0, <2>0, <2>4 DEF Record, InFlight
  <2>5. ASSUME CheckAfter(c) PROVE spent' = spent /\ InFlight' = InFlight
    BY <2>0, <2>5 DEF CheckAfter, InFlight
  <2>6. ASSUME NEW mode \in {"automatic", "suggestion", "human_required"}, NEW approved \in BOOLEAN,
               Prepare(c, mode, approved)
        PROVE  spent' = spent /\ InFlight' = InFlight
    BY <2>0, <2>6 DEF Prepare, InFlight
  <2>7. CASE AssertBudgetBefore(c)
    BY <2>1, <2>2, <2>7
  <2>8. CASE CallProvider(c)
    BY <2>3, <2>8
  <2>9. CASE \E cost \in 0..CallCost : Record(c, cost)
    BY <2>4, <2>9
  <2> QED BY <2>5, <2>6, <2>7, <2>8, <2>9
<1> QED BY <1>1, <1>2, <1>3, <1>4, <1>5, <1>6, <1>7

LEMMA ProposalInv ==
  ASSUME AssistantInv, Restart \/ \E r \in Requests :
                         AskPolicy(r) \/ Approve(r) \/ Execute(r) \/ AuditProposal(r)
  PROVE  AssistantInv'
<1> USE AssistantAssumption DEF AssistantInv
<1>1. CASE Restart
  <2>1. AssistantTypeOK' /\ InFlight' = {}
    BY <1>1 DEF Restart, AssistantTypeOK, InFlight
  <2>2. Cardinality(InFlight) \in Nat /\ Cardinality(Callers) \in Nat /\ spent \in Nat
    BY InFlightCounts DEF AssistantTypeOK
  <2>3. Cardinality(InFlight') = 0
    BY <2>1, FS_EmptySet
  <2>4. 0 <= Cardinality(InFlight) * CallCost /\ 0 * CallCost = 0
    BY <2>2
  <2>5. WithinBudget'
    BY <1>1, <2>2, <2>3, <2>4 DEF Restart, WithinBudget
  <2> QED BY <1>1, <2>1, <2>5 DEF Restart, AssistantTypeOK
<1>2. ASSUME NEW r \in Requests, AskPolicy(r) \/ Approve(r) \/ Execute(r) \/ AuditProposal(r)
      PROVE  AssistantInv'
  <2>1. WithinBudget'
    BY <1>2 DEF AskPolicy, Approve, Execute, AuditProposal, budgetVars, WithinBudget, InFlight
  <2>2. /\ executions' <= approvals' /\ (proposal' = "approved" => executions' < approvals')
        /\ executions' \in 0..MaxApprovals /\ approvals' \in 0..MaxApprovals
    BY <1>2 DEF AskPolicy, Approve, Execute, AuditProposal, AssistantTypeOK
  <2>3. AssistantTypeOK'
    BY <1>2, <2>2 DEF AskPolicy, Approve, Execute, AuditProposal, RequestTo, budgetVars,
       AssistantTypeOK
  <2> QED BY <2>1, <2>2, <2>3
<1> QED BY <1>1, <1>2

LEMMA AssistantNextInv == AssistantInv /\ [AssistantNext]_assistantVars => AssistantInv'
<1>1. CASE UNCHANGED assistantVars
  BY <1>1 DEF assistantVars, proposalVars, budgetVars, AssistantInv, AssistantTypeOK,
     WithinBudget, InFlight
<1> QED BY <1>1, CallInv, ProposalInv DEF AssistantNext

LEMMA AssistantInitInv == AssistantInit => AssistantInv
<1> SUFFICES ASSUME AssistantInit PROVE AssistantInv
  OBVIOUS
<1>1. AssistantTypeOK
  BY AssistantAssumption DEF AssistantInit, AssistantTypeOK
<1>2. InFlight = {} /\ Cardinality(InFlight) = 0
  BY FS_EmptySet DEF AssistantInit, InFlight
<1>3. 0 <= Cardinality(Callers) * CallCost /\ 0 * CallCost = 0
  BY <1>1, InFlightCounts, AssistantAssumption
<1>4. WithinBudget
  BY <1>1, <1>2, <1>3, InFlightCounts, AssistantAssumption DEF AssistantInit, WithinBudget
<1> QED BY <1>1, <1>4 DEF AssistantInit, AssistantInv

\* No approval is executed twice, and calls under way pass the budget by their
\* own cost at most (assistant/src/router.ts proposals, ai/src/gateway.ts
\* assertBudget).
THEOREM AssistantBounded == AssistantSpec => []AssistantIsBounded
<1>1. AssistantInv => AssistantIsBounded
  BY DEF AssistantInv, AssistantIsBounded, ExecutedOnce
<1> QED BY <1>1, AssistantInitInv, AssistantNextInv, PTL DEF AssistantSpec

-----------------------------------------------------------------------------
(* The parts together.                                                     *)

\* Only the part that moves need be as its invariant says; the other variables
\* keep their initial values.
OfficeInv ==
  /\ part = "sources" => SourcesInv
  /\ part = "handoffs" => HandoffsTypeOK
  /\ part = "leads" => LeadsInv
  /\ part = "numbers" => NumbersInv
  /\ part = "assistant" => AssistantInv

LEMMA OfficeNextInv == OfficeInv /\ [Next]_vars => OfficeInv'
<1> SUFFICES ASSUME OfficeInv, [Next]_vars PROVE OfficeInv'
  OBVIOUS
<1>1. part' = part
  BY DEF Next, vars, InSources, InHandoffs, InLeads, InNumbers, InAssistant, InCalculations
<1>2. CASE part = "sources"
  BY <1>1, <1>2, SourcesNextInv DEF OfficeInv, Next, vars, InSources, InHandoffs, InLeads, InNumbers,
     InAssistant, InCalculations
<1>3. CASE part = "handoffs"
  BY <1>1, <1>3, HandoffsNextType DEF OfficeInv, Next, vars, InSources, InHandoffs, InLeads, InNumbers,
     InAssistant, InCalculations
<1>4. CASE part = "leads"
  BY <1>1, <1>4, LeadsInvNext DEF OfficeInv, Next, vars, InSources, InHandoffs, InLeads, InNumbers,
     InAssistant, InCalculations
<1>5. CASE part = "numbers"
  BY <1>1, <1>5, NumbersNextInv DEF OfficeInv, Next, vars, InSources, InHandoffs, InLeads, InNumbers,
     InAssistant, InCalculations
<1>6. CASE part = "assistant"
  BY <1>1, <1>6, AssistantNextInv DEF OfficeInv, Next, vars, InSources, InHandoffs, InLeads, InNumbers,
     InAssistant, InCalculations
<1> QED BY <1>1, <1>2, <1>3, <1>4, <1>5, <1>6 DEF OfficeInv

\* Whatever happens around the documents, the rows and the requests are of
\* their kinds and no counter leaves its bounds (the schemas of the modules
\* ingestion, crm, billing and assistant).
THEOREM OfficeTypes == Spec => []TypeOK
<1>1. Init => OfficeInv
  BY SourcesInitInv, HandoffsInitType, LeadsInitInv, NumbersInitInv, AssistantInitInv
     DEF Init, OfficeInv
<1>2. OfficeInv => TypeOK
  BY DEF OfficeInv, SourcesInv, LeadsInv, LeadsKinds, NumbersInv, AssistantInv, TypeOK
<1> QED BY <1>1, <1>2, OfficeNextInv, PTL DEF Spec

-----------------------------------------------------------------------------
(* Calculations.                                                           *)

\* What has been answered is what the function makes of its input.
CalculationsInv ==
  /\ part = "calculations" => task \in Tasks /\ (answer # None => answer = <<Evaluated(task)>>)
  /\ part # "calculations" => answer = None

LEMMA CalculationsNextInv == CalculationsInv /\ [Next]_vars => CalculationsInv'
<1> SUFFICES ASSUME CalculationsInv, [Next]_vars PROVE CalculationsInv'
  OBVIOUS
<1>1. CASE InCalculations /\ CalculationsNext
  BY <1>1 DEF InCalculations, CalculationsNext, CalculationsInv
<1>2. CASE UNCHANGED <<part, calculationsVars>>
  BY <1>2 DEF CalculationsInv, calculationsVars
<1>3. \/ InCalculations /\ CalculationsNext
      \/ UNCHANGED <<part, calculationsVars>>
  BY DEF Next, vars, InSources, InHandoffs, InLeads, InNumbers, InAssistant
<1> QED BY <1>1, <1>2, <1>3

\* What each function has answered is what its module says of it: of the
\* office's run, every state.
THEOREM CalculationsAlwaysAgree == Spec => []CalculationsAgree
<1>1. Init => CalculationsInv
  BY DEF Init, CalculationsInit, CalculationsInv
<1>2. CalculationsInv => CalculationsAgree
  <2> SUFFICES ASSUME CalculationsInv, answer # None PROVE Agrees(task, answer[1])
    BY DEF CalculationsAgree
  <2>1. task \in Tasks /\ answer = <<Evaluated(task)>>
    BY DEF CalculationsInv
  <2>2. Agrees(task, Evaluated(task))
    BY <2>1, TasksAreProper, EveryTaskAgrees
  <2>3. answer[1] = Evaluated(task)
    BY <2>1
  <2> QED BY <2>2, <2>3, Zenon
<1> QED BY <1>1, <1>2, CalculationsNextInv, PTL DEF Spec

-----------------------------------------------------------------------------
(* The parts together.                                                     *)

\* A step of one part is none of another.
LEMMA StepsOfTheParts ==
  [Next]_vars =>
    /\ [SourcesNext]_sourcesVars /\ [HandoffsNext]_handoffsVars /\ [LeadsNext]_leadsVars
    /\ [NumberRangesNext]_numbersVars /\ [AssistantNext]_assistantVars
BY DEF Next, vars, InSources, InHandoffs, InLeads, InNumbers, InAssistant, InCalculations

\* What the run goes through are behaviours of every part: what is proved of a
\* part alone holds of it here (packages and modules that share no table).
THEOREM OfficeIsItsParts ==
  Spec => SourcesSpec /\ HandoffsSpec /\ LeadsSpec /\ NumberRangesSpec /\ AssistantSpec
<1>1. Init => SourcesInit /\ HandoffsInit /\ LeadsInit /\ NumberRangesInit /\ AssistantInit
  BY DEF Init
<1> QED BY <1>1, StepsOfTheParts, PTL
        DEF Spec, SourcesSpec, HandoffsSpec, LeadsSpec, NumberRangesSpec, AssistantSpec

\* So all of the office's safety, of its own steps.
THEOREM OfficeIsSafe ==
  Spec => /\ [](ApprovalIsSigned /\ DeskFollowsOccurrences /\ CurrentBecomesLead
                /\ NumbersRunOn /\ AssistantIsBounded /\ CalculationsAgree)
          /\ CorrectionsSurvive
  BY OfficeIsItsParts, ApprovalsSigned, DeskFollows, FindingsBecomeLeads, CorrectionsKept,
     NumbersContinue, AssistantBounded, CalculationsAlwaysAgree, PTL
=============================================================================
