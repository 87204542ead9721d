------------------------------ MODULE Handoffs ------------------------------
(***************************************************************************)
(* The items the artwork service holds for a document's occurrences: the   *)
(* jobs ingestion.handoff.artwork and ingestion.review.withdraw against    *)
(* runs of ingestion.processing.run that replace the occurrences, rival    *)
(* runs included, and against the script uebergabe-bestand.                *)
(*                                                                         *)
(* One document with at most one proven finding: its row at a time is the  *)
(* occurrence `live`.  A run is its snapshot and its commit (Documents has *)
(* the steps between).                                                     *)
(***************************************************************************)
EXTENDS Naturals, FiniteSets

CONSTANTS
  Runs,      \* transactions of processing runs open at a time
  Couriers,  \* workers with a handoff job
  MaxRuns,   \* bound on committed runs
  MaxLost    \* bound on answers of the service that are lost

ASSUME HandoffsAssumption == MaxRuns \in Nat /\ MaxLost \in Nat

VARIABLES
  live,        \* ids of the document's occurrences: those without proof are left out
  declined,    \* occurrences a reviewer has rejected
  lastId,      \* the ids given so far
  snapshot,    \* run -> ids its listOccurrences read
  open,        \* runs with an open transaction
  committed,   \* number of commits
  handoffs,    \* ids with a handoff job pending or under way
  carrying,    \* courier -> id whose provenance it has read, or 0
  withdrawals, \* payloads of the withdraw jobs
  desk,        \* ids the artwork service has an item for
  overtaken,   \* history: items of replaced occurrences no withdraw job names any more
  answersLost

handoffsVars == <<live, declined, lastId, snapshot, open, committed, handoffs, carrying,
                  withdrawals, desk, overtaken, answersLost>>

HandoffsTypeOK ==
  /\ lastId \in Nat
  /\ live \cup declined \cup handoffs \cup desk \cup overtaken \subseteq 1..lastId
  /\ snapshot \in [Runs -> SUBSET (1..lastId)] /\ open \subseteq Runs
  /\ carrying \in [Couriers -> 0..lastId]
  /\ withdrawals \subseteq SUBSET (1..lastId)
  /\ committed \in 0..MaxRuns /\ answersLost \in 0..MaxLost

HandoffsInit ==
  /\ live = {} /\ declined = {} /\ lastId = 0
  /\ snapshot = [r \in Runs |-> {}] /\ open = {} /\ committed = 0
  /\ handoffs = {} /\ carrying = [c \in Couriers |-> 0]
  /\ withdrawals = {} /\ desk = {} /\ overtaken = {} /\ answersLost = 0

-----------------------------------------------------------------------------
(* Runs.                                                                   *)

ReadOccurrences(r) ==
  /\ r \notin open /\ committed < MaxRuns
  /\ open' = open \cup {r}
  /\ snapshot' = [snapshot EXCEPT ![r] = live]
  /\ UNCHANGED <<live, declined, lastId, committed, handoffs, carrying, withdrawals, desk,
                 overtaken, answersLost>>

\* The bug: only what the reviewers have declined is withdrawn.
CommitWithdrawingDeclined(r, n) ==
  LET new == (lastId + 1)..(lastId + n)  gone == snapshot[r] \cap declined IN
  /\ r \in open /\ committed < MaxRuns
  /\ open' = open \ {r} /\ committed' = committed + 1
  /\ snapshot' = [snapshot EXCEPT ![r] = {}]
  /\ live' = new /\ lastId' = lastId + n
  /\ declined' = IF gone # {} THEN new ELSE {}
  /\ handoffs' = handoffs \cup new
  /\ withdrawals' = IF gone = {} THEN withdrawals ELSE withdrawals \cup {gone}
  /\ overtaken' = overtaken \cup (desk \cap (live \ snapshot[r]))
  /\ UNCHANGED <<carrying, desk, answersLost>>

\* The withdrawal names the ids read, the deletion takes those there are.  The
\* proven occurrences get a handoff job in the same transaction; a finding the
\* reviewers declined is inserted as such.
CommitOccurrences(r, n) ==
  LET new == (lastId + 1)..(lastId + n) IN
  /\ r \in open /\ committed < MaxRuns
  /\ open' = open \ {r} /\ committed' = committed + 1
  /\ snapshot' = [snapshot EXCEPT ![r] = {}]
  /\ live' = new /\ lastId' = lastId + n
  /\ declined' = IF snapshot[r] \cap declined # {} THEN new ELSE {}
  /\ handoffs' = handoffs \cup new
  /\ withdrawals' = IF snapshot[r] = {} THEN withdrawals ELSE withdrawals \cup {snapshot[r]}
  /\ overtaken' = overtaken \cup (desk \cap (live \ snapshot[r]))
  /\ UNCHANGED <<carrying, desk, answersLost>>

AbortRun(r) ==
  /\ r \in open
  /\ open' = open \ {r} /\ snapshot' = [snapshot EXCEPT ![r] = {}]
  /\ UNCHANGED <<live, declined, lastId, committed, handoffs, carrying, withdrawals, desk,
                 overtaken, answersLost>>

\* A reviewer rejects the occurrence; an item handed in stays.
Decline(i) ==
  /\ i \in live \ declined
  /\ declined' = declined \cup {i}
  /\ UNCHANGED <<live, lastId, snapshot, open, committed, handoffs, carrying, withdrawals,
                 desk, overtaken, answersLost>>

-----------------------------------------------------------------------------
(* ingestion.handoff.artwork.                                              *)

\* getOccurrenceProvenance: a rejected occurrence is skipped, one that is gone
\* throws until the job is dead.
ReadProvenance(c, i) ==
  /\ carrying[c] = 0 /\ i \in handoffs
  /\ \A b \in Couriers : carrying[b] # i
  /\ IF i \in live \ declined
     THEN carrying' = [carrying EXCEPT ![c] = i] /\ UNCHANGED handoffs
     ELSE handoffs' = handoffs \ {i} /\ UNCHANGED carrying
  /\ UNCHANGED <<live, declined, lastId, snapshot, open, committed, withdrawals, desk,
                 overtaken, answersLost>>

\* Still to be taken back.
Named(i) == \E W \in withdrawals : i \in W

\* createArtworkHandoffClient.submit: the service has the item, once for an id.
\* If its answer is lost, or comes after the timeout, the job is tried again.
HandInItem(c) ==
  LET i == carrying[c] IN
  /\ i # 0
  /\ carrying' = [carrying EXCEPT ![c] = 0]
  /\ desk' = desk \cup {i}
  /\ overtaken' = IF i \in live \/ Named(i) THEN overtaken ELSE overtaken \cup {i}
  /\ \/ handoffs' = handoffs \ {i} /\ UNCHANGED answersLost
     \/ answersLost < MaxLost /\ answersLost' = answersLost + 1 /\ UNCHANGED handoffs
  /\ UNCHANGED <<live, declined, lastId, snapshot, open, committed, withdrawals>>

\* The service cannot be reached, or the storage has no crop: nothing arrives,
\* the job is tried again.
SubmitFails(c) ==
  /\ carrying[c] # 0
  /\ carrying' = [carrying EXCEPT ![c] = 0]
  /\ UNCHANGED <<live, declined, lastId, snapshot, open, committed, handoffs, withdrawals,
                 desk, overtaken, answersLost>>

\* scripts/uebergabe-bestand: proven, detected, without a queued job and
\* without an audit entry of a handoff, which is written after the submit.
HandInStock(i) ==
  /\ i \in live \ declined
  /\ i \notin desk \cup handoffs
  /\ handoffs' = handoffs \cup {i}
  /\ UNCHANGED <<live, declined, lastId, snapshot, open, committed, carrying, withdrawals,
                 desk, overtaken, answersLost>>

-----------------------------------------------------------------------------
(* ingestion.review.withdraw.                                              *)

\* PifReviewClient.withdraw, in batches of 2000 ids.
Withdraw(W) ==
  /\ W \in withdrawals
  /\ desk' = desk \ W /\ overtaken' = overtaken \ W
  /\ withdrawals' = withdrawals \ {W}
  /\ UNCHANGED <<live, declined, lastId, snapshot, open, committed, handoffs, carrying, answersLost>>

\* The answer is lost after the service has taken the items back.
WithdrawAgain(W) ==
  /\ W \in withdrawals
  /\ answersLost < MaxLost /\ answersLost' = answersLost + 1
  /\ desk' = desk \ W /\ overtaken' = overtaken \ W
  /\ UNCHANGED <<live, declined, lastId, snapshot, open, committed, handoffs, carrying, withdrawals>>

HandoffsNext ==
  \/ \E r \in Runs : ReadOccurrences(r) \/ AbortRun(r) \/ \E n \in 0..1 : CommitOccurrences(r, n)
  \/ \E i \in live : Decline(i) \/ HandInStock(i)
  \/ \E c \in Couriers : HandInItem(c) \/ SubmitFails(c) \/ \E i \in handoffs : ReadProvenance(c, i)
  \/ \E W \in withdrawals : Withdraw(W) \/ WithdrawAgain(W)

HandoffsSpec == HandoffsInit /\ [][HandoffsNext]_handoffsVars

-----------------------------------------------------------------------------
(* Properties.                                                             *)

\* The artwork service holds an item for an occurrence that is gone only while
\* the job that withdraws it is queued, with two exceptions the code leaves:
\* a handoff job had read the occurrence before the new run and submitted it
\* after the withdrawal, or a rival run has replaced an occurrence that its own
\* snapshot, from which it names the ids to withdraw, did not have.
DeskFollowsOccurrences ==
  \A i \in desk : i \in live \/ Named(i) \/ i \in overtaken
=============================================================================
