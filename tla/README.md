# xMaster Center in TLA+

TLA+ models of the parts of the xMaster Center whose correctness depends on an
order of events: the database lease queue and its workers, the transactional
event outbox and its dispatcher, the audit hash chain, the path from a quote to
its payment with the number ranges, and the ingestion module with its
documents, sources, districts and what becomes of them in other modules; and of
the pure functions whose cases interact. TLC checks the models on small
instances; TLAPS proves their safety properties for every value of the
constants. Line numbers are those of
the sources the models were written from; `PROJECT.json` holds them for every
definition (`map`).

## 1. The system

A TypeScript monorepo (pnpm) and two Python services, over one MySQL database
at its default isolation level, REPEATABLE READ. Several API processes and
several worker processes may run; each worker process runs
`WORKER_CONCURRENCY` claim loops, one dispatch loop and the schedules.

| Part | State | Operations | Hard about it | Modelled |
|---|---|---|---|---|
| `packages/jobs`: queue, worker | rows of `jobs`; each loop's claimed job, token, `leaseLost` | enqueue, claim, heartbeat, lockLease, complete, fail, requeue; the worker loop, heartbeat timer, timeout | claim is three statements without a transaction; leases expire under living workers; late statements; crashes | `LeaseQueue`, all of it |
| `packages/jobs`: scheduler, backoff | timers | enqueue every interval; delay = f(attempts) | overlapping schedules; every replica schedules | which schedules a worker starts and how long a retry waits: `Schedules`; the timers are an assumption (section 3) |
| `packages/kernel`: event bus | rows of `event_outbox` | append (publish), pending, state, recordHandlerSuccess / Failure, markPublished, requeue; dispatch | at-least-once, per-handler memory, dead letters, publish inside or outside the business transaction | `EventOutbox` |
| `packages/kernel`: audit | `audit_log`, the one row of `audit_chain_heads` | appendAudit, verifyAuditChain | one hot row shared by all transactions, savepoints, retries, deadlocks, rollback | `AuditChain` |
| `packages/kernel`: rbac, trpc, settings, identity, registry, http | users, sessions, settings | authentication, permission checks, settings, navigation | names of several modules meet | `Registry`: registration, `can`, navigation |
| `modules/billing` | `issuers` (number counters), `quotes`, `invoices`, `payments`, `dunning_log`, `credit_notes` | create, send, decline, accept a quote; create, issue an invoice; pay; dun; credit note | read-then-update without locks under snapshot isolation; a counter shared by two kinds; rounding | `Billing`: quotes, payments, dunning; `NumberRanges`: the counters; `Amounts`: money and formulas |
| `modules/crm` | `customers`, leads | create, convert; two event handlers of the ingestion events | handler idempotency, stale actuality | `Leads`: the handlers |
| `modules/ingestion`: documents | documents, classification, occurrences | upload, watch folder, processing.run, review, Sammellauf, scripts | PIF calls of minutes between reads and writes; lost leases; failure writes without lease; publish without executor | `Documents`, `Intake` |
| `modules/ingestion`: handoff | items at the artwork service | handoff.artwork, review.withdraw, `uebergabe-bestand` | jobs of one run overtake those of the next; lost answers | `Handoffs` |
| `modules/ingestion`: search | sources, areas, search keys | discovery.run, search_keys.run, source.fetch, source.revisit, approve, reject | each run works on rows it has listed long before | `Sources`, `Areas`, `SearchKeys` |
| `modules/ingestion`: rules | none | period, type and region of a document; search keys; stages; exports | rules whose cases interact | `Classification`, `Regions`, `KeyRules`, `Stages`, `Exports` |
| `modules/system` | none of its own | jobs.requeue, events.requeue, audit verify, settings | several statements per request without a transaction | the two requeues, in `LeaseQueue` and `EventOutbox` |
| `modules/assistant` | proposals, in memory | approve, execute | state ignored by approve; awaits between check and write | `Assistant` |
| `packages/ai` | usage ledger, budgets | chat, vision, image, transcribe, jury | check-then-act on the budget | the four calls against a budget, in `Assistant` |
| `packages/integrations`, `contracts`, `ui`, `apps/web` | none | mail, PDF, storage, Telegram; types; screens | I/O and rendering | no |
| `apps/api`, `apps/worker` | none | wiring, loops, shutdown | which `publish` forwards the executor; errors that end a loop | what the loops do, in the modules above |
| `services/print-ingest`, `print-intelligence-foundation` | own databases (Python) | PDF pipeline, classification, review | external to the queue, mostly pipelines over models | no; seen from `ingestion` they answer or fail |

How they meet: a request or a job handler opens a transaction, writes business
rows, calls `appendAudit` (which locks the head row until the commit) and
`publish` (which inserts an outbox row, in the same transaction if it passes its
executor on). The worker's dispatch loop delivers outbox rows to the handlers
of other modules (CRM subscribes to ingestion events). Long work goes through the
queue: a router or a REST upload enqueues, a worker loop claims. The system
module lets an operator revive dead jobs and dead letters.

What makes each part correct is stated with its module below. All hazards found
while reading, those no property covers yet included, are in `PROJECT.json`
(`hazards`), each at its line; the note of a hazard that its properties catch
only in part says which part.

## 2. Modules

| Module | What it is |
|---|---|
| `JobLifecycle` | what the queue promises: one holder at a time, whose verdict alone ends the hold |
| `LeaseQueue` | queue, worker loop, heartbeat, operator's requeue; refines `JobLifecycle` |
| `LeaseQueueProofs` | its invariants and the refinement, proved |
| `EventDelivery` | what the outbox promises: event and business change at once, handled at least once |
| `EventOutbox`, `EventOutboxProofs` | publish, dispatch, dead letters, requeue; its safety and the refinement, proved |
| `AuditLog` | what the chain is to its readers: a log that grows by whole transactions |
| `AuditChain`, `AuditChainProofs` | appendAudit within and without business transactions; the chain proved sound, and to be an `AuditLog` |
| `Billing`, `BillingProofs` | quotes, invoices, payments, dunning; all safety properties proved |
| `NumberRanges` | the counters of quote, invoice and credit note numbers |
| `Documents`, `Intake`, `Areas`, `SearchKeys` | a document from its upload to its occurrences; watch folder; districts; search keys |
| `IngestionProofs` | safety of these four and of their composition |
| `Sources`, `Handoffs`, `Leads`, `Assistant` | a source; the artwork service; customers from findings; proposals and budget |
| `LeadsProofs`, `OfficeProofs` | safety of `Leads`; of the other three, of `NumberRanges` and of the composition |
| `KeyRules`, `Stages`, `Classification`, `Regions`, `Registry`, `Amounts`, `Schedules`, `Exports` | pure functions, with what they promise as operators |
| `CalculationsProofs` | that they keep it, for inputs of any size |
| `MCLeaseQueue`, `MCEventOutbox`, `MCBilling` | symmetry sets for TLC |
| `MCIngestion`, `MCOffice` | several modules in one run; `part` says which one moves |
| `MCCalculations` | the inputs of the pure functions |

`MCIngestion` and `MCOffice` put together modules that share no state: one
`part` is chosen in the initial state and the others stand still, so their state
space is the sum of those of the parts and nothing is hidden by a product.
`Documents` is two of them: `documents`, with one advertisement to be found,
and `rivals`, with two, where rival runs can find different ones and nothing
fails but leases. Where
two parts of the ingestion module do interact, the interaction is in one of the
modules: the run of a document appears in `Documents` with all its steps, and in
`Handoffs` and `Leads` with those that the handoff or the lead depends on.

Conventions. One action is one SQL statement with the JavaScript up to the next
`await`; everything else may happen between two actions. A transaction is a
sequence of such actions that others see at its commit; a plain `SELECT` reads
the snapshot of the transaction's first one, `FOR UPDATE` and `UPDATE` wait for
row locks and meet the row as last committed. Where reading a snapshot and doing
something with it lets nobody else notice the difference, the statements are one
action (`Billing!ReadToPay` is `getInvoice`, `addPayment`'s insert and its SUM).
Program counters are named for what the code does next. Before some definitions
stands a variant with a plausible bug (`ClaimableIgnoringLease`,
`RollbackKeepsHead`, ...); nothing uses it but the checks that a property
notices such a bug (`mutants` in `PROJECT.json`).

### LeaseQueue

State: the row of each job (`status`, `attempts`, `leaseToken`, `due`,
`lastError`, the row lock), the locals of each `Worker.run` loop, the heartbeat
statement under way, each operator's request. Time is the one fact the
statements ask about: `due[j]`, whether `availableAt` or `leaseExpiresAt` has
passed. `Elapse` lets it pass at any moment, which covers every lease length,
back-off and skew between the clocks of the processes.

`SelectCandidate`, `ClaimUpdate`, `ClaimReadBack` are the three statements of
`DrizzleQueueRepository.claim`; `SendBeat`, `Beat`, `BeatFails` the interval of
`worker.ts` and its UPDATE, which may arrive after its turn has ended or its
process has crashed; `LockLease`, `CommitEffect`, `HandlerReturns`,
`HandlerThrows` any handler (the ingestion handler that locks its lease in its
transaction, and those that do not); `Complete`, `Fail`, `OnFailure` the end of
a turn; `RequeueGet`, `RequeueUpdate`, `RequeueReread`, `RequeueAudit` the
operator's request. `Crash` ends a loop anywhere.

What it must guarantee: a lease is not taken over before it has expired
(`NoLeaseIsStolen`); a processing job is decided by the holder of its lease and
nobody else (`OnlyHolderDecides`); work that locked its lease commits under it
(`CommitUnderLease`); a job is buried only with a recorded reason and, if it
could have been retried, after all its attempts (`DeadIsDeserved`), although
`fail` decides by a copy of the row made at the claim; every job settles
(`EveryJobSettles`); and in sum the queue is a `JobLifecycle`
(`ImplementsLifecycle`), with the living worker that knows the row's token as
the holder.

### EventOutbox

State: rows of `event_outbox`, business transactions in flight (`Begin`,
`AppendInsert`, `Commit`, `Rollback`), the locals of each dispatch (`Pending`,
`ReadState`, `Handle`, `HandleFails`, `RecordRead`, `RecordWrite`,
`RecordFailure`, `MarkPublished`), operators (`RequeueGet`, `RequeueUpdate`),
`Elapse` for `nextAttemptAt`, `Crash`. `ran` remembers which handler has run to
its end for which event; `fact` which business changes are committed.
`Attached` are the events whose publisher passes its executor on; the worker's
ingestion publish (`apps/worker/src/main.ts:218`) does not. A duplicate
`idempotencyKey` is found by the SELECT, or by the INSERT, which then fails a
transaction whose snapshot cannot see the row.

What it must guarantee: published means handled by every subscription
(`PublishedMeansHandled`), whatever crashes and however many dispatchers run; an
attached event exists exactly with its business change
(`AttachedEventsHaveFacts`); and in sum it is an `EventDelivery`
(`ImplementsDelivery`), where what is handled was committed before, event and
business change come in one step, and nothing is taken back. With one dispatcher: no handler recorded as
successful runs again (`NoSecondRun`), a dead letter comes back only by an
operator (`DeadLettersStayDead`), a published event is finished
(`PublishedIsFinal`), every event is published or a dead letter at last
(`EveryEventSettles`). With two dispatchers the latter do not hold: they
overwrite each other's `successfulHandlers` and `deadLetter`. The shipped setup
starts one worker process, and nothing enforces it; the hazards list this.

### AuditChain

State: `audit_log` and the head row as committed; for each writer its
uncommitted entries, its head as updated, the head it has read, its locks and
its attempts. `Begin`, `Touch`, `LockRow`, `Commit`, `Rollback` are the business
transaction around it, which locks other rows in any order; `Append`,
`LockHead`, `Insert`, `UpdateHead`, `Retry` are `appendAudit` with
`appendAtomic`; `Deadlock` is the database breaking a circle. An append outside
a business transaction commits by the same `Commit`.

What it must guarantee: whoever verifies the committed chain at any time finds
it sound (`ChainVerifies`); the head row is the last entry and no sequence
number is missing or used twice (`HeadIsLast`; the two together are
`ChainIsSound`); to its readers the table is a log that grows at its end by
whole transactions, one at a time (`ImplementsLog`: entries of two transactions
are never interleaved, although they are inserted one by one); nobody waits for
ever for the head row all transactions share (`AppendsEnd`). The hash is injective in what it
binds; the fields beside `seq` and `prevHash` are abstracted to the writer.

### Billing

State: quote status and link, invoices (one per quote is what the properties
say, so an invoice is named by its quote and `made` counts them), `payments` as
their sum, `dunning_log` as the set of levels, locks, and each client's and
each dunning run's locals. `ReadQuote`, `UpdateQuote`, `CommitQuote` are
`transitionQuote`, `Accept` and `CommitAccept` `acceptQuote`, `ReadToIssue`,
`SetInvoiceIssued`, `CommitIssue` `issueInvoice`, `ReadToPay`, `UpdatePaid`,
`CommitPayment` `recordPayment` with `addPayment`, and `ListInvoices`,
`ListEntries`, `CreateEntry`, `EndRun` `runDunning`. `Rollback` may end any
transaction. The invoices made directly by `createInvoice` follow the same
path from `draft` on.

What it guarantees: a quote is invoiced once at most (`OneInvoicePerQuote`);
lost updates never credit more than was received (`CreditedIsReceived`); what is
not issued is neither paid nor dunned (`DraftIsUntouched`); overlapping and
aborted dunning runs leave no gap in the levels (`DunningEscalates`). What the
code says and concurrent requests get past is in section 4.

### NumberRanges

State: the counters of `billing_issuers` (`issuer`, with the year they are of),
the numbers given, the clerks' requests with what they have read. `LockIssuer`
and `CreateQuote` are `createQuote`, which locks the row; `ReadIssuer`,
`TakeYear` and `CreateInvoice` are `createInvoice`, `CreateCreditNote` is
`nextCreditNumber` with its caller; both read their snapshot. `NewYear` turns
the year at any time, `RollBack` ends a transaction.

Quotes are numbered without a gap and never refused; invoices are without a gap
unless a credit note or an invoice of the old year has moved the counter they
share (`NumbersRunOn`). In those cases the unique index refuses invoices, which
`refused` remembers.

### Documents

State: documents, occurrences (`rows`, each with a fresh id, a finding and a
reviewer's status), the jobs (reduced to what `LeaseQueue` promises: one
holder, leases that lapse), and for each worker the locals of
`ingestion.processing.run`: `ReadDocument`, `ReadForMark`, `WriteState`,
`PifAnswers`, then the transaction `LockJob`, `TakeSnapshot`,
`UpsertClassification`, `Replace`, `PublishDetected`, `CommitRun` with
`TransactionFails`. `ReadForFailed` is the way of a failure, from the catch
(`module.ts:1168`) and from `onFailure` (1175), neither of which looks at the
lease. `Persist`, `EnqueueStored`, `IntakeFails` are upload, fetch and watch
folder; `SweepCheck` and `SweepEnqueue` the Sammellauf, whose check and enqueue
are two statements; `Review`, `ApplyVerdict`, `EtappeCheck`, `EtappeApply` the
router and the two scripts; `Lapse`, `WorkerCrash`, `ReviveJob` the queue.

A document never shows the findings of two runs (`FindingsOfOneRun`): its
occurrences carry the id of one run, no finding twice, and their number fits
the gate; no occurrence is visible without its event (`OccurrencesAreAnnounced`); a verdict
outlives the next run unless that run had read before it (`DecisionsSurvive`);
every document comes to rest (`DocumentsSettle`).

### Intake

One file in the watch folder, one upload of the same bytes, several scanning
processes. `Observe` is the comparison with the size each process remembers,
`ReadFile`, `StoreFile`, `EnqueueFile`, `MoveFile` the rest of
`scanWatchFolder`; `Upload` and `UploadEnqueues` are `rest.ts`. `TakenInOnce`
states what the folders claim of a file; `FolderIsCleared` is a part of
`WorkComesRound`.

### Handoffs

State: the current occurrence, the items at the artwork service (`desk`), the
jobs queued. `ReadOccurrences` and `CommitOccurrences` are a run's snapshot and
commit, where it queues the withdrawal; `ReadProvenance`, `HandInItem`,
`SubmitFails` the handoff, whose answer may be lost after the service has taken
the item; `Withdraw`, `WithdrawAgain` the withdrawal; `HandInStock` the script.
`DeskFollowsOccurrences` names the two ways an item of a vanished occurrence
stays (`overtaken`).

### Sources

One source. A finder (`Discoverers`, `KeyRuns`, `Linkers`: the three places that
propose sources) searches, creates or adopts, approves what the register of
municipal websites knows, enqueues the fetch, and rolls an approval back when the
enqueue throws (`RestorePrevious`). Visits write back status and dates from the
row they started with. `HumanApproves`, `HumanRejects`, `HumanFetches` are the
router. `ApprovalIsSigned` has one exception, named by `revived`;
`RegisteredIsFetched` holds because a later run looks at the source again.

### Areas and SearchKeys

`Areas`: `ListAreas` and `StartRun` list the districts that are due, or stuck
for `StaleAfter` days; `MarkRunning`, `FinishArea`, `AreaThrows`,
`AreaRunCrash` take one after the other, with the row as listed. A district
goes on through its municipalities by its offset and gives up an incomplete one
after `GiveUpAfter` tries. `SearchKeys` is the plan of `search_keys.run`, with
seeding and terms switched off and on. `NoMunicipalitySkipped` is about the
stale writes of overlapping runs; `AreasComeRound` and `KeysComeRound` (parts of
`WorkComesRound`) about starvation behind what always fails.

### Leads

From a run's derived period and its events to the customer: `Derive`,
`RunPublishesTransition`, `RunAnnounces`, `RunCommits`; people who correct or
decide (`CorrectPeriod`, `DecideActuality`, `ReadAfter`, `PublishTransition`);
the handler (`ReadActuality` outside, `MakeLead` inside its transaction).
`CurrentBecomesLead`: an occurrence never becomes two customers, and a current
document with a finding has a lead, but for the losses the property lists and
`missed` records. `CorrectionsSurvive`: a run changes no period a person has
entered, unless it has read before.

### Assistant

Proposals: `AskPolicy`, `Approve`, `Execute`, `AuditProposal` with requests
overlapping at the awaits; `Restart` forgets the map. Budget: `Prepare`,
`AssertBudgetBefore`, `CallProvider`, `Record`, `CheckAfter`.
`AssistantIsBounded`: no approval is executed twice, and calls pass the budget
by less than their own cost together.

### The pure functions

Each module states what its functions compute and, as predicates over input and
answer, what they promise: no place of a listed district is left without a key
(`EveryPlaceIsSearched`); a stage reaches its share of pages and explains what
it refuses (`StageReachesTarget`, `RefusalsAreExplained`); period, type and
region are those of the best source (`PeriodIsEvidenced`, `TypeIsOfFirstSource`,
`RegionIsEvidenced`); totals are within half a cent an item (`TotalsAreNear`);
repeated reminders charge no level, day or fee twice (`RemindersChargeOnce`);
registrations are unambiguous; exports and verdicts lose nothing. `CalculationsAgree` is all of them. Texts are sequences of the
marks the expressions of the code look for; the expressions themselves are not
modelled.

Of money: a reminder counts its days from the one before (`service.ts:470`), at
the next level's fee and rate, so a later reminder can claim less than an
earlier one, and none of them adds the others' charges. A credit note has no
function: its amount is typed in (`service.ts:524`) and nothing compares it with
an invoice.

## 3. Runs

TLC on the smallest instances in which the interesting cases happen.

| Run | Asks | Bounds | Why they are enough |
|---|---|---|---|
| `lease_queue` | safety and refinement of `LeaseQueue` | 2 jobs (one without handler), 2 workers, 1 operator, 5 tokens, 2 attempts, 1 fault | a displaced worker needs a second worker and one fault; a last attempt needs a first; 5 tokens: checked to suffice, in no reachable state does a claim lack a fresh one |
| `lease_queue_liveness` | `EveryJobSettles` | 1 job, 2 workers, 4 tokens, 2 attempts, 2 faults | faults can hit both attempts; jobs do not interact but for the choice of a candidate |
| `lease_queue_audit` | violation, section 4 | 1 job, 1 worker, 1 operator | |
| `event_outbox` | safety and refinement with two dispatchers | 1 event, 3 handlers, 2 producers, 2 dispatchers, 1 operator, 2 attempts, 1 crash | lost updates need two handlers beside the failing one; duplicates need two producers |
| `event_outbox_single` | safety and liveness with one dispatcher | 2 events (one not attached), 2 handlers, 1 producer, 1 operator, 2 attempts, 1 crash | one event fails while another is in the batch |
| `event_outbox_detached` | violation, section 4 | 1 event not attached | |
| `audit_chain` | safety and liveness, and the refinement of `AuditLog` | 2 writers, 2 business rows, 3 entries, 2 attempts | a circle over the head and one row, or two rows; two appends in one transaction |
| `billing` | safety of `Billing` | 1 quote, 3 clients, 2 dunning runs, total 2, 2 levels, at most 3 read as received | three transactions overlap: two payments and an issue, two accepts and a decline |
| `ingestion` | safety and liveness of `Documents`, `Intake`, `Areas`, `SearchKeys` | 1 document, 2 job slots, 2 workers, 2 attempts, 1 finding and 1 mishap, or 2 findings and only leases that lapse; 2 scanners, 2 crashes; 2 districts of 2 municipalities, 2 runs; 3 keys, 1 per run | two jobs of one document with two workers overlap in every way, one lapsed lease or crash or rollback at any point; a second district or key is enough to starve; two findings tell the advertisements of two runs apart; documents are independent of each other |
| `office` | safety of `Sources`, `Handoffs`, `Leads`, `NumberRanges`, `Assistant`; liveness of `Sources`; the pure functions | 1 discoverer, 1 linker, 1 visitor, 1 fault; 2 runs, 1 courier, 3 commits, 1 lost answer; 2 people, 2 runs, 2 edits, 1 fault; 2 clerks, 2 years, numbers to 2; 2 requests, 2 callers, budget 2; about 105,000 inputs of the functions | each race has the two or three actors it needs; a counter wedges at its second number; `Leads` holds with 3 edits (and no fault) as well |
| `billing_no_overpayment` | violation, section 4 | 1 quote, 2 clients | |
| `billing_declined` | violation, section 4 | 1 quote, 2 clients | |

Bounds that are not constants of the code: `MaxFaults` (crashes, and leases
that expire under a living worker), `MaxEntries` (length of the chain),
`MaxReceived` (payments are started only up to this sum), `Slots` (jobs of
documents at a time), `MaxMishaps`, `MaxCrashes`, `MaxAreaFaults`,
`MaxKeyFaults`, `MaxSourceFaults`, `MaxLeadFaults`, `MaxLost` (faults),
`MaxRequests`, `MaxSwitches`, `MaxRuns`, `MaxLeadRuns`, `MaxEdits`,
`LastNumber`, `LastYear`, `MaxApprovals`, `MaxRestarts`, and the sets of
processes. Constants of the code made small: `MinAds`, `HalfYear`, `StaleAfter`
(days), `GiveUpAfter`, `SeedLimit`, `AreaLimit`, `KeyLimit`, `KeyPause`,
`DeadAfter`, `Budget`, `CallCost`. The
proofs need none of them to be small. Deadlock is not checked: every one of
these systems may be idle.

Symmetry (workers, tokens, handlers, producers, dispatchers, clients, dunning
runs) is used in the runs without liveness only. `HolderOf` chooses among the
workers that know the row's token; that there is never more than one is proved
(`WorkerTokensDiffer`), so the choice does not break it.

### Fairness

* `LeaseQueue!Fairness`: a loop that has begun a turn goes on (a Node process
  runs its continuations, and handlers end: those shipped bound their calls or
  heed the abort signal their timeout raises); statements arrive or fail; time passes for rows nobody renews;
  and a claimable job is not passed over for ever, because `claim` orders by
  `availableAt`, which does not change while the row waits. Crashes and lost
  leases are bounded by `MaxFaults`: with infinitely many, attempts are used
  up by claims nobody finishes and no `fail` ever reads them.
* `EventOutbox!Fairness`: the dispatch loop goes on (`apps/worker/src/main.ts`
  runs it for ever), time passes. Not assumed: that handlers succeed, that
  transactions commit, that operators do anything.
* `AuditChain!Fairness`: a transaction under way goes on; InnoDB grants a row
  lock to the waiter that has waited longest (strong fairness of the two lock
  actions) and detects deadlocks. Retries and rollbacks are not forced.

* `MCIngestion!Fairness`: worker loops go on and jobs reach a claim (as above);
  the Sammellauf, the scan, the discovery run and the search run come again,
  as their schedules enqueue them; days pass. All of it is weak fairness.
  Crashes, lapsed leases, failing services and districts whose run throws are
  bounded: a district that threw for ever would be tried first for ever. Search
  keys that fail, and districts that stay incomplete, are not bounded.
* `MCOffice!Fairness`, of `Sources` only: runs come again, fetch jobs are run,
  days pass. People and visits need not do anything.

The schedules are `setInterval` timers of every worker process
(`packages/jobs/src/scheduler.ts`), begun anew at each start: that they come
assumes a worker process that lives longer than the longest of them, a day.

`Billing`, `NumberRanges`, `Handoffs`, `Leads` and `Assistant` promise no
liveness.

## 4. What the code does and its texts do not say

* **Events without their business change** (`event_outbox_detached`,
  `NoEventWithoutFact`). `docs/ARCHITECTURE.md:150` says business data, audit
  entry and event are written in one transaction, so that no event exists
  without its business change. The worker passes a `publish` to the ingestion
  module that drops the executor (`apps/worker/src/main.ts:218`,
  `apps/api/src/main.ts:116`): the event is committed at once, on another
  connection, and stays when the transaction rolls back.
* **Revivals without an audit entry** (`lease_queue_audit`, `RevivalIsAudited`).
  `docs/ARCHITECTURE.md:182` says a requeue is logged in the audit chain.
  `DrizzleQueueRepository.requeue` reads the row back after its update and
  throws unless it is pending; if a worker has claimed the revived job by then,
  the operator is told the requeue failed, and `appendAudit` is not reached.
* **Overpayment** (`billing_no_overpayment`, `NoOverpayment`).
  `modules/billing/src/service.ts:410` refuses a payment beyond the outstanding
  amount, but by a plain read of the snapshot: two concurrent payments both
  pass, both rows stay, and `paidAmount` shows one of them.
* **A declined quote with an invoice** (`billing_declined`,
  `DeclinedHasNoInvoice`). `service.ts:116` says only sent quotes can be
  declined; `transitionQuote` reads the status without a lock and updates
  without a condition, so a decline that has read before an accept overwrites
  the accepted status.

Further behaviour worth knowing, where no text of the repository says
otherwise; the properties name it as their exceptions:

* Leads are lost (`Leads!missed`): the handler of `advertisement.detected`
  reads the document before the announcing run has committed, or after it has
  been outdated again; the run is rolled back after its event; a process dies
  between an edit and its event; two edits overlap and one compares with a
  status the other has changed; the finding was gone for one run.
  A transition event carries the id of the occurrence of the latest run, so the
  same finding can make a second customer after it is processed anew.
* A visit that fails writes back the status it had read, over a rejection that
  came in between (`Sources!revived`). The register of websites approves a
  rejected or dead source anew. A page that links an approved source and loses
  its job between update and enqueue leaves it unfetched (only sources of the
  register's areas are looked at again). `source.fetch` is also scheduled daily
  with an empty payload and fails each time.
* An invoice that concurrent payments have paid beyond its total is
  `partially_paid` (`drizzle-repository.ts:265` compares for equality) and is
  dunned for a negative rest; `RemindersChargeOnce` holds of it as well.
* An invoice of the old year that commits after the turn sets the counter back,
  and a credit note advances the counter of the invoices without resetting it
  (`NumberRanges!mixed`); the unique index then refuses invoices for good.
* `Areas`: a district whose run throws every time stays first in the list. The
  offset of municipalities never begins anew. With about 400 districts, three a
  day and five incomplete tries each, a round can take longer than the half year
  after which districts are due.
  `ingestion.test.ts:689` calls the time after which a running area is taken
  over 24 hours; the code (`module.ts:624`) waits 24 days.
* `Documents`: a crash between storing a document and enqueuing its job is left
  to the Sammellauf. The queries of `run50-etappe` are statements of their own:
  a document staged between them is reported as unknown.
* `Assistant`: an executed proposal can be approved and executed again; the
  audit entry of the execution may come before that of the approval; a restart
  forgets all proposals. `OpenAiProvider` reports no costs, so a budget counts
  nothing there; no production wiring uses `AiGateway` so far.
* Rules: a name like "Ausgabe 12" in the metadata keeps the year in the
  filename from being read; a postal code most of whose places lie in a district
  not on the list gets no key; a place named often enough only by all texts
  together gives a region without a source; a schedule for the watch folder is
  silently left out if no folder is configured.

## 5. What is proved

By TLAPS, for every value of the constants under each module's
`ConstantsAssumption` (sets of any size, at least one attempt, `None` distinct
from what it stands beside). For each module an invariant `IInv` is shown to
hold initially and to be kept by every action (one lemma per action, or per
part of the invariant), and the properties follow from it.

* `LeaseQueueProofs`: `TypeCorrect`, `CommitsUnderLease`, `DeathIsDeserved`,
  `NoLeaseStolen`, `HolderDecides`. None of these is inductive. `IInv` adds
  that exactly the processing rows carry a token, that no two workers and no two
  rows carry the same (fresh tokens avoid those that a worker or a statement
  under way knows), that a worker whose token is stored works on that row, that
  its copy of `attempts` is then the row's, and that a locked row belongs to the
  worker that commits on it. `QueueImplementsLifecycle`: `HolderLemma` derives
  from `IInv` that the holder is well defined; then every action is matched with
  an action of `JobLifecycle` or with a stutter.
* `EventOutboxProofs`: `DeliveredAtLeastOnce` and `EventWithItsFact`, for any
  number of dispatchers. `IInv` says that whatever a dispatcher has skipped,
  recorded or is about to write was really run, and that a transaction past its
  append has its row, committed or of its own. `OutboxImplementsDelivery` adds
  that dispatchers work on committed rows (`WorkIsStored`); `DeliveryPromises`
  shows that a delivery has both invariants, which is why the run checks the
  refinement in place of the second. Under the assumption
  `OneDispatcher`, which the theorems state: `NoHandlerTwice`,
  `PublishedForGood`, `DeadUntilRequeued`. They need that the row's successes
  are those the dispatcher has read or has itself added (`SuccessesAsRead`) and
  that what is in its batch is still open (`BatchIsOpen`).
* `AuditChainProofs`: `ChainAlwaysVerifies`, `HeadIsAlwaysLast` and both as
  `ChainAlwaysSound`. `ChainVerifies` is about committed rows and not inductive: a commit adds rows written
  earlier, against a head read earlier. `IInv` follows each transaction: who has
  read or written the head has it locked, what it read is therefore current, and
  the log with its own entries is a chain that ends in the head as it sees it.
  `ChainImplementsLog` follows from it: a transaction's entries carry its name
  and stand behind all that is committed (`NewStandBehind`), so that its commit
  is the one step of the log, and everything before it a stutter.
* `BillingProofs`: `InvoicedOnce`, `NothingIsCreditedTwice`,
  `DraftsAreLeftAlone`, `NoLevelIsSkipped`. `IInv` adds what a transaction under
  way may rely on: who accepts holds the quote's lock and the quote is unlinked;
  a payment underway credits no more than will have been received; a dunning
  run's next level stands on levels already issued.
* `IngestionProofs`, of documents: `OneRunShows`, `RowsAnnounced`,
  `DecisionsKept`, for any number of documents, findings, workers and faults.
  The invariant says which locals belong to which step (`Shape`), what a
  transaction's snapshot and its replacement rows are to the rows that are
  committed (`Snapshots`), that what is about to be committed has been published
  (`Announcing`), that they all carry one id and no finding twice (`OneEach`) and
  that their number is what the gate has counted (`Counts`). The row locks are what
  makes it inductive.
* `IngestionProofs`, of the rest: `IntakeOnce` (a scanner at `EnqueueFile` is
  alone with the document it has stored, `OneEnqueues`), `NoneSkipped` (each
  run's copy of a district lies behind what has been asked, `CopiesAreBehind`),
  and of the composition `IngestionTypes` and `IngestionIsSafe`. That a new
  occurrence's id is a number needs that there are finitely many workers, each
  with a finite snapshot: then one of as many numbers and one is not in use
  (`NewIdIsNumber`).
* `LeadsProofs`: `CorrectionsKept` (a run past its derivation holds the row and
  carries a manual period on, `RunKeepsCorrection`), and `FindingsBecomeLeads`:
  no occurrence becomes two customers, and a current document with a finding has
  its lead when nothing is under way, but for the losses `missed` records. Its
  invariant says at each moment who still owes the lead. It is `Due` when it is
  `Promised` (there is a customer, or an event not handled yet announces a
  current document) or `Owed` (an edit that made the document current has yet to
  publish its event). `CurrentIsDue` says so of the committed row, `RunIsDue` of
  what a run has derived and not committed, by the step the run has reached.
* `OfficeProofs`: `ApprovalsSigned` (copies from which a rollback or a visit may
  restore a status are signed themselves, `CopiesWithoutApproval`),
  `DeskFollows` (inductive as stated), `NumbersContinue` (what each request has
  read still continues its numbers, `Readings`, `Continues`, with the arithmetic
  in the lemma `NextNumber`), `AssistantBounded` (calls under way counted as a
  finite set). `OfficeIsItsParts`: the composition is, to each part, that part
  with steps of others that it does not notice; `OfficeTypes` and `OfficeIsSafe`
  are what follows for the whole.
* `CalculationsProofs`: what each function promises, for inputs of any size, and
  all of them as `EveryTaskAgrees`: for a proper input of any kind, `Agrees` is
  true of the answer. `Proper` says of what kind the input is (finitely many
  places, amounts and ids that are integers, texts as sequences of marks) and
  what its source guarantees: documents and jobs have names of their own, dunning
  levels numbers of their own, an invoice's dunning runs come one after the other, the selection of schedules is a list of names
  or `*`. One hypothesis the code does
  not enforce: no module has two navigation entries of the same place and label,
  whose order would be left to the sort. Its parts are defined before
  the theorem they belong to. `TasksAreProper` shows that the inputs of the run
  are such, so that `CalculationsAlwaysAgree` (in `OfficeProofs`) is the run's
  property.

Induction over the inputs is done without an induction principle. A set of
numbers has a least element (`LeastNumber`), so a counterexample would have a
shortest prefix of its sequence (`ByPrefixes`) or a smallest subset of its set
(`SmallestSubset`) that is one. The loops of the code are folds of the community
modules, recursive functions chosen by `CHOOSE`: that the function exists is
shown first (`FoldExists`, `PowersAre`), by building it up to each length or
size. In what order a fold goes through a set is left open, so what is proved
holds of every order.

Only model-checked: the liveness properties (`EveryJobSettles`,
`EveryEventSettles`, `AppendsEnd`, `DocumentsSettle`, `WorkComesRound`,
`RegisteredIsFetched`), which are beyond TLAPS. The four statements refuted in
section 4 have no proof, but what they need has:

* `RefusalsHoldApart` (`BillingProofs`): as long as no two transactions are under
  way on one quote (`Apart`), nothing is overpaid and no invoiced quote declined.
* `RevivalsAreAudited` (`LeaseQueueProofs`): as long as no worker claims a job
  between its revival and its reading back (`LeftAlone`), every revival gets its
  audit entry, with any number of operators.
* `AllAttachedHaveFacts` (`EventOutboxProofs`): if all events are attached, none
  exists without its business change.

Every other property of every run is a theorem.

## 6. Abstractions and what is not modelled

* Claim order (oldest `availableAt`), the batch limit and the order within a
  batch, and the order of handlers are left open: a superset of the behaviours.
* Handlers are their outcomes. `worker.ts` aborts a handler's signal after its
  timeout but goes on waiting for it: one that ignores the signal for ever holds
  its loop, and its lease, for ever. The liveness run assumes there is none.
* The `memory-repository` variants, which tests use, are not modelled, nor is
  the fallback of `appendAudit` for repositories without `appendAtomic`.
* `appendAudit` and `publish` within `Billing` are those of the other two
  modules and left out there: they can only make the transaction fail, which
  `Rollback` covers, or wait.
* Amounts are units in `Billing`, where all invoices have the same total;
  `Amounts` has cents, rates and rounding.
* `Documents` and its neighbours: PIF, the artwork service, hosts and search
  engines answer or fail. A finding is its fingerprint; texts and images are
  left out. Time is a number of days, or a flag that it has passed. The queue is
  what `LeaseQueue` promises, the outbox what `EventOutbox` promises.
* `Handoffs` and `Leads` have one document with one finding, `Sources` one
  source, `Assistant` one proposal and one budget, `NumberRanges` one issuer: the
  rows of different ones are never in one statement with them.
* The regular expressions and text normalisations of the rules are abstracted to
  the marks they find.
* Tenants: every query filters by tenant; nothing else connects two tenants but
  the audit chain, which is common to all and modelled so.

Not modelled, and why:

* The UI and `apps/web`, contracts, integrations (mail, PDF, storage, Telegram):
  rendering, types and I/O without state of their own.
* The Python services: pipelines over models with their own databases; the order
  of their jobs is decided by the caller, which is modelled.
* Forms of the CRM, the issuers and the settings: single inserts and updates by
  id, where the last writer wins and nothing else follows from it.
* Sessions, HTTP, configuration: library code and parsing.
* AI providers, prompts, jury, anchors: the outcome is a model's answer.
* The timers of `Scheduler` themselves; the memory repositories of the tests.
* Migrations, seeds, discovery data, and the scripts that only report.

## 7. Plan

Done, in the order of importance: the queue with its refinement and proofs, the
outbox and the audit chain with theirs, quotes to payment, number
ranges, the ingestion module from the watch folder to the artwork service and the
CRM, the search plans, the assistant, the pure functions; and the proofs of all
safety properties and of the pure functions.

Left:

1. An abstract specification of the way from a finding to a lead that `Leads`
   refines, and one of a document's findings for `Documents`.
2. `Documents` composed with the full `LeaseQueue` in place of the promise.
3. Hazards without a property: handlers that ignore their abort signal
   (`worker.ts:42`), the claim of a dunning entry whose invoice is paid meanwhile
   (`service.ts:475`), and the timers of the schedules (`scheduler.ts:15`).
