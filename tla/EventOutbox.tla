---------------------------- MODULE EventOutbox ----------------------------
(***************************************************************************)
(* The event outbox (packages/kernel/src/events.ts, events-drizzle.ts):    *)
(* business transactions that publish, the dispatcher that delivers, and   *)
(* the operator's requeue of a dead letter.                                *)
(*                                                                         *)
(* One action is one SQL statement with the JavaScript up to the next      *)
(* await.  MySQL runs at REPEATABLE READ: a transaction's plain SELECTs    *)
(* read the snapshot of its first one, an INSERT meets the unique index as *)
(* it is now and waits for an uncommitted row with the same key.           *)
(*                                                                         *)
(* An event stands for its idempotency key.  The order of the handlers and *)
(* of the events in a batch is left open, the batch limit of 100 is not    *)
(* reached.                                                                *)
(***************************************************************************)
EXTENDS Naturals, FiniteSets

CONSTANTS
  Events,       \* idempotency keys
  Attached,     \* events appended through their own transaction's executor
  Handlers,     \* keys of the subscriptions to these events
  Producers,    \* business transactions in flight at a time
  Dispatchers,  \* dispatchLoop of each worker process
  Admins,       \* operators calling system.events.requeue
  None,         \* "no event", "no handler"
  MaxAttempts,  \* options.maxAttempts ?? 5
  MaxFaults     \* bound on dispatcher crashes

ASSUME ConstantsAssumption ==
  /\ Attached \subseteq Events
  /\ MaxAttempts \in Nat \ {0}
  /\ MaxFaults \in Nat
  /\ None \notin Events \cup Handlers

VARIABLES
  \* the rows of event_outbox
  stored,       \* rows other connections see
  attempts,     \* deliveryAttempts
  ready,        \* rows whose nextAttemptAt is null or past
  done,         \* successfulHandlers
  dead,         \* deadLetter
  published,    \* publishedAt is set
  \* business transactions
  fact,         \* events whose business change is committed
  ppc, pev,
  inserted,     \* the open transaction holds the uncommitted row
  \* dispatch()
  dpc, batch, dev,
  tries,        \* state.attempts as read for this event
  todo,         \* handlers still to run, by state.successfulHandlers as read
  dh, list,     \* recordHandlerSuccess: handler, and successfulHandlers as read
  ran,          \* <<event, handler>> pairs that ran to their end at least once
  \* operators
  apc, aev,
  faults

rowVars == <<stored, attempts, ready, done, dead, published>>
producerVars == <<fact, ppc, pev, inserted>>
dispatcherVars == <<dpc, batch, dev, tries, todo, dh, list, ran>>
adminVars == <<apc, aev>>
vars == <<rowVars, producerVars, dispatcherVars, adminVars, faults>>

TypeOK ==
  /\ stored \subseteq Events /\ ready \subseteq Events
  /\ dead \subseteq Events /\ published \subseteq Events
  /\ attempts \in [Events -> Nat]
  /\ done \in [Events -> SUBSET Handlers]
  /\ fact \subseteq Events
  /\ ppc \in [Producers -> {"idle", "inserting", "appended"}]
  /\ pev \in [Producers -> Events \cup {None}]
  /\ inserted \subseteq Producers
  /\ dpc \in [Dispatchers -> {"idle", "next", "handling", "recording", "saving",
                              "failing", "publishing"}]
  /\ batch \in [Dispatchers -> SUBSET Events]
  /\ dev \in [Dispatchers -> Events \cup {None}]
  /\ tries \in [Dispatchers -> Nat]
  /\ todo \in [Dispatchers -> SUBSET Handlers]
  /\ dh \in [Dispatchers -> Handlers \cup {None}]
  /\ list \in [Dispatchers -> SUBSET Handlers]
  /\ ran \subseteq Events \X Handlers
  /\ apc \in [Admins -> {"idle", "updating"}]
  /\ aev \in [Admins -> Events \cup {None}]
  /\ faults \in Nat

Init ==
  /\ stored = {} /\ ready = {} /\ dead = {} /\ published = {}
  /\ attempts = [e \in Events |-> 0]
  /\ done = [e \in Events |-> {}]
  /\ fact = {}
  /\ ppc = [p \in Producers |-> "idle"]
  /\ pev = [p \in Producers |-> None]
  /\ inserted = {}
  /\ dpc = [d \in Dispatchers |-> "idle"]
  /\ batch = [d \in Dispatchers |-> {}]
  /\ dev = [d \in Dispatchers |-> None]
  /\ tries = [d \in Dispatchers |-> 0]
  /\ todo = [d \in Dispatchers |-> {}]
  /\ dh = [d \in Dispatchers |-> None]
  /\ list = [d \in Dispatchers |-> {}]
  /\ ran = {}
  /\ apc = [a \in Admins |-> "idle"]
  /\ aev = [a \in Admins |-> None]
  /\ faults = 0

-----------------------------------------------------------------------------
(* publish inside a business transaction: EventRepository.append.          *)

\* The transaction starts, writes its business rows, unseen by others, and
\* SELECTs by idempotency key: an existing row is returned as it is.  The same
\* key may be published again, by a retried job or by a second request.
Begin(p, e) ==
  /\ ppc[p] = "idle"
  /\ ppc' = [ppc EXCEPT ![p] = IF e \in stored THEN "appended" ELSE "inserting"]
  /\ pev' = [pev EXCEPT ![p] = e]
  /\ UNCHANGED <<rowVars, fact, inserted, dispatcherVars, adminVars, faults>>

Close(p) ==
  /\ ppc' = [ppc EXCEPT ![p] = "idle"]
  /\ pev' = [pev EXCEPT ![p] = None]
  /\ inserted' = inserted \ {p}

AppendRow(e) ==
  /\ stored' = stored \cup {e}
  /\ ready' = ready \cup {e}
  /\ UNCHANGED <<attempts, done, dead, published>>

\* INSERT.  On a duplicate the row is read back: a transaction that already has
\* a snapshot does not see it and fails with the duplicate-key error; the
\* publisher on a connection of its own does.  Without the executor the row is
\* committed at once.
AppendInsert(p) ==
  LET e == pev[p] IN
  /\ ppc[p] = "inserting"
  /\ \A q \in inserted : pev[q] # e
  /\ \/ /\ e \in stored
        /\ e \in Attached
        /\ Close(p)
        /\ UNCHANGED rowVars
     \/ /\ e \in stored
        /\ e \notin Attached
        /\ ppc' = [ppc EXCEPT ![p] = "appended"]
        /\ UNCHANGED <<rowVars, pev, inserted>>
     \/ /\ e \notin stored
        /\ ppc' = [ppc EXCEPT ![p] = "appended"]
        /\ IF e \in Attached
           THEN inserted' = inserted \cup {p} /\ UNCHANGED rowVars
           ELSE AppendRow(e) /\ UNCHANGED inserted
        /\ UNCHANGED pev
  /\ UNCHANGED <<fact, dispatcherVars, adminVars, faults>>

\* The business change commits, and with it the row it inserted.
Commit(p) ==
  /\ ppc[p] = "appended"
  /\ fact' = fact \cup {pev[p]}
  /\ IF p \in inserted THEN AppendRow(pev[p]) ELSE UNCHANGED rowVars
  /\ Close(p)
  /\ UNCHANGED <<dispatcherVars, adminVars, faults>>

\* (Variants with a plausible bug stand before the definition they replace.)
\* The business change was written on a connection of its own.
RollbackTooLate(p) ==
  /\ ppc[p] # "idle"
  /\ fact' = fact \cup {pev[p]}
  /\ Close(p)
  /\ UNCHANGED <<rowVars, dispatcherVars, adminVars, faults>>

\* Any statement of the transaction fails, its lease is lost, the process ends.
Rollback(p) ==
  /\ ppc[p] # "idle"
  /\ Close(p)
  /\ UNCHANGED <<rowVars, fact, dispatcherVars, adminVars, faults>>

-----------------------------------------------------------------------------
(* dispatch().                                                             *)

\* publishedAt left out of the query.
PendingPublished(d) ==
  LET due == (stored \cap ready) \ dead IN
  /\ dpc[d] = "idle"
  /\ due # {}
  /\ dpc' = [dpc EXCEPT ![d] = "next"]
  /\ batch' = [batch EXCEPT ![d] = due]
  /\ UNCHANGED <<rowVars, producerVars, dev, tries, todo, dh, list, ran, adminVars, faults>>

\* pending(): not published, not dead, due.
Pending(d) ==
  LET due == (stored \cap ready) \ (published \cup dead) IN
  /\ dpc[d] = "idle"
  /\ due # {}
  /\ dpc' = [dpc EXCEPT ![d] = "next"]
  /\ batch' = [batch EXCEPT ![d] = due]
  /\ UNCHANGED <<rowVars, producerVars, dev, tries, todo, dh, list, ran, adminVars, faults>>

\* Every handler is run again on a retry.
ReadStateForgetful(d, e) ==
  /\ dpc[d] = "next"
  /\ e \in batch[d]
  /\ batch' = [batch EXCEPT ![d] = @ \ {e}]
  /\ dev' = [dev EXCEPT ![d] = e]
  /\ tries' = [tries EXCEPT ![d] = attempts[e]]
  /\ todo' = [todo EXCEPT ![d] = Handlers]
  /\ dpc' = [dpc EXCEPT ![d] = "handling"]
  /\ UNCHANGED <<rowVars, producerVars, dh, list, ran, adminVars, faults>>

\* state(): read once per event; handlers already successful are skipped.
ReadState(d, e) ==
  LET rest == Handlers \ done[e] IN
  /\ dpc[d] = "next"
  /\ e \in batch[d]
  /\ batch' = [batch EXCEPT ![d] = @ \ {e}]
  /\ dev' = [dev EXCEPT ![d] = e]
  /\ tries' = [tries EXCEPT ![d] = attempts[e]]
  /\ todo' = [todo EXCEPT ![d] = rest]
  /\ dpc' = [dpc EXCEPT ![d] = IF rest = {} THEN "publishing" ELSE "handling"]
  /\ UNCHANGED <<rowVars, producerVars, dh, list, ran, adminVars, faults>>

\* handler.handle resolves.
Handle(d, h) ==
  /\ dpc[d] = "handling"
  /\ h \in todo[d]
  /\ dh' = [dh EXCEPT ![d] = h]
  /\ ran' = ran \cup {<<dev[d], h>>}
  /\ dpc' = [dpc EXCEPT ![d] = "recording"]
  /\ UNCHANGED <<rowVars, producerVars, batch, dev, tries, todo, list, adminVars, faults>>

\* The failure is caught and the event marked published all the same.
HandleFailsUnnoticed(d) ==
  /\ dpc[d] \in {"handling", "recording", "saving"}
  /\ dpc' = [dpc EXCEPT ![d] = "publishing"]
  /\ UNCHANGED <<rowVars, producerVars, batch, dev, tries, todo, dh, list, ran,
                 adminVars, faults>>

\* handler.handle rejects, or recordHandlerSuccess does: the loop over the
\* handlers of this event ends.
HandleFails(d) ==
  /\ dpc[d] \in {"handling", "recording", "saving"}
  /\ dpc' = [dpc EXCEPT ![d] = "failing"]
  /\ UNCHANGED <<rowVars, producerVars, batch, dev, tries, todo, dh, list, ran,
                 adminVars, faults>>

\* recordHandlerSuccess: SELECT successfulHandlers, then UPDATE.
RecordRead(d) ==
  /\ dpc[d] = "recording"
  /\ list' = [list EXCEPT ![d] = done[dev[d]]]
  /\ dpc' = [dpc EXCEPT ![d] = "saving"]
  /\ UNCHANGED <<rowVars, producerVars, batch, dev, tries, todo, dh, ran, adminVars, faults>>

RecordWrite(d) ==
  LET rest == todo[d] \ {dh[d]} IN
  /\ dpc[d] = "saving"
  /\ done' = [done EXCEPT ![dev[d]] = list[d] \cup {dh[d]}]
  /\ todo' = [todo EXCEPT ![d] = rest]
  /\ dpc' = [dpc EXCEPT ![d] = IF rest = {} THEN "publishing" ELSE "handling"]
  /\ UNCHANGED <<stored, attempts, ready, dead, published, producerVars, batch, dev,
                 tries, dh, list, ran, adminVars, faults>>

\* The next event of the batch, or the end of this dispatch().
NextEvent(d) ==
  /\ dpc' = [dpc EXCEPT ![d] = IF batch[d] = {} THEN "idle" ELSE "next"]
  /\ dev' = [dev EXCEPT ![d] = None]
  /\ tries' = [tries EXCEPT ![d] = 0]
  /\ todo' = [todo EXCEPT ![d] = {}]
  /\ dh' = [dh EXCEPT ![d] = None]
  /\ list' = [list EXCEPT ![d] = {}]

\* The attempt is not counted.
RecordFailureUncounted(d) ==
  /\ dpc[d] = "failing"
  /\ ready' = ready \ {dev[d]}
  /\ dead' = IF tries[d] + 1 >= MaxAttempts THEN dead \cup {dev[d]} ELSE dead \ {dev[d]}
  /\ NextEvent(d)
  /\ UNCHANGED <<stored, attempts, done, published, producerVars, batch, ran, adminVars, faults>>

\* recordHandlerFailure: the counter is increased in SQL, deadLetter is
\* overwritten with what the attempts read before amount to.
RecordFailure(d) ==
  LET e == dev[d] IN
  /\ dpc[d] = "failing"
  /\ attempts' = [attempts EXCEPT ![e] = @ + 1]
  /\ ready' = ready \ {e}
  /\ dead' = IF tries[d] + 1 >= MaxAttempts THEN dead \cup {e} ELSE dead \ {e}
  /\ NextEvent(d)
  /\ UNCHANGED <<stored, done, published, producerVars, batch, ran, adminVars, faults>>

MarkPublished(d) ==
  /\ dpc[d] = "publishing"
  /\ published' = published \cup {dev[d]}
  /\ NextEvent(d)
  /\ UNCHANGED <<stored, attempts, ready, done, dead, producerVars, batch, ran,
                 adminVars, faults>>

\* A sweep over due retries that takes dead letters along.
ElapseRevives(e) ==
  /\ e \in stored \ ready
  /\ ready' = ready \cup {e}
  /\ dead' = dead \ {e}
  /\ UNCHANGED <<stored, attempts, done, published, producerVars,
                 dispatcherVars, adminVars, faults>>

\* nextAttemptAt passes.
Elapse(e) ==
  /\ e \in stored \ ready
  /\ ready' = ready \cup {e}
  /\ UNCHANGED <<stored, attempts, done, dead, published, producerVars,
                 dispatcherVars, adminVars, faults>>

\* The restarted loop believes it is still in the middle of an event.
CrashHalfway(d) ==
  /\ dpc[d] # "idle"
  /\ faults < MaxFaults
  /\ faults' = faults + 1
  /\ dev' = [dev EXCEPT ![d] = None]
  /\ UNCHANGED <<rowVars, producerVars, dpc, batch, tries, todo, dh, list, ran, adminVars>>

\* The process ends, also because a statement outside the try rejects and
\* nobody catches it; it is started again.
Crash(d) ==
  /\ dpc[d] # "idle"
  /\ faults < MaxFaults
  /\ faults' = faults + 1
  /\ dpc' = [dpc EXCEPT ![d] = "idle"]
  /\ batch' = [batch EXCEPT ![d] = {}]
  /\ dev' = [dev EXCEPT ![d] = None]
  /\ tries' = [tries EXCEPT ![d] = 0]
  /\ todo' = [todo EXCEPT ![d] = {}]
  /\ dh' = [dh EXCEPT ![d] = None]
  /\ list' = [list EXCEPT ![d] = {}]
  /\ UNCHANGED <<rowVars, producerVars, ran, adminVars>>

-----------------------------------------------------------------------------
(* system.events.requeue.  What follows the update, reading back and        *)
(* appendAudit, leaves the outbox alone.                                    *)

RequeueGet(a, e) ==
  /\ apc[a] = "idle"
  /\ e \in dead \ published
  /\ apc' = [apc EXCEPT ![a] = "updating"]
  /\ aev' = [aev EXCEPT ![a] = e]
  /\ UNCHANGED <<rowVars, producerVars, dispatcherVars, faults>>

\* UPDATE ... WHERE dead_letter AND published_at IS NULL; successfulHandlers stay.
RequeueUpdate(a) ==
  LET e == aev[a] IN
  /\ apc[a] = "updating"
  /\ IF e \in dead \ published
     THEN /\ attempts' = [attempts EXCEPT ![e] = 0]
          /\ ready' = ready \cup {e}
          /\ dead' = dead \ {e}
     ELSE UNCHANGED <<attempts, ready, dead>>
  /\ apc' = [apc EXCEPT ![a] = "idle"]
  /\ aev' = [aev EXCEPT ![a] = None]
  /\ UNCHANGED <<stored, done, published, producerVars, dispatcherVars, faults>>

-----------------------------------------------------------------------------
Producer(p) ==
  \/ \E e \in Events : Begin(p, e)
  \/ AppendInsert(p)
  \/ Commit(p)
  \/ Rollback(p)

Dispatcher(d) ==
  \/ Pending(d)
  \/ \E e \in Events : ReadState(d, e)
  \/ \E h \in Handlers : Handle(d, h)
  \/ HandleFails(d)
  \/ RecordRead(d)
  \/ RecordWrite(d)
  \/ RecordFailure(d)
  \/ MarkPublished(d)

Admin(a) == (\E e \in Events : RequeueGet(a, e)) \/ RequeueUpdate(a)

Next ==
  \/ \E p \in Producers : Producer(p)
  \/ \E d \in Dispatchers : Dispatcher(d) \/ Crash(d)
  \/ \E a \in Admins : Admin(a)
  \/ \E e \in Events : Elapse(e)

Spec == Init /\ [][Next]_vars

\* The dispatch loop of a running process goes on and its handlers end; time
\* passes.  Transactions, operators and crashes are never forced.
Fairness ==
  /\ \A d \in Dispatchers : WF_vars(Dispatcher(d))
  /\ \A e \in Events : WF_vars(Elapse(e))

FairSpec == Spec /\ Fairness

-----------------------------------------------------------------------------
(* Safety, however many dispatchers run.                                   *)

\* An event is marked published only after every subscription's handler has
\* run to its end for it, in whatever dispatches and processes (at least once,
\* README.md "mindestens einmal").
PublishedMeansHandled ==
  \A e \in published : \A h \in Handlers : <<e, h>> \in ran

\* Where the executor is passed on, an event exists exactly with its business
\* change, although keys are published again and the insert may lose a race.
AttachedEventsHaveFacts ==
  /\ stored \cap Attached \subseteq fact
  /\ fact \subseteq stored

\* No event without its business change (docs/ARCHITECTURE.md: "Ein Ereignis
\* kann also nicht ohne seinen Vorgang existieren").
NoEventWithoutFact == stored \subseteq fact

\* To those who publish and subscribe the table and its dispatchers are a
\* delivery: nothing is handled that is not committed, and nothing that has
\* happened is taken back (EventBus, EventDispatcher).
Delivery == INSTANCE EventDelivery
  WITH facts <- fact, events <- stored, handled <- ran, finished <- published

ImplementsDelivery == Delivery!Spec

-----------------------------------------------------------------------------
(* Safety with the one dispatcher of the one worker process.               *)

\* A handler whose success is recorded is not run again for the same event,
\* neither after another handler's failure nor after a requeue (docs/
\* ARCHITECTURE.md "Erfolg wird pro Handler vermerkt").
NoSecondRun ==
  \A d \in Dispatchers :
    dpc[d] = "handling" => todo[d] \cap done[dev[d]] = {}

\* A dead letter comes back only by an operator's requeue.
LeftToTheOperator ==
  \A e \in dead : e \notin dead' =>
    \E a \in Admins : apc[a] = "updating" /\ aev[a] = e

DeadLettersStayDead == [][LeftToTheOperator]_vars

\* A published event is finished: it is not dead as well, and nobody is about
\* to handle it.
PublishedIsFinal ==
  /\ published \cap dead = {}
  /\ \A d \in Dispatchers : dev[d] \notin published

-----------------------------------------------------------------------------
\* Liveness: every stored event is at last published or a dead letter, in spite
\* of failing handlers and crashes, and a failing event does not keep the others
\* from it ("blockiert weder die Schlange").
EveryEventSettles ==
  \A e \in Events : e \in stored ~> e \in published \cup dead
=============================================================================
