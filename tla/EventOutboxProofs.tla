------------------------- MODULE EventOutboxProofs -------------------------
(***************************************************************************)
(* Proofs about EventOutbox for every set of events, handlers, producers,  *)
(* dispatchers and operators and every bound: what is published was        *)
(* handled, and an event appended through its transaction's executor       *)
(* exists exactly with its business change.                                *)
(***************************************************************************)
EXTENDS EventOutbox, TLAPS

\* What a dispatcher believes about the handlers of its event is true: those it
\* skips, those it has recorded and those the row lists have run.
AtEvent == {"handling", "recording", "saving", "failing", "publishing"}

RecordedHaveRun == \A e \in Events : \A h \in done[e] : <<e, h>> \in ran

DispatchersOK ==
  \A d \in Dispatchers :
    /\ dpc[d] \in AtEvent =>
         dev[d] \in Events /\ \A h \in Handlers \ todo[d] : <<dev[d], h>> \in ran
    /\ dpc[d] = "publishing" => todo[d] = {}
    /\ dpc[d] \in {"recording", "saving"} =>
         dh[d] \in Handlers /\ <<dev[d], dh[d]>> \in ran
    /\ dpc[d] = "saving" => \A h \in list[d] : <<dev[d], h>> \in ran

DeliveryInv == RecordedHaveRun /\ DispatchersOK /\ PublishedMeansHandled

\* A transaction past its append has its row, committed or of its own.
ProducersOK ==
  /\ \A p \in Producers :
       /\ ppc[p] # "idle" => pev[p] \in Events
       /\ ppc[p] = "appended" => pev[p] \in stored \/ p \in inserted
  /\ \A p \in inserted : ppc[p] = "appended" /\ pev[p] \in Attached

PublishInv == ProducersOK /\ AttachedEventsHaveFacts

AdminsOK == \A a \in Admins : apc[a] = "updating" => aev[a] \in Events

IInv == TypeOK /\ DeliveryInv /\ PublishInv /\ AdminsOK

\* A transaction that begins has no row of its own yet.
LEMMA BeginStep ==
  ASSUME IInv, NEW p \in Producers, NEW e \in Events, Begin(p, e)
  PROVE  IInv'
<1> USE DEF IInv, DeliveryInv, PublishInv, Begin, rowVars, dispatcherVars, adminVars
<1>1. TypeOK'
  BY ConstantsAssumption DEF TypeOK, DispatchersOK, ProducersOK, AtEvent,
     AdminsOK
<1>2. ProducersOK'
  BY ConstantsAssumption DEF ProducersOK, TypeOK
<1>3. /\ RecordedHaveRun' /\ DispatchersOK' /\ PublishedMeansHandled'
      /\ AttachedEventsHaveFacts' /\ AdminsOK'
  BY DEF RecordedHaveRun, DispatchersOK, PublishedMeansHandled,
     AttachedEventsHaveFacts, AdminsOK
<1>4. QED BY <1>1, <1>2, <1>3

\* The row is in the table of the one transaction that inserted it.
LEMMA AppendInsertStep ==
  ASSUME IInv, NEW p \in Producers, AppendInsert(p)
  PROVE  IInv'
<1> USE DEF IInv, DeliveryInv, PublishInv, AppendInsert, rowVars, dispatcherVars, adminVars
<1>1. TypeOK'
  BY ConstantsAssumption DEF TypeOK, DispatchersOK, ProducersOK, AtEvent,
     AdminsOK, Close, AppendRow
<1>2. ProducersOK'
  BY ConstantsAssumption DEF ProducersOK, TypeOK, Close, AppendRow
<1>3. AttachedEventsHaveFacts'
  BY ConstantsAssumption DEF AttachedEventsHaveFacts, ProducersOK, TypeOK,
     Close, AppendRow
<1>4. RecordedHaveRun' /\ DispatchersOK' /\ PublishedMeansHandled' /\ AdminsOK'
  BY DEF RecordedHaveRun, DispatchersOK, PublishedMeansHandled, AdminsOK,
     Close, AppendRow
<1>5. QED BY <1>1, <1>2, <1>3, <1>4

\* The commit makes fact and row visible in one step.
LEMMA CommitStep ==
  ASSUME IInv, NEW p \in Producers, Commit(p)
  PROVE  IInv'
<1> USE DEF IInv, DeliveryInv, PublishInv, Commit, rowVars, dispatcherVars, adminVars
<1>1. TypeOK'
  BY ConstantsAssumption DEF TypeOK, DispatchersOK, ProducersOK, AtEvent,
     AdminsOK, Close, AppendRow
<1>2. ProducersOK'
  BY ConstantsAssumption DEF ProducersOK, TypeOK, Close, AppendRow
<1>3. AttachedEventsHaveFacts'
  BY ConstantsAssumption DEF AttachedEventsHaveFacts, ProducersOK, TypeOK,
     Close, AppendRow
<1>4. RecordedHaveRun' /\ DispatchersOK' /\ PublishedMeansHandled' /\ AdminsOK'
  BY DEF RecordedHaveRun, DispatchersOK, PublishedMeansHandled, AdminsOK,
     Close, AppendRow
<1>5. QED BY <1>1, <1>2, <1>3, <1>4

\* The rollback removes both.
LEMMA RollbackStep ==
  ASSUME IInv, NEW p \in Producers, Rollback(p)
  PROVE  IInv'
<1> USE DEF IInv, DeliveryInv, PublishInv, Rollback, rowVars, dispatcherVars, adminVars
<1>1. TypeOK'
  BY ConstantsAssumption DEF TypeOK, DispatchersOK, ProducersOK, AtEvent,
     AdminsOK, Close
<1>2. ProducersOK'
  BY ConstantsAssumption DEF ProducersOK, TypeOK, Close
<1>3. /\ RecordedHaveRun' /\ DispatchersOK' /\ PublishedMeansHandled'
      /\ AttachedEventsHaveFacts' /\ AdminsOK'
  BY DEF RecordedHaveRun, DispatchersOK, PublishedMeansHandled,
     AttachedEventsHaveFacts, AdminsOK, Close
<1>4. QED BY <1>1, <1>2, <1>3

\* The dispatcher works on events that are in the table.
LEMMA PendingStep ==
  ASSUME IInv, NEW d \in Dispatchers, Pending(d)
  PROVE  IInv'
<1> USE DEF IInv, DeliveryInv, PublishInv, Pending, rowVars, producerVars, adminVars
<1>1. TypeOK'
  BY ConstantsAssumption DEF TypeOK, DispatchersOK, ProducersOK, AtEvent,
     AdminsOK
<1>2. DispatchersOK'
  BY ConstantsAssumption DEF DispatchersOK, TypeOK, RecordedHaveRun, AtEvent
<1>3. /\ RecordedHaveRun' /\ PublishedMeansHandled' /\ ProducersOK'
      /\ AttachedEventsHaveFacts' /\ AdminsOK'
  BY DEF RecordedHaveRun, PublishedMeansHandled, ProducersOK,
     AttachedEventsHaveFacts, AdminsOK
<1>4. QED BY <1>1, <1>2, <1>3

\* What it reads of the successes are successes.
LEMMA ReadStateStep ==
  ASSUME IInv, NEW d \in Dispatchers, NEW e \in Events, ReadState(d, e)
  PROVE  IInv'
<1> USE DEF IInv, DeliveryInv, PublishInv, ReadState, rowVars, producerVars, adminVars
<1>1. TypeOK'
  BY ConstantsAssumption DEF TypeOK, DispatchersOK, ProducersOK, AtEvent,
     AdminsOK
<1>2. DispatchersOK'
  BY ConstantsAssumption DEF DispatchersOK, TypeOK, RecordedHaveRun, AtEvent
<1>3. /\ RecordedHaveRun' /\ PublishedMeansHandled' /\ ProducersOK'
      /\ AttachedEventsHaveFacts' /\ AdminsOK'
  BY DEF RecordedHaveRun, PublishedMeansHandled, ProducersOK,
     AttachedEventsHaveFacts, AdminsOK
<1>4. QED BY <1>1, <1>2, <1>3

\* A handler is noted only when it has returned.
LEMMA HandleStep ==
  ASSUME IInv, NEW d \in Dispatchers, NEW h \in Handlers, Handle(d, h)
  PROVE  IInv'
<1> USE DEF IInv, DeliveryInv, PublishInv, Handle, rowVars, producerVars, adminVars
<1>1. TypeOK'
  <2>1. dev[d] \in Events
    BY DEF DispatchersOK, AtEvent
  <2>2. ran' \subseteq Events \X Handlers
    BY <2>1 DEF TypeOK
  <2>3. dh' \in [Dispatchers -> Handlers \cup {None}]
    BY DEF TypeOK
  <2> QED BY <2>2, <2>3 DEF TypeOK
<1>2. RecordedHaveRun'
  BY ConstantsAssumption DEF RecordedHaveRun, TypeOK, DispatchersOK, AtEvent
<1>3. DispatchersOK'
  BY ConstantsAssumption DEF DispatchersOK, TypeOK, RecordedHaveRun, AtEvent
<1>4. PublishedMeansHandled'
  BY ConstantsAssumption DEF PublishedMeansHandled, TypeOK, DispatchersOK,
     AtEvent
<1>5. ProducersOK' /\ AttachedEventsHaveFacts' /\ AdminsOK'
  BY DEF ProducersOK, AttachedEventsHaveFacts, AdminsOK
<1>6. QED BY <1>1, <1>2, <1>3, <1>4, <1>5

\* One that failed is not noted.
LEMMA HandleFailsStep ==
  ASSUME IInv, NEW d \in Dispatchers, HandleFails(d)
  PROVE  IInv'
<1> USE DEF IInv, DeliveryInv, PublishInv, HandleFails, rowVars, producerVars, adminVars
<1>1. TypeOK'
  BY ConstantsAssumption DEF TypeOK, DispatchersOK, ProducersOK, AtEvent,
     AdminsOK
<1>2. DispatchersOK'
  BY ConstantsAssumption DEF DispatchersOK, TypeOK, RecordedHaveRun, AtEvent
<1>3. /\ RecordedHaveRun' /\ PublishedMeansHandled' /\ ProducersOK'
      /\ AttachedEventsHaveFacts' /\ AdminsOK'
  BY DEF RecordedHaveRun, PublishedMeansHandled, ProducersOK,
     AttachedEventsHaveFacts, AdminsOK
<1>4. QED BY <1>1, <1>2, <1>3

\* The read half of recordHandlerSuccess.
LEMMA RecordReadStep ==
  ASSUME IInv, NEW d \in Dispatchers, RecordRead(d)
  PROVE  IInv'
<1> USE DEF IInv, DeliveryInv, PublishInv, RecordRead, rowVars, producerVars, adminVars
<1>1. TypeOK'
  BY ConstantsAssumption DEF TypeOK, DispatchersOK, ProducersOK, AtEvent,
     AdminsOK
<1>2. DispatchersOK'
  BY ConstantsAssumption DEF DispatchersOK, TypeOK, RecordedHaveRun, AtEvent
<1>3. /\ RecordedHaveRun' /\ PublishedMeansHandled' /\ ProducersOK'
      /\ AttachedEventsHaveFacts' /\ AdminsOK'
  BY DEF RecordedHaveRun, PublishedMeansHandled, ProducersOK,
     AttachedEventsHaveFacts, AdminsOK
<1>4. QED BY <1>1, <1>2, <1>3

\* A lost update forgets successes, it invents none.
LEMMA RecordWriteStep ==
  ASSUME IInv, NEW d \in Dispatchers, RecordWrite(d)
  PROVE  IInv'
<1> USE DEF IInv, DeliveryInv, PublishInv, RecordWrite, producerVars, adminVars
<1>1. TypeOK'
  BY ConstantsAssumption DEF TypeOK, DispatchersOK, ProducersOK, AtEvent,
     AdminsOK
<1>2. RecordedHaveRun'
  BY ConstantsAssumption DEF RecordedHaveRun, TypeOK, DispatchersOK, AtEvent
<1>3. DispatchersOK'
  BY ConstantsAssumption DEF DispatchersOK, TypeOK, RecordedHaveRun, AtEvent
<1>4. /\ PublishedMeansHandled' /\ ProducersOK' /\ AttachedEventsHaveFacts'
      /\ AdminsOK'
  BY DEF PublishedMeansHandled, ProducersOK, AttachedEventsHaveFacts, AdminsOK
<1>5. QED BY <1>1, <1>2, <1>3, <1>4

\* A failure changes attempts and deadLetter only.
LEMMA RecordFailureStep ==
  ASSUME IInv, NEW d \in Dispatchers, RecordFailure(d)
  PROVE  IInv'
<1> USE DEF IInv, DeliveryInv, PublishInv, RecordFailure, producerVars, adminVars
<1>1. TypeOK'
  <2>1. dev[d] \in Events
    BY DEF DispatchersOK, AtEvent
  <2>2. ready' \subseteq Events /\ dead' \subseteq Events
    BY <2>1 DEF TypeOK
  <2>3. attempts' \in [Events -> Nat]
    BY <2>1 DEF TypeOK
  <2> QED BY <2>2, <2>3 DEF TypeOK, NextEvent
<1>2. DispatchersOK'
  BY ConstantsAssumption DEF DispatchersOK, TypeOK, RecordedHaveRun,
     AtEvent, NextEvent
<1>3. /\ RecordedHaveRun' /\ PublishedMeansHandled' /\ ProducersOK'
      /\ AttachedEventsHaveFacts' /\ AdminsOK'
  BY DEF RecordedHaveRun, PublishedMeansHandled, ProducersOK,
     AttachedEventsHaveFacts, AdminsOK, NextEvent
<1>4. QED BY <1>1, <1>2, <1>3

\* markPublished runs when no handler is left.
LEMMA MarkPublishedStep ==
  ASSUME IInv, NEW d \in Dispatchers, MarkPublished(d)
  PROVE  IInv'
<1> USE DEF IInv, DeliveryInv, PublishInv, MarkPublished, producerVars, adminVars
<1>1. TypeOK'
  BY ConstantsAssumption DEF TypeOK, DispatchersOK, ProducersOK, AtEvent,
     AdminsOK, NextEvent
<1>2. DispatchersOK'
  BY ConstantsAssumption DEF DispatchersOK, TypeOK, RecordedHaveRun,
     AtEvent, NextEvent
<1>3. PublishedMeansHandled'
  BY ConstantsAssumption DEF PublishedMeansHandled, TypeOK, DispatchersOK,
     AtEvent, NextEvent
<1>4. RecordedHaveRun' /\ ProducersOK' /\ AttachedEventsHaveFacts' /\ AdminsOK'
  BY DEF RecordedHaveRun, ProducersOK, AttachedEventsHaveFacts, AdminsOK,
     NextEvent
<1>5. QED BY <1>1, <1>2, <1>3, <1>4

\* A crash leaves the table and the handled events as they are.
LEMMA CrashStep ==
  ASSUME IInv, NEW d \in Dispatchers, Crash(d)
  PROVE  IInv'
<1> USE DEF IInv, DeliveryInv, PublishInv, Crash, rowVars, producerVars, adminVars
<1>1. TypeOK'
  BY ConstantsAssumption DEF TypeOK, DispatchersOK, ProducersOK, AtEvent,
     AdminsOK
<1>2. DispatchersOK'
  BY ConstantsAssumption DEF DispatchersOK, TypeOK, RecordedHaveRun, AtEvent
<1>3. /\ RecordedHaveRun' /\ PublishedMeansHandled' /\ ProducersOK'
      /\ AttachedEventsHaveFacts' /\ AdminsOK'
  BY DEF RecordedHaveRun, PublishedMeansHandled, ProducersOK,
     AttachedEventsHaveFacts, AdminsOK
<1>4. QED BY <1>1, <1>2, <1>3

\* A retry that has become due.
LEMMA ElapseStep ==
  ASSUME IInv, NEW e \in Events, Elapse(e)
  PROVE  IInv'
<1> USE DEF IInv, DeliveryInv, PublishInv, Elapse, producerVars, dispatcherVars, adminVars
<1>1. TypeOK'
  BY ConstantsAssumption DEF TypeOK, DispatchersOK, ProducersOK, AtEvent,
     AdminsOK
<1>2. /\ RecordedHaveRun' /\ DispatchersOK' /\ PublishedMeansHandled'
      /\ ProducersOK' /\ AttachedEventsHaveFacts' /\ AdminsOK'
  BY DEF RecordedHaveRun, DispatchersOK, PublishedMeansHandled, ProducersOK,
     AttachedEventsHaveFacts, AdminsOK
<1>3. QED BY <1>1, <1>2

\* The operator reads.
LEMMA RequeueGetStep ==
  ASSUME IInv, NEW a \in Admins, NEW e \in Events, RequeueGet(a, e)
  PROVE  IInv'
<1> USE DEF IInv, DeliveryInv, PublishInv, RequeueGet, rowVars, producerVars, dispatcherVars
<1>1. TypeOK'
  BY ConstantsAssumption DEF TypeOK, DispatchersOK, ProducersOK, AtEvent,
     AdminsOK
<1>2. AdminsOK'
  BY ConstantsAssumption DEF AdminsOK, TypeOK
<1>3. /\ RecordedHaveRun' /\ DispatchersOK' /\ PublishedMeansHandled'
      /\ ProducersOK' /\ AttachedEventsHaveFacts'
  BY DEF RecordedHaveRun, DispatchersOK, PublishedMeansHandled, ProducersOK,
     AttachedEventsHaveFacts
<1>4. QED BY <1>1, <1>2, <1>3

\* The operator clears attempts and deadLetter, not the successes.
LEMMA RequeueUpdateStep ==
  ASSUME IInv, NEW a \in Admins, RequeueUpdate(a)
  PROVE  IInv'
<1> USE DEF IInv, DeliveryInv, PublishInv, RequeueUpdate, producerVars, dispatcherVars
<1>1. TypeOK'
  BY ConstantsAssumption DEF TypeOK, DispatchersOK, ProducersOK, AtEvent,
     AdminsOK
<1>2. AdminsOK'
  BY ConstantsAssumption DEF AdminsOK, TypeOK
<1>3. /\ RecordedHaveRun' /\ DispatchersOK' /\ PublishedMeansHandled'
      /\ ProducersOK' /\ AttachedEventsHaveFacts'
  BY DEF RecordedHaveRun, DispatchersOK, PublishedMeansHandled, ProducersOK,
     AttachedEventsHaveFacts
<1>4. QED BY <1>1, <1>2, <1>3

-----------------------------------------------------------------------------
\* The empty outbox satisfies the invariant.
LEMMA InitInv ==
  ASSUME Init
  PROVE  IInv
<1> USE DEF Init
<1>1. TypeOK
  BY ConstantsAssumption DEF TypeOK
<1>2. DeliveryInv
  BY DEF DeliveryInv, RecordedHaveRun, DispatchersOK, AtEvent,
     PublishedMeansHandled
<1>3. PublishInv
  BY DEF PublishInv, ProducersOK, AttachedEventsHaveFacts
<1>4. AdminsOK
  BY DEF AdminsOK
<1> QED BY <1>1, <1>2, <1>3, <1>4 DEF IInv

\* Every step keeps it.
LEMMA NextInv ==
  ASSUME IInv, [Next]_vars
  PROVE  IInv'
<1>1. ASSUME NEW p \in Producers, Producer(p)
      PROVE  IInv'
  BY <1>1, BeginStep, AppendInsertStep, CommitStep, RollbackStep DEF Producer
<1>2. ASSUME NEW d \in Dispatchers, Dispatcher(d)
      PROVE  IInv'
  BY <1>2, PendingStep, ReadStateStep, HandleStep, HandleFailsStep,
     RecordReadStep,
     RecordWriteStep, RecordFailureStep, MarkPublishedStep DEF Dispatcher
<1>3. ASSUME NEW d \in Dispatchers, Crash(d)
      PROVE  IInv'
  BY <1>3, CrashStep
<1>4. ASSUME NEW a \in Admins, Admin(a)
      PROVE  IInv'
  BY <1>4, RequeueGetStep, RequeueUpdateStep DEF Admin
<1>5. ASSUME NEW e \in Events, Elapse(e)
      PROVE  IInv'
  BY <1>5, ElapseStep
<1>6. CASE UNCHANGED vars
  <2> USE <1>6 DEF vars, rowVars, producerVars, dispatcherVars, adminVars
  <2>1. TypeOK' /\ AdminsOK'
    BY DEF IInv, TypeOK, AdminsOK
  <2>2. DeliveryInv'
    BY DEF IInv, DeliveryInv, RecordedHaveRun, DispatchersOK,
       PublishedMeansHandled
  <2>3. PublishInv'
    BY DEF IInv, PublishInv, ProducersOK, AttachedEventsHaveFacts
  <2> QED BY <2>1, <2>2, <2>3 DEF IInv
<1> QED BY <1>1, <1>2, <1>3, <1>4, <1>5, <1>6 DEF Next

\* The strengthened invariant holds in every reachable state.
THEOREM InvHolds == Spec => []IInv
<1>1. Init => IInv
  BY InitInv
<1>2. IInv /\ [Next]_vars => IInv'
  BY NextInv
<1> QED BY <1>1, <1>2, PTL DEF Spec

\* Rows, transactions, dispatchers and requests keep their types.
THEOREM TypeCorrect == Spec => []TypeOK
<1>1. IInv => TypeOK
  BY DEF IInv
<1> QED BY <1>1, InvHolds, PTL

\* Nothing is marked published before every handler ran for it, with any number
\* of dispatchers, crashes and requeues (events.ts dispatch).
THEOREM DeliveredAtLeastOnce == Spec => []PublishedMeansHandled
<1>1. IInv => PublishedMeansHandled
  BY DEF IInv, DeliveryInv
<1> QED BY <1>1, InvHolds, PTL

\* With the executor passed on, an event exists exactly with its business change,
\* with any number of concurrent publishers of the same key (events-drizzle.ts
\* append).
THEOREM EventWithItsFact == Spec => []AttachedEventsHaveFacts
<1>1. IInv => AttachedEventsHaveFacts
  BY DEF IInv, PublishInv
<1> QED BY <1>1, InvHolds, PTL

-----------------------------------------------------------------------------
(* Refinement.                                                             *)

\* Dispatchers work on committed rows, and no row is ever deleted.
WorkIsStored ==
  \A d \in Dispatchers :
    /\ batch[d] \subseteq stored
    /\ dpc[d] \in AtEvent => dev[d] \in stored

LEMMA WorkIsStoredStep ==
  ASSUME IInv, WorkIsStored, [Next]_vars
  PROVE  WorkIsStored'
<1> USE DEF WorkIsStored, IInv, TypeOK, AtEvent
<1>1. ASSUME UNCHANGED <<dpc, batch, dev>>, stored \subseteq stored'
      PROVE  WorkIsStored'
  BY <1>1
<1>2. ASSUME NEW d \in Dispatchers, Dispatcher(d)
      PROVE  WorkIsStored'
  <2>1. CASE Pending(d)
    BY <2>1 DEF Pending, rowVars
  <2>2. ASSUME NEW e \in Events, ReadState(d, e) PROVE WorkIsStored'
    BY <2>2 DEF ReadState, rowVars
  <2>3. CASE HandleFails(d) \/ RecordRead(d) \/ RecordWrite(d) \/ \E h \in Handlers : Handle(d, h)
    BY <2>3 DEF HandleFails, RecordRead, RecordWrite, Handle, rowVars
  <2>4. CASE RecordFailure(d) \/ MarkPublished(d)
    BY <2>4 DEF RecordFailure, MarkPublished, NextEvent
  <2> QED BY <1>2, <2>1, <2>2, <2>3, <2>4 DEF Dispatcher
<1>3. ASSUME NEW d \in Dispatchers, Crash(d)
      PROVE  WorkIsStored'
  BY <1>3 DEF Crash, rowVars
<1>4. ASSUME NEW p \in Producers, Producer(p)
      PROVE  WorkIsStored'
  BY <1>1, <1>4 DEF Producer, Begin, AppendInsert, Commit, Rollback, AppendRow, rowVars,
     dispatcherVars
<1>5. ASSUME (\E a \in Admins : Admin(a)) \/ \E e \in Events : Elapse(e)
      PROVE  WorkIsStored'
  BY <1>1, <1>5 DEF Admin, RequeueGet, RequeueUpdate, Elapse, rowVars, dispatcherVars
<1>6. CASE UNCHANGED vars
  BY <1>1, <1>6 DEF vars, rowVars, dispatcherVars
<1> QED BY <1>2, <1>3, <1>4, <1>5, <1>6 DEF Next

\* A transaction publishes at its commit; without the executor its append
\* announces, and its commit follows.
LEMMA ProducerRefines ==
  ASSUME IInv, NEW p \in Producers, Producer(p)
  PROVE  [Delivery!Next]_(Delivery!vars)
<1> DEFINE e == pev[p]
<1>1. UNCHANGED <<ran, published>>
  BY DEF Producer, Begin, AppendInsert, Commit, Rollback, AppendRow, rowVars, dispatcherVars
<1>2. CASE (\E f \in Events : Begin(p, f)) \/ Rollback(p)
  BY <1>1, <1>2 DEF Begin, Rollback, rowVars, Delivery!vars
<1>3. CASE AppendInsert(p)
  <2>1. e \in Events
    BY <1>3 DEF AppendInsert, IInv, PublishInv, ProducersOK
  <2>2. CASE UNCHANGED stored
    BY <1>1, <1>3, <2>2 DEF AppendInsert, Delivery!vars
  <2>3. CASE e \notin Attached /\ AppendRow(e)
    <3>1. Delivery!Announce(e)
      BY <1>1, <1>3, <2>3 DEF AppendInsert, AppendRow, Delivery!Announce
    <3> QED BY <2>1, <3>1 DEF Delivery!Next
  <2> QED BY <1>3, <2>2, <2>3 DEF AppendInsert, rowVars
<1>4. CASE Commit(p)
  <2>1. e \in Events /\ (e \in stored \/ p \in inserted) /\ (p \in inserted => e \in Attached)
    BY <1>4 DEF Commit, IInv, PublishInv, ProducersOK
  <2>2. stored \cap Attached \subseteq fact
    BY DEF IInv, PublishInv, AttachedEventsHaveFacts
  <2>3. CASE p \in inserted
    <3>1. Delivery!Publish(e)
      BY <1>1, <1>4, <2>1, <2>3 DEF Commit, AppendRow, Delivery!Publish
    <3> QED BY <2>1, <3>1 DEF Delivery!Next
  <2>4. CASE p \notin inserted /\ e \in Attached
    <3>1. UNCHANGED <<fact, stored>>
      BY <1>4, <2>1, <2>2, <2>4 DEF Commit, rowVars
    <3> QED BY <1>1, <3>1 DEF Delivery!vars
  <2>5. CASE p \notin inserted /\ e \notin Attached
    <3>1. Delivery!Follow(e)
      BY <1>1, <1>4, <2>1, <2>5 DEF Commit, rowVars, Delivery!Follow
    <3> QED BY <2>1, <3>1 DEF Delivery!Next
  <2> QED BY <2>3, <2>4, <2>5
<1> QED BY <1>2, <1>3, <1>4 DEF Producer

\* A dispatcher handles and finishes, whatever it reads and writes in between.
LEMMA DispatcherRefines ==
  ASSUME IInv, WorkIsStored, NEW d \in Dispatchers, Dispatcher(d)
  PROVE  [Delivery!Next]_(Delivery!vars)
<1> DEFINE e == dev[d]
<1>1. UNCHANGED <<fact, stored>>
  BY DEF Dispatcher, Pending, ReadState, Handle, HandleFails, RecordRead, RecordWrite,
     RecordFailure, MarkPublished, rowVars, producerVars
<1>2. dpc[d] \in AtEvent => e \in Events /\ e \in stored
  BY DEF IInv, DeliveryInv, DispatchersOK, WorkIsStored
<1>3. ASSUME NEW h \in Handlers, Handle(d, h)
      PROVE  [Delivery!Next]_(Delivery!vars)
  <2>1. Delivery!Handle(e, h)
    BY <1>1, <1>2, <1>3 DEF Handle, AtEvent, rowVars, Delivery!Handle
  <2> QED BY <1>2, <1>3, <2>1 DEF Handle, AtEvent, Delivery!Next
<1>4. CASE MarkPublished(d)
  <2>1. \A h \in Handlers : <<e, h>> \in ran
    BY <1>4 DEF MarkPublished, AtEvent, IInv, DeliveryInv, DispatchersOK
  <2>2. Delivery!Finish(e)
    BY <1>1, <1>2, <1>4, <2>1 DEF MarkPublished, AtEvent, Delivery!Finish
  <2> QED BY <1>2, <1>4, <2>2 DEF MarkPublished, AtEvent, Delivery!Next
<1>5. CASE \/ Pending(d) \/ HandleFails(d) \/ RecordRead(d) \/ RecordWrite(d) \/ RecordFailure(d)
           \/ \E f \in Events : ReadState(d, f)
  BY <1>1, <1>5 DEF Pending, ReadState, HandleFails, RecordRead, RecordWrite, RecordFailure, rowVars,
     Delivery!vars
<1> QED BY <1>3, <1>4, <1>5 DEF Dispatcher

\* The outbox is a delivery, with any number of publishers and dispatchers,
\* crashes and operators: what is handled was committed, a business change comes
\* with its event in one step, and what is finished everybody has handled
\* (events.ts, events-drizzle.ts).
THEOREM OutboxImplementsDelivery == Spec => ImplementsDelivery
<1>1. Init => Delivery!Init
  BY DEF Init, Delivery!Init
<1>2. Init => WorkIsStored
  BY DEF Init, WorkIsStored, AtEvent
<1>3. IInv /\ WorkIsStored /\ [Next]_vars => [Delivery!Next]_(Delivery!vars)
  <2> SUFFICES ASSUME IInv, WorkIsStored, [Next]_vars PROVE [Delivery!Next]_(Delivery!vars)
    OBVIOUS
  <2>1. CASE \/ \E d \in Dispatchers : Crash(d)
             \/ \E a \in Admins : Admin(a)
             \/ \E e \in Events : Elapse(e)
             \/ UNCHANGED vars
    BY <2>1 DEF Crash, Admin, RequeueGet, RequeueUpdate, Elapse, vars, rowVars, producerVars,
       dispatcherVars, Delivery!vars
  <2> QED BY <2>1, ProducerRefines, DispatcherRefines DEF Next
<1> QED BY <1>1, <1>2, <1>3, InvHolds, WorkIsStoredStep, PTL DEF Spec, ImplementsDelivery, Delivery!Spec

\* A delivery keeps what the outbox is for.
THEOREM DeliveryPromises == ImplementsDelivery => [](PublishedMeansHandled /\ AttachedEventsHaveFacts)
<1> DEFINE Inv == PublishedMeansHandled /\ AttachedEventsHaveFacts
<1>1. Delivery!Init => Inv
  BY DEF Delivery!Init, PublishedMeansHandled, AttachedEventsHaveFacts
<1>2. Inv /\ [Delivery!Next]_(Delivery!vars) => Inv'
  BY DEF Delivery!Next, Delivery!vars, Delivery!Publish, Delivery!Announce, Delivery!Follow,
     Delivery!Handle, Delivery!Finish, PublishedMeansHandled, AttachedEventsHaveFacts
<1> QED BY <1>1, <1>2, PTL DEF ImplementsDelivery, Delivery!Spec

\* If every publisher passes its executor on, no event exists without its
\* business change (publish within the transaction): it takes one that does not.
THEOREM AllAttachedHaveFacts ==
  ASSUME Attached = Events
  PROVE  Spec => []NoEventWithoutFact
<1>1. IInv => NoEventWithoutFact
  BY DEF IInv, TypeOK, PublishInv, AttachedEventsHaveFacts, NoEventWithoutFact
<1> QED BY <1>1, InvHolds, PTL

-----------------------------------------------------------------------------
(* With one dispatcher nobody else writes successfulHandlers, deadLetter   *)
(* and publishedAt of the events of its batch but the operator, who        *)
(* revives dead letters only.                                              *)

OneDispatcher == \A c, d \in Dispatchers : c = d

\* What it has read of its event's successes is still so,
SuccessesAsRead ==
  \A d \in Dispatchers :
    /\ dpc[d] \in {"handling", "recording", "saving"} => todo[d] \cap done[dev[d]] = {}
    /\ dpc[d] \in {"recording", "saving"} => dh[d] \in todo[d]
    /\ dpc[d] = "saving" => list[d] = done[dev[d]]

\* and its events are neither published nor dead, each in its turn once.
BatchIsOpen ==
  /\ published \cap dead = {}
  /\ \A d \in Dispatchers :
       /\ batch[d] \cap (published \cup dead) = {}
       /\ dev[d] \notin published \cup dead \cup batch[d]
       /\ dpc[d] \notin AtEvent => dev[d] = None

\* The rows and the one dispatcher's locals alone decide about both parts.
LEMMA SuccessesAsReadStep ==
  ASSUME OneDispatcher, IInv, SuccessesAsRead, [Next]_vars
  PROVE  SuccessesAsRead'
<1> USE DEF SuccessesAsRead, IInv, TypeOK
<1>1. ASSUME UNCHANGED <<done, dpc, dev, todo, dh, list>>
      PROVE  SuccessesAsRead'
  BY <1>1
<1>2. ASSUME NEW d \in Dispatchers, Dispatcher(d)
      PROVE  SuccessesAsRead'
  <2> SUFFICES ASSUME \A c \in Dispatchers : c = d
               PROVE  SuccessesAsRead'
    BY DEF OneDispatcher
  <2>0. dpc[d] \in AtEvent => dev[d] \in Events
    BY DEF DeliveryInv, DispatchersOK
  <2>1. CASE Pending(d)
    BY <2>1 DEF Pending, rowVars
  <2>2. ASSUME NEW e \in Events, ReadState(d, e)
        PROVE  SuccessesAsRead'
    BY <2>2 DEF ReadState, rowVars
  <2>3. ASSUME NEW h \in Handlers, Handle(d, h)
        PROVE  SuccessesAsRead'
    BY <2>3 DEF Handle, rowVars
  <2>4. CASE HandleFails(d)
    BY <2>4 DEF HandleFails, rowVars
  <2>5. CASE RecordRead(d)
    BY <2>5 DEF RecordRead, rowVars
  <2>6. CASE RecordWrite(d)
    BY <2>0, <2>6 DEF RecordWrite, AtEvent
  <2>7. CASE RecordFailure(d) \/ MarkPublished(d)
    BY <2>7 DEF RecordFailure, MarkPublished, NextEvent
  <2> QED BY <1>2, <2>1, <2>2, <2>3, <2>4, <2>5, <2>6, <2>7 DEF Dispatcher
<1>3. ASSUME NEW d \in Dispatchers, Crash(d)
      PROVE  SuccessesAsRead'
  BY <1>3 DEF Crash, rowVars
<1>4. ASSUME NEW p \in Producers, Producer(p)
      PROVE  SuccessesAsRead'
  BY <1>1, <1>4 DEF Producer, Begin, AppendInsert, Commit, Rollback, AppendRow,
     rowVars, dispatcherVars
<1>5. ASSUME NEW a \in Admins, Admin(a)
      PROVE  SuccessesAsRead'
  BY <1>1, <1>5 DEF Admin, RequeueGet, RequeueUpdate, rowVars, dispatcherVars
<1>6. ASSUME NEW e \in Events, Elapse(e)
      PROVE  SuccessesAsRead'
  BY <1>1, <1>6 DEF Elapse, dispatcherVars
<1>7. CASE UNCHANGED vars
  BY <1>1, <1>7 DEF vars, rowVars, dispatcherVars
<1> QED BY <1>2, <1>3, <1>4, <1>5, <1>6, <1>7 DEF Next

LEMMA BatchIsOpenStep ==
  ASSUME OneDispatcher, IInv, BatchIsOpen, [Next]_vars
  PROVE  BatchIsOpen'
<1> USE DEF BatchIsOpen, IInv, TypeOK, AtEvent
<1>1. ASSUME UNCHANGED <<published, dpc, dev, batch>>, dead' \subseteq dead
      PROVE  BatchIsOpen'
  BY <1>1
<1>2. ASSUME NEW d \in Dispatchers, Dispatcher(d)
      PROVE  BatchIsOpen'
  <2> SUFFICES ASSUME \A c \in Dispatchers : c = d
               PROVE  BatchIsOpen'
    BY DEF OneDispatcher
  <2>0. dpc[d] \in AtEvent => dev[d] \in Events
    BY DEF DeliveryInv, DispatchersOK
  <2>1. CASE Pending(d)
    BY <2>1, ConstantsAssumption DEF Pending, rowVars
  <2>2. ASSUME NEW e \in Events, ReadState(d, e)
        PROVE  BatchIsOpen'
    BY <2>2 DEF ReadState, rowVars
  <2>3. CASE (\E h \in Handlers : Handle(d, h)) \/ HandleFails(d) \/ RecordRead(d)
    BY <2>3 DEF Handle, HandleFails, RecordRead, rowVars
  <2>4. CASE RecordWrite(d)
    BY <2>4 DEF RecordWrite
  <2>5. CASE RecordFailure(d)
    BY <2>0, <2>5, ConstantsAssumption DEF RecordFailure, NextEvent
  <2>6. CASE MarkPublished(d)
    BY <2>0, <2>6, ConstantsAssumption DEF MarkPublished, NextEvent
  <2> QED BY <1>2, <2>1, <2>2, <2>3, <2>4, <2>5, <2>6 DEF Dispatcher
<1>3. ASSUME NEW d \in Dispatchers, Crash(d)
      PROVE  BatchIsOpen'
  BY <1>3, ConstantsAssumption DEF Crash, rowVars
<1>4. ASSUME NEW p \in Producers, Producer(p)
      PROVE  BatchIsOpen'
  BY <1>1, <1>4 DEF Producer, Begin, AppendInsert, Commit, Rollback, AppendRow,
     rowVars, dispatcherVars
<1>5. ASSUME NEW a \in Admins, Admin(a)
      PROVE  BatchIsOpen'
  BY <1>1, <1>5 DEF Admin, RequeueGet, RequeueUpdate, rowVars, dispatcherVars
<1>6. ASSUME NEW e \in Events, Elapse(e)
      PROVE  BatchIsOpen'
  BY <1>1, <1>6 DEF Elapse, dispatcherVars
<1>7. CASE UNCHANGED vars
  BY <1>1, <1>7 DEF vars, rowVars, dispatcherVars
<1> QED BY <1>2, <1>3, <1>4, <1>5, <1>6, <1>7 DEF Next

\* Both hold in every reachable state.
LEMMA OneDispatcherInv ==
  ASSUME OneDispatcher
  PROVE  Spec => [](IInv /\ SuccessesAsRead /\ BatchIsOpen)
<1>1. Init => SuccessesAsRead /\ BatchIsOpen
  BY ConstantsAssumption DEF Init, SuccessesAsRead, BatchIsOpen, AtEvent
<1>2. IInv /\ SuccessesAsRead /\ BatchIsOpen /\ [Next]_vars
        => (SuccessesAsRead /\ BatchIsOpen)'
  BY SuccessesAsReadStep, BatchIsOpenStep
<1> QED BY <1>1, <1>2, InvHolds, PTL DEF Spec

\* With one dispatcher no handler runs again once its success is recorded,
\* after failures of others, crashes and requeues alike (docs/ARCHITECTURE.md
\* "Erfolg wird pro Handler vermerkt").
THEOREM NoHandlerTwice ==
  ASSUME OneDispatcher
  PROVE  Spec => []NoSecondRun
<1>1. SuccessesAsRead => NoSecondRun
  BY DEF SuccessesAsRead, NoSecondRun
<1> QED BY <1>1, OneDispatcherInv, PTL

\* With one dispatcher a published event is neither dead nor handled again.
THEOREM PublishedForGood ==
  ASSUME OneDispatcher
  PROVE  Spec => []PublishedIsFinal
<1>1. BatchIsOpen => PublishedIsFinal
  BY DEF BatchIsOpen, PublishedIsFinal
<1> QED BY <1>1, OneDispatcherInv, PTL

\* With one dispatcher a dead letter comes back by an operator's requeue only.
THEOREM DeadUntilRequeued ==
  ASSUME OneDispatcher
  PROVE  Spec => DeadLettersStayDead
<1>1. IInv /\ BatchIsOpen /\ [Next]_vars => [LeftToTheOperator]_vars
  <2> SUFFICES ASSUME IInv, BatchIsOpen, Next, NEW e \in dead, e \notin dead'
               PROVE  \E a \in Admins : apc[a] = "updating" /\ aev[a] = e
    BY DEF LeftToTheOperator
  <2>1. ASSUME NEW d \in Dispatchers, Dispatcher(d)
        PROVE  FALSE
    BY <2>1 DEF Dispatcher, Pending, ReadState, Handle, HandleFails, RecordRead,
       RecordWrite, RecordFailure, MarkPublished, rowVars, BatchIsOpen
  <2>2. ASSUME NEW p \in Producers, Producer(p)
        PROVE  FALSE
    BY <2>2 DEF Producer, Begin, AppendInsert, Commit, Rollback, AppendRow, rowVars
  <2>3. ASSUME NEW a \in Admins, Admin(a)
        PROVE  apc[a] = "updating" /\ aev[a] = e
    BY <2>3 DEF Admin, RequeueGet, RequeueUpdate, rowVars
  <2> QED BY <2>1, <2>2, <2>3 DEF Next, Crash, Elapse, rowVars
<1> QED BY <1>1, OneDispatcherInv, PTL DEF Spec, DeadLettersStayDead
=============================================================================
