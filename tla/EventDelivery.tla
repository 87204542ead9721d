--------------------------- MODULE EventDelivery ---------------------------
(***************************************************************************)
(* What the outbox promises the modules that publish and subscribe,        *)
(* without rows, batches, retries and processes: an event and its business *)
(* change are there together, what is there is handled, perhaps several    *)
(* times, and it is finished when everybody has handled it.                *)
(***************************************************************************)
CONSTANTS Events,    \* idempotency keys
          Attached,  \* those published within their business transaction
          Handlers   \* the subscriptions to them

VARIABLES
  facts,     \* events whose business change is there
  events,    \* events that are there
  handled,   \* <<event, handler>> pairs that have run
  finished   \* events nobody need handle any more

vars == <<facts, events, handled, finished>>

Init == facts = {} /\ events = {} /\ handled = {} /\ finished = {}

\* An event and its business change, at once.
Publish(e) ==
  /\ e \in Attached
  /\ facts' = facts \cup {e} /\ events' = events \cup {e}
  /\ UNCHANGED <<handled, finished>>

\* Without the executor the event comes first, its business change perhaps.
Announce(e) ==
  /\ e \notin Attached
  /\ events' = events \cup {e}
  /\ UNCHANGED <<facts, handled, finished>>

Follow(e) ==
  /\ e \in events \ Attached
  /\ facts' = facts \cup {e}
  /\ UNCHANGED <<events, handled, finished>>

\* What is not there is handled by nobody.
Handle(e, h) ==
  /\ e \in events
  /\ handled' = handled \cup {<<e, h>>}
  /\ UNCHANGED <<facts, events, finished>>

Finish(e) ==
  /\ e \in events
  /\ \A h \in Handlers : <<e, h>> \in handled
  /\ finished' = finished \cup {e}
  /\ UNCHANGED <<facts, events, handled>>

Next ==
  \E e \in Events :
    \/ Publish(e) \/ Announce(e) \/ Follow(e) \/ Finish(e)
    \/ \E h \in Handlers : Handle(e, h)

Spec == Init /\ [][Next]_vars
=============================================================================
