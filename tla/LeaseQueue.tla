----------------------------- MODULE LeaseQueue -----------------------------
(***************************************************************************)
(* The database lease queue (packages/jobs/src/queue.ts and                *)
(* drizzle-repository.ts), the worker loop that drains it (worker.ts) and  *)
(* the operator's requeue (modules/system/src/router.ts).                  *)
(*                                                                         *)
(* One action is one SQL statement together with the JavaScript that runs  *)
(* until the next await.  Workers, operators and the clock interleave      *)
(* between any two of them.                                                *)
(*                                                                         *)
(* Time is kept as the one fact the statements ask about: due[j] says that *)
(* availableAt (of a pending job) or leaseExpiresAt (of a processing one)  *)
(* is not after now.  Elapse lets that moment come at any time, so every   *)
(* lease length, back-off, clock skew and stale `now` is covered.          *)
(***************************************************************************)
EXTENDS Naturals, FiniteSets

CONSTANTS
  Jobs,         \* rows of table jobs
  Workers,      \* concurrent Worker.run loops (WORKER_CONCURRENCY and replicas)
  Admins,       \* operators calling system.jobs.requeue
  Tokens,       \* lease tokens (random UUIDs; one not in use stands for a fresh one)
  None,         \* SQL NULL, and "no job", "no call"
  Handled,      \* jobs whose name has a handler in the registry
  MaxAttempts,  \* handler.maxAttempts ?? job.maxAttempts
  MaxFaults     \* bound on crashes and on leases lost by a living worker

\* What a failed attempt leaves in last_error, as far as anything depends on it.
ErrorKind == {"retryable", "nonRetryable", "noHandler"}

ASSUME ConstantsAssumption ==
  /\ Handled \subseteq Jobs
  /\ MaxAttempts \in Nat \ {0}
  /\ MaxFaults \in Nat
  /\ None \notin Jobs \cup Workers \cup Tokens \cup ErrorKind

VARIABLES
  \* the row of each job
  status, attempts, leaseToken, due, lastError,
  rowLock,      \* the worker whose open transaction holds the row (FOR UPDATE)
  \* the locals of each worker loop
  pc, job, token,
  tries,        \* attempts in the claimed copy of the row
  lost,         \* leaseLost
  error,        \* what the handler threw
  beat,         \* the heartbeat statement in flight: <<job, token>> or None
  \* each operator's request
  apc, ajob,
  unaudited,    \* revivals <<operator, job>> whose audit entry is still owed
  faults        \* crashes and lost leases so far

rowVars == <<status, attempts, leaseToken, due, lastError>>
workerVars == <<pc, job, token, tries, lost, error>>
adminVars == <<apc, ajob, unaudited>>
vars == <<rowVars, rowLock, workerVars, beat, adminVars, faults>>

Status == {"absent", "pending", "processing", "completed", "dead"}
WorkerPc == {"poll", "claiming", "reading", "running", "committing",
             "committed", "completing", "failing", "onFailure"}
AdminPc == {"idle", "updating", "rereading", "auditing"}

RowsTypeOK ==
  /\ status \in [Jobs -> Status]
  /\ attempts \in [Jobs -> Nat]
  /\ leaseToken \in [Jobs -> Tokens \cup {None}]
  /\ due \in [Jobs -> BOOLEAN]
  /\ lastError \in [Jobs -> ErrorKind \cup {None}]
  /\ rowLock \in [Jobs -> Workers \cup {None}]

WorkersTypeOK ==
  /\ pc \in [Workers -> WorkerPc]
  /\ job \in [Workers -> Jobs \cup {None}]
  /\ token \in [Workers -> Tokens \cup {None}]
  /\ tries \in [Workers -> Nat]
  /\ lost \in [Workers -> BOOLEAN]
  /\ error \in [Workers -> ErrorKind \cup {None}]
  /\ beat \in [Workers -> (Jobs \X Tokens) \cup {None}]

AdminsTypeOK ==
  /\ apc \in [Admins -> AdminPc]
  /\ ajob \in [Admins -> Jobs \cup {None}]
  /\ unaudited \subseteq Admins \X Jobs
  /\ faults \in Nat

TypeOK == RowsTypeOK /\ WorkersTypeOK /\ AdminsTypeOK

Init ==
  /\ status = [j \in Jobs |-> "absent"]
  /\ attempts = [j \in Jobs |-> 0]
  /\ leaseToken = [j \in Jobs |-> None]
  /\ due = [j \in Jobs |-> FALSE]
  /\ lastError = [j \in Jobs |-> None]
  /\ rowLock = [j \in Jobs |-> None]
  /\ pc = [w \in Workers |-> "poll"]
  /\ job = [w \in Workers |-> None]
  /\ token = [w \in Workers |-> None]
  /\ tries = [w \in Workers |-> 0]
  /\ lost = [w \in Workers |-> FALSE]
  /\ error = [w \in Workers |-> None]
  /\ beat = [w \in Workers |-> None]
  /\ apc = [a \in Admins |-> "idle"]
  /\ ajob = [a \in Admins |-> None]
  /\ unaudited = {}
  /\ faults = 0

-----------------------------------------------------------------------------
(* The conditions of the WHERE clauses.                                    *)

\* Variants with a plausible bug stand before the definition they replace.
\* A select that looks at availableAt only, and one that never takes over.
ClaimableIgnoringLease(j) ==
  status[j] = "processing" \/ (status[j] = "pending" /\ due[j])
ClaimableNeverExpired(j) == status[j] = "pending" /\ due[j]

\* pending and available, or processing with an expired lease
Claimable(j) == status[j] \in {"pending", "processing"} /\ due[j]

\* The token left out of the WHERE clause.
HoldsByStatus(j, t) == status[j] = "processing"

\* the guard of heartbeat, lockLease, complete and fail
Holds(j, t) == status[j] = "processing" /\ leaseToken[j] = t

\* A token that is only different from those stored in the table.
InUseByRows == {leaseToken[j] : j \in Jobs}

\* Tokens some row, worker or statement under way still knows; a random UUID
\* is none of them.
InUse ==
  {leaseToken[j] : j \in Jobs} \cup {token[w] : w \in Workers}
    \cup {beat[w][2] : w \in {v \in Workers : beat[v] # None}}

\* A living worker knows the token of the row.
HeldByAWorker(j) ==
  leaseToken[j] # None /\ \E w \in Workers : token[w] = leaseToken[j]

\* The end of one turn of the loop: the locals of this turn are gone.
EndTurn(w) ==
  /\ pc' = [pc EXCEPT ![w] = "poll"]
  /\ job' = [job EXCEPT ![w] = None]
  /\ token' = [token EXCEPT ![w] = None]
  /\ tries' = [tries EXCEPT ![w] = 0]
  /\ lost' = [lost EXCEPT ![w] = FALSE]
  /\ error' = [error EXCEPT ![w] = None]

Goto(w, label) ==
  /\ pc' = [pc EXCEPT ![w] = label]
  /\ UNCHANGED <<job, token, tries, lost>>

-----------------------------------------------------------------------------
(* LeaseQueue.enqueue, and the passing of time.                            *)

\* Visible when the enqueuing transaction commits; a later availableAt is one
\* that is not due yet.
Enqueue(j) ==
  /\ status[j] = "absent"
  /\ status' = [status EXCEPT ![j] = "pending"]
  /\ attempts' = [attempts EXCEPT ![j] = 0]
  /\ \E b \in BOOLEAN : due' = [due EXCEPT ![j] = b]
  /\ UNCHANGED <<leaseToken, lastError, rowLock, workerVars, beat, adminVars, faults>>

\* availableAt or leaseExpiresAt passes.  That a lease passes although its
\* worker lives (heartbeats that fail, a stalled process) is a fault.
Elapse(j) ==
  /\ status[j] \in {"pending", "processing"}
  /\ ~due[j]
  /\ due' = [due EXCEPT ![j] = TRUE]
  /\ IF HeldByAWorker(j)
     THEN faults < MaxFaults /\ faults' = faults + 1
     ELSE UNCHANGED faults
  /\ UNCHANGED <<status, attempts, leaseToken, lastError, rowLock, workerVars,
                 beat, adminVars>>

-----------------------------------------------------------------------------
(* DrizzleQueueRepository.claim: three statements.                         *)

\* SELECT a candidate.  The code takes the oldest availableAt; which of the
\* claimable rows that is, the model leaves open.
SelectCandidate(w, j) ==
  /\ pc[w] = "poll"
  /\ Claimable(j)
  /\ pc' = [pc EXCEPT ![w] = "claiming"]
  /\ job' = [job EXCEPT ![w] = j]
  /\ UNCHANGED <<rowVars, rowLock, token, tries, lost, error, beat, adminVars, faults>>

\* UPDATE under the same condition, with a fresh token.  It waits for a row
\* lock.  If it matches no row the read-back finds nothing and the loop polls
\* again.
ClaimUpdate(w) ==
  LET j == job[w] IN
  /\ pc[w] = "claiming"
  /\ rowLock[j] = None
  /\ IF Claimable(j)
     THEN \E t \in Tokens \ InUse :
            /\ status' = [status EXCEPT ![j] = "processing"]
            /\ attempts' = [attempts EXCEPT ![j] = @ + 1]
            /\ leaseToken' = [leaseToken EXCEPT ![j] = t]
            /\ due' = [due EXCEPT ![j] = FALSE]
            /\ lastError' = [lastError EXCEPT ![j] = None]
            /\ token' = [token EXCEPT ![w] = t]
            /\ pc' = [pc EXCEPT ![w] = "reading"]
            /\ UNCHANGED <<job, tries, lost, error>>
     ELSE EndTurn(w) /\ UNCHANGED rowVars
  /\ UNCHANGED <<rowLock, beat, adminVars, faults>>

\* SELECT by id and token: null if the lease is gone already.  A job without
\* handler goes straight to fail(job, ..., 1).
ClaimReadBack(w) ==
  LET j == job[w] IN
  /\ pc[w] = "reading"
  /\ IF leaseToken[j] = token[w]
     THEN /\ tries' = [tries EXCEPT ![w] = attempts[j]]
          /\ IF j \in Handled
             THEN pc' = [pc EXCEPT ![w] = "running"] /\ UNCHANGED error
             ELSE /\ pc' = [pc EXCEPT ![w] = "failing"]
                  /\ error' = [error EXCEPT ![w] = "noHandler"]
          /\ UNCHANGED <<job, token, lost>>
     ELSE EndTurn(w)
  /\ UNCHANGED <<rowVars, rowLock, beat, adminVars, faults>>

-----------------------------------------------------------------------------
(* The heartbeat interval of worker.ts and DrizzleQueueRepository.heartbeat. *)

\* The interval is not cleared when the turn ends.
SendBeatForEver(w) ==
  /\ error[w] # "noHandler"
  /\ ~lost[w]
  /\ beat[w] = None
  /\ beat' = [beat EXCEPT ![w] = <<job[w], token[w]>>]
  /\ UNCHANGED <<rowVars, rowLock, workerVars, adminVars, faults>>

\* The timer fires while this turn has a handler, its complete or its fail
\* under way, unless the lease is known lost or a heartbeat is running.
SendBeat(w) ==
  /\ pc[w] \in {"running", "committing", "committed", "completing", "failing", "onFailure"}
  /\ error[w] # "noHandler"
  /\ ~lost[w]
  /\ beat[w] = None
  /\ beat' = [beat EXCEPT ![w] = <<job[w], token[w]>>]
  /\ UNCHANGED <<rowVars, rowLock, workerVars, adminVars, faults>>

\* The UPDATE extends the lease if the token still holds the row.  Otherwise
\* the turn that sent it, if it still runs, learns that the lease is lost.
Beat(w) ==
  LET j == beat[w][1]
      t == beat[w][2] IN
  /\ beat[w] # None
  /\ rowLock[j] = None
  /\ beat' = [beat EXCEPT ![w] = None]
  /\ IF Holds(j, t)
     THEN due' = [due EXCEPT ![j] = FALSE] /\ UNCHANGED lost
     ELSE /\ lost' = [lost EXCEPT ![w] = @ \/ token[w] = t]
          /\ UNCHANGED due
  /\ UNCHANGED <<status, attempts, leaseToken, lastError, rowLock, pc, job, token,
                 tries, error, adminVars, faults>>

\* The statement or its connection fails: logged, the next interval tries again.
BeatFails(w) ==
  /\ beat[w] # None
  /\ beat' = [beat EXCEPT ![w] = None]
  /\ UNCHANGED <<rowVars, rowLock, workerVars, adminVars, faults>>

-----------------------------------------------------------------------------
(* The handler.                                                            *)

\* SELECT without FOR UPDATE.
LockLeaseUnlocked(w) ==
  /\ pc[w] = "running"
  /\ Holds(job[w], token[w])
  /\ Goto(w, "committing")
  /\ UNCHANGED <<rowVars, rowLock, error, beat, adminVars, faults>>

\* A handler that must not write after losing its lease opens a transaction
\* and calls ctx.lockLease: SELECT ... FOR UPDATE by id, token and status.
LockLease(w) ==
  LET j == job[w] IN
  /\ pc[w] = "running"
  /\ rowLock[j] = None
  /\ Holds(j, token[w])
  /\ rowLock' = [rowLock EXCEPT ![j] = w]
  /\ Goto(w, "committing")
  /\ UNCHANGED <<rowVars, error, beat, adminVars, faults>>

\* The transaction commits its business writes and releases the row.
CommitEffect(w) ==
  /\ pc[w] = "committing"
  /\ rowLock' = [rowLock EXCEPT ![job[w]] = None]
  /\ Goto(w, "committed")
  /\ UNCHANGED <<rowVars, error, beat, adminVars, faults>>

\* handler.handle resolves: complete, unless a heartbeat found the lease lost.
HandlerReturns(w) ==
  /\ pc[w] \in {"running", "committed"}
  /\ IF lost[w] THEN EndTurn(w) ELSE Goto(w, "completing") /\ UNCHANGED error
  /\ UNCHANGED <<rowVars, rowLock, beat, adminVars, faults>>

\* handler.handle rejects, of itself, because lockLease found another token,
\* or because it obeys the abort signal (timeout, lost lease); an open
\* transaction is rolled back.  A complete that rejects is caught likewise; had
\* it been carried out, the fail that follows would find no lease.
HandlerThrows(w, kind) ==
  /\ \/ pc[w] \in {"running", "committing", "committed"}
     \/ pc[w] = "completing" /\ kind = "retryable"
  /\ IF lost[w]
     THEN EndTurn(w)
     ELSE Goto(w, "failing") /\ error' = [error EXCEPT ![w] = kind]
  /\ rowLock' = [j \in Jobs |-> IF rowLock[j] = w THEN None ELSE rowLock[j]]
  /\ UNCHANGED <<rowVars, beat, adminVars, faults>>

-----------------------------------------------------------------------------
(* LeaseQueue.complete and LeaseQueue.fail.                                *)

Complete(w) ==
  LET j == job[w] IN
  /\ pc[w] = "completing"
  /\ rowLock[j] = None
  /\ IF Holds(j, token[w])
     THEN /\ status' = [status EXCEPT ![j] = "completed"]
          /\ leaseToken' = [leaseToken EXCEPT ![j] = None]
          /\ due' = [due EXCEPT ![j] = FALSE]
          /\ UNCHANGED <<attempts, lastError>>
     ELSE UNCHANGED rowVars
  /\ EndTurn(w)
  /\ UNCHANGED <<rowLock, beat, adminVars, faults>>

\* The attempt under way counted twice.
TerminalTooEarly(w) == tries[w] + 1 >= IF error[w] = "retryable" THEN MaxAttempts ELSE 1

\* job.attempts >= effectiveMaxAttempts, where the limit is 1 for a job
\* without handler and for a NonRetryableError; `attempts` is the claimed copy.
Terminal(w) == tries[w] >= IF error[w] = "retryable" THEN MaxAttempts ELSE 1

\* One UPDATE; the caller's onFailure runs only if it matched and the failure
\* is terminal.
Fail(w) ==
  LET j == job[w] IN
  /\ pc[w] = "failing"
  /\ rowLock[j] = None
  /\ IF Holds(j, token[w])
     THEN /\ status' = [status EXCEPT ![j] = IF Terminal(w) THEN "dead" ELSE "pending"]
          /\ leaseToken' = [leaseToken EXCEPT ![j] = None]
          /\ due' = [due EXCEPT ![j] = FALSE]
          /\ lastError' = [lastError EXCEPT ![j] = error[w]]
          /\ IF Terminal(w) /\ error[w] # "noHandler"
             THEN Goto(w, "onFailure") /\ UNCHANGED error
             ELSE EndTurn(w)
          /\ UNCHANGED attempts
     ELSE EndTurn(w) /\ UNCHANGED rowVars
  /\ UNCHANGED <<rowLock, beat, adminVars, faults>>

\* handler.onFailure ends, resolved or (logged) rejected.
OnFailure(w) ==
  /\ pc[w] = "onFailure"
  /\ EndTurn(w)
  /\ UNCHANGED <<rowVars, rowLock, beat, adminVars, faults>>

\* The process ends or a rejected claim ends the loop, and it is started
\* again.  The database rolls back an open transaction; a heartbeat already
\* sent may still arrive.
Crash(w) ==
  /\ pc[w] # "poll"
  /\ faults < MaxFaults
  /\ faults' = faults + 1
  /\ EndTurn(w)
  /\ rowLock' = [j \in Jobs |-> IF rowLock[j] = w THEN None ELSE rowLock[j]]
  /\ UNCHANGED <<rowVars, beat, adminVars>>

-----------------------------------------------------------------------------
(* system.jobs.requeue: DrizzleQueueRepository.requeue, then appendAudit.  *)

\* get: only a dead job goes on, everything else is refused.
RequeueGet(a, j) ==
  /\ apc[a] = "idle"
  /\ status[j] = "dead"
  /\ apc' = [apc EXCEPT ![a] = "updating"]
  /\ ajob' = [ajob EXCEPT ![a] = j]
  /\ UNCHANGED <<rowVars, rowLock, workerVars, beat, unaudited, faults>>

\* UPDATE ... WHERE status = 'dead'.
RequeueUpdate(a) ==
  LET j == ajob[a] IN
  /\ apc[a] = "updating"
  /\ rowLock[j] = None
  /\ apc' = [apc EXCEPT ![a] = "rereading"]
  /\ IF status[j] = "dead"
     THEN /\ status' = [status EXCEPT ![j] = "pending"]
          /\ attempts' = [attempts EXCEPT ![j] = 0]
          /\ leaseToken' = [leaseToken EXCEPT ![j] = None]
          /\ due' = [due EXCEPT ![j] = TRUE]
          /\ lastError' = [lastError EXCEPT ![j] = None]
          /\ unaudited' = unaudited \cup {<<a, j>>}
     ELSE UNCHANGED <<rowVars, unaudited>>
  /\ UNCHANGED <<rowLock, workerVars, beat, ajob, faults>>

\* get again: anything but pending is reported as a failed requeue, although a
\* worker may just have claimed the job.
RequeueReread(a) ==
  /\ apc[a] = "rereading"
  /\ IF status[ajob[a]] = "pending"
     THEN apc' = [apc EXCEPT ![a] = "auditing"] /\ UNCHANGED ajob
     ELSE apc' = [apc EXCEPT ![a] = "idle"] /\ ajob' = [ajob EXCEPT ![a] = None]
  /\ UNCHANGED <<rowVars, rowLock, workerVars, beat, unaudited, faults>>

\* appendAudit "job.requeued", a transaction of its own.
RequeueAudit(a) ==
  /\ apc[a] = "auditing"
  /\ unaudited' = unaudited \ {<<a, ajob[a]>>}
  /\ apc' = [apc EXCEPT ![a] = "idle"]
  /\ ajob' = [ajob EXCEPT ![a] = None]
  /\ UNCHANGED <<rowVars, rowLock, workerVars, beat, faults>>

-----------------------------------------------------------------------------
Worker(w) ==
  \/ \E j \in Jobs : SelectCandidate(w, j)
  \/ ClaimUpdate(w)
  \/ ClaimReadBack(w)
  \/ LockLease(w)
  \/ CommitEffect(w)
  \/ HandlerReturns(w)
  \/ \E kind \in {"retryable", "nonRetryable"} : HandlerThrows(w, kind)
  \/ Complete(w)
  \/ Fail(w)
  \/ OnFailure(w)

Admin(a) ==
  \/ \E j \in Jobs : RequeueGet(a, j)
  \/ RequeueUpdate(a)
  \/ RequeueReread(a)
  \/ RequeueAudit(a)

Next ==
  \/ \E j \in Jobs : Enqueue(j) \/ Elapse(j)
  \/ \E w \in Workers : Worker(w) \/ SendBeat(w) \/ Beat(w) \/ BeatFails(w) \/ Crash(w)
  \/ \E a \in Admins : Admin(a)

Spec == Init /\ [][Next]_vars

(***************************************************************************)
(* Fairness.  A running process keeps taking steps and its handlers end    *)
(* (Worker); statements on the wire arrive or fail (Beat); time passes for *)
(* a waiting job and for a lease nobody renews (Elapse).  A claim takes    *)
(* the oldest availableAt, which never changes while a row waits, so a     *)
(* claimable row is not passed over for ever: strong fairness per job.     *)
(* Operators, crashes and late heartbeats are never forced.                *)
(***************************************************************************)
Fairness ==
  /\ \A w \in Workers :
       /\ WF_vars(pc[w] # "poll" /\ Worker(w))
       /\ WF_vars(Beat(w) \/ BeatFails(w))
  /\ \A j \in Jobs :
       /\ WF_vars(Elapse(j) /\ ~HeldByAWorker(j))
       /\ SF_vars(\E w \in Workers : SelectCandidate(w, j))

FairSpec == Spec /\ Fairness

-----------------------------------------------------------------------------
(* Safety.                                                                 *)

\* A transaction that passed lockLease commits under the lease: from the
\* FOR UPDATE to the commit the row carries the token of this worker, even if
\* the lease runs out meanwhile (drizzle-repository.ts lockLease).
CommitUnderLease ==
  \A w \in Workers : pc[w] = "committing" => Holds(job[w], token[w])

\* A job is dead only for a reason: its last error is recorded, and if that
\* error could have been retried, the row's own attempts are used up, although
\* fail decides by the copy of the row taken at the claim (queue.ts fail).
DeadIsDeserved ==
  \A j \in Jobs : status[j] = "dead" =>
    /\ lastError[j] # None
    /\ lastError[j] = "retryable" => attempts[j] >= MaxAttempts

\* No lease is taken over before it has expired, however selects, updates and
\* heartbeats interleave (drizzle-repository.ts claim).
OnlyExpiredLeasesChange ==
  \A j \in Jobs :
    leaseToken[j] # None /\ leaseToken'[j] \notin {leaseToken[j], None} => due[j]

NoLeaseIsStolen == [][OnlyExpiredLeasesChange]_vars

\* A processing job leaves that state only by the complete or fail of the
\* worker that holds its lease: no displaced worker, late statement or requeue
\* ends somebody else's run ("Die Zustandsgrenze ist kein Formalismus").
DecidedByHolder ==
  \A j \in Jobs :
    status[j] = "processing" /\ status'[j] # "processing" =>
      \E w \in Workers : /\ pc[w] \in {"completing", "failing"}
                         /\ job[w] = j
                         /\ token[w] = leaseToken[j]

OnlyHolderDecides == [][DecidedByHolder]_vars

\* A requeue that changed the row is in the audit chain or still on its way
\* there ("im Audit protokolliert", docs/ARCHITECTURE.md).
RevivalIsAudited ==
  \A r \in unaudited : apc[r[1]] \in {"rereading", "auditing"} /\ ajob[r[1]] = r[2]

-----------------------------------------------------------------------------
(* The queue implements the job life cycle: the holder of a job is the     *)
(* living worker that knows the token of its row.                          *)

PhaseOf ==
  [absent |-> "absent", pending |-> "waiting", processing |-> "leased",
   completed |-> "done", dead |-> "buried"]

HolderOf(j) ==
  IF HeldByAWorker(j)
  THEN CHOOSE w \in Workers : token[w] = leaseToken[j]
  ELSE None

LifePhase == [j \in Jobs |-> PhaseOf[status[j]]]
LifeHolder == [j \in Jobs |-> HolderOf(j)]

Lifecycle == INSTANCE JobLifecycle WITH
  phase <- LifePhase, holder <- LifeHolder, ripe <- due

\* Every step of the queue is a step of the life cycle or changes nothing in it.
ImplementsLifecycle == Lifecycle!Spec

-----------------------------------------------------------------------------
(* Liveness.                                                               *)

\* Every job that waits or is being worked on is at last completed or dead, in
\* spite of crashes, lost leases and failing handlers.
EveryJobSettles ==
  \A j \in Jobs : status[j] \in {"pending", "processing"}
                    ~> status[j] \in {"completed", "dead"}
=============================================================================
