----------------------------- MODULE AuditChain -----------------------------
(***************************************************************************)
(* The audit hash chain (packages/kernel/src/audit.ts): appendAudit on the *)
(* drizzle repository, inside a business transaction (crm, billing,        *)
(* ingestion) or alone (system, assistant), and verifyAuditChain.          *)
(*                                                                         *)
(* One action is one SQL statement.  Row locks are held to the end of the  *)
(* transaction; a SELECT ... FOR UPDATE reads the row as last committed,   *)
(* or as the transaction itself has changed it.  A transaction may write   *)
(* business rows before, between and after its appends, so the one head    *)
(* row and the business rows are locked in any order.                      *)
(***************************************************************************)
EXTENDS Naturals, FiniteSets

CONSTANTS
  Writers,      \* concurrent requests and jobs
  Rows,         \* business rows they lock
  None,
  MaxAttempts,  \* options.maxAttempts ?? 8
  MaxEntries    \* bound on the entries of the chain

ASSUME ConstantsAssumption ==
  /\ MaxAttempts \in Nat \ {0}
  /\ MaxEntries \in Nat
  /\ None \notin Writers

VARIABLES
  log,        \* committed rows of audit_log
  head,       \* committed row of audit_chain_heads
  headLock,   \* the writer whose transaction has locked the head
  rowLock,    \* and each business row
  pc,
  nested,     \* this append runs in a business transaction (a savepoint)
  want,       \* the business row asked for
  seen,       \* the head as read by this append
  mine,       \* uncommitted rows of audit_log
  myHead,     \* the head as this transaction has updated it, or NoHead
  tries       \* failed attempts of this append

vars == <<log, head, headLock, rowLock, pc, nested, want, seen, mine, myHead, tries>>

\* GENESIS_HASH, and computeAuditHash: what it binds decides the hash, the
\* fields beside seq and prevHash are here the writer.
Genesis == "genesis"
Hash(seq, by, prev) == <<seq, by, prev>>

Genesis0 == [seq |-> 0, hash |-> Genesis]
NoHead == [seq |-> 0, hash |-> "none"]

Pc == {"idle", "open", "touching", "locking", "inserting", "updating"}

TypeOK ==
  /\ \A e \in log : e.seq \in Nat /\ e.by \in Writers
  /\ head.seq \in Nat
  /\ headLock \in Writers \cup {None}
  /\ rowLock \in [Rows -> Writers \cup {None}]
  /\ pc \in [Writers -> Pc]
  /\ nested \in [Writers -> BOOLEAN]
  /\ want \in [Writers -> Rows \cup {None}]
  /\ DOMAIN seen = Writers /\ DOMAIN mine = Writers /\ DOMAIN myHead = Writers
  /\ \A w \in Writers : /\ seen[w].seq \in Nat
                        /\ \A e \in mine[w] : e.seq \in Nat /\ e.by = w
                        /\ myHead[w].seq \in Nat
  /\ tries \in [Writers -> 0..(MaxAttempts - 1)]

Init ==
  /\ log = {}
  /\ head = Genesis0
  /\ headLock = None
  /\ rowLock = [r \in Rows |-> None]
  /\ pc = [w \in Writers |-> "idle"]
  /\ nested = [w \in Writers |-> FALSE]
  /\ want = [w \in Writers |-> None]
  /\ seen = [w \in Writers |-> Genesis0]
  /\ mine = [w \in Writers |-> {}]
  /\ myHead = [w \in Writers |-> NoHead]
  /\ tries = [w \in Writers |-> 0]

\* The transaction is over: its locks are released, its locals gone.
End(w) ==
  /\ pc' = [pc EXCEPT ![w] = "idle"]
  /\ nested' = [nested EXCEPT ![w] = FALSE]
  /\ want' = [want EXCEPT ![w] = None]
  /\ seen' = [seen EXCEPT ![w] = Genesis0]
  /\ mine' = [mine EXCEPT ![w] = {}]
  /\ myHead' = [myHead EXCEPT ![w] = NoHead]
  /\ tries' = [tries EXCEPT ![w] = 0]
  /\ headLock' = IF headLock = w THEN None ELSE headLock
  /\ rowLock' = [r \in Rows |-> IF rowLock[r] = w THEN None ELSE rowLock[r]]

-----------------------------------------------------------------------------
(* Business transactions.                                                  *)

Begin(w) ==
  /\ pc[w] = "idle"
  /\ pc' = [pc EXCEPT ![w] = "open"]
  /\ nested' = [nested EXCEPT ![w] = TRUE]
  /\ UNCHANGED <<log, head, headLock, rowLock, want, seen, mine, myHead, tries>>

\* An UPDATE of a business row, which may have to wait.
Touch(w, r) ==
  /\ pc[w] = "open"
  /\ nested[w]
  /\ rowLock[r] # w
  /\ pc' = [pc EXCEPT ![w] = "touching"]
  /\ want' = [want EXCEPT ![w] = r]
  /\ UNCHANGED <<log, head, headLock, rowLock, nested, seen, mine, myHead, tries>>

LockRow(w) ==
  /\ pc[w] = "touching"
  /\ rowLock[want[w]] = None
  /\ rowLock' = [rowLock EXCEPT ![want[w]] = w]
  /\ pc' = [pc EXCEPT ![w] = "open"]
  /\ UNCHANGED <<log, head, headLock, nested, want, seen, mine, myHead, tries>>

\* Variants with a plausible bug stand before the definition they replace.
\* The head is written, but not with the rows it counts.
CommitWithoutHead(w) ==
  /\ pc[w] = "open"
  /\ nested[w] \/ mine[w] # {}
  /\ log' = log \cup mine[w]
  /\ UNCHANGED head
  /\ End(w)

Commit(w) ==
  /\ pc[w] = "open"
  /\ nested[w] \/ mine[w] # {}
  /\ log' = log \cup mine[w]
  /\ head' = IF myHead[w] = NoHead THEN head ELSE myHead[w]
  /\ End(w)

\* The head updated on a connection of its own.
RollbackKeepsHead(w) ==
  /\ pc[w] # "idle"
  /\ head' = IF myHead[w] = NoHead THEN head ELSE myHead[w]
  /\ End(w)
  /\ UNCHANGED log

\* Any statement fails for good, or the process ends.
Rollback(w) ==
  /\ pc[w] # "idle"
  /\ End(w)
  /\ UNCHANGED <<log, head>>

\* Transactions that wait for each other's rows in a circle: the database rolls
\* one of them back as a whole, its savepoints too, so a nested append is not
\* retried.
BlockedBy(w) ==
  CASE pc[w] = "locking" -> headLock
    [] pc[w] = "touching" -> rowLock[want[w]]
    [] OTHER -> None

Deadlock(w) ==
  /\ \E circle \in SUBSET Writers :
       /\ w \in circle
       /\ \A v \in circle : BlockedBy(v) \in circle \ {v}
       /\ \A v \in circle : \E u \in circle : BlockedBy(u) = v
  /\ End(w)
  /\ UNCHANGED <<log, head>>

-----------------------------------------------------------------------------
(* appendAudit.                                                            *)

\* From a business transaction, or in a transaction of its own.
Append(w) ==
  /\ \/ pc[w] = "open" /\ nested[w]
     \/ pc[w] = "idle"
  /\ Cardinality(log) + Cardinality(mine[w]) < MaxEntries
  /\ pc' = [pc EXCEPT ![w] = "locking"]
  /\ tries' = [tries EXCEPT ![w] = 0]
  /\ UNCHANGED <<log, head, headLock, rowLock, nested, want, seen, mine, myHead>>

\* The head read on a connection of its own: as it was committed.
LockHeadOutside(w) ==
  /\ pc[w] = "locking"
  /\ headLock \in {None, w}
  /\ headLock' = w
  /\ seen' = [seen EXCEPT ![w] = head]
  /\ pc' = [pc EXCEPT ![w] = "inserting"]
  /\ UNCHANGED <<log, head, rowLock, nested, want, mine, myHead, tries>>

\* SELECT ... FROM audit_chain_heads FOR UPDATE.
LockHead(w) ==
  /\ pc[w] = "locking"
  /\ headLock \in {None, w}
  /\ headLock' = w
  /\ seen' = [seen EXCEPT ![w] = IF myHead[w] = NoHead THEN head ELSE myHead[w]]
  /\ pc' = [pc EXCEPT ![w] = "inserting"]
  /\ UNCHANGED <<log, head, rowLock, nested, want, mine, myHead, tries>>

NewEntry(w) ==
  LET seq == seen[w].seq + 1 IN
  [seq |-> seq, by |-> w, prev |-> seen[w].hash, hash |-> Hash(seq, w, seen[w].hash)]

\* INSERT INTO audit_log; a seq that is taken is a duplicate key (Retry).
Insert(w) ==
  /\ pc[w] = "inserting"
  /\ \A e \in log \cup UNION {mine[v] : v \in Writers} : e.seq # NewEntry(w).seq
  /\ mine' = [mine EXCEPT ![w] = @ \cup {NewEntry(w)}]
  /\ pc' = [pc EXCEPT ![w] = "updating"]
  /\ UNCHANGED <<log, head, headLock, rowLock, nested, want, seen, myHead, tries>>

\* UPDATE audit_chain_heads.
UpdateHead(w) ==
  /\ pc[w] = "updating"
  /\ myHead' = [myHead EXCEPT
       ![w] = [seq |-> NewEntry(w).seq, hash |-> NewEntry(w).hash]]
  /\ pc' = [pc EXCEPT ![w] = "open"]
  /\ UNCHANGED <<log, head, headLock, rowLock, nested, want, seen, mine, tries>>

\* The last failure is not the last.
RetryOnceMore(w) ==
  /\ pc[w] \in {"locking", "inserting", "updating"}
  /\ tries[w] < MaxAttempts
  /\ tries' = [tries EXCEPT ![w] = @ + 1]
  /\ pc' = [pc EXCEPT ![w] = "locking"]
  /\ mine' = IF pc[w] = "updating"
             THEN [mine EXCEPT ![w] = @ \ {NewEntry(w)}]
             ELSE mine
  /\ headLock' = IF headLock = w /\ ~nested[w] THEN None ELSE headLock
  /\ UNCHANGED <<log, head, rowLock, nested, want, seen, myHead>>

\* A retryable error (duplicate key, lock wait timeout): back to the savepoint,
\* or out of the append's own transaction, and again.  Locks taken since a
\* savepoint stay.  The last attempt throws, and the caller rolls back.
Retry(w) ==
  /\ pc[w] \in {"locking", "inserting", "updating"}
  /\ tries[w] + 1 < MaxAttempts
  /\ tries' = [tries EXCEPT ![w] = @ + 1]
  /\ pc' = [pc EXCEPT ![w] = "locking"]
  /\ mine' = IF pc[w] = "updating"
             THEN [mine EXCEPT ![w] = @ \ {NewEntry(w)}]
             ELSE mine
  /\ headLock' = IF headLock = w /\ ~nested[w] THEN None ELSE headLock
  /\ UNCHANGED <<log, head, rowLock, nested, want, seen, myHead>>

-----------------------------------------------------------------------------
Step(w) ==
  \/ \E r \in Rows : Touch(w, r)
  \/ LockRow(w)
  \/ Commit(w)
  \/ Append(w)
  \/ LockHead(w)
  \/ Insert(w)
  \/ UpdateHead(w)

Next ==
  \E w \in Writers : Begin(w) \/ Step(w) \/ Rollback(w) \/ Deadlock(w) \/ Retry(w)

Spec == Init /\ [][Next]_vars

\* A transaction that is under way goes on; the database hands a lock to
\* whoever waits longest and breaks every deadlock.  No error is forced.
Fairness ==
  \A w \in Writers :
    /\ WF_vars(pc[w] # "idle" /\ Step(w))
    /\ SF_vars(LockHead(w))
    /\ SF_vars(LockRow(w))
    /\ WF_vars(Deadlock(w))

FairSpec == Spec /\ Fairness

-----------------------------------------------------------------------------
\* verifyAuditChain over all tenants: in the order of seq, every hash is the one
\* its row gives, and every prevHash the hash of the row before.
Before(e, rows) == {f \in rows : f.seq < e.seq}
VerifyAuditChain(rows) ==
  \A e \in rows :
    /\ e.hash = Hash(e.seq, e.by, e.prev)
    /\ IF Before(e, rows) = {}
       THEN e.prev = Genesis
       ELSE \A f \in Before(e, rows) :
              (\A g \in Before(e, rows) : g.seq <= f.seq) => e.prev = f.hash

\* Whatever rolls back, retries and deadlocks, everybody who verifies the chain
\* finds it sound.
ChainVerifies == VerifyAuditChain(log)

\* The head row is the last entry of the log, and no number is missing or used
\* twice: a failed append leaves no gap.
HeadIsLast ==
  /\ \A n \in 1..head.seq : \E e \in log : e.seq = n
  /\ \A e, f \in log : e.seq = f.seq => e = f
  /\ \A e \in log : e.seq <= head.seq
  /\ \A e \in log : e.seq = head.seq => e.hash = head.hash

\* What a reader relies on, whatever happens to the writers (verifyAuditChain,
\* and appendAudit's use of the head row): the chain verifies, and the head row
\* is its end.
ChainIsSound == ChainVerifies /\ HeadIsLast

\* To a reader the table is a log that only grows, by whole transactions, each
\* in one piece at the end: nobody's entries come between those of another.
Log == INSTANCE AuditLog
ImplementsLog == Log!Spec

\* Liveness: nobody waits for ever for the one head row all transactions share.
AppendsEnd ==
  \A w \in Writers : pc[w] \in {"locking", "touching"} ~> pc[w] \in {"idle", "open"}
=============================================================================
