-------------------------- MODULE AuditChainProofs --------------------------
(***************************************************************************)
(* The hash chain of AuditChain is sound for any number of writers, rows   *)
(* and attempts.                                                           *)
(*                                                                         *)
(* ChainVerifies is about committed rows only and not inductive: a commit  *)
(* adds rows that were written earlier, against a head read earlier.  The  *)
(* invariant follows each transaction: whoever has written or read for     *)
(* writing holds the head's lock (LockDiscipline), so what it read is      *)
(* still current (SeenIsCurrent), and the log with its rows is a chain     *)
(* that ends in the head as it sees it (Chains).                           *)
(***************************************************************************)
EXTENDS AuditChain, TLAPS

\* The head as the transaction of w sees it, and its entries whose head update
\* is done.
Cur(w) == IF myHead[w] = NoHead THEN head ELSE myHead[w]
Done(w) == IF pc[w] = "updating" THEN mine[w] \ {NewEntry(w)} ELSE mine[w]

ChainOK(rows, h) ==
  /\ h.seq \in Nat
  /\ \A e \in rows : e.seq \in 1..h.seq
  /\ \A e, f \in rows : e.seq = f.seq => e = f
  /\ \A n \in 1..h.seq : \E e \in rows : e.seq = n
  /\ \A e \in rows : e.hash = Hash(e.seq, e.by, e.prev)
  /\ \A e \in rows : e.seq = 1 => e.prev = Genesis
  /\ \A e, f \in rows : f.seq = e.seq + 1 => f.prev = e.hash
  /\ \A e \in rows : e.seq = h.seq => e.hash = h.hash
  /\ h.seq = 0 => h.hash = Genesis

Engaged(w) ==
  pc[w] \in {"inserting", "updating"} \/ mine[w] # {} \/ myHead[w] # NoHead

LockDiscipline == \A w \in Writers : Engaged(w) => headLock = w

\* What an append in a transaction of its own has written.
OwnTransaction ==
  \A w \in Writers :
    /\ pc[w] = "idle" => ~nested[w]
    /\ ~nested[w] /\ pc[w] \in {"idle", "locking", "inserting"} => mine[w] = {}
    /\ ~nested[w] /\ pc[w] # "open" => myHead[w] = NoHead
    /\ ~nested[w] /\ pc[w] = "updating" => mine[w] = {NewEntry(w)}

SeenIsCurrent ==
  \A w \in Writers :
    /\ pc[w] \in {"inserting", "updating"} => seen[w] = Cur(w)
    /\ pc[w] = "updating" => NewEntry(w) \in mine[w]

Chains ==
  /\ ChainOK(log, head)
  /\ \A w \in Writers : ChainOK(log \cup Done(w), Cur(w))

IInv ==
  /\ TypeOK
  /\ LockDiscipline
  /\ OwnTransaction
  /\ SeenIsCurrent
  /\ Chains

-----------------------------------------------------------------------------
(* Chains.                                                                 *)

\* The entry that appendWithHead computes from the head extends the chain.
LEMMA Extend ==
  ASSUME NEW rows, NEW h, NEW w, ChainOK(rows, h),
         NEW e, e = [seq |-> h.seq + 1, by |-> w, prev |-> h.hash,
                     hash |-> Hash(h.seq + 1, w, h.hash)]
  PROVE  ChainOK(rows \cup {e}, [seq |-> e.seq, hash |-> e.hash])
<1> DEFINE all == rows \cup {e}
           k == [seq |-> e.seq, hash |-> e.hash]
<1>1. /\ h.seq \in Nat /\ k.seq = h.seq + 1 /\ k.hash = e.hash
      /\ e.seq = h.seq + 1 /\ e.prev = h.hash /\ e.by = w
      /\ e.hash = Hash(e.seq, e.by, e.prev)
  BY DEF ChainOK
<1>2. \A f \in rows : f.seq \in 1..h.seq
  BY DEF ChainOK
<1> HIDE DEF k
<1>3. \A f \in all : f.seq \in 1..k.seq
  BY <1>1, <1>2
<1>4. \A f, g \in all : f.seq = g.seq => f = g
  BY <1>1, <1>2 DEF ChainOK
<1>5. \A n \in 1..k.seq : \E f \in all : f.seq = n
  <2>1. \A n \in 1..k.seq : n \in 1..h.seq \/ n = e.seq
    BY <1>1
  <2> QED BY <2>1 DEF ChainOK
<1>6. \A f \in all : f.hash = Hash(f.seq, f.by, f.prev)
  BY <1>1 DEF ChainOK
<1>7. \A f \in all : f.seq = 1 => f.prev = Genesis
  BY <1>1 DEF ChainOK
<1>8. \A f, g \in all : g.seq = f.seq + 1 => g.prev = f.hash
  <2>1. \A f \in rows : e.seq = f.seq + 1 => e.prev = f.hash
    BY <1>1, <1>2 DEF ChainOK
  <2>2. \A f \in all : f.seq # e.seq + 1
    BY <1>1, <1>2
  <2> QED BY <2>1, <2>2 DEF ChainOK
<1>9. \A f \in all : f.seq = k.seq => f.hash = k.hash
  BY <1>1, <1>2
<1> QED BY <1>1, <1>3, <1>4, <1>5, <1>6, <1>7, <1>8, <1>9 DEF ChainOK, k

\* A chain is what verifyAuditChain accepts.
LEMMA ChainIsVerified ==
  ASSUME NEW rows, NEW h, ChainOK(rows, h)
  PROVE  VerifyAuditChain(rows)
<1> SUFFICES ASSUME NEW e \in rows
             PROVE  /\ Before(e, rows) = {} => e.prev = Genesis
                    /\ \A f \in Before(e, rows) :
                         (\A g \in Before(e, rows) : g.seq <= f.seq)
                           => e.prev = f.hash
  BY DEF ChainOK, VerifyAuditChain
<1>1. h.seq \in Nat /\ e.seq \in 1..h.seq /\ \A f \in rows : f.seq \in 1..h.seq
  BY DEF ChainOK
<1>2. e.seq = 1 \/ e.seq - 1 \in 1..h.seq
  BY <1>1
<1>3. CASE e.seq = 1
  BY <1>1, <1>3 DEF ChainOK, Before
<1>4. CASE e.seq - 1 \in 1..h.seq
  <2>1. PICK p \in rows : p.seq = e.seq - 1
    BY <1>4 DEF ChainOK
  <2>2. p \in Before(e, rows)
    BY <1>1, <2>1 DEF Before
  <2>3. ASSUME NEW f \in Before(e, rows), \A g \in Before(e, rows) : g.seq <= f.seq
        PROVE  e.prev = f.hash
    <3>1. f \in rows /\ f.seq < e.seq /\ p.seq <= f.seq
      BY <2>2, <2>3 DEF Before
    <3>2. e.seq = f.seq + 1
      BY <1>1, <2>1, <3>1
    <3> QED BY <3>1, <3>2 DEF ChainOK
  <2> QED BY <2>2, <2>3
<1> QED BY <1>2, <1>3, <1>4

\* The part of a chain that relates it to the head row.
LEMMA ChainEndsInHead ==
  ASSUME ChainOK(log, head)
  PROVE  HeadIsLast
BY DEF ChainOK, HeadIsLast

-----------------------------------------------------------------------------
(* Steps.                                                                  *)

\* Only one transaction is engaged, so it meets nobody else's rows.
LEMMA OthersIdle ==
  ASSUME IInv, NEW w \in Writers, headLock = w, NEW v \in Writers, v # w
  PROVE  /\ mine[v] = {} /\ myHead[v] = NoHead
         /\ pc[v] \notin {"inserting", "updating"}
         /\ Done(v) = {} /\ Cur(v) = head
BY DEF IInv, LockDiscipline, Engaged, Done, Cur

\* A step that writes nothing and does not enter or leave "updating".
LEMMA Quiet ==
  ASSUME IInv, UNCHANGED <<log, head, seen, mine, myHead>>,
         \A w \in Writers : (pc'[w] = "updating") <=> (pc[w] = "updating")
  PROVE  Chains'
BY DEF IInv, Chains, Done, Cur, NewEntry

\* A new transaction has no rows and no locks.
LEMMA BeginStep ==
  ASSUME IInv, NEW w \in Writers, Begin(w)
  PROVE  IInv'
<1> USE DEF IInv, Begin
<1>1. TypeOK'
  BY DEF TypeOK, Pc
<1>2. LockDiscipline'
  BY DEF LockDiscipline, Engaged, TypeOK
<1>3. OwnTransaction' /\ SeenIsCurrent'
  BY DEF OwnTransaction, SeenIsCurrent, Cur, NewEntry, TypeOK
<1>4. Chains'
  BY Quiet DEF TypeOK
<1> QED BY <1>1, <1>2, <1>3, <1>4

\* Waiting for a business row changes nothing of the chain.
LEMMA TouchStep ==
  ASSUME IInv, NEW w \in Writers, NEW r \in Rows, Touch(w, r)
  PROVE  IInv'
<1> USE DEF IInv, Touch
<1>1. TypeOK'
  BY DEF TypeOK, Pc
<1>2. LockDiscipline'
  BY DEF LockDiscipline, Engaged, TypeOK
<1>3. OwnTransaction' /\ SeenIsCurrent'
  BY DEF OwnTransaction, SeenIsCurrent, Cur, NewEntry, TypeOK
<1>4. Chains'
  BY Quiet DEF TypeOK
<1> QED BY <1>1, <1>2, <1>3, <1>4

\* Nor does getting it.
LEMMA LockRowStep ==
  ASSUME IInv, NEW w \in Writers, LockRow(w)
  PROVE  IInv'
<1> USE DEF IInv, LockRow
<1>1. TypeOK'
  BY DEF TypeOK, Pc
<1>2. LockDiscipline'
  BY DEF LockDiscipline, Engaged, TypeOK
<1>3. OwnTransaction' /\ SeenIsCurrent'
  BY DEF OwnTransaction, SeenIsCurrent, Cur, NewEntry, TypeOK
<1>4. Chains'
  BY Quiet DEF TypeOK
<1> QED BY <1>1, <1>2, <1>3, <1>4

\* An append starts with what its transaction has, alone with nothing.
LEMMA AppendStep ==
  ASSUME IInv, NEW w \in Writers, Append(w)
  PROVE  IInv'
<1> USE DEF IInv, Append
<1>1. TypeOK'
  BY ConstantsAssumption DEF TypeOK, Pc
<1>2. LockDiscipline'
  BY DEF LockDiscipline, Engaged, TypeOK
<1>3. OwnTransaction' /\ SeenIsCurrent'
  BY DEF OwnTransaction, SeenIsCurrent, Cur, NewEntry, TypeOK
<1>4. Chains'
  BY Quiet DEF TypeOK
<1> QED BY <1>1, <1>2, <1>3, <1>4

\* The head is read with its lock held: what is read is current.
LEMMA LockHeadStep ==
  ASSUME IInv, NEW w \in Writers, LockHead(w)
  PROVE  IInv'
<1> USE DEF IInv, LockHead
<1>1. TypeOK'
  BY DEF TypeOK, Pc
<1>2. LockDiscipline'
  BY ConstantsAssumption DEF LockDiscipline, Engaged, TypeOK
<1>3. OwnTransaction'
  BY DEF OwnTransaction, NewEntry, TypeOK
<1>4. SeenIsCurrent'
  BY DEF SeenIsCurrent, Cur, NewEntry, TypeOK
<1>5. Chains'
  BY DEF Chains, Done, Cur, NewEntry, TypeOK
<1> QED BY <1>1, <1>2, <1>3, <1>4, <1>5

\* The new row is not part of the chain before the head is updated.
LEMMA InsertStep ==
  ASSUME IInv, NEW w \in Writers, Insert(w)
  PROVE  IInv'
<1> USE DEF IInv, Insert
<1> DEFINE e == NewEntry(w)
<1>1. e \notin mine[w] /\ NewEntry(w)' = e /\ e.seq \in Nat /\ e.by = w
  BY DEF NewEntry, TypeOK
<1>2. TypeOK'
  BY <1>1 DEF TypeOK, Pc
<1>3. LockDiscipline'
  BY DEF LockDiscipline, Engaged, TypeOK
<1>4. OwnTransaction'
  BY <1>1 DEF OwnTransaction, NewEntry, TypeOK
<1>5. SeenIsCurrent'
  BY <1>1 DEF SeenIsCurrent, Cur, NewEntry, TypeOK
<1>6. Done(w)' = Done(w)
  BY <1>1 DEF Done, TypeOK
<1>7. \A v \in Writers : Done(v)' = Done(v) /\ Cur(v)' = Cur(v)
  BY <1>6 DEF Done, Cur, NewEntry, TypeOK
<1>8. Chains'
  BY <1>7 DEF Chains
<1> QED BY <1>2, <1>3, <1>4, <1>5, <1>8

\* The head update makes it the last entry of the chain (Extend).
LEMMA UpdateHeadStep ==
  ASSUME IInv, NEW w \in Writers, UpdateHead(w)
  PROVE  IInv'
<1> USE DEF IInv, UpdateHead
<1> DEFINE e == NewEntry(w)
           h == [seq |-> e.seq, hash |-> e.hash]
<1>1. headLock = w /\ seen[w] = Cur(w) /\ e \in mine[w]
  BY DEF LockDiscipline, Engaged, SeenIsCurrent
<1>2. h.seq \in Nat
  BY DEF NewEntry, TypeOK
<1>3. myHead' = [myHead EXCEPT ![w] = h] /\ myHead'[w] = h
  BY DEF TypeOK
<1> HIDE DEF h
<1>4. TypeOK'
  BY <1>2, <1>3 DEF TypeOK, Pc
<1>5. LockDiscipline'
  BY <1>1 DEF LockDiscipline, Engaged, TypeOK
<1>6. OwnTransaction' /\ SeenIsCurrent'
  BY DEF OwnTransaction, SeenIsCurrent, Cur, NewEntry, TypeOK
<1>7. ChainOK((log \cup Done(w)) \cup {e}, h)
  BY <1>1, Extend DEF Chains, NewEntry, h
<1>8. (log \cup Done(w)) \cup {e} = log \cup Done(w)'
  BY <1>1 DEF Done, TypeOK
<1>9. Cur(w)' = h
  <2>1. h.seq # 0
    BY DEF NewEntry, TypeOK, h
  <2> QED BY <1>3, <2>1 DEF Cur, NoHead
<1>10. \A v \in Writers \ {w} : Done(v)' = Done(v) /\ Cur(v)' = Cur(v)
  BY DEF Done, Cur, NewEntry, TypeOK
<1>11. Chains'
  BY <1>7, <1>8, <1>9, <1>10 DEF Chains
<1> QED BY <1>4, <1>5, <1>6, <1>11

\* End leaves nothing of the transaction of w.
LEMMA EndStep ==
  ASSUME IInv, NEW w \in Writers, End(w),
         \/ UNCHANGED <<log, head>>
         \/ pc[w] = "open" /\ log' = log \cup mine[w] /\ head' = Cur(w)
  PROVE  IInv'
<1> USE DEF IInv, End
<1>1. CASE ~Engaged(w) \/ UNCHANGED <<log, head>>
  <2>1. UNCHANGED <<log, head>>
    BY <1>1 DEF Engaged, Cur
  <2>2. TypeOK'
    BY <2>1, ConstantsAssumption DEF TypeOK, Pc, Genesis0, NoHead
  <2>3. LockDiscipline'
    BY DEF LockDiscipline, Engaged, TypeOK
  <2>4. OwnTransaction' /\ SeenIsCurrent'
    BY <2>1 DEF OwnTransaction, SeenIsCurrent, Cur, NewEntry, TypeOK
  <2>5. Done(w)' = {} /\ Cur(w)' = head
    BY <2>1 DEF Done, Cur, TypeOK
  <2>6. \A v \in Writers \ {w} : Done(v)' = Done(v) /\ Cur(v)' = Cur(v)
    BY <2>1 DEF Done, Cur, NewEntry, TypeOK
  <2>7. Chains'
    BY <2>1, <2>5, <2>6 DEF Chains
  <2> QED BY <2>2, <2>3, <2>4, <2>7
<1>2. CASE Engaged(w) /\ pc[w] = "open" /\ log' = log \cup mine[w] /\ head' = Cur(w)
  <2>1. headLock = w
    BY <1>2 DEF LockDiscipline
  <2>2. \A v \in Writers : mine'[v] = {} /\ myHead'[v] = NoHead
                           /\ pc'[v] \notin {"inserting", "updating"}
    BY <2>1, OthersIdle DEF TypeOK
  <2>3. TypeOK'
    <3>1. \A e \in log' : e.seq \in Nat /\ e.by \in Writers
      BY <1>2 DEF TypeOK
    <3>2. head'.seq \in Nat
      BY <1>2 DEF TypeOK, Cur
    <3> QED BY <3>1, <3>2, ConstantsAssumption DEF TypeOK, Pc, Genesis0, NoHead
  <2>4. LockDiscipline' /\ SeenIsCurrent'
    BY <2>2 DEF LockDiscipline, Engaged, SeenIsCurrent
  <2>5. OwnTransaction'
    BY <2>2 DEF OwnTransaction, TypeOK
  <2>6. ChainOK(log', head')
    BY <1>2 DEF Chains, Done
  <2>7. \A v \in Writers : Done(v)' = {} /\ Cur(v)' = head'
    BY <2>2 DEF Done, Cur
  <2>8. Chains'
    BY <2>6, <2>7 DEF Chains
  <2> QED BY <2>3, <2>4, <2>5, <2>8
<1> QED BY <1>1, <1>2

\* The failed attempt leaves the rows of the earlier appends only.
LEMMA RetryStep ==
  ASSUME IInv, NEW w \in Writers, Retry(w)
  PROVE  IInv'
<1> USE DEF IInv, Retry
<1>1. TypeOK'
  BY ConstantsAssumption DEF TypeOK, Pc
<1>2. ~nested[w] => mine'[w] = {} /\ myHead'[w] = NoHead
  BY DEF OwnTransaction, TypeOK
<1>3. LockDiscipline'
  BY <1>2 DEF LockDiscipline, Engaged, TypeOK
<1>4. OwnTransaction' /\ SeenIsCurrent'
  BY <1>2 DEF OwnTransaction, SeenIsCurrent, Cur, NewEntry, TypeOK
<1>5. \A v \in Writers : Done(v)' = Done(v) /\ Cur(v)' = Cur(v)
  BY DEF Done, Cur, NewEntry, TypeOK
<1>6. Chains'
  BY <1>5 DEF Chains
<1> QED BY <1>1, <1>3, <1>4, <1>6

-----------------------------------------------------------------------------
(* Theorems.                                                               *)

\* The empty log is a chain that ends in the genesis hash.
LEMMA InitInv == Init => IInv
<1> SUFFICES ASSUME Init PROVE IInv
  OBVIOUS
<1>1. TypeOK
  BY ConstantsAssumption DEF Init, TypeOK, Pc, Genesis0, NoHead
<1>2. LockDiscipline /\ OwnTransaction /\ SeenIsCurrent
  BY DEF Init, LockDiscipline, OwnTransaction, SeenIsCurrent, Engaged
<1>3. ChainOK(log, head)
  BY DEF Init, ChainOK, Genesis0
<1>4. \A w \in Writers : Done(w) = {} /\ Cur(w) = head
  BY DEF Init, Done, Cur
<1> QED BY <1>1, <1>2, <1>3, <1>4 DEF IInv, Chains

\* Every step keeps the invariant.
LEMMA NextInv == IInv /\ [Next]_vars => IInv'
<1> SUFFICES ASSUME IInv, [Next]_vars PROVE IInv'
  OBVIOUS
<1>1. CASE UNCHANGED vars
  BY <1>1 DEF vars, IInv, TypeOK, LockDiscipline, OwnTransaction, SeenIsCurrent,
     Chains, Engaged, Done, Cur, NewEntry
<1>2. ASSUME NEW w \in Writers, Begin(w) \/ Step(w) \/ Retry(w)
      PROVE  IInv'
  <2>1. CASE Commit(w)
    BY <2>1, EndStep DEF Commit, Cur
  <2> QED BY <1>2, <2>1, BeginStep, TouchStep, LockRowStep, AppendStep,
             LockHeadStep, InsertStep, UpdateHeadStep, RetryStep DEF Step
<1>3. ASSUME NEW w \in Writers, Rollback(w) \/ Deadlock(w)
      PROVE  IInv'
  BY <1>3, EndStep DEF Rollback, Deadlock
<1> QED BY <1>1, <1>2, <1>3 DEF Next

\* So it holds in every reachable state.
THEOREM InvHolds == Spec => []IInv
BY InitInv, NextInv, PTL DEF Spec

\* Every reachable state is of the shape TypeOK names, and no append is tried
\* more than maxAttempts times.
THEOREM TypeCorrect == Spec => []TypeOK
<1>1. IInv => TypeOK
  BY DEF IInv
<1> QED BY <1>1, InvHolds, PTL

\* verifyAuditChain finds no broken entry, at whatever moment it reads, with any
\* number of concurrent appends, rollbacks, retries and deadlocks.
THEOREM ChainAlwaysVerifies == Spec => []ChainVerifies
<1>1. IInv => ChainVerifies
  BY ChainIsVerified DEF IInv, Chains, ChainVerifies
<1> QED BY <1>1, InvHolds, PTL

\* The head row names the last committed entry, and seq runs from 1 without gap
\* or repetition (appendAudit).
THEOREM HeadIsAlwaysLast == Spec => []HeadIsLast
<1>1. IInv => HeadIsLast
  BY ChainEndsInHead DEF IInv, Chains
<1> QED BY <1>1, InvHolds, PTL

\* Both at once: what verifyAuditChain reads is sound and ends where appendAudit
\* goes on.
THEOREM ChainAlwaysSound == Spec => []ChainIsSound
<1>1. ChainVerifies /\ HeadIsLast <=> ChainIsSound
  BY DEF ChainIsSound
<1> QED BY <1>1, ChainAlwaysVerifies, HeadIsAlwaysLast, PTL

-----------------------------------------------------------------------------
(* Refinement.                                                             *)

LEMMA ChainIsChained ==
  ASSUME NEW rows, NEW h, ChainOK(rows, h)
  PROVE  Log!Chained(rows)
<1>1. ASSUME NEW e \in rows, e.seq # 1
      PROVE  \E f \in rows : e.seq = f.seq + 1 /\ e.prev = f.hash
  <2>1. e.seq - 1 \in 1..h.seq
    BY <1>1 DEF ChainOK
  <2>2. PICK f \in rows : f.seq = e.seq - 1
    BY <2>1 DEF ChainOK
  <2>3. e.seq = f.seq + 1
    <3>1. e.seq \in Nat /\ f.seq \in Nat
      BY DEF ChainOK
    <3> QED BY <2>2, <3>1
  <2> QED BY <2>3 DEF ChainOK
<1> QED BY <1>1 DEF ChainOK, Log!Chained

\* Of a chain that has grown, the new entries stand at the end.
LEMMA NewStandBehind ==
  ASSUME NEW rows, NEW h, ChainOK(rows, h), NEW more, NEW k, ChainOK(more, k), rows \subseteq more,
         NEW e \in more \ rows, NEW f \in rows
  PROVE  f.seq < e.seq
<1>1. f.seq \in 1..h.seq /\ h.seq \in Nat /\ e.seq \in 1..k.seq /\ k.seq \in Nat
  BY DEF ChainOK
<1>2. e.seq \notin 1..h.seq
  <2> SUFFICES ASSUME e.seq \in 1..h.seq PROVE FALSE
    OBVIOUS
  <2>1. PICK g \in rows : g.seq = e.seq
    BY DEF ChainOK
  <2>2. g = e
    BY <2>1 DEF ChainOK
  <2> QED BY <2>2
<1> QED BY <1>1, <1>2

\* Only a commit changes the log, and it adds what its own transaction wrote.
LEMMA StepsRefine == IInv /\ IInv' /\ [Next]_vars => [Log!Next]_log
<1> SUFFICES ASSUME IInv, IInv', [Next]_vars, log' # log PROVE Log!Next
  OBVIOUS
<1>1. PICK w \in Writers : log' = log \cup mine[w]
  <2>1. PICK w \in Writers : Begin(w) \/ Step(w) \/ Rollback(w) \/ Deadlock(w) \/ Retry(w)
    BY DEF Next, vars
  <2>2. Commit(w)
    BY <2>1 DEF Begin, Step, Touch, LockRow, Append, LockHead, Insert, UpdateHead, Rollback, Deadlock, Retry
  <2> QED BY <2>2 DEF Commit
<1>2. ChainOK(log, head) /\ ChainOK(log', head')
  BY DEF IInv, Chains
<1>3. log \subseteq log' /\ \A e \in log' \ log : e.by = w
  BY <1>1 DEF IInv, TypeOK
<1>4. \A e \in log' \ log, f \in log : f.seq < e.seq
  BY <1>2, <1>3, NewStandBehind
<1>5. Log!Chained(log')
  BY <1>2, ChainIsChained
<1> QED BY <1>3, <1>4, <1>5 DEF Log!Next, Log!Append

\* For any number of writers and rows, whatever they retry and roll back, the
\* table is a log that grows by whole transactions, each in one piece at its end.
THEOREM ChainImplementsLog == Spec => ImplementsLog
<1>1. Init => Log!Init
  BY DEF Init, Log!Init
<1> QED BY <1>1, InvHolds, StepsRefine, PTL DEF Spec, ImplementsLog, Log!Spec
=============================================================================
