-------------------------- MODULE LeaseQueueProofs --------------------------
(***************************************************************************)
(* Proofs about LeaseQueue for every set of jobs, workers, operators and   *)
(* tokens and every bound.  The invariant IInv says how the rows, the      *)
(* workers' copies of them and the row locks belong together; it is        *)
(* inductive, and the properties follow from it.                           *)
(***************************************************************************)
EXTENDS LeaseQueue, TLAPS

\* A worker past its claim knows a job and a token, before it knows no token.
HasToken == WorkerPc \ {"poll", "claiming"}
LocalsOK ==
  \A w \in Workers :
    /\ pc[w] # "poll" => job[w] \in Jobs
    /\ pc[w] \in HasToken <=> token[w] \in Tokens
    /\ pc[w] \notin HasToken => token[w] = None
    /\ pc[w] = "failing" => error[w] \in ErrorKind

AdminLocalsOK == \A a \in Admins : apc[a] # "idle" => ajob[a] \in Jobs

\* Exactly the processing rows carry a token.
TokenIffProcessing == \A j \in Jobs : status[j] = "processing" <=> leaseToken[j] \in Tokens

\* No two workers know the same token, no two rows carry the same, and a
\* worker that knows the token of a row works on that job.
WorkerTokensDiffer ==
  \A v, w \in Workers : token[v] \in Tokens /\ token[v] = token[w] => v = w
RowTokensDiffer ==
  \A i, j \in Jobs : leaseToken[i] \in Tokens /\ leaseToken[i] = leaseToken[j] => i = j
TokenMeansJob ==
  \A w \in Workers, j \in Jobs :
    token[w] \in Tokens /\ leaseToken[j] = token[w] => job[w] = j

\* While a worker holds the lease, its claimed copy of attempts is the row's.
HoldsCopy == {"running", "committing", "committed", "completing", "failing"}
CopyIsCurrent ==
  \A w \in Workers :
    pc[w] \in HoldsCopy /\ leaseToken[job[w]] = token[w]
      => tries[w] = attempts[job[w]]

\* A locked row is locked by the worker that commits on it, under its lease.
LocksOK ==
  /\ \A j \in Jobs, w \in Workers :
       rowLock[j] = w => pc[w] = "committing" /\ job[w] = j
  /\ \A w \in Workers :
       pc[w] = "committing" => rowLock[job[w]] = w /\ leaseToken[job[w]] = token[w]

IInv ==
  /\ RowsTypeOK
  /\ WorkersTypeOK
  /\ AdminsTypeOK
  /\ LocalsOK
  /\ AdminLocalsOK
  /\ TokenIffProcessing
  /\ WorkerTokensDiffer
  /\ RowTokensDiffer
  /\ TokenMeansJob
  /\ CopyIsCurrent
  /\ LocksOK
  /\ DeadIsDeserved

\* The end of a turn keeps the types of the locals.
LEMMA EndTurnTypeOK ==
  ASSUME WorkersTypeOK, NEW w \in Workers, EndTurn(w), UNCHANGED beat
  PROVE  WorkersTypeOK'
BY DEF WorkersTypeOK, EndTurn, WorkerPc

\* So does a move to another label.
LEMMA GotoTypeOK ==
  ASSUME WorkersTypeOK, NEW w \in Workers, NEW label \in WorkerPc, Goto(w, label),
         error' \in [Workers -> ErrorKind \cup {None}], UNCHANGED beat
  PROVE  WorkersTypeOK'
BY DEF WorkersTypeOK, Goto

\* A new row is pending and has no token.
LEMMA EnqueueStep ==
  ASSUME IInv, NEW j \in Jobs, Enqueue(j)
  PROVE  IInv'
<1> USE DEF IInv, Enqueue, workerVars, adminVars
<1>1. RowsTypeOK'
  BY DEF RowsTypeOK, Status
<1>2. TokenIffProcessing'
  BY DEF TokenIffProcessing
<1>3. CopyIsCurrent'
  BY DEF CopyIsCurrent, LocalsOK, TokenIffProcessing, HasToken, HoldsCopy,
     WorkerPc
<1>4. DeadIsDeserved'
  BY DEF DeadIsDeserved
<1>5. /\ WorkersTypeOK' /\ AdminsTypeOK' /\ LocalsOK' /\ AdminLocalsOK'
      /\ WorkerTokensDiffer' /\ RowTokensDiffer' /\ TokenMeansJob'
      /\ LocksOK'
  BY DEF WorkersTypeOK, AdminsTypeOK, LocalsOK, AdminLocalsOK,
     WorkerTokensDiffer, RowTokensDiffer, TokenMeansJob, LocksOK
<1>6. QED BY <1>1, <1>2, <1>3, <1>4, <1>5

\* The clock makes a job due or a lease expire.
LEMMA ElapseStep ==
  ASSUME IInv, NEW j \in Jobs, Elapse(j)
  PROVE  IInv'
<1> USE DEF IInv, Elapse, workerVars, adminVars
<1>1. RowsTypeOK'
  BY DEF RowsTypeOK
<1>2. AdminsTypeOK'
  BY DEF AdminsTypeOK
<1>3. /\ WorkersTypeOK' /\ LocalsOK' /\ AdminLocalsOK' /\ TokenIffProcessing'
      /\ WorkerTokensDiffer' /\ RowTokensDiffer' /\ TokenMeansJob'
      /\ CopyIsCurrent' /\ LocksOK' /\ DeadIsDeserved'
  BY DEF WorkersTypeOK, LocalsOK, AdminLocalsOK, TokenIffProcessing,
     WorkerTokensDiffer, RowTokensDiffer, TokenMeansJob, CopyIsCurrent,
     LocksOK, DeadIsDeserved
<1>4. QED BY <1>1, <1>2, <1>3

\* The select holds no token yet.
LEMMA SelectCandidateStep ==
  ASSUME IInv, NEW w \in Workers, NEW j \in Jobs, SelectCandidate(w, j)
  PROVE  IInv'
<1> USE DEF IInv, SelectCandidate, rowVars, adminVars
<1>1. WorkersTypeOK'
  BY DEF WorkersTypeOK, WorkerPc
<1>2. LocalsOK'
  BY DEF LocalsOK, WorkersTypeOK, HasToken
<1>3. TokenMeansJob'
  BY DEF TokenMeansJob, LocalsOK, HasToken
<1>4. CopyIsCurrent'
  BY DEF CopyIsCurrent, HoldsCopy
<1>5. LocksOK'
  BY DEF LocksOK
<1>6. /\ RowsTypeOK' /\ AdminsTypeOK' /\ AdminLocalsOK'
      /\ TokenIffProcessing' /\ WorkerTokensDiffer' /\ RowTokensDiffer'
      /\ DeadIsDeserved'
  BY DEF RowsTypeOK, AdminsTypeOK, AdminLocalsOK, TokenIffProcessing,
     WorkerTokensDiffer, RowTokensDiffer, DeadIsDeserved
<1>7. QED BY <1>1, <1>2, <1>3, <1>4, <1>5, <1>6

\* The claim writes a token nobody has and locks out the last holder.
LEMMA ClaimUpdateStep ==
  ASSUME IInv, NEW w \in Workers, ClaimUpdate(w)
  PROVE  IInv'
<1> USE DEF IInv, ClaimUpdate, rowVars, adminVars
<1>1. RowsTypeOK'
  <2>1. CASE Claimable(job[w])
    <3>1. PICK t \in Tokens :
            /\ status' = [status EXCEPT ![job[w]] = "processing"]
            /\ attempts' = [attempts EXCEPT ![job[w]] = @ + 1]
            /\ leaseToken' = [leaseToken EXCEPT ![job[w]] = t]
            /\ due' = [due EXCEPT ![job[w]] = FALSE]
            /\ lastError' = [lastError EXCEPT ![job[w]] = None]
            /\ rowLock' = rowLock
      BY <2>1
    <3> QED BY <3>1 DEF RowsTypeOK, Status, LocalsOK
  <2>2. CASE ~Claimable(job[w])
    BY <2>2 DEF RowsTypeOK
  <2> QED BY <2>1, <2>2
<1>2. WorkersTypeOK'
  <2>1. CASE Claimable(job[w])
    BY <2>1 DEF WorkersTypeOK, WorkerPc
  <2>2. CASE ~Claimable(job[w])
    BY <2>2, EndTurnTypeOK
  <2> QED BY <2>1, <2>2
<1>3. LocalsOK'
  BY DEF LocalsOK, WorkersTypeOK, HasToken, WorkerPc, EndTurn
<1>4. TokenIffProcessing'
  BY DEF TokenIffProcessing, RowsTypeOK
<1>5. WorkerTokensDiffer'
  BY ConstantsAssumption DEF WorkerTokensDiffer, WorkersTypeOK, EndTurn, InUse
<1>6. RowTokensDiffer'
  BY DEF RowTokensDiffer, RowsTypeOK, InUse
<1>7. TokenMeansJob'
  BY ConstantsAssumption DEF TokenMeansJob, RowsTypeOK, WorkersTypeOK,
     EndTurn, InUse
<1>8. CopyIsCurrent'
  BY DEF CopyIsCurrent, RowsTypeOK, WorkersTypeOK, LocalsOK, HoldsCopy,
     EndTurn, InUse
<1>9. LocksOK'
  BY ConstantsAssumption DEF LocksOK, RowsTypeOK, WorkersTypeOK, LocalsOK,
     EndTurn
<1>10. DeadIsDeserved'
  BY DEF DeadIsDeserved, RowsTypeOK
<1>11. AdminsTypeOK' /\ AdminLocalsOK'
  BY DEF AdminsTypeOK, AdminLocalsOK
<1>12. QED BY <1>1, <1>2, <1>3, <1>4, <1>5, <1>6, <1>7, <1>8, <1>9, <1>10, <1>11

\* The copy that is read back is the row: the token is still ours.
LEMMA ClaimReadBackStep ==
  ASSUME IInv, NEW w \in Workers, ClaimReadBack(w)
  PROVE  IInv'
<1> USE DEF IInv, ClaimReadBack, rowVars, adminVars
<1>1. WorkersTypeOK'
  <2>1. CASE leaseToken[job[w]] = token[w]
    BY <2>1 DEF WorkersTypeOK, WorkerPc, ErrorKind, RowsTypeOK, LocalsOK
  <2>2. CASE leaseToken[job[w]] # token[w]
    BY <2>2, EndTurnTypeOK
  <2> QED BY <2>1, <2>2
<1>2. LocalsOK'
  BY ConstantsAssumption DEF LocalsOK, WorkersTypeOK, HasToken, WorkerPc,
     ErrorKind, EndTurn
<1>3. WorkerTokensDiffer'
  BY ConstantsAssumption DEF WorkerTokensDiffer, WorkersTypeOK, EndTurn
<1>4. TokenMeansJob'
  BY ConstantsAssumption DEF TokenMeansJob, WorkersTypeOK, EndTurn
<1>5. CopyIsCurrent'
  BY DEF CopyIsCurrent, WorkersTypeOK, HoldsCopy, EndTurn
<1>6. LocksOK'
  BY DEF LocksOK, WorkersTypeOK, EndTurn
<1>7. /\ RowsTypeOK' /\ AdminsTypeOK' /\ AdminLocalsOK'
      /\ TokenIffProcessing' /\ RowTokensDiffer' /\ DeadIsDeserved'
  BY DEF RowsTypeOK, AdminsTypeOK, AdminLocalsOK, TokenIffProcessing,
     RowTokensDiffer, DeadIsDeserved
<1>8. QED BY <1>1, <1>2, <1>3, <1>4, <1>5, <1>6, <1>7

\* A beat carries the token of the claim it was sent for.
LEMMA SendBeatStep ==
  ASSUME IInv, NEW w \in Workers, SendBeat(w)
  PROVE  IInv'
<1> USE DEF IInv, SendBeat, rowVars, workerVars, adminVars
<1>1. WorkersTypeOK'
  BY DEF WorkersTypeOK, LocalsOK, HasToken
<1>2. /\ RowsTypeOK' /\ AdminsTypeOK' /\ LocalsOK' /\ AdminLocalsOK'
      /\ TokenIffProcessing' /\ WorkerTokensDiffer' /\ RowTokensDiffer'
      /\ TokenMeansJob' /\ CopyIsCurrent' /\ LocksOK' /\ DeadIsDeserved'
  BY DEF RowsTypeOK, AdminsTypeOK, LocalsOK, AdminLocalsOK,
     TokenIffProcessing, WorkerTokensDiffer, RowTokensDiffer, TokenMeansJob,
     CopyIsCurrent, LocksOK, DeadIsDeserved
<1>3. QED BY <1>1, <1>2

\* It extends a lease, or finds it gone.
LEMMA BeatStep ==
  ASSUME IInv, NEW w \in Workers, Beat(w)
  PROVE  IInv'
<1> USE DEF IInv, Beat, adminVars
<1>1. RowsTypeOK'
  BY DEF RowsTypeOK
<1>2. WorkersTypeOK'
  BY DEF WorkersTypeOK
<1>3. /\ AdminsTypeOK' /\ LocalsOK' /\ AdminLocalsOK' /\ TokenIffProcessing'
      /\ WorkerTokensDiffer' /\ RowTokensDiffer' /\ TokenMeansJob'
      /\ CopyIsCurrent' /\ LocksOK' /\ DeadIsDeserved'
  BY DEF AdminsTypeOK, LocalsOK, AdminLocalsOK, TokenIffProcessing,
     WorkerTokensDiffer, RowTokensDiffer, TokenMeansJob, CopyIsCurrent,
     LocksOK, DeadIsDeserved
<1>4. QED BY <1>1, <1>2, <1>3

\* It fails and changes no row.
LEMMA BeatFailsStep ==
  ASSUME IInv, NEW w \in Workers, BeatFails(w)
  PROVE  IInv'
<1> USE DEF IInv, BeatFails, rowVars, workerVars, adminVars
<1>1. WorkersTypeOK'
  BY DEF WorkersTypeOK
<1>2. /\ RowsTypeOK' /\ AdminsTypeOK' /\ LocalsOK' /\ AdminLocalsOK'
      /\ TokenIffProcessing' /\ WorkerTokensDiffer' /\ RowTokensDiffer'
      /\ TokenMeansJob' /\ CopyIsCurrent' /\ LocksOK' /\ DeadIsDeserved'
  BY DEF RowsTypeOK, AdminsTypeOK, LocalsOK, AdminLocalsOK,
     TokenIffProcessing, WorkerTokensDiffer, RowTokensDiffer, TokenMeansJob,
     CopyIsCurrent, LocksOK, DeadIsDeserved
<1>3. QED BY <1>1, <1>2

\* lockLease locks the row of the holder.
LEMMA LockLeaseStep ==
  ASSUME IInv, NEW w \in Workers, LockLease(w)
  PROVE  IInv'
<1> USE DEF IInv, LockLease, rowVars, adminVars
<1>1. RowsTypeOK'
  BY DEF RowsTypeOK
<1>2. WorkersTypeOK'
  BY DEF WorkersTypeOK, WorkerPc, Goto
<1>3. LocalsOK'
  BY DEF LocalsOK, HasToken, WorkerPc, Goto
<1>4. CopyIsCurrent'
  BY DEF CopyIsCurrent, HoldsCopy, Goto
<1>5. LocksOK'
  BY ConstantsAssumption DEF LocksOK, RowsTypeOK, WorkersTypeOK, LocalsOK,
     Goto, Holds
<1>6. /\ AdminsTypeOK' /\ AdminLocalsOK' /\ TokenIffProcessing'
      /\ WorkerTokensDiffer' /\ RowTokensDiffer' /\ TokenMeansJob'
      /\ DeadIsDeserved'
  BY DEF AdminsTypeOK, AdminLocalsOK, TokenIffProcessing,
     WorkerTokensDiffer, RowTokensDiffer, TokenMeansJob, DeadIsDeserved,
     Goto
<1>7. QED BY <1>1, <1>2, <1>3, <1>4, <1>5, <1>6

\* The commit releases it.
LEMMA CommitEffectStep ==
  ASSUME IInv, NEW w \in Workers, CommitEffect(w)
  PROVE  IInv'
<1> USE DEF IInv, CommitEffect, rowVars, adminVars
<1>1. RowsTypeOK'
  BY DEF RowsTypeOK
<1>2. WorkersTypeOK'
  BY DEF WorkersTypeOK, WorkerPc, Goto
<1>3. LocalsOK'
  BY DEF LocalsOK, HasToken, WorkerPc, Goto
<1>4. CopyIsCurrent'
  BY DEF CopyIsCurrent, HoldsCopy, Goto
<1>5. LocksOK'
  BY ConstantsAssumption DEF LocksOK, RowsTypeOK, WorkersTypeOK, Goto
<1>6. /\ AdminsTypeOK' /\ AdminLocalsOK' /\ TokenIffProcessing'
      /\ WorkerTokensDiffer' /\ RowTokensDiffer' /\ TokenMeansJob'
      /\ DeadIsDeserved'
  BY DEF AdminsTypeOK, AdminLocalsOK, TokenIffProcessing,
     WorkerTokensDiffer, RowTokensDiffer, TokenMeansJob, DeadIsDeserved,
     Goto
<1>7. QED BY <1>1, <1>2, <1>3, <1>4, <1>5, <1>6

\* The handler returns: only the label changes.
LEMMA HandlerReturnsStep ==
  ASSUME IInv, NEW w \in Workers, HandlerReturns(w)
  PROVE  IInv'
<1> USE DEF IInv, HandlerReturns, rowVars, adminVars
<1>1. WorkersTypeOK'
  <2>1. CASE lost[w]
    BY <2>1, EndTurnTypeOK
  <2>2. CASE ~lost[w]
    BY <2>2, GotoTypeOK DEF WorkersTypeOK, WorkerPc
  <2> QED BY <2>1, <2>2
<1>2. LocalsOK'
  BY ConstantsAssumption DEF LocalsOK, WorkersTypeOK, HasToken, WorkerPc,
     Goto, EndTurn
<1>3. WorkerTokensDiffer'
  BY ConstantsAssumption DEF WorkerTokensDiffer, WorkersTypeOK, Goto, EndTurn
<1>4. TokenMeansJob'
  BY ConstantsAssumption DEF TokenMeansJob, WorkersTypeOK, Goto, EndTurn
<1>5. CopyIsCurrent'
  BY DEF CopyIsCurrent, WorkersTypeOK, HoldsCopy, Goto, EndTurn
<1>6. LocksOK'
  BY DEF LocksOK, WorkersTypeOK, Goto, EndTurn
<1>7. /\ RowsTypeOK' /\ AdminsTypeOK' /\ AdminLocalsOK'
      /\ TokenIffProcessing' /\ RowTokensDiffer' /\ DeadIsDeserved'
  BY DEF RowsTypeOK, AdminsTypeOK, AdminLocalsOK, TokenIffProcessing,
     RowTokensDiffer, DeadIsDeserved
<1>8. QED BY <1>1, <1>2, <1>3, <1>4, <1>5, <1>6, <1>7

\* The handler throws: the kind of error is kept for fail.
LEMMA HandlerThrowsStep ==
  ASSUME IInv, NEW w \in Workers, NEW kind \in {"retryable", "nonRetryable"}, HandlerThrows(w, kind)
  PROVE  IInv'
<1> USE DEF IInv, HandlerThrows, rowVars, adminVars
<1>1. RowsTypeOK'
  BY DEF RowsTypeOK
<1>2. WorkersTypeOK'
  <2>1. CASE lost[w]
    BY <2>1, EndTurnTypeOK
  <2>2. CASE ~lost[w]
    <3>1. error' \in [Workers -> ErrorKind \cup {None}]
      BY <2>2 DEF WorkersTypeOK, ErrorKind
    <3> QED BY <2>2, <3>1, GotoTypeOK DEF WorkerPc
  <2> QED BY <2>1, <2>2
<1>3. LocalsOK'
  BY ConstantsAssumption DEF LocalsOK, WorkersTypeOK, HasToken, WorkerPc,
     ErrorKind, Goto, EndTurn
<1>4. WorkerTokensDiffer'
  BY ConstantsAssumption DEF WorkerTokensDiffer, WorkersTypeOK, Goto, EndTurn
<1>5. TokenMeansJob'
  BY ConstantsAssumption DEF TokenMeansJob, WorkersTypeOK, Goto, EndTurn
<1>6. CopyIsCurrent'
  BY DEF CopyIsCurrent, WorkersTypeOK, HoldsCopy, Goto, EndTurn
<1>7. LocksOK'
  BY ConstantsAssumption DEF LocksOK, WorkersTypeOK, LocalsOK, Goto, EndTurn
<1>8. /\ AdminsTypeOK' /\ AdminLocalsOK' /\ TokenIffProcessing'
      /\ RowTokensDiffer' /\ DeadIsDeserved'
  BY DEF AdminsTypeOK, AdminLocalsOK, TokenIffProcessing, RowTokensDiffer,
     DeadIsDeserved
<1>9. QED BY <1>1, <1>2, <1>3, <1>4, <1>5, <1>6, <1>7, <1>8

\* complete by the holder, or by somebody whose lease is gone.
LEMMA CompleteStep ==
  ASSUME IInv, NEW w \in Workers, Complete(w)
  PROVE  IInv'
<1> USE DEF IInv, Complete, rowVars, adminVars
<1>1. RowsTypeOK'
  BY DEF RowsTypeOK, Status
<1>2. WorkersTypeOK'
  BY DEF WorkersTypeOK, WorkerPc, EndTurn
<1>3. LocalsOK'
  BY ConstantsAssumption DEF LocalsOK, WorkersTypeOK, HasToken, EndTurn
<1>4. TokenIffProcessing'
  BY ConstantsAssumption DEF TokenIffProcessing, RowsTypeOK
<1>5. WorkerTokensDiffer'
  BY ConstantsAssumption DEF WorkerTokensDiffer, EndTurn
<1>6. RowTokensDiffer'
  BY ConstantsAssumption DEF RowTokensDiffer, RowsTypeOK
<1>7. TokenMeansJob'
  BY ConstantsAssumption DEF TokenMeansJob, RowsTypeOK, WorkersTypeOK, EndTurn
<1>8. CopyIsCurrent'
  BY ConstantsAssumption DEF CopyIsCurrent, RowsTypeOK, WorkersTypeOK,
     LocalsOK, HasToken, HoldsCopy, EndTurn
<1>9. LocksOK'
  BY ConstantsAssumption DEF LocksOK, RowsTypeOK, LocalsOK, EndTurn
<1>10. DeadIsDeserved'
  BY DEF DeadIsDeserved, RowsTypeOK
<1>11. AdminsTypeOK' /\ AdminLocalsOK'
  BY DEF AdminsTypeOK, AdminLocalsOK
<1>12. QED BY <1>1, <1>2, <1>3, <1>4, <1>5, <1>6, <1>7, <1>8, <1>9, <1>10, <1>11

\* fail decides on its copy of attempts, which is the row's.
LEMMA FailStep ==
  ASSUME IInv, NEW w \in Workers, Fail(w)
  PROVE  IInv'
<1> USE DEF IInv, Fail, rowVars, adminVars
<1>1. RowsTypeOK'
  <2>1. CASE Holds(job[w], token[w])
    <3>1. error[w] \in ErrorKind /\ job[w] \in Jobs
      BY DEF LocalsOK
    <3>2. PICK s \in {"dead", "pending"} : status' = [status EXCEPT ![job[w]] = s]
      BY <2>1
    <3> QED BY <2>1, <3>1, <3>2 DEF RowsTypeOK, Status
  <2>2. CASE ~Holds(job[w], token[w])
    BY <2>2 DEF RowsTypeOK
  <2> QED BY <2>1, <2>2
<1>2. WorkersTypeOK'
  <2>1. EndTurn(w) \/ (Goto(w, "onFailure") /\ UNCHANGED error)
    OBVIOUS
  <2>2. CASE EndTurn(w)
    BY <2>2, EndTurnTypeOK
  <2>3. CASE Goto(w, "onFailure") /\ UNCHANGED error
    BY <2>3, GotoTypeOK DEF WorkersTypeOK, WorkerPc
  <2> QED BY <2>1, <2>2, <2>3
<1>3. LocalsOK'
  BY ConstantsAssumption DEF LocalsOK, WorkersTypeOK, HasToken, WorkerPc,
     EndTurn, Goto
<1>4. TokenIffProcessing'
  BY ConstantsAssumption DEF TokenIffProcessing, RowsTypeOK
<1>5. WorkerTokensDiffer'
  BY ConstantsAssumption DEF WorkerTokensDiffer, WorkersTypeOK, EndTurn, Goto
<1>6. RowTokensDiffer'
  BY ConstantsAssumption DEF RowTokensDiffer, RowsTypeOK
<1>7. TokenMeansJob'
  BY ConstantsAssumption DEF TokenMeansJob, RowsTypeOK, WorkersTypeOK,
     EndTurn, Goto
<1>8. CopyIsCurrent'
  BY ConstantsAssumption DEF CopyIsCurrent, RowsTypeOK, WorkersTypeOK,
     LocalsOK, HasToken, HoldsCopy, EndTurn, Goto
<1>9. LocksOK'
  BY ConstantsAssumption DEF LocksOK, RowsTypeOK, WorkersTypeOK, LocalsOK,
     EndTurn, Goto
<1>10. DeadIsDeserved'
  BY ConstantsAssumption DEF DeadIsDeserved, RowsTypeOK, LocalsOK,
     CopyIsCurrent, HoldsCopy, Holds, Terminal
<1>11. AdminsTypeOK' /\ AdminLocalsOK'
  BY DEF AdminsTypeOK, AdminLocalsOK
<1>12. QED BY <1>1, <1>2, <1>3, <1>4, <1>5, <1>6, <1>7, <1>8, <1>9, <1>10, <1>11

\* onFailure changes no row of the queue.
LEMMA OnFailureStep ==
  ASSUME IInv, NEW w \in Workers, OnFailure(w)
  PROVE  IInv'
<1> USE DEF IInv, OnFailure, rowVars, adminVars
<1>1. WorkersTypeOK'
  BY DEF WorkersTypeOK, WorkerPc, EndTurn
<1>2. LocalsOK'
  BY ConstantsAssumption DEF LocalsOK, WorkersTypeOK, HasToken, EndTurn
<1>3. WorkerTokensDiffer'
  BY ConstantsAssumption DEF WorkerTokensDiffer, EndTurn
<1>4. TokenMeansJob'
  BY ConstantsAssumption DEF TokenMeansJob, WorkersTypeOK, EndTurn
<1>5. CopyIsCurrent'
  BY DEF CopyIsCurrent, HoldsCopy, EndTurn
<1>6. LocksOK'
  BY DEF LocksOK, EndTurn
<1>7. /\ RowsTypeOK' /\ AdminsTypeOK' /\ AdminLocalsOK'
      /\ TokenIffProcessing' /\ RowTokensDiffer' /\ DeadIsDeserved'
  BY DEF RowsTypeOK, AdminsTypeOK, AdminLocalsOK, TokenIffProcessing,
     RowTokensDiffer, DeadIsDeserved
<1>8. QED BY <1>1, <1>2, <1>3, <1>4, <1>5, <1>6, <1>7

\* A crash releases the locks and forgets the copy, the row stays.
LEMMA CrashStep ==
  ASSUME IInv, NEW w \in Workers, Crash(w)
  PROVE  IInv'
<1> USE DEF IInv, Crash, rowVars, adminVars
<1>1. RowsTypeOK'
  BY DEF RowsTypeOK
<1>2. WorkersTypeOK'
  BY DEF WorkersTypeOK, WorkerPc, EndTurn
<1>3. AdminsTypeOK'
  BY DEF AdminsTypeOK
<1>4. LocalsOK'
  BY ConstantsAssumption DEF LocalsOK, WorkersTypeOK, HasToken, EndTurn
<1>5. WorkerTokensDiffer'
  BY ConstantsAssumption DEF WorkerTokensDiffer, EndTurn
<1>6. TokenMeansJob'
  BY ConstantsAssumption DEF TokenMeansJob, WorkersTypeOK, EndTurn
<1>7. CopyIsCurrent'
  BY DEF CopyIsCurrent, WorkersTypeOK, HoldsCopy, EndTurn
<1>8. LocksOK'
  BY ConstantsAssumption DEF LocksOK, WorkersTypeOK, LocalsOK, EndTurn
<1>9. /\ AdminLocalsOK' /\ TokenIffProcessing' /\ RowTokensDiffer'
      /\ DeadIsDeserved'
  BY DEF AdminLocalsOK, TokenIffProcessing, RowTokensDiffer, DeadIsDeserved
<1>10. QED BY <1>1, <1>2, <1>3, <1>4, <1>5, <1>6, <1>7, <1>8, <1>9

\* The operator reads.
LEMMA RequeueGetStep ==
  ASSUME IInv, NEW a \in Admins, NEW j \in Jobs, RequeueGet(a, j)
  PROVE  IInv'
<1> USE DEF IInv, RequeueGet, rowVars, workerVars
<1>1. AdminsTypeOK'
  BY DEF AdminsTypeOK, AdminPc
<1>2. AdminLocalsOK'
  BY DEF AdminLocalsOK, AdminsTypeOK
<1>3. /\ RowsTypeOK' /\ WorkersTypeOK' /\ LocalsOK' /\ TokenIffProcessing'
      /\ WorkerTokensDiffer' /\ RowTokensDiffer' /\ TokenMeansJob'
      /\ CopyIsCurrent' /\ LocksOK' /\ DeadIsDeserved'
  BY DEF RowsTypeOK, WorkersTypeOK, LocalsOK, TokenIffProcessing,
     WorkerTokensDiffer, RowTokensDiffer, TokenMeansJob, CopyIsCurrent,
     LocksOK, DeadIsDeserved
<1>4. QED BY <1>1, <1>2, <1>3

\* A dead job has no holder; it is pending again.
LEMMA RequeueUpdateStep ==
  ASSUME IInv, NEW a \in Admins, RequeueUpdate(a)
  PROVE  IInv'
<1> USE DEF IInv, RequeueUpdate, rowVars, workerVars
<1>1. RowsTypeOK'
  <2>1. CASE status[ajob[a]] = "dead"
    <3>1. ajob[a] \in Jobs
      BY DEF AdminLocalsOK
    <3>2. /\ status' = [status EXCEPT ![ajob[a]] = "pending"]
          /\ attempts' = [attempts EXCEPT ![ajob[a]] = 0]
          /\ leaseToken' = [leaseToken EXCEPT ![ajob[a]] = None]
          /\ due' = [due EXCEPT ![ajob[a]] = TRUE]
          /\ lastError' = [lastError EXCEPT ![ajob[a]] = None]
          /\ rowLock' = rowLock
      BY <2>1
    <3> QED BY <3>1, <3>2 DEF RowsTypeOK, Status
  <2>2. CASE status[ajob[a]] # "dead"
    BY <2>2 DEF RowsTypeOK
  <2> QED BY <2>1, <2>2
<1>2. AdminsTypeOK'
  BY DEF AdminsTypeOK, AdminPc, AdminLocalsOK
<1>3. AdminLocalsOK'
  BY DEF AdminLocalsOK
<1>4. TokenIffProcessing'
  BY DEF TokenIffProcessing, RowsTypeOK
<1>5. RowTokensDiffer'
  BY ConstantsAssumption DEF RowTokensDiffer, RowsTypeOK
<1>6. TokenMeansJob'
  BY ConstantsAssumption DEF TokenMeansJob, RowsTypeOK
<1>7. CopyIsCurrent'
  BY ConstantsAssumption DEF CopyIsCurrent, RowsTypeOK, LocalsOK, HasToken,
     HoldsCopy, WorkerPc
<1>8. LocksOK'
  BY DEF LocksOK, RowsTypeOK, TokenIffProcessing
<1>9. DeadIsDeserved'
  BY DEF DeadIsDeserved, RowsTypeOK
<1>10. WorkersTypeOK' /\ LocalsOK' /\ WorkerTokensDiffer'
  BY DEF WorkersTypeOK, LocalsOK, WorkerTokensDiffer
<1>11. QED BY <1>1, <1>2, <1>3, <1>4, <1>5, <1>6, <1>7, <1>8, <1>9, <1>10

\* The operator reads again and may throw.
LEMMA RequeueRereadStep ==
  ASSUME IInv, NEW a \in Admins, RequeueReread(a)
  PROVE  IInv'
<1> USE DEF IInv, RequeueReread, rowVars, workerVars
<1>1. AdminsTypeOK'
  BY DEF AdminsTypeOK, AdminPc
<1>2. AdminLocalsOK'
  BY DEF AdminLocalsOK, AdminsTypeOK
<1>3. /\ RowsTypeOK' /\ WorkersTypeOK' /\ LocalsOK' /\ TokenIffProcessing'
      /\ WorkerTokensDiffer' /\ RowTokensDiffer' /\ TokenMeansJob'
      /\ CopyIsCurrent' /\ LocksOK' /\ DeadIsDeserved'
  BY DEF RowsTypeOK, WorkersTypeOK, LocalsOK, TokenIffProcessing,
     WorkerTokensDiffer, RowTokensDiffer, TokenMeansJob, CopyIsCurrent,
     LocksOK, DeadIsDeserved
<1>4. QED BY <1>1, <1>2, <1>3

\* The audit entry changes no row of the queue.
LEMMA RequeueAuditStep ==
  ASSUME IInv, NEW a \in Admins, RequeueAudit(a)
  PROVE  IInv'
<1> USE DEF IInv, RequeueAudit, rowVars, workerVars
<1>1. AdminsTypeOK'
  BY DEF AdminsTypeOK, AdminPc
<1>2. AdminLocalsOK'
  BY DEF AdminLocalsOK, AdminsTypeOK
<1>3. /\ RowsTypeOK' /\ WorkersTypeOK' /\ LocalsOK' /\ TokenIffProcessing'
      /\ WorkerTokensDiffer' /\ RowTokensDiffer' /\ TokenMeansJob'
      /\ CopyIsCurrent' /\ LocksOK' /\ DeadIsDeserved'
  BY DEF RowsTypeOK, WorkersTypeOK, LocalsOK, TokenIffProcessing,
     WorkerTokensDiffer, RowTokensDiffer, TokenMeansJob, CopyIsCurrent,
     LocksOK, DeadIsDeserved
<1>4. QED BY <1>1, <1>2, <1>3

-----------------------------------------------------------------------------
\* The empty table satisfies the invariant.
LEMMA InitInv ==
  ASSUME Init
  PROVE  IInv
<1> USE ConstantsAssumption DEF Init
<1>1. RowsTypeOK /\ WorkersTypeOK /\ AdminsTypeOK
  BY DEF RowsTypeOK, WorkersTypeOK, AdminsTypeOK, Status, WorkerPc, AdminPc
<1>2. LocalsOK /\ AdminLocalsOK
  BY DEF LocalsOK, AdminLocalsOK, HasToken, WorkerPc
<1>3. /\ TokenIffProcessing /\ WorkerTokensDiffer /\ RowTokensDiffer
      /\ TokenMeansJob
  BY DEF TokenIffProcessing, WorkerTokensDiffer, RowTokensDiffer, TokenMeansJob
<1>4. CopyIsCurrent /\ LocksOK /\ DeadIsDeserved
  BY DEF CopyIsCurrent, HoldsCopy, LocksOK, DeadIsDeserved
<1> QED BY <1>1, <1>2, <1>3, <1>4 DEF IInv

\* Every step keeps it.
LEMMA NextInv ==
  ASSUME IInv, [Next]_vars
  PROVE  IInv'
<1>1. ASSUME NEW j \in Jobs, Enqueue(j) \/ Elapse(j)
      PROVE  IInv'
  BY <1>1, EnqueueStep, ElapseStep
<1>2. ASSUME NEW w \in Workers, Worker(w)
      PROVE  IInv'
  BY <1>2, SelectCandidateStep, ClaimUpdateStep, ClaimReadBackStep,
     LockLeaseStep,
     CommitEffectStep, HandlerReturnsStep, HandlerThrowsStep, CompleteStep, FailStep,
     OnFailureStep DEF Worker
<1>3. ASSUME NEW w \in Workers, SendBeat(w) \/ Beat(w) \/ BeatFails(w) \/ Crash(w)
      PROVE  IInv'
  BY <1>3, SendBeatStep, BeatStep, BeatFailsStep, CrashStep
<1>4. ASSUME NEW a \in Admins, Admin(a)
      PROVE  IInv'
  BY <1>4, RequeueGetStep, RequeueUpdateStep, RequeueRereadStep,
     RequeueAuditStep DEF Admin
<1>5. CASE UNCHANGED vars
  <2> USE <1>5 DEF IInv, vars, rowVars, workerVars, adminVars
  <2>1. RowsTypeOK' /\ WorkersTypeOK' /\ AdminsTypeOK'
    BY DEF RowsTypeOK, WorkersTypeOK, AdminsTypeOK
  <2>2. LocalsOK' /\ AdminLocalsOK'
    BY DEF LocalsOK, AdminLocalsOK
  <2>3. /\ TokenIffProcessing' /\ WorkerTokensDiffer' /\ RowTokensDiffer'
        /\ TokenMeansJob'
    BY DEF TokenIffProcessing, WorkerTokensDiffer, RowTokensDiffer,
       TokenMeansJob
  <2>4. CopyIsCurrent' /\ LocksOK' /\ DeadIsDeserved'
    BY DEF CopyIsCurrent, LocksOK, DeadIsDeserved
  <2> QED BY <2>1, <2>2, <2>3, <2>4
<1> QED BY <1>1, <1>2, <1>3, <1>4, <1>5 DEF Next

\* The strengthened invariant holds in every reachable state.
THEOREM InvHolds == Spec => []IInv
<1>1. Init => IInv
  BY InitInv
<1>2. IInv /\ [Next]_vars => IInv'
  BY NextInv
<1> QED BY <1>1, <1>2, PTL DEF Spec

\* Rows, worker locals and requests keep their types.
THEOREM TypeCorrect == Spec => []TypeOK
<1>1. IInv => TypeOK
  BY DEF IInv, TypeOK
<1> QED BY <1>1, InvHolds, PTL

\* A transaction that passed lockLease commits under the lease
\* (drizzle-repository.ts lockLease).
THEOREM CommitsUnderLease == Spec => []CommitUnderLease
<1>1. IInv => CommitUnderLease
  BY DEF IInv, CommitUnderLease, LocksOK, LocalsOK, TokenIffProcessing, Holds,
         HasToken, WorkerPc
<1> QED BY <1>1, InvHolds, PTL

\* A dead job has used up its attempts or met an error that cannot be retried
\* (queue.ts fail).
THEOREM DeathIsDeserved == Spec => []DeadIsDeserved
<1>1. IInv => DeadIsDeserved
  BY DEF IInv
<1> QED BY <1>1, InvHolds, PTL

\* No lease is taken over before it has expired (drizzle-repository.ts claim).
THEOREM NoLeaseStolen == Spec => NoLeaseIsStolen
<1>1. IInv /\ [Next]_vars => [OnlyExpiredLeasesChange]_vars
  <2> SUFFICES ASSUME IInv, Next, NEW j \in Jobs,
                      leaseToken[j] # None, leaseToken'[j] \notin {leaseToken[j], None}
               PROVE  due[j]
    BY DEF OnlyExpiredLeasesChange
  <2> USE DEF IInv, RowsTypeOK, WorkersTypeOK, LocalsOK, AdminLocalsOK
  <2>1. ASSUME NEW i \in Jobs, Enqueue(i) \/ Elapse(i)
        PROVE  FALSE
    BY <2>1 DEF Enqueue, Elapse
  <2>2. ASSUME NEW w \in Workers, Worker(w)
        PROVE  due[j]
    <3>1. CASE ClaimUpdate(w)
      BY <3>1 DEF ClaimUpdate, Claimable, rowVars
    <3>2. CASE Complete(w) \/ Fail(w)
      BY <3>2 DEF Complete, Fail, rowVars
    <3>3. CASE ~(ClaimUpdate(w) \/ Complete(w) \/ Fail(w))
      BY <2>2, <3>3 DEF Worker, SelectCandidate, ClaimReadBack,
         LockLease, CommitEffect,
           HandlerReturns, HandlerThrows, OnFailure, rowVars
    <3> QED BY <3>1, <3>2, <3>3
  <2>3. ASSUME NEW w \in Workers, SendBeat(w) \/ Beat(w) \/ BeatFails(w) \/ Crash(w)
        PROVE  FALSE
    BY <2>3 DEF SendBeat, Beat, BeatFails, Crash, rowVars
  <2>4. ASSUME NEW a \in Admins, Admin(a)
        PROVE  FALSE
    BY <2>4 DEF Admin, RequeueGet, RequeueUpdate, RequeueReread,
       RequeueAudit, rowVars
  <2> QED BY <2>1, <2>2, <2>3, <2>4 DEF Next
<1> QED BY <1>1, InvHolds, PTL DEF Spec, NoLeaseIsStolen

\* Only the worker that holds the lease of a job ends its run (drizzle-repository.ts
\* complete and fail, guarded by the token; requeue, guarded by the status).
THEOREM HolderDecides == Spec => OnlyHolderDecides
<1>1. IInv /\ [Next]_vars => [DecidedByHolder]_vars
  <2> SUFFICES ASSUME IInv, Next, NEW j \in Jobs,
                      status[j] = "processing", status'[j] # "processing"
               PROVE  \E w \in Workers : /\ pc[w] \in {"completing", "failing"}
                                         /\ job[w] = j
                                         /\ token[w] = leaseToken[j]
    BY DEF DecidedByHolder
  <2> USE DEF IInv, RowsTypeOK, WorkersTypeOK, LocalsOK, AdminLocalsOK
  <2>1. ASSUME NEW i \in Jobs, Enqueue(i) \/ Elapse(i)
        PROVE  FALSE
    BY <2>1 DEF Enqueue, Elapse
  <2>2. ASSUME NEW w \in Workers, Worker(w)
        PROVE  /\ pc[w] \in {"completing", "failing"}
               /\ job[w] = j
               /\ token[w] = leaseToken[j]
    <3>1. CASE ClaimUpdate(w)
      BY <3>1 DEF ClaimUpdate, rowVars
    <3>2. CASE Complete(w) \/ Fail(w)
      BY <3>2 DEF Complete, Fail, Holds, rowVars
    <3>3. CASE ~(ClaimUpdate(w) \/ Complete(w) \/ Fail(w))
      BY <2>2, <3>3 DEF Worker, SelectCandidate, ClaimReadBack,
         LockLease, CommitEffect,
           HandlerReturns, HandlerThrows, OnFailure, rowVars
    <3> QED BY <3>1, <3>2, <3>3
  <2>3. ASSUME NEW w \in Workers, SendBeat(w) \/ Beat(w) \/ BeatFails(w) \/ Crash(w)
        PROVE  FALSE
    BY <2>3 DEF SendBeat, Beat, BeatFails, Crash, rowVars
  <2>4. ASSUME NEW a \in Admins, Admin(a)
        PROVE  FALSE
    BY <2>4 DEF Admin, RequeueGet, RequeueUpdate, RequeueReread,
       RequeueAudit, rowVars
  <2> QED BY <2>1, <2>2, <2>3, <2>4 DEF Next
<1> QED BY <1>1, InvHolds, PTL DEF Spec, OnlyHolderDecides

-----------------------------------------------------------------------------
(* LeaseQueue implements JobLifecycle.  The holder of a job is the worker  *)
(* whose local token is the token of the row; the invariant IInv makes     *)
(* that worker unique, and a token that no row carries any more holds      *)
(* nothing.                                                                *)


Knows(w, j) == token[w] \in Tokens /\ token[w] = leaseToken[j]

\* The refinement mapping, as the steps below use it.
HolderKnows ==
  /\ LifeHolder \in [Jobs -> Workers \cup {None}]
  /\ \A j \in Jobs, w \in Workers : LifeHolder[j] = w <=> Knows(w, j)

\* Whose token is stored works on the job or has just claimed it.
LEMMA HolderLemma == IInv => HolderKnows
<1> SUFFICES ASSUME IInv PROVE HolderKnows
  OBVIOUS
<1> USE ConstantsAssumption DEF IInv, RowsTypeOK, WorkersTypeOK
<1>1. ASSUME NEW j \in Jobs
      PROVE  /\ HolderOf(j) \in Workers \cup {None}
             /\ \A w \in Workers : HolderOf(j) = w <=> Knows(w, j)
  <2>1. CASE HeldByAWorker(j)
    <3>1. PICK v \in Workers : token[v] = leaseToken[j]
      BY <2>1 DEF HeldByAWorker
    <3>2. /\ HolderOf(j) \in Workers
          /\ token[HolderOf(j)] = leaseToken[j]
      BY <2>1, <3>1 DEF HolderOf
    <3>3. leaseToken[j] \in Tokens
      BY <2>1 DEF HeldByAWorker
    <3> QED BY <3>2, <3>3 DEF Knows, WorkerTokensDiffer
  <2>2. CASE ~HeldByAWorker(j)
    BY <2>2 DEF HolderOf, HeldByAWorker, Knows
  <2> QED BY <2>1, <2>2
<1> QED BY <1>1 DEF HolderKnows, LifeHolder

\* A step that changes nothing the life cycle looks at.
LEMMA NothingHappens ==
  ASSUME UNCHANGED <<status, leaseToken, due, token>>
  PROVE  [Lifecycle!Next]_Lifecycle!vars
<1>1. LifePhase' = LifePhase
  BY DEF LifePhase, PhaseOf
<1>2. LifeHolder' = LifeHolder
  BY DEF LifeHolder, HolderOf, HeldByAWorker
<1> QED BY <1>1, <1>2 DEF Lifecycle!vars

\* A worker that forgets its token: it orphans the job it held, if any.
LEMMA HolderGone ==
  ASSUME IInv, HolderKnows, HolderKnows', NEW w \in Workers,
         token' = [token EXCEPT ![w] = None], UNCHANGED <<status, leaseToken, due>>
  PROVE  [Lifecycle!Next]_Lifecycle!vars
<1> USE ConstantsAssumption DEF HolderKnows, Knows, IInv, RowsTypeOK, WorkersTypeOK
<1>1. LifePhase' = LifePhase
  BY DEF LifePhase, PhaseOf
<1>2. \A j \in Jobs, v \in Workers : Knows(v, j)' <=> v # w /\ Knows(v, j)
  OBVIOUS
<1>3. CASE \E j \in Jobs : Knows(w, j)
  <2>1. PICK j \in Jobs : Knows(w, j)
    BY <1>3
  <2>2. LifeHolder[j] = w
    BY <2>1
  <2>3. \A i \in Jobs \ {j} : LifeHolder'[i] = LifeHolder[i]
    BY <1>2, <2>1 DEF RowTokensDiffer
  <2>4. LifeHolder'[j] = None
    BY <1>2, <2>1, <2>2
  <2>5. LifeHolder' = [LifeHolder EXCEPT ![j] = None]
    BY <2>3, <2>4
  <2>6. Lifecycle!Orphan(j)
    BY <1>1, <2>2, <2>5 DEF Lifecycle!Orphan
  <2> QED BY <2>6 DEF Lifecycle!Next
<1>4. CASE ~ \E j \in Jobs : Knows(w, j)
  <2>1. \A i \in Jobs : LifeHolder'[i] = LifeHolder[i]
    BY <1>2, <1>4
  <2>2. LifeHolder' = LifeHolder
    BY <2>1
  <2> QED BY <1>1, <2>2 DEF Lifecycle!vars
<1> QED BY <1>3, <1>4

\* The phase of a job as LeaseQueue stores it.
LEMMA PhaseChanges ==
  ASSUME IInv, NEW j \in Jobs, NEW s \in Status, status' = [status EXCEPT ![j] = s]
  PROVE  LifePhase' = [LifePhase EXCEPT ![j] = PhaseOf[s]]
BY DEF LifePhase, IInv, RowsTypeOK

\* enqueue is the Submit of the life cycle.
LEMMA EnqueueRefines ==
  ASSUME IInv, NEW j \in Jobs, Enqueue(j)
  PROVE  [Lifecycle!Next]_Lifecycle!vars
<1>1. LifeHolder' = LifeHolder
  BY DEF Enqueue, workerVars, LifeHolder, HolderOf, HeldByAWorker
<1>2. /\ LifePhase[j] = "absent"
      /\ LifePhase' = [LifePhase EXCEPT ![j] = "waiting"]
  <2>1. LifePhase[j] = "absent"
    BY DEF Enqueue, LifePhase, PhaseOf
  <2>2. LifePhase' = [LifePhase EXCEPT ![j] = PhaseOf["pending"]]
    BY PhaseChanges DEF Enqueue, Status
  <2> QED BY <2>1, <2>2 DEF PhaseOf
<1>3. Lifecycle!Submit(j)
  BY <1>1, <1>2 DEF Enqueue, Lifecycle!Submit
<1> QED BY <1>3 DEF Lifecycle!Next

\* Time alone decides nothing.
LEMMA ElapseRefines ==
  ASSUME IInv, NEW j \in Jobs, Elapse(j)
  PROVE  [Lifecycle!Next]_Lifecycle!vars
<1>1. LifeHolder' = LifeHolder
  BY DEF Elapse, workerVars, LifeHolder, HolderOf, HeldByAWorker
<1>2. /\ LifePhase[j] \in {"waiting", "leased"}
      /\ LifePhase' = LifePhase
  BY DEF Elapse, LifePhase, PhaseOf
<1>3. Lifecycle!Ripen(j)
  BY <1>1, <1>2 DEF Elapse, Lifecycle!Ripen
<1> QED BY <1>3 DEF Lifecycle!Next

\* A claim that finds its row still claimable is a grant: its token is new, so
\* whoever held the job before holds it no more.
LEMMA ClaimRefines ==
  ASSUME IInv, HolderKnows, HolderKnows', NEW w \in Workers, ClaimUpdate(w)
  PROVE  [Lifecycle!Next]_Lifecycle!vars
<1> DEFINE j == job[w]
<1>1. j \in Jobs /\ token[w] = None
  BY DEF ClaimUpdate, IInv, LocalsOK, HasToken
<1>2. CASE Claimable(j)
  <2>1. PICK t \in Tokens \ InUse :
          /\ status' = [status EXCEPT ![j] = "processing"]
          /\ leaseToken' = [leaseToken EXCEPT ![j] = t]
          /\ due' = [due EXCEPT ![j] = FALSE]
          /\ token' = [token EXCEPT ![w] = t]
    BY <1>2 DEF ClaimUpdate
  <2>2. /\ LifePhase[j] \in {"waiting", "leased"}
        /\ due[j]
        /\ LifePhase' = [LifePhase EXCEPT ![j] = "leased"]
    BY <1>1, <1>2, <2>1 DEF Claimable, LifePhase, PhaseOf, IInv, RowsTypeOK
  <2>3. \A i \in Jobs : LifeHolder[i] # w
    BY <1>1, ConstantsAssumption DEF HolderKnows, Knows
  <2>4. \A i \in Jobs, v \in Workers :
          Knows(v, i)' <=> IF i = j THEN v = w ELSE Knows(v, i)
    BY <1>1, <2>1, ConstantsAssumption DEF Knows, InUse, IInv, RowsTypeOK, WorkersTypeOK
  <2>5. LifeHolder'[j] = w
    BY <1>1, <2>4 DEF HolderKnows
  <2>6. \A i \in Jobs \ {j} : LifeHolder'[i] = LifeHolder[i]
    BY <2>4 DEF HolderKnows
  <2>7. LifeHolder' = [LifeHolder EXCEPT ![j] = w]
    BY <2>5, <2>6 DEF HolderKnows
  <2>8. Lifecycle!Grant(w, j)
    BY <2>1, <2>2, <2>3, <2>7 DEF Lifecycle!Grant
  <2> QED BY <1>1, <2>8 DEF Lifecycle!Next
<1>3. CASE ~Claimable(j)
  <2>1. token' = [token EXCEPT ![w] = None] /\ UNCHANGED <<status, leaseToken, due>>
    BY <1>3 DEF ClaimUpdate, EndTurn, rowVars
  <2> QED BY <2>1, HolderGone
<1> QED BY <1>2, <1>3

\* A beat is a stutter, whoever sends it.
LEMMA BeatRefines ==
  ASSUME IInv, NEW w \in Workers, Beat(w)
  PROVE  [Lifecycle!Next]_Lifecycle!vars
<1> DEFINE j == beat[w][1]
           t == beat[w][2]
<1>1. j \in Jobs
  BY DEF Beat, IInv, WorkersTypeOK
<1>2. CASE Holds(j, t) /\ due[j]
  <2>1. LifeHolder' = LifeHolder
    BY DEF Beat, LifeHolder, HolderOf, HeldByAWorker
  <2>2. LifePhase[j] = "leased" /\ LifePhase' = LifePhase
    BY <1>1, <1>2 DEF Beat, Holds, LifePhase, PhaseOf
  <2>3. Lifecycle!Renew(j)
    BY <1>2, <2>1, <2>2 DEF Beat, Lifecycle!Renew
  <2> QED BY <1>1, <2>3 DEF Lifecycle!Next
<1>3. CASE ~(Holds(j, t) /\ due[j])
  <2>1. UNCHANGED <<status, leaseToken, due, token>>
    BY <1>1, <1>3 DEF Beat, IInv, RowsTypeOK
  <2> QED BY <2>1, NothingHappens
<1> QED BY <1>2, <1>3

\* complete and fail, where the guard on the token matches: the holder's verdict.
LEMMA VerdictRefines ==
  ASSUME IInv, HolderKnows, HolderKnows', NEW w \in Workers, token[w] \in Tokens,
         NEW j \in Jobs, Holds(j, token[w]),
         NEW s \in {"completed", "dead", "pending"}, status' = [status EXCEPT ![j] = s],
         leaseToken' = [leaseToken EXCEPT ![j] = None],
         due' = [due EXCEPT ![j] = FALSE],
         token' = token \/ token' = [token EXCEPT ![w] = None]
  PROVE  [Lifecycle!Next]_Lifecycle!vars
<1>1. LifePhase[j] = "leased" /\ LifeHolder[j] = w
  BY DEF Holds, LifePhase, PhaseOf, HolderKnows, Knows
<1>2. \A i \in Jobs, v \in Workers : Knows(v, i)' <=> i # j /\ Knows(v, i)
  BY ConstantsAssumption DEF Knows, Holds, IInv, RowsTypeOK, WorkersTypeOK, RowTokensDiffer
<1>3. LifeHolder'[j] = None
  BY <1>2 DEF HolderKnows
<1>4. \A i \in Jobs \ {j} : LifeHolder'[i] = LifeHolder[i]
  BY <1>2 DEF HolderKnows
<1>5. LifeHolder' = [LifeHolder EXCEPT ![j] = None]
  BY <1>3, <1>4 DEF HolderKnows
<1>6. \E p \in {"done", "waiting", "buried"} : LifePhase' = [LifePhase EXCEPT ![j] = p]
  BY PhaseChanges DEF PhaseOf, Status
<1>7. Lifecycle!Verdict(w, j)
  BY <1>1, <1>5, <1>6 DEF Lifecycle!Verdict
<1> QED BY <1>7 DEF Lifecycle!Next

\* complete settles the job for its holder and is a stutter for anybody else.
LEMMA CompleteRefines ==
  ASSUME IInv, HolderKnows, HolderKnows', NEW w \in Workers, Complete(w)
  PROVE  [Lifecycle!Next]_Lifecycle!vars
<1>1. job[w] \in Jobs /\ token[w] \in Tokens
  BY DEF Complete, IInv, LocalsOK, HasToken, WorkerPc
<1>2. CASE Holds(job[w], token[w])
  BY <1>1, <1>2, VerdictRefines DEF Complete, EndTurn
<1>3. CASE ~Holds(job[w], token[w])
  BY <1>3, HolderGone DEF Complete, EndTurn, rowVars
<1> QED BY <1>2, <1>3

\* fail sends it back or buries it, for its holder only.
LEMMA FailRefines ==
  ASSUME IInv, HolderKnows, HolderKnows', NEW w \in Workers, Fail(w)
  PROVE  [Lifecycle!Next]_Lifecycle!vars
<1>1. job[w] \in Jobs /\ token[w] \in Tokens
  BY DEF Fail, IInv, LocalsOK, HasToken, WorkerPc
<1>2. CASE Holds(job[w], token[w])
  <2>1. token' = token \/ token' = [token EXCEPT ![w] = None]
    BY <1>2 DEF Fail, EndTurn, Goto
  <2>2. PICK s \in {"completed", "dead", "pending"} : status' = [status EXCEPT ![job[w]] = s]
    BY <1>2 DEF Fail
  <2> QED BY <1>1, <1>2, <2>1, <2>2, VerdictRefines DEF Fail
<1>3. CASE ~Holds(job[w], token[w])
  BY <1>3, HolderGone DEF Fail, EndTurn, rowVars
<1> QED BY <1>2, <1>3

\* requeue revives a dead job.
LEMMA RequeueRefines ==
  ASSUME IInv, HolderKnows, HolderKnows', NEW a \in Admins, RequeueUpdate(a)
  PROVE  [Lifecycle!Next]_Lifecycle!vars
<1> DEFINE j == ajob[a]
<1>1. j \in Jobs
  BY DEF RequeueUpdate, IInv, AdminLocalsOK
<1>2. CASE status[j] = "dead"
  <2>1. /\ LifePhase[j] = "buried"
        /\ LifePhase' = [LifePhase EXCEPT ![j] = "waiting"]
    BY <1>1, <1>2 DEF RequeueUpdate, LifePhase, PhaseOf, IInv, RowsTypeOK
  <2>2. leaseToken[j] = None
    BY <1>1, <1>2 DEF IInv, RowsTypeOK, TokenIffProcessing
  <2>3. leaseToken' = leaseToken /\ token' = token
    <3>1. leaseToken' = [leaseToken EXCEPT ![j] = None] /\ token' = token
      BY <1>2 DEF RequeueUpdate, workerVars
    <3> QED BY <2>2, <3>1 DEF IInv, RowsTypeOK
  <2>4. LifeHolder' = LifeHolder
    BY <2>3 DEF LifeHolder, HolderOf, HeldByAWorker
  <2>5. Lifecycle!Revive(j)
    BY <1>2, <2>1, <2>4 DEF RequeueUpdate, Lifecycle!Revive
  <2> QED BY <1>1, <2>5 DEF Lifecycle!Next
<1>3. CASE status[j] # "dead"
  BY <1>3, NothingHappens DEF RequeueUpdate, rowVars, workerVars
<1> QED BY <1>2, <1>3

\* The initial states correspond.
LEMMA InitRefines ==
  ASSUME Init
  PROVE  Lifecycle!Init
<1>1. LifePhase = [j \in Jobs |-> "absent"]
  BY DEF Init, LifePhase, PhaseOf
<1>2. \A j \in Jobs : ~HeldByAWorker(j)
  BY DEF Init, HeldByAWorker
<1>3. LifeHolder = [j \in Jobs |-> None]
  BY <1>2 DEF LifeHolder, HolderOf
<1> QED BY <1>1, <1>3 DEF Init, Lifecycle!Init

\* Every step of the queue is a step of the life cycle or leaves it alone.
LEMMA StepRefines ==
  ASSUME IInv, HolderKnows, HolderKnows', [Next]_vars
  PROVE  [Lifecycle!Next]_Lifecycle!vars
<1>1. ASSUME NEW j \in Jobs, Enqueue(j) \/ Elapse(j)
      PROVE  [Lifecycle!Next]_Lifecycle!vars
  BY <1>1, EnqueueRefines, ElapseRefines
<1>2. ASSUME NEW w \in Workers, Worker(w)
      PROVE  [Lifecycle!Next]_Lifecycle!vars
  <2>1. ASSUME NEW j \in Jobs, SelectCandidate(w, j)
        PROVE  [Lifecycle!Next]_Lifecycle!vars
    BY <2>1, NothingHappens DEF SelectCandidate, rowVars
  <2>2. CASE ClaimUpdate(w)
    BY <2>2, ClaimRefines
  <2>3. CASE ClaimReadBack(w)
    BY <2>3, HolderGone, NothingHappens DEF ClaimReadBack, EndTurn, rowVars
  <2>4. CASE LockLease(w) \/ CommitEffect(w)
    BY <2>4, NothingHappens DEF LockLease, CommitEffect, Goto, rowVars
  <2>5. CASE HandlerReturns(w)
    BY <2>5, HolderGone, NothingHappens DEF HandlerReturns, EndTurn, Goto, rowVars
  <2>6. ASSUME NEW kind \in {"retryable", "nonRetryable"}, HandlerThrows(w, kind)
        PROVE  [Lifecycle!Next]_Lifecycle!vars
    BY <2>6, HolderGone, NothingHappens DEF HandlerThrows, EndTurn, Goto, rowVars
  <2>7. CASE Complete(w)
    BY <2>7, CompleteRefines
  <2>8. CASE Fail(w)
    BY <2>8, FailRefines
  <2>9. CASE OnFailure(w)
    BY <2>9, HolderGone DEF OnFailure, EndTurn, rowVars
  <2> QED BY <1>2, <2>1, <2>2, <2>3, <2>4, <2>5, <2>6, <2>7, <2>8, <2>9 DEF Worker
<1>3. ASSUME NEW w \in Workers, SendBeat(w) \/ BeatFails(w)
      PROVE  [Lifecycle!Next]_Lifecycle!vars
  BY <1>3, NothingHappens DEF SendBeat, BeatFails, rowVars, workerVars
<1>4. ASSUME NEW w \in Workers, Crash(w)
      PROVE  [Lifecycle!Next]_Lifecycle!vars
  BY <1>4, HolderGone DEF Crash, EndTurn, rowVars
<1>5. ASSUME NEW a \in Admins, NEW j \in Jobs, RequeueGet(a, j)
      PROVE  [Lifecycle!Next]_Lifecycle!vars
  BY <1>5, NothingHappens DEF RequeueGet, rowVars, workerVars
<1>6. ASSUME NEW a \in Admins, RequeueReread(a) \/ RequeueAudit(a)
      PROVE  [Lifecycle!Next]_Lifecycle!vars
  BY <1>6, NothingHappens DEF RequeueReread, RequeueAudit, rowVars, workerVars
<1>7. CASE UNCHANGED vars
  BY <1>7, NothingHappens DEF vars, rowVars, workerVars
<1> QED BY <1>1, <1>2, <1>3, <1>4, <1>5, <1>6, <1>7, BeatRefines, RequeueRefines DEF Next, Admin

\* The queue of packages/jobs implements the job life cycle: at most one worker
\* decides about a job at a time, a job changes hands only after its hold has
\* expired, and a finished job never comes back (queue.ts, drizzle-repository.ts).
THEOREM QueueImplementsLifecycle == Spec => ImplementsLifecycle
<1>1. Init => Lifecycle!Init
  BY InitRefines
<1>2. IInv /\ HolderKnows /\ HolderKnows' /\ [Next]_vars => [Lifecycle!Next]_Lifecycle!vars
  BY StepRefines
<1>3. IInv => HolderKnows
  BY HolderLemma
<1>4. Spec => []IInv
  BY InvHolds
<1> QED BY <1>1, <1>2, <1>3, <1>4, PTL DEF Spec, ImplementsLifecycle, Lifecycle!Spec

-----------------------------------------------------------------------------
(* What an audited revival needs.                                          *)

\* No worker claims a job between its revival and its reading back.
LeftAlone ==
  \A r \in unaudited :
    apc[r[1]] = "rereading" /\ status[r[2]] = "pending" => status'[r[2]] # "processing"

\* A revived job then waits until it has been read back.
RevivedWaits ==
  \A a \in Admins, j \in Jobs :
    <<a, j>> \in unaudited =>
      ajob[a] = j /\ (apc[a] = "auditing" \/ (apc[a] = "rereading" /\ status[j] = "pending"))

\* Only a claim takes a waiting job away.
LEMMA WaitingUntilClaimed ==
  ASSUME IInv, [Next]_vars, NEW j \in Jobs, status[j] = "pending"
  PROVE  status'[j] \in {"pending", "processing"}
<1> USE DEF IInv, RowsTypeOK, Holds
<1>1. ASSUME NEW w \in Workers, ClaimUpdate(w) \/ Complete(w) \/ Fail(w)
      PROVE  status'[j] \in {"pending", "processing"}
  BY <1>1 DEF ClaimUpdate, Complete, Fail, rowVars
<1>2. ASSUME NEW i \in Jobs, Enqueue(i) PROVE status'[j] \in {"pending", "processing"}
  BY <1>2 DEF Enqueue
<1>3. ASSUME NEW a \in Admins, RequeueUpdate(a) PROVE status'[j] \in {"pending", "processing"}
  BY <1>3 DEF RequeueUpdate, rowVars
<1>4. CASE UNCHANGED status
  BY <1>4
<1> QED BY <1>1, <1>2, <1>3, <1>4
        DEF Next, Worker, Admin, Elapse, SelectCandidate, ClaimReadBack, SendBeat, Beat, BeatFails,
            LockLease, CommitEffect, HandlerReturns, HandlerThrows, OnFailure, Crash, RequeueGet,
            RequeueReread, RequeueAudit, vars, rowVars

LEMMA RevivedWaitsStep ==
  ASSUME IInv, RevivedWaits, [Next]_vars, LeftAlone
  PROVE  RevivedWaits'
<1>1. ASSUME NEW a \in Admins, Admin(a) PROVE RevivedWaits'
  <2> USE DEF IInv, AdminsTypeOK, RowsTypeOK, AdminLocalsOK, RevivedWaits
  <2>1. ASSUME NEW j \in Jobs, RequeueGet(a, j) PROVE RevivedWaits'
    BY <2>1 DEF RequeueGet, rowVars
  <2>2. CASE RequeueUpdate(a)
    BY <2>2 DEF RequeueUpdate, rowVars
  <2>3. CASE RequeueReread(a)
    BY <2>3 DEF RequeueReread, rowVars
  <2>4. CASE RequeueAudit(a)
    BY <2>4 DEF RequeueAudit, rowVars
  <2> QED BY <1>1, <2>1, <2>2, <2>3, <2>4 DEF Admin
<1>2. CASE UNCHANGED adminVars
  <2>1. ASSUME NEW a \in Admins, NEW j \in Jobs, <<a, j>> \in unaudited, apc[a] = "rereading"
        PROVE  status'[j] = "pending"
    <3>1. status[j] = "pending"
      BY <2>1 DEF RevivedWaits
    <3>2. status'[j] # "processing"
      BY <2>1, <3>1 DEF LeftAlone
    <3> QED BY <3>1, <3>2, WaitingUntilClaimed
  <2> QED BY <1>2, <2>1 DEF RevivedWaits, adminVars
<1>3. (\E a \in Admins : Admin(a)) \/ UNCHANGED adminVars
  BY DEF Next, Worker, Enqueue, Elapse, SelectCandidate, ClaimUpdate, ClaimReadBack, SendBeat, Beat,
     BeatFails, LockLease, CommitEffect, HandlerReturns, HandlerThrows, Complete, Fail, OnFailure,
     Crash, vars, adminVars
<1> QED BY <1>1, <1>2, <1>3

\* It takes a worker that claims the job at once for a revival to have no audit
\* entry (system.jobs.requeue, DrizzleQueueRepository.requeue): any number of
\* operators alone never leave one out.
THEOREM RevivalsAreAudited == Spec /\ [][LeftAlone]_vars => []RevivalIsAudited
<1>1. Init => RevivedWaits
  BY DEF Init, RevivedWaits
<1>2. IInv /\ RevivedWaits => RevivalIsAudited
  BY DEF IInv, AdminsTypeOK, RevivedWaits, RevivalIsAudited
<1>3. UNCHANGED vars /\ RevivedWaits => RevivedWaits'
  BY DEF vars, rowVars, adminVars, RevivedWaits
<1> QED BY <1>1, <1>2, <1>3, RevivedWaitsStep, InvHolds, PTL DEF Spec
=============================================================================
