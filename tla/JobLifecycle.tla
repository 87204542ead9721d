---------------------------- MODULE JobLifecycle ----------------------------
(***************************************************************************)
(* What the job queue of packages/jobs promises its users, without leases, *)
(* tokens, statements or retries: a job waits until it is ripe, is held by *)
(* at most one worker at a time, and leaves the hands of that worker only  *)
(* by that worker's own verdict, by its disappearance, or by a grant to    *)
(* another worker after the hold has expired.  A finished job never comes  *)
(* back; a buried one only by an operator's revival.                       *)
(***************************************************************************)
CONSTANTS Jobs,       \* the rows of table jobs
          Workers,    \* the worker loops
          None        \* "no worker"

VARIABLES phase,      \* where the job is in its life
          holder,     \* the worker that may decide about the job, or None
          ripe        \* may be granted: availableAt or the hold has passed

vars == <<phase, holder, ripe>>

Phase == {"absent", "waiting", "leased", "done", "buried"}

TypeOK ==
  /\ phase \in [Jobs -> Phase]
  /\ holder \in [Jobs -> Workers \cup {None}]
  /\ ripe \in [Jobs -> BOOLEAN]

Init ==
  /\ phase = [j \in Jobs |-> "absent"]
  /\ holder = [j \in Jobs |-> None]
  /\ ripe = [j \in Jobs |-> FALSE]

Submit(j) ==
  /\ phase[j] = "absent"
  /\ phase' = [phase EXCEPT ![j] = "waiting"]
  /\ \E b \in BOOLEAN : ripe' = [ripe EXCEPT ![j] = b]
  /\ UNCHANGED holder

Ripen(j) ==
  /\ phase[j] \in {"waiting", "leased"}
  /\ ~ripe[j]
  /\ ripe' = [ripe EXCEPT ![j] = TRUE]
  /\ UNCHANGED <<phase, holder>>

\* A worker without a job is given one nobody holds, or whose hold expired.
Grant(w, j) ==
  /\ phase[j] \in {"waiting", "leased"}
  /\ ripe[j]
  /\ \A i \in Jobs : holder[i] # w
  /\ phase' = [phase EXCEPT ![j] = "leased"]
  /\ holder' = [holder EXCEPT ![j] = w]
  /\ ripe' = [ripe EXCEPT ![j] = FALSE]

\* The hold is extended; the call of a worker that has meanwhile gone counts.
Renew(j) ==
  /\ phase[j] = "leased"
  /\ ripe[j]
  /\ ripe' = [ripe EXCEPT ![j] = FALSE]
  /\ UNCHANGED <<phase, holder>>

\* The holder disappears; the job stays leased until the hold expires.
Orphan(j) ==
  /\ holder[j] # None
  /\ holder' = [holder EXCEPT ![j] = None]
  /\ UNCHANGED <<phase, ripe>>

\* The holder's verdict: finished, to be tried again, or given up.
Verdict(w, j) ==
  /\ phase[j] = "leased"
  /\ holder[j] = w
  /\ \E p \in {"done", "waiting", "buried"} : phase' = [phase EXCEPT ![j] = p]
  /\ holder' = [holder EXCEPT ![j] = None]
  /\ ripe' = [ripe EXCEPT ![j] = FALSE]

Revive(j) ==
  /\ phase[j] = "buried"
  /\ phase' = [phase EXCEPT ![j] = "waiting"]
  /\ ripe' = [ripe EXCEPT ![j] = TRUE]
  /\ UNCHANGED holder

Next ==
  \E j \in Jobs :
    \/ Submit(j)
    \/ Ripen(j)
    \/ Renew(j)
    \/ Orphan(j)
    \/ Revive(j)
    \/ \E w \in Workers : Grant(w, j) \/ Verdict(w, j)

Spec == Init /\ [][Next]_vars
=============================================================================
