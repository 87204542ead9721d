------------------------------ MODULE Schedules ------------------------------
(***************************************************************************)
(* Which jobs a worker enqueues by itself (buildWorkerSchedules in         *)
(* apps/worker/src/schedules.ts), and how long a failed one waits          *)
(* (retryDelay in packages/jobs/src/backoff.ts).  Jobs are records         *)
(* [name, schedule]; `selected` is WORKER_SCHEDULES, {"*"} if it is not    *)
(* set.                                                                    *)
(***************************************************************************)
EXTENDS Integers

NamesOf(jobs, schedules) == {j.name : j \in {k \in jobs : k.schedule \in schedules}}

\* Unknown names are refused before anything else is looked at; the frequent
\* schedules need the watch folder.
BuildWorkerSchedules(jobs, selected, enabled, folder) ==
  LET chosen(schedule) ==
        {n \in NamesOf(jobs, {schedule}) : selected = {"*"} \/ n \in selected} IN
  IF selected # {"*"} /\ ~(selected \subseteq NamesOf(jobs, {"daily", "frequent"}))
  THEN [refused |-> TRUE, names |-> {}]
  ELSE IF ~enabled THEN [refused |-> FALSE, names |-> {}]
  ELSE [refused |-> FALSE, names |-> chosen("daily") \cup (IF folder THEN chosen("frequent") ELSE {})]

TwoTo[n \in Nat] == IF n = 0 THEN 1 ELSE 2 * TwoTo[n - 1]

\* min(max, base * 2 ** (attempt - 1)), which the jitter moves by a fifth.
Exponential(attempt, base, max) ==
  LET delay == base * TwoTo[IF attempt > 1 THEN attempt - 1 ELSE 0]
  IN IF delay > max THEN max ELSE delay
RetryDelays(attempt, base, max) ==
  LET d == Exponential(attempt, base, max) IN {d - d \div 5, d, d + d \div 5}

-----------------------------------------------------------------------------
(* Properties, of one environment; of one attempt.                         *)

\* A worker whose list of schedules names a job that has none does not start,
\* even with the schedules off; otherwise every job in the list has its
\* schedule, unless they are off or it is a frequent one without a folder, and
\* no other job has one.
SchedulesAreKnown(jobs, selected, enabled, folder, built) ==
  /\ built.refused <=> \E n \in selected \ {"*"} : n \notin NamesOf(jobs, {"daily", "frequent"})
  /\ ~built.refused => \A j \in jobs :
       j.name \in built.names <=>
         /\ enabled /\ (selected = {"*"} \/ j.name \in selected)
         /\ j.schedule = "daily" \/ (j.schedule = "frequent" /\ folder)

\* A job waits longer after each attempt, but for the jitter, and never longer
\* than the limit and its fifth.
DelaysAreBounded(attempt, base, max, delays) ==
  /\ \A d \in delays : d >= 0 /\ 5 * d <= 6 * max
  /\ Exponential(attempt, base, max) <= Exponential(attempt + 1, base, max)
=============================================================================
