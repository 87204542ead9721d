------------------------------- MODULE Areas -------------------------------
(***************************************************************************)
(* The search plan: ingestion.discovery.run goes round the districts and,  *)
(* within a district, on through its municipalities.  Runs are enqueued    *)
(* daily and by people, work on the rows they have listed at their start,  *)
(* overlap and die.  Areas are numbered by their orderIndex; time is the   *)
(* number of days until an area is due.                                    *)
(***************************************************************************)
EXTENDS Integers, FiniteSets

CONSTANTS
  NAreas,         \* districts
  Municipalities, \* websites of level "gemeinde" in a district
  SeedLimit,      \* municipalitySeedLimit, 25
  AreaLimit,      \* areas per run, 3
  GiveUpAfter,    \* incomplete runs until the offset moves on all the same, 5
  HalfYear,       \* days until a finished area is due again, 180
  StaleAfter,     \* days until a running area counts as abandoned, 24
  AreaRuns,       \* discovery runs that may overlap
  MaxRequests,    \* bound on runs people request
  MaxAreaFaults   \* bound on crashes and searches that throw

ASSUME AreasAssumption ==
  /\ {NAreas, Municipalities, MaxRequests, MaxAreaFaults} \subseteq Nat
  /\ {SeedLimit, AreaLimit, GiveUpAfter, HalfYear, StaleAfter} \subseteq Nat \ {0}

AreaIds == 1..NAreas
Null == -1

VARIABLES
  area,      \* ingestion_area
  areaJobs,  \* jobs ingestion.discovery.run pending
  todo,      \* run -> areas it has listed and not finished, while it runs
  acopy,     \* run -> their offset and incompleteRuns as listed
  apc,       \* run -> next statement
  asked,     \* history: area -> municipalities a search has put behind it
  requests, areaFaults

areasVars == <<area, areaJobs, todo, acopy, apc, asked, requests, areaFaults>>

Area == [status : {"pending", "running", "done"},
         due : Null..HalfYear,        \* days until nextDueAt, or null
         started : Null..StaleAfter,  \* days since startedAt, or null
         offset : 0..Municipalities, tries : 0..GiveUpAfter]

AreasTypeOK ==
  /\ area \in [AreaIds -> Area] /\ areaJobs \in 0..2
  /\ todo \in [AreaRuns -> SUBSET AreaIds] /\ apc \in [AreaRuns -> {"idle", "mark", "search"}]
  /\ acopy \in [AreaRuns -> [AreaIds -> [offset : 0..Municipalities, tries : 0..GiveUpAfter]]]
  /\ asked \in [AreaIds -> SUBSET (1..Municipalities)]
  /\ requests \in 0..MaxRequests /\ areaFaults \in 0..MaxAreaFaults

NoCopies == [a \in AreaIds |-> [offset |-> 0, tries |-> 0]]

AreasInit ==
  /\ area = [a \in AreaIds |->
       [status |-> "pending", due |-> Null, started |-> Null, offset |-> 0, tries |-> 0]]
  /\ areaJobs = 0 /\ todo = [r \in AreaRuns |-> {}] /\ apc = [r \in AreaRuns |-> "idle"]
  /\ acopy = [r \in AreaRuns |-> NoCopies] /\ asked = [a \in AreaIds |-> {}]
  /\ requests = 0 /\ areaFaults = 0

Request == requests < MaxRequests /\ requests' = requests + 1
AreaFault == areaFaults < MaxAreaFaults /\ areaFaults' = areaFaults + 1

Least(S) == CHOOSE x \in S : \A y \in S : x <= y
\* The first n of S in the order of the list.
First(S, n) == {x \in S : Cardinality({y \in S : y < x}) < n}

-----------------------------------------------------------------------------
(* ingestion.discovery.run.                                                *)

\* The filter over the areas, on one of them.
IsDue(r) ==
  \/ r.status = "pending"
  \/ r.due = 0
  \/ r.status = "running" /\ (r.started = Null \/ r.started >= StaleAfter)

ListAreas(r, S) ==
  /\ apc[r] = "idle" /\ S # {}
  /\ apc' = [apc EXCEPT ![r] = "mark"]
  /\ todo' = [todo EXCEPT ![r] = S]
  /\ acopy' = [acopy EXCEPT ![r] =
       [a \in AreaIds |-> IF a \in S THEN [offset |-> area[a].offset, tries |-> area[a].tries]
                                     ELSE NoCopies[a]]]
  /\ UNCHANGED <<area, asked, areaFaults>>

\* The queued run, with nothing to do or with the areas that come first.
StartRun(r) ==
  LET S == First({a \in AreaIds : IsDue(area[a])}, AreaLimit) IN
  /\ areaJobs > 0 /\ areaJobs' = areaJobs - 1
  /\ apc[r] = "idle"
  /\ \/ ListAreas(r, S)
     \/ S = {} /\ UNCHANGED <<area, todo, acopy, apc, asked, areaFaults>>
  /\ UNCHANGED requests

\* A run with areaAgs in its payload: whatever the state of the area.
StartRequested(r, a) ==
  /\ Request
  /\ ListAreas(r, {a})
  /\ UNCHANGED areaJobs

MarkRunning(r) ==
  LET a == Least(todo[r]) IN
  /\ apc[r] = "mark" /\ apc' = [apc EXCEPT ![r] = "search"]
  /\ area' = [area EXCEPT ![a].status = "running", ![a].started = 0]
  /\ UNCHANGED <<areaJobs, todo, acopy, asked, requests, areaFaults>>

LeaveArea(r, a) ==
  /\ todo' = [todo EXCEPT ![r] = @ \ {a}]
  /\ acopy' = [acopy EXCEPT ![r][a] = NoCopies[a]]
  /\ apc' = [apc EXCEPT ![r] = IF todo[r] = {a} THEN "idle" ELSE "mark"]

\* areaWebsiteSeeds: the municipalities after the offset, none beyond the last.
Selected(offset) == {m \in 1..Municipalities : m > offset /\ m <= offset + SeedLimit}

\* The bug: an area whose hosts never all answer is searched again every day.
FinishNeverGivingUp(r, complete) ==
  LET a == Least(todo[r])  c == acopy[r][a] IN
  /\ apc[r] = "search" /\ LeaveArea(r, a)
  /\ area' = [area EXCEPT ![a].status = "done", ![a].started = Null,
       ![a].tries = IF complete THEN 0 ELSE IF c.tries < GiveUpAfter THEN c.tries + 1 ELSE GiveUpAfter,
       ![a].due = IF complete THEN HalfYear ELSE 1,
       ![a].offset = IF complete THEN c.offset + Cardinality(Selected(c.offset)) ELSE @]
  /\ asked' = IF complete THEN [asked EXCEPT ![a] = @ \cup Selected(c.offset)] ELSE asked
  /\ UNCHANGED <<areaJobs, requests, areaFaults>>

\* The bug: the offset is counted on from the row instead of the copy.
FinishFromRow(r, complete) ==
  LET a == Least(todo[r])  c == acopy[r][a]
      n == area[a].offset + Cardinality(Selected(c.offset))
      onward == complete \/ c.tries + 1 >= GiveUpAfter IN
  /\ apc[r] = "search" /\ LeaveArea(r, a)
  /\ area' = [area EXCEPT ![a].status = "done", ![a].started = Null,
       ![a].tries = IF complete THEN 0 ELSE IF c.tries < GiveUpAfter THEN c.tries + 1 ELSE GiveUpAfter,
       ![a].due = IF onward THEN HalfYear ELSE 1,
       ![a].offset = IF ~onward THEN @ ELSE IF n > Municipalities THEN Municipalities ELSE n]
  /\ asked' = IF onward THEN [asked EXCEPT ![a] = @ \cup Selected(c.offset)] ELSE asked
  /\ UNCHANGED <<areaJobs, requests, areaFaults>>

\* The bug: the offset moves on by the limit, past the last municipality.
FinishByLimit(r, complete) ==
  LET a == Least(todo[r])  c == acopy[r][a]
      onward == complete \/ c.tries + 1 >= GiveUpAfter IN
  /\ apc[r] = "search" /\ LeaveArea(r, a)
  /\ area' = [area EXCEPT ![a].status = "done", ![a].started = Null,
       ![a].tries = IF complete THEN 0 ELSE IF c.tries < GiveUpAfter THEN c.tries + 1 ELSE GiveUpAfter,
       ![a].due = IF onward THEN HalfYear ELSE 1,
       ![a].offset = IF onward THEN c.offset + SeedLimit ELSE @]
  /\ asked' = IF onward THEN [asked EXCEPT ![a] = @ \cup Selected(c.offset)] ELSE asked
  /\ UNCHANGED <<areaJobs, requests, areaFaults>>

\* The search of one area, some hosts unanswered or none, and the row written
\* from the copy.  The sources it proposes are those of Sources.
FinishArea(r, complete) ==
  LET a == Least(todo[r])  c == acopy[r][a]
      onward == complete \/ c.tries + 1 >= GiveUpAfter IN
  /\ apc[r] = "search" /\ LeaveArea(r, a)
  /\ area' = [area EXCEPT ![a].status = "done", ![a].started = Null,
       ![a].tries = IF complete THEN 0 ELSE IF c.tries < GiveUpAfter THEN c.tries + 1 ELSE GiveUpAfter,
       ![a].due = IF onward THEN HalfYear ELSE 1,
       ![a].offset = IF onward THEN c.offset + Cardinality(Selected(c.offset)) ELSE @]
  /\ asked' = IF onward THEN [asked EXCEPT ![a] = @ \cup Selected(c.offset)] ELSE asked
  /\ UNCHANGED <<areaJobs, requests, areaFaults>>

\* The search throws: the run goes on with the next area.
AreaThrows(r) ==
  LET a == Least(todo[r]) IN
  /\ apc[r] = "search" /\ LeaveArea(r, a)
  /\ AreaFault
  /\ area' = [area EXCEPT ![a].status = "pending", ![a].started = Null]
  /\ UNCHANGED <<areaJobs, asked, requests>>

\* Another worker takes the job over, and lists anew.
AreaRunCrash(r) ==
  /\ apc[r] # "idle" /\ AreaFault
  /\ apc' = [apc EXCEPT ![r] = "idle"]
  /\ todo' = [todo EXCEPT ![r] = {}] /\ acopy' = [acopy EXCEPT ![r] = NoCopies]
  /\ areaJobs' = IF areaJobs < 2 THEN areaJobs + 1 ELSE areaJobs
  /\ UNCHANGED <<area, asked, requests>>

-----------------------------------------------------------------------------
(* Time.                                                                   *)

Earlier(n) == IF n > 0 THEN n - 1 ELSE n

\* The next day: the runs of a day end within it, the schedules enqueue anew.
NextDay ==
  /\ areaJobs = 0 /\ \A r \in AreaRuns : apc[r] = "idle"
  /\ areaJobs' = 1
  /\ area' = [a \in AreaIds |-> [area[a] EXCEPT !.due = Earlier(@),
       !.started = IF @ = Null \/ @ = StaleAfter THEN @ ELSE @ + 1]]
  /\ UNCHANGED <<todo, acopy, apc, asked, requests, areaFaults>>

\* areas.run: a person requests one more run; two pending ones are the bound.
RequestRun ==
  /\ Request
  /\ areaJobs < 2 /\ areaJobs' = areaJobs + 1
  /\ UNCHANGED <<area, todo, acopy, apc, asked, areaFaults>>

AreaStep(r) ==
  StartRun(r) \/ MarkRunning(r) \/ \E complete \in BOOLEAN : FinishArea(r, complete)

AreasNext ==
  \/ \E r \in AreaRuns : AreaStep(r) \/ AreaThrows(r) \/ AreaRunCrash(r)
  \/ \E r \in AreaRuns, a \in AreaIds : StartRequested(r, a)
  \/ RequestRun \/ NextDay

AreasSpec == AreasInit /\ [][AreasNext]_areasVars

-----------------------------------------------------------------------------
(* Properties.                                                             *)

\* The offset of a district never passes a municipality that no search has
\* asked, though runs of the same district overlap and each writes the offset
\* from what it had listed.
NoMunicipalitySkipped == \A a \in AreaIds : 1..area[a].offset \subseteq asked[a]

\* Every district that is due, or was left running by a dead worker, has its
\* turn: districts whose hosts never all answer do not keep the daily runs at
\* the head of the list.
AreasComeRound == \A a \in AreaIds : []<>(area[a].status = "done" /\ area[a].due # 0)
=============================================================================
