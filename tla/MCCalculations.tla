--------------------------- MODULE MCCalculations ---------------------------
(***************************************************************************)
(* The functions of the repository, each evaluated for every input of a    *)
(* small set: `task` is the input, `answer` what the function makes of it. *)
(***************************************************************************)
EXTENDS KeyRules, Stages, Classification, Regions, Registry, Amounts, Schedules, Exports

VARIABLES task, answer

calculationsVars == <<task, answer>>

\* No answer yet, or the answer as a sequence of one.
None == <<>>

-----------------------------------------------------------------------------
(* Inputs.                                                                 *)

\* Two districts; places with one name within a district and in both, postal
\* codes that belong to both.
Localities == [name : {11, 12}, postal : {1, 2}, municipality : {<<1, 1>>, <<1, 2>>, <<2, 1>>}]
AreaLists ==
  {<<a, b>> : a \in [id : {1}, name : {11, 13}, city : BOOLEAN], b \in [id : {2}, name : {12}, city : BOOLEAN]}
  \cup {<<[id |-> 1, name |-> 11, city |-> TRUE]>>}
KeyTasks ==
  [kind : {"keys"}, areas : AreaLists,
   localities : {S \in SUBSET Localities : Cardinality(S) <= 3},
   administrations : {{}, {[scope |-> 11, district |-> 2]}}]

\* One document in any state beside one that can be taken, or three that can;
\* 2 is the oldest year.  The list names one document that does not exist.
AnyDocument ==
  [id : {1}, state : {"processed", "uploaded"}, approved : BOOLEAN, staged : BOOLEAN,
   year : {0, 1, 3}, filenameYear : {0, 1}, pages : {0, 2}, hash : {6, 7}]
Takable(i) ==
  [id : {i}, state : {"processed"}, approved : {FALSE}, staged : {FALSE}, year : {0},
   filenameYear : {0}, pages : {0, 1, 5}, hash : {7}]
Stocks ==
  {{a, b} : a \in AnyDocument, b \in Takable(2)}
  \cup {{a, b, c} : a \in Takable(1), b \in Takable(2), c \in Takable(3)}
Orders == [share : {0, 1, 50, 100}, list : {<<1, 2, 9>>}, excluded : {{}, {2}}, maxPages : {0, 2},
           oldest : {2}]
StageTasks == [kind : {"stage"}, stock : Stocks, order : Orders]

\* Contacts without a city have no place; two cities, two postal codes.
ContactTasks ==
  [kind : {"place"}, contacts : {S \in SUBSET ((0..2) \X (0..2) \X {1, 2}) : Cardinality(S) <= 3}]

\* All lines of five words, and of those that begin well six.
Words == {"--mandant", "--etappe", "--anteil", "--dokumente", "--anwenden", "7", "120"}
Lines ==
  (UNION {[1..n -> Words] : n \in 0..4})
  \cup {<<"--mandant", "7", "--etappe">> \o line : line \in [1..3 -> Words]}
  \cup {<<"--mandant", "7", "--etappe", "7">> \o line : line \in [1..4 -> Words]}
CommandTasks == [kind : {"command"}, line : Lines]

\* The filename with up to three marks, one other source with up to one.
Marks ==
  {[kind |-> k, year |-> y, until |-> 2024, issue |-> i] :
     k \in {"range", "numbered", "edition", "volume", "date", "year"}, y \in {2023}, i \in {3}}
  \cup {[kind |-> "year", year |-> 2022, until |-> 2022, issue |-> 0],
        [kind |-> "issue", year |-> 0, until |-> 0, issue |-> 12]}
Texts(n) == UNION {[1..k -> Marks] : k \in 0..n}
PeriodTasks ==
  {[kind |-> "period",
    texts |-> [s \in ToSet(PeriodSources) |->
                 IF s = "filename" THEN t ELSE IF s = other THEN u ELSE <<>>]] :
     other \in ToSet(PeriodSources) \ {"filename"}, t \in Texts(3), u \in Texts(1)}
TypeTasks == [kind : {"type"}, rules : [ToSet(TypeSources) -> {{}, {1}, {2, 3}}]]

\* Few marks in each text, or five of one district beside places.
RegionMarks ==
  {[kind |-> k, value |-> v] : k \in {"town", "ofTown", "welcome"}, v \in {1, 2}}
  \cup {[kind |-> "state", value |-> 1], [kind |-> "state", value |-> 2],
        [kind |-> "district", value |-> 1], [kind |-> "district", value |-> 3]}
Named3 == [i \in 1..4 |-> [kind |-> "name", value |-> 3]]
RegionTexts(n) == UNION {[1..k -> RegionMarks] : k \in 0..n}
RegionTasks ==
  {[kind |-> "region",
    texts |-> [s \in {"filename", "pdf-metadata", "title-page", "later"} |->
                 IF s = "filename" THEN f ELSE IF s = "title-page" THEN t ELSE IF s = "later" THEN l ELSE <<>>]] :
     f \in RegionTexts(1), t \in RegionTexts(2), l \in RegionTexts(1) \cup {Named3}}

\* Two modules, or one of them twice.
SomeModules ==
  [id : {1, 2}, permissions : {<<>>, <<5>>, <<5, 6>>, <<6, 6>>}, jobs : {<<>>, <<7>>}, tables : {<<>>, <<8>>},
   nav : {<<>>, <<[order |-> 2, label |-> 1, permission |-> 5], [order |-> 1, label |-> 2, permission |-> 0]>>}]
ModuleLists == UNION {[1..n -> SomeModules] : n \in 0..2}
RegistryTasks == [kind : {"registry"}, modules : ModuleLists]
NavigationTasks ==
  {[kind |-> "navigation", modules |-> l, permissions |-> p, more |-> {5}] :
     l \in {k \in ModuleLists : ~CreateRegistry(k).refused}, p \in {{}, {5}, {6}}}

\* Prices and quantities around a half cent.
Items == [quantity : {0, 1, 50, 150}, price : {0, 1, 3, 151}]
ItemTasks ==
  [kind : {"items"}, items : UNION {[1..n -> Items] : n \in 0..2},
   treatment : {"VAT19", "RC", "VAT0"}]
AmountTasks == [kind : {"amount"}, value : -250..250]

\* One to three levels; up to three runs, one of them before the due date, and
\* a part or all of the invoice paid between two of them, or more than all.
DunningLevels ==
  {{[level |-> 1, after |-> 0, fee |-> 0, rate |-> low], [level |-> 2, after |-> wait, fee |-> 250, rate |-> high]} :
     low, high \in {0, 50000, 90000}, wait \in {0, 1, 3}}
  \cup {{[level |-> n, after |-> n, fee |-> 100 * n, rate |-> 90000] : n \in 1..k} : k \in {1, 3}}
DunningRuns == UNION {[1..n -> [hour : {-1, 12, 36, 90, 400}, paid : {0, 400, 1000, 1200}]] : n \in 0..3}
ReminderTasks ==
  [kind : {"reminder"}, invoice : {[due |-> 0, total |-> 1000]}, levels : DunningLevels,
   runs : {runs \in DunningRuns :
             \A i, j \in DOMAIN runs : i <= j => runs[i].hour <= runs[j].hour /\ runs[i].paid <= runs[j].paid}]

\* Three jobs, of which some have a schedule.
JobNames == {"a", "b", "c"}
ScheduleTasks ==
  {[kind |-> "schedule", jobs |-> {[name |-> n, schedule |-> by[n]] : n \in JobNames},
    selected |-> names, enabled |-> on, folder |-> folder] :
     by \in [JobNames -> {"none", "daily", "frequent"}],
     names \in (SUBSET JobNames) \cup {{"*"}, {"unknown"}, {"a", "unknown"}},
     on, folder \in BOOLEAN}
DelayTasks ==
  [kind : {"delay"}, attempt : 0..12, base : {0, 1, 1000}, limit : {0, 1000, 60000}]

\* Two occurrences, two documents, of which either may be missing.
Occurrences == [id : {1, 2}, doc : {1, 2}, image : {0, 7, 8}, status : {"detected", "rejected"}]
DocumentRows == [id : {1, 2}, start : {0, 2023}, end : {0, 2024}]
ExportTasks ==
  [kind : {"export"},
   occurrences : {S \in SUBSET Occurrences : Cardinality(S) <= 2 /\ \A o, p \in S : o.id = p.id => o = p},
   documents : {S \in SUBSET DocumentRows : Cardinality(S) <= 1},
   document : {0, 1}, status : {"", "all", "rejected"}, storage : {{}, {7}}]

Verdicts == (1..3) \X {"treffer", "keine_anzeige"}
VerdictTasks ==
  [kind : {"verdict"}, file : UNION {[1..n -> Verdicts] : n \in 0..3},
   status : [1..2 -> {"detected", "confirmed", "rejected"}]]

-----------------------------------------------------------------------------

Tasks ==
  KeyTasks \cup StageTasks \cup ContactTasks \cup CommandTasks \cup PeriodTasks \cup TypeTasks \cup RegionTasks
  \cup RegistryTasks \cup NavigationTasks
  \cup ItemTasks \cup AmountTasks \cup ReminderTasks \cup ScheduleTasks \cup DelayTasks
  \cup ExportTasks \cup VerdictTasks

CalculationsInit == task \in Tasks /\ answer = None

Evaluated(t) ==
  CASE t.kind = "keys"     -> BuildSearchKeys(t.areas, t.localities, t.administrations)
    [] t.kind = "stage"    -> Selected50(t.stock, t.order)
    [] t.kind = "place"    -> AreaFromContacts(t.contacts)
    [] t.kind = "command"  -> ParseArguments(t.line)
    [] t.kind = "period"   -> PeriodDecision(t.texts)
    [] t.kind = "type"     -> TypeDecision(t.rules)
    [] t.kind = "region"   -> RegionOf(t.texts)
    [] t.kind = "registry" -> CreateRegistry(t.modules)
    [] t.kind = "navigation" -> Navigation(t.modules, t.permissions)
    [] t.kind = "items"    -> Totals(t.items, t.treatment)
    [] t.kind = "amount"   -> Decimal(t.value, 2)
    [] t.kind = "reminder" -> Reminders(t.invoice, t.levels, t.runs)
    [] t.kind = "schedule" -> BuildWorkerSchedules(t.jobs, t.selected, t.enabled, t.folder)
    [] t.kind = "delay"    -> RetryDelays(t.attempt, t.base, t.limit)
    [] t.kind = "export"   -> WriteZip(Rows(t.occurrences, t.documents, t.document, t.status), t.storage)
    [] t.kind = "verdict"  -> Apply(t.file, t.status)

CalculationsNext ==
  /\ answer = None /\ answer' = <<Evaluated(task)>>
  /\ UNCHANGED task

-----------------------------------------------------------------------------
(* Properties.                                                             *)

\* What each function answers is what its module says of it.
Agrees(t, a) ==
  CASE t.kind = "keys"     -> EveryPlaceIsSearched(t.areas, t.localities, a)
    [] t.kind = "stage"    -> /\ StageReachesTarget(t.stock, t.order, a)
                              /\ RefusalsAreExplained(t.stock, t.order, a)
    [] t.kind = "place"    -> PlaceIsAttested(t.contacts, a)
    [] t.kind = "command"  -> CommandLineIsRead(t.line, a)
    [] t.kind = "period"   -> PeriodIsEvidenced(t.texts, a)
    [] t.kind = "type"     -> TypeIsOfFirstSource(t.rules, a)
    [] t.kind = "region"   -> RegionIsEvidenced(t.texts, a)
    [] t.kind = "registry" -> RegistryIsUnambiguous(t.modules, a)
    [] t.kind = "navigation" -> NavigationIsFair(t.modules, t.permissions, t.more, a)
    [] t.kind = "items"    -> TotalsAreNear(t.items, t.treatment, a)
    [] t.kind = "amount"   -> AmountIsReadBack(t.value, a)
    [] t.kind = "reminder" -> RemindersChargeOnce(t.invoice, t.levels, a)
    [] t.kind = "schedule" -> SchedulesAreKnown(t.jobs, t.selected, t.enabled, t.folder, a)
    [] t.kind = "delay"    -> DelaysAreBounded(t.attempt, t.base, t.limit, a)
    [] t.kind = "export"   -> ExportIsConsistent(t.occurrences, t.documents, a)
    [] t.kind = "verdict"  -> VerdictsAreSafe(t.file, t.status, a)

CalculationsAgree == answer # None => Agrees(task, answer[1])
=============================================================================
