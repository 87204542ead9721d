----------------------------- MODULE MCIngestion -----------------------------
(***************************************************************************)
(* The parts of the ingestion module that share no state, checked in one   *)
(* run: `part` is the one whose steps are taken.  Documents come twice:    *)
(* with one advertisement while anything fails, and with several, so that  *)
(* rival runs of a document can find different ones.                       *)
(***************************************************************************)
EXTENDS Documents, Intake, Areas, SearchKeys

VARIABLE part

vars == <<part, documentsVars, intakeVars, areasVars, searchKeysVars>>

InDocuments ==
  part = "documents" /\ UNCHANGED <<part, intakeVars, areasVars, searchKeysVars>>
InRivals ==
  part = "rivals" /\ UNCHANGED <<part, intakeVars, areasVars, searchKeysVars>>
InIntake ==
  part = "intake" /\ UNCHANGED <<part, documentsVars, areasVars, searchKeysVars>>
InAreas ==
  part = "areas" /\ UNCHANGED <<part, documentsVars, intakeVars, searchKeysVars>>
InSearchKeys ==
  part = "keys" /\ UNCHANGED <<part, documentsVars, intakeVars, areasVars>>

\* The one advertisement there is, if any.
OneAdvertisement == \A w \in Workers : found'[w] \subseteq {CHOOSE f \in Findings : TRUE}

\* Rivals by two jobs or a lapsed lease: nothing else fails and run50-etappe
\* rests; two advertisements in a run, or one when a lease has lapsed.
OnlyLeasesLapse ==
  /\ etappe' = etappe
  /\ mishaps' = mishaps \/ \E s \in Slots : Lapse(s)
  /\ \A w \in Workers : Cardinality(found'[w]) + mishaps' <= 2

Init ==
  /\ part \in {"documents", "rivals", "intake", "areas", "keys"}
  /\ DocumentsInit /\ IntakeInit /\ AreasInit /\ SearchKeysInit

Next ==
  \/ InDocuments /\ DocumentsNext /\ OneAdvertisement
  \/ InRivals /\ DocumentsNext /\ OnlyLeasesLapse
  \/ InIntake /\ IntakeNext
  \/ InAreas /\ AreasNext
  \/ InSearchKeys /\ SearchKeysNext

\* The fairness each part states, on the steps of that part.
Fairness ==
  /\ WF_documentsVars(part \in {"documents", "rivals"} /\ Sweep)
  /\ \A w \in Workers : WF_documentsVars(part \in {"documents", "rivals"} /\ RunStep(w))
  /\ \A p \in Scanners : WF_intakeVars(part = "intake" /\ ScanStep(p))
  /\ \A r \in AreaRuns : WF_areasVars(part = "areas" /\ AreaStep(r))
  /\ WF_areasVars(part = "areas" /\ NextDay)
  /\ WF_searchKeysVars(part = "keys" /\ KeyStep)
  /\ WF_searchKeysVars(part = "keys" /\ NextDayOfKeys)

Spec == Init /\ [][Next]_vars /\ Fairness

\* The variables of every part have their types.
TypeOK ==
  /\ DocumentsTypeOK /\ IntakeTypeOK /\ AreasTypeOK /\ SearchKeysTypeOK

\* Nothing waits for ever: FolderIsCleared, AreasComeRound and KeysComeRound,
\* each of its part; i is the number of a district or of a search key.
Waits(i) ==
  \/ part = "intake" /\ place = "folder"
  \/ part = "areas" /\ i \in AreaIds /\ (area[i].status # "done" \/ area[i].due = 0)
  \/ part = "keys" /\ KeyIsDue(i)
WorkComesRound == \A i \in KeyIds : []<>~Waits(i)
=============================================================================
