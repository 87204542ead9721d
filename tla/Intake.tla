------------------------------- MODULE Intake -------------------------------
(***************************************************************************)
(* The watch folder (scanWatchFolder in modules/ingestion/src/module.ts)   *)
(* beside the upload of the same bytes: files that are still written,      *)
(* processes that each remember the sizes they have seen, crashes.         *)
(***************************************************************************)
EXTENDS Naturals

CONSTANTS
  Scanners,   \* worker processes that scan the folder
  MaxCrashes  \* bound on their crashes and failing statements

ASSUME IntakeAssumption == MaxCrashes \in Nat

VARIABLES
  place,     \* where the file is
  whole,     \* its writer has finished
  size,      \* grows with every write
  sizeSeen,  \* scanner -> watchObservations of this path, or 0
  scan,      \* scanner -> position in the loop over the files
  known,     \* the document row exists
  firstJobs, \* jobs enqueued for the document by its intake
  upload,    \* the handler of an upload of the same bytes
  crashes

intakeVars == <<place, whole, size, sizeSeen, scan, known, firstJobs, upload, crashes>>

Places == {"folder", "erfolgreich", "bereits-vorhanden", "fehlerhaft"}

IntakeTypeOK ==
  /\ place \in Places /\ whole \in BOOLEAN /\ size \in 1..2
  /\ sizeSeen \in [Scanners -> 0..2]
  /\ scan \in [Scanners -> {"idle", "readable", "enqueue", "moveNew", "moveKnown", "moveBroken"}]
  /\ known \in BOOLEAN /\ firstJobs \in Nat
  /\ upload \in {"none", "enqueue", "done"} /\ crashes \in 0..MaxCrashes

IntakeInit ==
  /\ place = "folder" /\ whole = FALSE /\ size = 1
  /\ sizeSeen = [p \in Scanners |-> 0] /\ scan = [p \in Scanners |-> "idle"]
  /\ known = FALSE /\ firstJobs = 0 /\ upload = "none" /\ crashes = 0

ScanTo(p, from, to) == scan[p] = from /\ scan' = [scan EXCEPT ![p] = to]

\* The last bytes are written, after a pause of any length.
WriterEnds ==
  /\ place = "folder" /\ ~whole
  /\ whole' = TRUE /\ size' = 2
  /\ UNCHANGED <<place, sizeSeen, scan, known, firstJobs, upload, crashes>>

\* A size seen for the first time is only remembered.
Observe(p) ==
  /\ scan[p] = "idle" /\ place = "folder" /\ sizeSeen[p] # size
  /\ sizeSeen' = [sizeSeen EXCEPT ![p] = size]
  /\ UNCHANGED <<place, whole, size, scan, known, firstJobs, upload, crashes>>

\* The same size again: the bytes are read and must be a readable PDF.
ReadFile(p) ==
  /\ place = "folder" /\ sizeSeen[p] = size
  /\ IF whole THEN ScanTo(p, "idle", "readable") ELSE ScanTo(p, "idle", "moveBroken")
  /\ UNCHANGED <<place, whole, size, sizeSeen, known, firstJobs, upload, crashes>>

\* The bug: the file is taken for new without a look at the row.
StoreUnseen(p) ==
  /\ ScanTo(p, "readable", "enqueue")
  /\ known' = TRUE
  /\ UNCHANGED <<place, whole, size, sizeSeen, firstJobs, upload, crashes>>

\* persistDocumentBytes
StoreFile(p) ==
  /\ IF known THEN ScanTo(p, "readable", "moveKnown") ELSE ScanTo(p, "readable", "enqueue")
  /\ known' = TRUE
  /\ UNCHANGED <<place, whole, size, sizeSeen, firstJobs, upload, crashes>>

EnqueueFile(p) ==
  /\ ScanTo(p, "enqueue", "moveNew")
  /\ firstJobs' = firstJobs + 1
  /\ UNCHANGED <<place, whole, size, sizeSeen, known, upload, crashes>>

\* moveWatchFile, and the observation is dropped.  If another process has moved
\* the file, rename throws, the move to "fehlerhaft" throws too and is logged.
MoveFile(p) ==
  /\ scan[p] \in {"moveNew", "moveKnown", "moveBroken"}
  /\ scan' = [scan EXCEPT ![p] = "idle"]
  /\ sizeSeen' = [sizeSeen EXCEPT ![p] = 0]
  /\ place' = IF place # "folder" THEN place
              ELSE IF scan[p] = "moveNew" THEN "erfolgreich"
              ELSE IF scan[p] = "moveKnown" THEN "bereits-vorhanden" ELSE "fehlerhaft"
  /\ UNCHANGED <<whole, size, known, firstJobs, upload, crashes>>

\* The process dies: its Map of observations is gone, the file stays.
ScannerCrash(p) ==
  /\ crashes < MaxCrashes /\ crashes' = crashes + 1
  /\ scan' = [scan EXCEPT ![p] = "idle"]
  /\ sizeSeen' = [sizeSeen EXCEPT ![p] = 0]
  /\ UNCHANGED <<place, whole, size, known, firstJobs, upload>>

\* persist or enqueue throws: the file counts as broken.
StatementFails(p) ==
  /\ crashes < MaxCrashes /\ crashes' = crashes + 1
  /\ ScanTo(p, "readable", "moveBroken") \/ ScanTo(p, "enqueue", "moveBroken")
  /\ UNCHANGED <<place, whole, size, sizeSeen, known, firstJobs, upload>>

\* handleUpload with the same bytes: 200 and no job if they are known.
Upload ==
  /\ upload = "none"
  /\ upload' = IF known THEN "done" ELSE "enqueue"
  /\ known' = TRUE
  /\ UNCHANGED <<place, whole, size, sizeSeen, scan, firstJobs, crashes>>

UploadEnqueues ==
  /\ upload = "enqueue"
  /\ upload' = "done" /\ firstJobs' = firstJobs + 1
  /\ UNCHANGED <<place, whole, size, sizeSeen, scan, known, crashes>>

ScanStep(p) == Observe(p) \/ ReadFile(p) \/ StoreFile(p) \/ EnqueueFile(p) \/ MoveFile(p)

IntakeNext ==
  \/ WriterEnds \/ Upload \/ UploadEnqueues
  \/ \E p \in Scanners : ScanStep(p) \/ ScannerCrash(p) \/ StatementFails(p)

\* The schedule "frequent" enqueues the scan again and again.
IntakeFairness == \A p \in Scanners : WF_intakeVars(ScanStep(p))

IntakeSpec == IntakeInit /\ [][IntakeNext]_intakeVars /\ IntakeFairness

-----------------------------------------------------------------------------
(* Properties.                                                             *)

\* However many processes scan, crash and meet an upload of the same bytes, a
\* document gets at most one job from its intake, and a file is put aside as
\* taken in only with its document stored and its job enqueued.  (The other
\* way round a crash between the two leaves a stored document without job, and
\* its file among the known ones: the Sammellauf of Documents finds it.)
TakenInOnce ==
  /\ firstJobs <= 1
  /\ place = "erfolgreich" => known /\ firstJobs = 1
  /\ place = "bereits-vorhanden" => known

\* A file does not stay in the folder: it ends in one of the three others.
FolderIsCleared == <>(place # "folder")
=============================================================================
