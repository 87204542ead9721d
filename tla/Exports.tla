------------------------------ MODULE Exports ------------------------------
(***************************************************************************)
(* Files that leave the program and come back: the archive of occurrences  *)
(* (buildOccurrenceExportRows and writeOccurrenceExportZip in              *)
(* modules/ingestion/src/rest.ts), and the file of verdicts                *)
(* (inserenten-test-verdicts.ts and its script).  0 stands for a value     *)
(* that is missing.                                                        *)
(***************************************************************************)
EXTENDS Integers, Sequences, SequencesExt

\* exportYear: <<>> if unknown, else the year or the two of a range.
ExportYear(d) ==
  IF d.start = 0 /\ d.end = 0 THEN <<>>
  ELSE IF d.start # 0 /\ d.end # 0 /\ d.start # d.end THEN <<d.start, d.end>>
  ELSE <<IF d.start # 0 THEN d.start ELSE d.end>>

\* occurrenceExportStatusFilter: nothing asked for is all but the rejected.
Wanted(o, status) ==
  status = "all" \/ (status = "" /\ o.status # "rejected") \/ o.status = status

\* The two lists are read side by side: an occurrence whose document is not in
\* the other list is left out.
Rows(occurrences, documents, document, status) ==
  UNION {{[id |-> o.id, image |-> o.image, year |-> ExportYear(d)] :
            d \in {e \in documents : e.id = o.doc}} :
         o \in {p \in occurrences : (document = 0 \/ p.doc = document) /\ Wanted(p, status)}}

\* An image is a file named by the occurrence; one the storage does not have
\* is taken out of the sheet.
WriteZip(rows, storage) ==
  LET found == {r \in rows : r.image # 0 /\ r.image \in storage} IN
  [sheet |-> {[id |-> r.id, year |-> r.year,
               image |-> IF r \in found THEN <<r.id, r.image>> ELSE <<>>] : r \in rows},
   images |-> {<<r.id, r.image>> : r \in found}]

-----------------------------------------------------------------------------
(* Verdicts: a file is a sequence of rows <<occurrence, verdict>>.         *)

\* collapseVerdicts: two verdicts on one occurrence are refused.
Collapse(file) ==
  FoldLeft(LAMBDA c, row :
             IF c.refused \/ \E p \in c.verdicts : p[1] = row[1] /\ p[2] # row[2]
             THEN [refused |-> TRUE, verdicts |-> {}]
             ELSE [refused |-> FALSE, verdicts |-> c.verdicts \cup {row}],
           [refused |-> FALSE, verdicts |-> {}], file)

\* plannedRejection, for each occurrence of the file that there is.
Apply(file, status) ==
  [o \in DOMAIN status |->
     IF <<o, "keine_anzeige">> \in Collapse(file).verdicts /\ status[o] = "detected"
     THEN "rejected" ELSE status[o]]

-----------------------------------------------------------------------------
(* Properties, of one export; of one file.                                 *)

\* The sheet names an image exactly if the archive has it, every file of the
\* archive belongs to one row, and no row is there without its document.
ExportIsConsistent(occurrences, documents, zip) ==
  /\ {r.image : r \in zip.sheet} \ {<<>>} = zip.images
  /\ \A i \in zip.images : \E o \in occurrences : i = <<o.id, o.image>>
  /\ \A r \in zip.sheet : \E o \in occurrences, d \in documents :
       r.id = o.id /\ d.id = o.doc /\ \A y \in ToSet(r.year) : y \in {d.start, d.end} \ {0}

\* The order of the rows does not matter, what two people judged differently
\* is not applied at all, no decision of a reviewer is overturned, and a file
\* that is applied once more changes nothing.
VerdictsAreSafe(file, status, applied) ==
  /\ Collapse(file) = Collapse(Reverse(file))
  /\ (\E r, s \in ToSet(file) : r[1] = s[1] /\ r[2] # s[2]) => applied = status
  /\ \A o \in DOMAIN status : status[o] # "detected" => applied[o] = status[o]
  /\ Apply(file, applied) = applied
=============================================================================
