--------------------------- MODULE Classification ---------------------------
(***************************************************************************)
(* What a document is and of which years: the period and the type in       *)
(* modules/ingestion/src/classification.ts.  A text is the sequence of the *)
(* marks the expressions of the code look for, in the order they appear:   *)
(*   "range"    2023/2024 (year, until)     "edition"  Ausgabe 2024        *)
(*   "numbered" Ausgabe 3/2024 (issue)      "volume"   Jahrgang 2024       *)
(*   "issue"    Ausgabe 12, without year    "date"     1. - 7. Mai 2024    *)
(*   "year"     2024, or 032024, by itself                                 *)
(***************************************************************************)
EXTENDS Integers, FiniteSets, FiniteSetsExt, SequencesExt

\* The order in which deriveDocumentClassification asks for the period; only
\* the filename may have a year by itself.
PeriodSources == <<"pdf-metadata", "filename", "title-page", "first-pages">>
TypeSources == <<"filename", "pdf-metadata", "title-page", "first-pages">>

Mark == [kind : {"range", "numbered", "issue", "edition", "volume", "date", "year"},
         year : Nat, until : Nat, issue : Nat]

YearsOf(text) ==
  UNION {IF m.kind = "range" THEN {m.year, m.until} ELSE IF m.kind = "issue" THEN {} ELSE {m.year} :
         m \in ToSet(text)}

Has(text, kinds) == \E m \in ToSet(text) : m.kind \in kinds
FirstOf(text, kinds) == text[Min({i \in DOMAIN text : text[i].kind \in kinds})]

Period(from, to, issue) == [found |-> TRUE, start |-> from, end |-> to, issue |-> issue]
NoPeriod == [found |-> FALSE, start |-> 0, end |-> 0, issue |-> 0]

\* derivePeriodCandidate.  The expression for an issue sees the first edition
\* of any kind, and passes if its number is a year.
PeriodCandidate(text, bareYears) ==
  IF Has(text, {"range"})
    THEN Period(FirstOf(text, {"range"}).year, FirstOf(text, {"range"}).until, 0)
  ELSE IF Has(text, {"numbered"})
    THEN LET m == FirstOf(text, {"numbered"}) IN Period(m.year, m.year, m.issue)
  ELSE IF Has(text, {"issue"}) /\ FirstOf(text, {"issue", "edition"}).kind = "issue"
    THEN Period(0, 0, FirstOf(text, {"issue"}).issue)
  ELSE IF Has(text, {"edition", "volume"})
    THEN LET m == FirstOf(text, {"edition", "volume"}) IN Period(m.year, m.year, 0)
  ELSE IF Has(text, {"date"}) THEN LET m == FirstOf(text, {"date"}) IN Period(m.year, m.year, 0)
  ELSE IF bareYears /\ YearsOf(text) # {} THEN Period(Min(YearsOf(text)), Max(YearsOf(text)), 0)
  ELSE NoPeriod

CandidateOf(texts, source) == PeriodCandidate(texts[source], source = "filename")

\* periodDecision: the first source with a candidate, whether it has a year or
\* not.
PeriodDecision(texts) ==
  LET from == {i \in DOMAIN PeriodSources : CandidateOf(texts, PeriodSources[i]).found}
      source == PeriodSources[Min(from)]
  IN IF from = {} THEN [source |-> "none", period |-> NoPeriod]
     ELSE [source |-> source, period |-> CandidateOf(texts, source)]

\* typeDecision: rules[s] are the numbers of the TYPE_RULES text s matches; the
\* first source with any, and its first rule.
TypeDecision(rules) ==
  LET from == {i \in DOMAIN TypeSources : rules[TypeSources[i]] # {}}
      source == TypeSources[Min(from)]
  IN IF from = {} THEN [source |-> "none", type |-> 0]
     ELSE [source |-> source, type |-> Min(rules[source])]

-----------------------------------------------------------------------------
(* Properties, of the texts of one document.                               *)

\* The years of a period stand in the text of its source.  Without a year it
\* is an issue that text names before any edition of a year; pages and
\* metadata never give a year that stands by itself; and a document none of
\* whose texts says more has no period.
PeriodIsEvidenced(texts, decision) ==
  LET p == decision.period  Said == {"range", "numbered", "issue", "edition", "volume", "date"} IN
  IF decision.source = "none"
  THEN \A s \in ToSet(PeriodSources) :
         ~Has(texts[s], Said) /\ (s = "filename" => texts[s] = <<>>)
  ELSE LET text == texts[decision.source] IN
    /\ p.start = 0 <=> p.end = 0
    /\ p.end # 0 => {p.start, p.end} \subseteq YearsOf(text)
    /\ p.end # 0 => decision.source = "filename" \/ Has(text, Said)
    /\ p.end = 0 => \E i \in DOMAIN text :
         text[i].kind = "issue" /\ \A j \in 1..(i - 1) : text[j].kind # "edition"
    /\ \A m \in ToSet(text) : m.kind \in {"range", "numbered"} => p.end # 0

\* The type is that of the first source that names one, whatever the others.
TypeIsOfFirstSource(rules, decision) ==
  /\ decision.type = 0 <=> \A s \in ToSet(TypeSources) : rules[s] = {}
  /\ \A i \in DOMAIN TypeSources : TypeSources[i] = decision.source =>
       decision.type \in rules[TypeSources[i]] /\ \A j \in 1..(i - 1) : rules[TypeSources[j]] = {}
=============================================================================
