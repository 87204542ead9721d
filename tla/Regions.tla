------------------------------ MODULE Regions ------------------------------
(***************************************************************************)
(* Where a document is from: deriveRegion and selectRegionSource in        *)
(* modules/ingestion/src/classification.ts.  A text is the sequence of the *)
(* marks the expressions of the code look for:                             *)
(*   "state"     Bayern, the numbers in the order of STATES                *)
(*   "district"  Landkreis Rosenheim                                       *)
(*   "name"      the name of a district or place by itself                 *)
(*   "town"      Gemeinde Aying;  "ofTown"  der Stadt Aying, which two of  *)
(*               the expressions see;  "welcome"  willkommen in Aying      *)
(***************************************************************************)
EXTENDS Integers, FiniteSets, FiniteSetsExt, SequencesExt

RegionMark == [kind : {"state", "district", "name", "town", "ofTown", "welcome"}, value : Nat]

\* The values of one kind of mark in a text, in order.
ValuesOf(text, kinds) ==
  FoldLeft(LAMBDA found, m : IF m.kind \in kinds THEN Append(found, m.value) ELSE found, <<>>, text)

\* placeCandidates: in the order of the expressions, then of the text.
PlaceCandidates(text) ==
  ValuesOf(text, {"town", "ofTown"}) \o ValuesOf(text, {"ofTown"}) \o ValuesOf(text, {"welcome"})

Times(places, p) == Cardinality({i \in DOMAIN places : places[i] = p})

\* strongestPlace: the first of those found most often.
Strongest(places) ==
  places[Min({i \in DOMAIN places :
                \A q \in ToSet(places) : Times(places, q) <= Times(places, places[i])})]

\* Every mark with its name mentions a district.
Mentions(text, district) == Cardinality({i \in DOMAIN text : text[i].kind # "state" /\ text[i].value = district})

\* deriveRegion; 0 is null.  A district hides a place found once, if it is
\* mentioned more than four times.
DeriveRegion(text) ==
  LET states == ToSet(ValuesOf(text, {"state"}))
      districts == ValuesOf(text, {"district"})
      places == PlaceCandidates(text)
      times == IF places = <<>> THEN 0 ELSE Times(places, Strongest(places))
      district == IF districts = <<>> THEN 0 ELSE districts[1]
      shown == times >= 2 \/ (times = 1 /\ (district = 0 \/ Mentions(text, district) <= 4))
  IN [state |-> IF states = {} THEN 0 ELSE Min(states),
      district |-> district,
      place |-> IF shown THEN Strongest(places) ELSE 0,
      repeated |-> times > 1]

\* In hundredths, 0 is null.
Confidence(r) ==
  IF r.state # 0 /\ r.district # 0 THEN 90
  ELSE IF r.state # 0 /\ r.place # 0 THEN (IF r.repeated THEN 82 ELSE 65)
  ELSE IF r.state # 0 THEN 96
  ELSE IF r.district # 0 THEN 72
  ELSE IF r.place # 0 THEN (IF r.repeated THEN 78 ELSE 52)
  ELSE 0

FieldsOf(r) ==
  {f \in {<<"place", r.place>>, <<"district", r.district>>, <<"state", r.state>>} : f[2] # 0}

RegionSources == <<"filename", "pdf-metadata", "title-page", "first-pages">>

\* selectRegionSource: the first of those that name most of the region's
\* fields, if they name any.  `texts` has what stands before, on and after the
\* title page.
RegionOf(texts) ==
  LET all == texts["title-page"] \o texts["later"]
      text == [s \in ToSet(RegionSources) |-> IF s = "first-pages" THEN all ELSE texts[s]]
      region == DeriveRegion(texts["filename"] \o texts["pdf-metadata"] \o all)
      matches(s) == Cardinality(FieldsOf(region) \cap FieldsOf(DeriveRegion(text[s])))
      best == RegionSources[Min({i \in DOMAIN RegionSources :
                \A t \in ToSet(RegionSources) : matches(t) <= matches(RegionSources[i])})]
  IN [region |-> region, confidence |-> Confidence(region),
      source |-> IF matches(best) > 0 THEN best ELSE "none"]

-----------------------------------------------------------------------------
(* Properties, of the texts of one document.                               *)

\* A region has a confidence exactly if something was found; every part of it
\* stands in one of the texts; and it has a source that by itself names a part
\* of it, unless it is a place that only the texts together name often enough.
RegionIsEvidenced(texts, answer) ==
  LET r == answer.region
      marks == UNION {ToSet(texts[s]) : s \in DOMAIN texts} IN
  /\ answer.confidence # 0 <=> FieldsOf(r) # {}
  /\ r.state # 0 => [kind |-> "state", value |-> r.state] \in marks
  /\ r.district # 0 => [kind |-> "district", value |-> r.district] \in marks
  /\ r.place # 0 => \E k \in {"town", "ofTown", "welcome"} : [kind |-> k, value |-> r.place] \in marks
  /\ r.state # 0 \/ r.district # 0 => answer.source # "none"
=============================================================================
