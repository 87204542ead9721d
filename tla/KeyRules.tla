------------------------------ MODULE KeyRules ------------------------------
(***************************************************************************)
(* Which search keys a term gets: buildSearchKeys in                       *)
(* modules/ingestion/src/search-keys.ts.  A query is the tuple of its      *)
(* words after the term; keys of different terms never meet.  Words are    *)
(* numbers: postal codes in their order, names above them.  Districts are  *)
(* numbered by their AGS.                                                  *)
(***************************************************************************)
EXTENDS Integers, FiniteSets, FiniteSetsExt, SequencesExt

\* The district of the municipality the locality belongs to; a locality is a
\* record [name, postal, municipality], a municipality <<district, number>>.
DistrictOf(l) == l.municipality[1]

DistrictsNamed(localities, name) == {DistrictOf(l) : l \in {k \in localities : k.name = name}}
PostalCodesOf(localities, name, district) ==
  {l.postal : l \in {k \in localities : k.name = name /\ DistrictOf(k) = district}}

\* addUnique: the first key of a query stays, but an administration takes over
\* that of a locality.
AddUnique(keys, k) ==
  LET same == {e \in keys : e.query = k.query} IN
  IF same = {} THEN keys \cup {k}
  ELSE IF k.type = "verwaltung" /\ \A e \in same : e.type = "ort" THEN (keys \ same) \cup {k}
  ELSE keys

Key(area, type, scope, query) ==
  [area |-> area.id, type |-> type, scope |-> scope, query |-> query]

Kind == 0
\* "Landkreis Rosenheim", but "Rosenheim" for the city.
AreaKey(a) == Key(a, "kreis", a.name, IF a.city THEN <<a.name>> ELSE <<Kind, a.name>>)

\* The bug: places of one name are not told apart.
PlainKey(a, localities, name) == Key(a, "ort", name, <<name>>)

\* A name that several districts have is followed by a postal code.
PlaceKey(a, localities, name) ==
  Key(a, "ort", name,
      IF Cardinality(DistrictsNamed(localities, name)) > 1
      THEN <<name, Min(PostalCodesOf(localities, name, a.id))>> ELSE <<name>>)

PlaceKeys(a, localities) ==
  LET names == {l.name : l \in {k \in localities : DistrictOf(k) = a.id}} \ {a.name}
  IN {PlaceKey(a, localities, n) : n \in names}

\* A postal code belongs to the district with most of its localities, of those
\* with as many to the smallest; to none if that is not among the areas.
Share(localities, postal, d) ==
  Cardinality({l \in localities : l.postal = postal /\ DistrictOf(l) = d})
Winner(localities, postal) ==
  LET districts == {DistrictOf(l) : l \in {k \in localities : k.postal = postal}}
  IN Min({d \in districts : \A e \in districts :
            Share(localities, postal, e) <= Share(localities, postal, d)})
PostalKeys(areas, localities) ==
  UNION {{Key(a, "plz", p, <<p>>) : a \in {b \in ToSet(areas) : b.id = Winner(localities, p)}} :
         p \in {l.postal : l \in localities}}

AdministrationKeys(areas, administrations) ==
  UNION {{Key(a, "verwaltung", s.scope, <<s.scope>>) : a \in {b \in ToSet(areas) : b.id = s.district}} :
         s \in administrations}

\* buildSearchKeys for one term; `areas` is sorted.  The keys of one step have
\* different queries, so their order within it does not matter.
BuildSearchKeys(areas, localities, administrations) ==
  LET steps == FlattenSeq([i \in DOMAIN areas |->
                  <<AreaKey(areas[i])>> \o SetToSeq(PlaceKeys(areas[i], localities))])
               \o SetToSeq(PostalKeys(areas, localities))
               \o SetToSeq(AdministrationKeys(areas, administrations))
  IN FoldLeft(AddUnique, {}, steps)

-----------------------------------------------------------------------------
(* Properties, of the keys of one input.                                   *)

\* No place of a district in the list is left out: its name is searched for
\* that district, unless the very same query is that of an administration, of
\* an earlier area that shares name and postal code, or of a city of this name.
\* And what a district gets by postal code no other district has more of.
EveryPlaceIsSearched(areas, localities, keys) ==
  /\ \A i \in DOMAIN areas : \A l \in localities :
       DistrictOf(l) = areas[i].id /\ l.name # areas[i].name =>
         \E k \in keys :
           \/ k.type = "ort" /\ k.area = areas[i].id /\ k.scope = l.name
           \/ k.type = "verwaltung" /\ k.scope = l.name
           \/ k.type = "kreis" /\ k.query = <<l.name>>
           \/ /\ k.type = "ort" /\ \E j \in 1..(i - 1) : areas[j].id = k.area
              /\ k.query = <<l.name, Min(PostalCodesOf(localities, l.name, areas[i].id))>>
  /\ \A k \in keys : k.type = "plz" =>
       \A a \in ToSet(areas) : Share(localities, k.scope, a.id) <= Share(localities, k.scope, k.area)
  /\ \A j, k \in keys : j.query = k.query => j = k
=============================================================================
