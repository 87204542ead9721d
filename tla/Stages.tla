------------------------------- MODULE Stages -------------------------------
(***************************************************************************)
(* Which documents a stage of scripts/run50-etappe.ts takes: the stock, a  *)
(* share of its pages or a list of documents, the exclusions, and the      *)
(* reasons given for what a list names in vain.                            *)
(*                                                                         *)
(* A stock is a set of documents [id, state, approved, staged, year,       *)
(* filenameYear, pages, hash]; a year is 0 if there is none.  An order     *)
(* [share, list, excluded, maxPages, oldest] has a share in percent or the *)
(* list of ids, not both: 0 stands for no share and no limit of pages.     *)
(***************************************************************************)
EXTENDS Integers, FiniteSets, FiniteSetsExt, SequencesExt

PagesOf(D) == FoldSet(LAMBDA d, sum : d.pages + sum, 0, D)
ByIds(D, ids) == {d \in D : d.id \in ids}

\* run50EtappePeriodEndYear
PeriodEndYear(d) == IF d.year > 0 THEN d.year ELSE d.filenameYear

\* isRun50EtappeYearEligible, with the oldest year that still counts.
YearEligible(d, oldest) == PeriodEndYear(d) = 0 \/ PeriodEndYear(d) >= oldest

\* The rows of the SELECT; of a list only what it names.
Candidates(stock, order) ==
  {d \in stock : /\ d.state = "processed" /\ ~d.approved /\ ~d.staged
                 /\ d.id \notin order.excluded
                 /\ order.share = 0 => d.id \in ToSet(order.list)}

Eligible(d, order) ==
  YearEligible(d, order.oldest) /\ (order.maxPages = 0 \/ d.pages <= order.maxPages)

\* run50EtappeTargetPages: rounded up, of the processed documents that are not
\* excluded.
TargetPages(stock, order) ==
  LET total == PagesOf({d \in stock : d.state = "processed" /\ d.id \notin order.excluded})
  IN (total * order.share + 99) \div 100

\* sha256 of stage and document, then the id.
Before(d, e) == d.hash < e.hash \/ (d.hash = e.hash /\ d.id < e.id)

\* selectRun50EtappeDocuments: the first ones until the target is reached.
SelectDocuments(D, target) ==
  {d \in D : PagesOf({e \in D : Before(e, d)}) < target}

Selected50(stock, order) ==
  LET D == {d \in Candidates(stock, order) : Eligible(d, order)}
  IN IF order.share > 0 THEN SelectDocuments(D, TargetPages(stock, order)) ELSE D

\* reasonForUnselectedDocument: the first that applies.
Reason(stock, order, id) ==
  LET listed == {d \in stock : d.id = id}
      d == CHOOSE x \in listed : TRUE IN
  IF listed = {} THEN "unknown"
  ELSE IF d.staged THEN "staged"
  ELSE IF d.state # "processed" THEN "not processed"
  ELSE IF d.approved THEN "approved"
  ELSE IF id \in order.excluded THEN "excluded"
  ELSE IF ~YearEligible(d, order.oldest) THEN "year"
  ELSE IF order.maxPages > 0 /\ d.pages > order.maxPages THEN "too large"
  ELSE "unknown"

\* deriveRun50EtappeAreaFromContacts: the city most contacts have, of those
\* with as many the first by name; then its postal code likewise, if any has
\* one.  Contacts are <<city, postal, n>>, n telling them apart; 0 is unknown.
Votes(contacts, i, v) == Cardinality({c \in contacts : c[i] = v})
Most(contacts, i) ==
  LET values == {c[i] : c \in contacts} \ {0}
  IN IF values = {} THEN 0
     ELSE Min({v \in values : \A u \in values : Votes(contacts, i, u) <= Votes(contacts, i, v)})
AreaFromContacts(contacts) ==
  LET city == Most(contacts, 1)
  IN <<city, IF city = 0 THEN 0 ELSE Most({c \in contacts : c[1] = city}, 2)>>

-----------------------------------------------------------------------------
(* The command line, arguments of parseRun50EtappeArguments.               *)

Options50 == {"--mandant", "--etappe", "--anteil", "--max-seiten", "--ausschliessen", "--dokumente"}

\* The value is one the option takes: a positive number, a share up to 100, a
\* name, a file.  "7" and "120" are numbers, 120 no share.
Takes(option, value) ==
  CASE option \in {"--mandant", "--max-seiten"} -> value \in {"7", "120"}
    [] option = "--anteil" -> value = "7"
    [] OTHER -> TRUE

\* The parser after one argument: what it waits for, what it has read.
Start == [ok |-> TRUE, waits |-> "", read |-> {}, apply |-> FALSE]
ParseNext(p, argument) ==
  IF ~p.ok THEN p
  ELSE IF p.waits # "" THEN
    IF argument \in Options50 \cup {"--anwenden"} THEN [p EXCEPT !.ok = FALSE]
    ELSE [p EXCEPT !.waits = "", !.ok = \A r \in p.read : r[1] # p.waits,
                   !.read = @ \cup {<<p.waits, argument>>}]
  ELSE IF argument = "--anwenden" THEN [p EXCEPT !.ok = ~p.apply, !.apply = TRUE]
  ELSE IF argument \in Options50 THEN [p EXCEPT !.waits = argument]
  ELSE [p EXCEPT !.ok = FALSE]

\* parseRun50EtappeArguments: an order is accepted.
ParseArguments(arguments) ==
  LET p == FoldLeft(ParseNext, Start, arguments)
      given == {r[1] : r \in p.read} IN
  /\ p.ok /\ p.waits = ""
  /\ {"--mandant", "--etappe"} \subseteq given
  /\ Cardinality(given \cap {"--anteil", "--dokumente"}) = 1
  /\ \A r \in p.read : Takes(r[1], r[2])

-----------------------------------------------------------------------------
(* Properties, of one stock and order.                                     *)

\* A stage by share reaches its target or takes all there is, and no document
\* too many: without the last one it would fall short.  Nothing in it is
\* decided, staged before, excluded, too old or too large.
StageReachesTarget(stock, order, chosen) ==
  LET target == TargetPages(stock, order)
      last == {d \in chosen : \A e \in chosen : ~Before(d, e)} IN
  /\ order.share > 0 =>
       /\ PagesOf(chosen) >= target \/ chosen = {d \in Candidates(stock, order) : Eligible(d, order)}
       /\ PagesOf(chosen \ last) < target \/ chosen = {}
  /\ \A d \in chosen : Reason(stock, order, d.id) = "unknown"

\* What a list names in vain has a reason that is known, unless the document
\* is not: the conditions of the SELECT and those of the report agree, though
\* they are written twice.
RefusalsAreExplained(stock, order, chosen) ==
  order.share = 0 =>
    \A id \in ToSet(order.list) \ {d.id : d \in chosen} :
      Reason(stock, order, id) = "unknown" <=> ByIds(stock, {id}) = {}

\* The place given for a document without an area is one its contacts name: no
\* other city has more of them, and the postal code is one of that city's.
PlaceIsAttested(contacts, place) ==
  /\ place[1] = 0 <=> \A c \in contacts : c[1] = 0
  /\ \A c \in contacts : c[1] # 0 => Votes(contacts, 1, c[1]) <= Votes(contacts, 1, place[1])
  /\ place[2] # 0 => \E c \in contacts : c[1] = place[1] /\ c[2] = place[2]
  /\ \A c \in contacts : c[1] = place[1] /\ place[1] # 0 /\ c[2] # 0 => place[2] # 0

\* A command line is accepted exactly if every option has its value behind it
\* and every value its option before it, none is given twice, the two needed
\* are there, and either a share or a list is.
CommandLineIsRead(arguments, accepted) ==
  LET n == Len(arguments)  Flags == Options50 \cup {"--anwenden"} IN
  accepted <=>
    /\ \A i \in 1..n : arguments[i] \in Options50 =>
         i < n /\ arguments[i + 1] \notin Flags /\ Takes(arguments[i], arguments[i + 1])
    /\ \A i \in 1..n : arguments[i] \notin Flags => i > 1 /\ arguments[i - 1] \in Options50
    /\ \A i, j \in 1..n : arguments[i] \in Flags /\ arguments[i] = arguments[j] => i = j
    /\ {"--mandant", "--etappe"} \subseteq ToSet(arguments)
    /\ ("--anteil" \in ToSet(arguments)) # ("--dokumente" \in ToSet(arguments))
=============================================================================
