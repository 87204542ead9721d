---------------------------- MODULE NumberRanges ----------------------------
(***************************************************************************)
(* The numbers of quotes, invoices and credit notes: one row of            *)
(* billing_issuers counts them, invoices and credit notes on one counter,  *)
(* and begins again with the year.  createQuote locks the row before it    *)
(* reads it, createInvoice and nextCreditNumber read the snapshot of their *)
(* transaction.                                                            *)
(*                                                                         *)
(* One issuer.  The UPDATE of the counter holds the row until the commit,  *)
(* so UPDATE, INSERT and COMMIT are one step; all before it is read        *)
(* earlier.  A duplicate number, an exhausted range or a failing audit     *)
(* entry rolls the transaction back.                                       *)
(***************************************************************************)
EXTENDS Naturals

CONSTANTS
  Clerks,      \* requests under way
  LastNumber,  \* 9999 in the code
  LastYear     \* bound on the turns of the year

ASSUME NumberRangesAssumption == {LastNumber, LastYear} \subseteq Nat \ {0}

Years == 1..LastYear
Numbers == Years \X (1..LastNumber)
Kinds == {"quote", "invoice", "credit"}

VARIABLES
  year,       \* new Date().getFullYear()
  issuer,     \* the row: counter and year of the invoices, and of the quotes
  numbered,   \* kind -> numbers given; those of the credit notes begin with GS-
  npc,        \* clerk -> next statement
  nkind, local, \* clerk -> what it makes; the counter it has read, later its number
  refused,    \* history: kinds refused for a duplicate number
  mixed       \* history: the invoices share their counter, see NumbersRunOn

numbersVars == <<year, issuer, numbered, npc, nkind, local, refused, mixed>>

Counter == [next : Nat, of : 0..LastYear]
NoCounter == [next |-> 1, of |-> 0]

NumberRangesTypeOK ==
  /\ year \in Years /\ issuer \in [{"quote", "invoice"} -> Counter]
  /\ numbered \in [Kinds -> SUBSET Numbers]
  /\ npc \in [Clerks -> {"idle", "read", "number", "locked"}]
  /\ nkind \in [Clerks -> Kinds] /\ local \in [Clerks -> Counter]
  /\ refused \subseteq Kinds /\ mixed \in BOOLEAN

NumberRangesInit ==
  /\ year = 1 /\ issuer = [k \in {"quote", "invoice"} |-> NoCounter]
  /\ numbered = [k \in Kinds |-> {}]
  /\ npc = [c \in Clerks |-> "idle"] /\ nkind = [c \in Clerks |-> "quote"]
  /\ local = [c \in Clerks |-> NoCounter]
  /\ refused = {} /\ mixed = FALSE

RowHeld == \E c \in Clerks : npc[c] = "locked"

NewYear ==
  /\ year < LastYear /\ year' = year + 1
  /\ UNCHANGED <<issuer, numbered, npc, nkind, local, refused, mixed>>

\* The number after a counter: in another year than its own, the first.
Following(counter) == [next |-> IF counter.of = year THEN counter.next ELSE 1, of |-> year]

EndRequest(c) ==
  /\ npc' = [npc EXCEPT ![c] = "idle"] /\ nkind' = [nkind EXCEPT ![c] = "quote"]
  /\ local' = [local EXCEPT ![c] = NoCounter]

\* The INSERT of a number: a duplicate is refused and undoes the UPDATE.
Insert(kind, number, counter, value) ==
  IF number \in numbered[kind]
  THEN refused' = refused \cup {kind} /\ UNCHANGED <<issuer, numbered>>
  ELSE /\ numbered' = [numbered EXCEPT ![kind] = @ \cup {number}]
       /\ issuer' = [issuer EXCEPT ![counter] = value]
       /\ UNCHANGED refused

-----------------------------------------------------------------------------
(* Quotes.                                                                 *)

\* The bug: the row is read without FOR UPDATE.
LockIssuerInVain(c) ==
  /\ npc[c] = "idle" /\ npc' = [npc EXCEPT ![c] = "locked"]
  /\ local' = [local EXCEPT ![c] = Following(issuer["quote"])]
  /\ UNCHANGED <<year, issuer, numbered, nkind, refused, mixed>>

\* SELECT ... FOR UPDATE, then the year.
LockIssuer(c) ==
  /\ npc[c] = "idle" /\ ~RowHeld /\ npc' = [npc EXCEPT ![c] = "locked"]
  /\ local' = [local EXCEPT ![c] = Following(issuer["quote"])]
  /\ UNCHANGED <<year, issuer, numbered, nkind, refused, mixed>>

CreateQuote(c) ==
  LET n == local[c].next IN
  /\ npc[c] = "locked" /\ n <= LastNumber
  /\ Insert("quote", <<local[c].of, n>>, "quote", [local[c] EXCEPT !.next = n + 1])
  /\ EndRequest(c)
  /\ UNCHANGED <<year, mixed>>

-----------------------------------------------------------------------------
(* Invoices, from quotes or not, and credit notes.                         *)

\* listIssuers, or the SELECT of nextCreditNumber, opens the snapshot.
ReadIssuer(c, kind) ==
  /\ npc[c] = "idle" /\ npc' = [npc EXCEPT ![c] = "read"]
  /\ nkind' = [nkind EXCEPT ![c] = kind] /\ local' = [local EXCEPT ![c] = issuer["invoice"]]
  /\ UNCHANGED <<year, issuer, numbered, refused, mixed>>

\* The year, before the UPDATE waits for the row.  A credit note takes it after.
TakeYear(c) ==
  /\ npc[c] = "read" /\ nkind[c] = "invoice" /\ npc' = [npc EXCEPT ![c] = "number"]
  /\ local' = [local EXCEPT ![c] = Following(@)]
  /\ UNCHANGED <<year, issuer, numbered, nkind, refused, mixed>>

\* The counter becomes one more than in the snapshot, whatever it is now.
CreateInvoice(c) ==
  LET n == local[c].next IN
  /\ npc[c] = "number" /\ ~RowHeld /\ n <= LastNumber
  /\ Insert("invoice", <<local[c].of, n>>, "invoice", [local[c] EXCEPT !.next = n + 1])
  /\ mixed' = (mixed \/ local[c].of < issuer["invoice"].of)
  /\ EndRequest(c)
  /\ UNCHANGED year

\* nextCreditNumber, createCreditNote: the counter of the invoices moves on,
\* its year stays.  The model ends the range here as well.
CreateCreditNote(c) ==
  /\ npc[c] = "read" /\ nkind[c] = "credit" /\ ~RowHeld /\ local[c].next <= LastNumber
  /\ Insert("credit", <<year, local[c].next>>, "invoice",
            [issuer["invoice"] EXCEPT !.next = @ + 1])
  /\ mixed' = TRUE
  /\ EndRequest(c)
  /\ UNCHANGED year

\* Anything after the UPDATE throws, or the range is exhausted.
RollBack(c) ==
  /\ npc[c] # "idle"
  /\ EndRequest(c)
  /\ UNCHANGED <<year, issuer, numbered, refused, mixed>>

-----------------------------------------------------------------------------

Clerk(c) ==
  \/ LockIssuer(c) \/ CreateQuote(c)
  \/ TakeYear(c) \/ CreateInvoice(c) \/ CreateCreditNote(c) \/ RollBack(c)
  \/ \E kind \in {"invoice", "credit"} : ReadIssuer(c, kind)

NumberRangesNext == NewYear \/ \E c \in Clerks : Clerk(c)

NumberRangesSpec == NumberRangesInit /\ [][NumberRangesNext]_numbersVars

-----------------------------------------------------------------------------
(* Properties.                                                             *)

\* The numbers of kind in year y are 1, 2, ... without a gap, and the counter
\* stands at the one to follow.
RunsOn(kind) ==
  \A y \in Years : \E n \in 0..LastNumber :
    /\ \A i \in 1..LastNumber : <<y, i>> \in numbered[kind] <=> i <= n
    /\ issuer[kind].of = y => issuer[kind].next = n + 1
    /\ issuer[kind].of < y => n = 0

\* Quotes are numbered without a gap and none is refused for its number,
\* however requests and the turn of the year overlap; invoices without a gap
\* too, unless a credit note has moved their counter or one of the old year
\* has set it back after the turn.  (Then, as the code stands, the counter may
\* stand at a number there is, and every further invoice is refused.)
NumbersRunOn ==
  /\ RunsOn("quote") /\ "quote" \notin refused
  /\ ~mixed => RunsOn("invoice")
=============================================================================
