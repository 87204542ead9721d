------------------------------ MODULE Billing ------------------------------
(***************************************************************************)
(* From quote to payment (modules/billing/src/service.ts and               *)
(* drizzle-repository.ts): send, decline and accept a quote, issue the     *)
(* invoice, record payments, run the dunning.                              *)
(*                                                                         *)
(* Every operation but the dunning run is one MySQL transaction at         *)
(* REPEATABLE READ: plain SELECTs read the snapshot of the first one,      *)
(* SELECT ... FOR UPDATE and UPDATE wait for the row and meet it as it was *)
(* committed last.  One action is one statement that others can notice;    *)
(* what a transaction writes, others see at its Commit.                    *)
(*                                                                         *)
(* A quote names the invoice made from it.  An amount is a number of       *)
(* units, and every invoice has the same total.  Who has been waiting long *)
(* enough to be dunned is left open.                                       *)
(***************************************************************************)
EXTENDS Naturals

CONSTANTS
  Quotes,
  Clients,      \* requests in flight at a time
  Dunners,      \* runDunning calls in flight: the daily job, an operator
  None,
  Total,        \* what every invoice amounts to
  MaxLevel,     \* dunning levels 1..MaxLevel
  MaxReceived   \* bound on the sum of the payments of an invoice

ASSUME ConstantsAssumption ==
  /\ Total \in Nat \ {0}
  /\ MaxLevel \in Nat
  /\ MaxReceived \in Nat
  /\ None \notin Quotes \cup Clients

VARIABLES
  qstatus,      \* quotes.status
  linked,       \* quotes whose invoiceId is set
  made,         \* number of invoices made from each quote
  status,       \* invoices.status
  paid,         \* invoices.paidAmount
  received,     \* the sum over the rows of payments
  dunned,       \* levels with a row in dunning_log
  quoteLock, invoiceLock,
  \* each client's transaction
  pc, on, amount,
  credit,       \* paidAmount to be written, from the payments in the snapshot
  \* each dunning run
  dpc, listed,
  level         \* the level to be issued for each invoice, or 0

quoteVars == <<qstatus, linked, made>>
invoiceVars == <<status, paid, received, dunned>>
clientVars == <<pc, on, amount, credit>>
dunnerVars == <<dpc, listed, level>>
vars == <<quoteVars, invoiceVars, quoteLock, invoiceLock, clientVars, dunnerVars>>

QuoteStatus == {"draft", "sent", "accepted", "declined"}
Status == {"absent", "draft", "issued", "partially_paid", "paid"}
Payable == {"issued", "partially_paid"}
Pc == {"idle", "sending", "sent", "declining", "declined", "accepting",
       "issuing", "issued", "paying", "credited"}

TypeOK ==
  /\ qstatus \in [Quotes -> QuoteStatus]
  /\ linked \subseteq Quotes
  /\ made \in [Quotes -> Nat]
  /\ status \in [Quotes -> Status]
  /\ paid \in [Quotes -> Nat]
  /\ received \in [Quotes -> Nat]
  /\ dunned \in [Quotes -> SUBSET (1..MaxLevel)]
  /\ quoteLock \in [Quotes -> Clients \cup {None}]
  /\ invoiceLock \in [Quotes -> Clients \cup {None}]
  /\ pc \in [Clients -> Pc]
  /\ on \in [Clients -> Quotes \cup {None}]
  /\ amount \in [Clients -> Nat]
  /\ credit \in [Clients -> Nat]
  /\ dpc \in [Dunners -> {"idle", "listed", "dunning"}]
  /\ listed \in [Dunners -> SUBSET Quotes]
  /\ level \in [Dunners -> [Quotes -> 0..MaxLevel]]

Init ==
  /\ qstatus = [q \in Quotes |-> "draft"]
  /\ linked = {}
  /\ made = [q \in Quotes |-> 0]
  /\ status = [q \in Quotes |-> "absent"]
  /\ paid = [q \in Quotes |-> 0]
  /\ received = [q \in Quotes |-> 0]
  /\ dunned = [q \in Quotes |-> {}]
  /\ quoteLock = [q \in Quotes |-> None]
  /\ invoiceLock = [q \in Quotes |-> None]
  /\ pc = [c \in Clients |-> "idle"]
  /\ on = [c \in Clients |-> None]
  /\ amount = [c \in Clients |-> 0]
  /\ credit = [c \in Clients |-> 0]
  /\ dpc = [d \in Dunners |-> "idle"]
  /\ listed = [d \in Dunners |-> {}]
  /\ level = [d \in Dunners |-> [q \in Quotes |-> 0]]

\* The first statement of a transaction on q.
Start(c, q, label) ==
  /\ pc[c] = "idle"
  /\ pc' = [pc EXCEPT ![c] = label]
  /\ on' = [on EXCEPT ![c] = q]

Goto(c, from, to) ==
  /\ pc[c] = from
  /\ pc' = [pc EXCEPT ![c] = to]
  /\ UNCHANGED on

\* COMMIT or ROLLBACK: locks are released, locals are gone.
End(c) ==
  /\ pc' = [pc EXCEPT ![c] = "idle"]
  /\ on' = [on EXCEPT ![c] = None]
  /\ amount' = [amount EXCEPT ![c] = 0]
  /\ credit' = [credit EXCEPT ![c] = 0]
  /\ quoteLock' = [q \in Quotes |-> IF quoteLock[q] = c THEN None ELSE quoteLock[q]]
  /\ invoiceLock' = [q \in Quotes |-> IF invoiceLock[q] = c THEN None ELSE invoiceLock[q]]

Rollback(c) ==
  /\ pc[c] # "idle"
  /\ End(c)
  /\ UNCHANGED <<quoteVars, invoiceVars, dunnerVars>>

-----------------------------------------------------------------------------
(* Quotes.                                                                 *)

\* transitionQuote: getQuote is a plain read, and the UPDATE that follows has
\* no condition on the status.
ReadQuote(c, q) ==
  /\ \/ qstatus[q] = "draft" /\ Start(c, q, "sending")
     \/ qstatus[q] = "sent" /\ Start(c, q, "declining")
  /\ UNCHANGED <<quoteVars, invoiceVars, quoteLock, invoiceLock, amount, credit, dunnerVars>>

UpdateQuote(c) ==
  LET q == on[c] IN
  /\ \/ Goto(c, "sending", "sent")
     \/ Goto(c, "declining", "declined")
  /\ quoteLock[q] = None
  /\ quoteLock' = [quoteLock EXCEPT ![q] = c]
  /\ UNCHANGED <<quoteVars, invoiceVars, invoiceLock, amount, credit, dunnerVars>>

CommitQuote(c) ==
  /\ pc[c] \in {"sent", "declined"}
  /\ qstatus' = [qstatus EXCEPT ![on[c]] = pc[c]]
  /\ End(c)
  /\ UNCHANGED <<linked, made, invoiceVars, dunnerVars>>

\* (Variants with a plausible bug stand before the definition they replace.)
\* getQuote in place of getQuoteForUpdate.
AcceptUnlocked(c, q) ==
  /\ q \notin linked
  /\ qstatus[q] = "sent"
  /\ Start(c, q, "accepting")
  /\ UNCHANGED <<quoteVars, invoiceVars, quoteLock, invoiceLock, amount, credit, dunnerVars>>

\* acceptQuote: getQuoteForUpdate.  A quote that has its invoice is answered
\* with it, and nothing changes.
Accept(c, q) ==
  /\ quoteLock[q] = None
  /\ q \notin linked
  /\ qstatus[q] = "sent"
  /\ Start(c, q, "accepting")
  /\ quoteLock' = [quoteLock EXCEPT ![q] = c]
  /\ UNCHANGED <<quoteVars, invoiceVars, invoiceLock, amount, credit, dunnerVars>>

\* createInvoiceInTransaction, setQuoteInvoiceId and setQuoteStatus.
CommitAccept(c) ==
  LET q == on[c] IN
  /\ pc[c] = "accepting"
  /\ qstatus' = [qstatus EXCEPT ![q] = "accepted"]
  /\ linked' = linked \cup {q}
  /\ made' = [made EXCEPT ![q] = @ + 1]
  /\ status' = [status EXCEPT ![q] = "draft"]
  /\ End(c)
  /\ UNCHANGED <<paid, received, dunned, dunnerVars>>

-----------------------------------------------------------------------------
(* Invoices and payments.                                                  *)

\* issueInvoice: getInvoice, twice, is a plain read of one snapshot.
ReadToIssue(c, q) ==
  /\ status[q] = "draft"
  /\ Start(c, q, "issuing")
  /\ UNCHANGED <<quoteVars, invoiceVars, quoteLock, invoiceLock, amount, credit, dunnerVars>>

\* setInvoiceIssued: UPDATE without a condition on the status.
SetInvoiceIssued(c) ==
  LET q == on[c] IN
  /\ Goto(c, "issuing", "issued")
  /\ invoiceLock[q] = None
  /\ invoiceLock' = [invoiceLock EXCEPT ![q] = c]
  /\ UNCHANGED <<quoteVars, invoiceVars, quoteLock, amount, credit, dunnerVars>>

CommitIssue(c) ==
  /\ pc[c] = "issued"
  /\ status' = [status EXCEPT ![on[c]] = "issued"]
  /\ End(c)
  /\ UNCHANGED <<quoteVars, paid, received, dunned, dunnerVars>>

\* recordPayment and addPayment up to the SUM over payments: all plain reads of
\* one snapshot and the insert of the own payment.  The amount may be zero.
ReadToPay(c, q, a) ==
  /\ status[q] \in Payable
  /\ paid[q] + a <= Total
  /\ received[q] + a <= MaxReceived
  /\ Start(c, q, "paying")
  /\ amount' = [amount EXCEPT ![c] = a]
  /\ credit' = [credit EXCEPT ![c] = received[q] + a]
  /\ UNCHANGED <<quoteVars, invoiceVars, quoteLock, invoiceLock, dunnerVars>>

\* UPDATE of paidAmount and status.
UpdatePaid(c) ==
  LET q == on[c] IN
  /\ Goto(c, "paying", "credited")
  /\ invoiceLock[q] = None
  /\ invoiceLock' = [invoiceLock EXCEPT ![q] = c]
  /\ UNCHANGED <<quoteVars, invoiceVars, quoteLock, amount, credit, dunnerVars>>

\* The own payment added to a sum that contains it.
CommitPaymentTwice(c) ==
  LET q == on[c] IN
  /\ pc[c] = "credited"
  /\ paid' = [paid EXCEPT ![q] = credit[c] + amount[c]]
  /\ status' = [status EXCEPT
       ![q] = IF credit[c] = Total THEN "paid" ELSE "partially_paid"]
  /\ received' = [received EXCEPT ![q] = @ + amount[c]]
  /\ End(c)
  /\ UNCHANGED <<quoteVars, dunned, dunnerVars>>

CommitPayment(c) ==
  LET q == on[c] IN
  /\ pc[c] = "credited"
  /\ paid' = [paid EXCEPT ![q] = credit[c]]
  /\ status' = [status EXCEPT
       ![q] = IF credit[c] = Total THEN "paid" ELSE "partially_paid"]
  /\ received' = [received EXCEPT ![q] = @ + amount[c]]
  /\ End(c)
  /\ UNCHANGED <<quoteVars, dunned, dunnerVars>>

-----------------------------------------------------------------------------
(* runDunning: two reads outside any transaction, then one transaction for *)
(* each invoice.                                                           *)

\* Whatever has something outstanding.
OverdueInAnyStatus(q) == status[q] # "absent" /\ paid[q] # Total

\* listInvoices: payable ones with something outstanding.
Overdue(q) == status[q] \in Payable /\ paid[q] # Total

ListInvoices(d) ==
  LET open == {q \in Quotes : Overdue(q)} IN
  /\ dpc[d] = "idle"
  /\ open # {}
  /\ dpc' = [dpc EXCEPT ![d] = "listed"]
  /\ listed' = [listed EXCEPT ![d] = open]
  /\ UNCHANGED <<quoteVars, invoiceVars, quoteLock, invoiceLock, clientVars, level>>

\* Any level not issued before.
IsHigherLevel(q, n) == \A m \in dunned[q] : m < n

\* The level after the highest one issued.
IsNextLevel(q, n) ==
  /\ n = 1 \/ n - 1 \in dunned[q]
  /\ \A m \in dunned[q] : m < n

\* There is taken to be one level more than there are.
ListEntriesEndless(d) ==
  /\ dpc[d] = "listed"
  /\ \E next \in [Quotes -> 0..(MaxLevel + 1)] :
       /\ \A q \in Quotes : next[q] # 0 => q \in listed[d] /\ IsNextLevel(q, next[q])
       /\ level' = [level EXCEPT ![d] = next]
  /\ dpc' = [dpc EXCEPT ![d] = "dunning"]
  /\ listed' = [listed EXCEPT ![d] = {}]
  /\ UNCHANGED <<quoteVars, invoiceVars, quoteLock, invoiceLock, clientVars>>

\* listDunningEntries.  An invoice is taken up if there is a next level and its
\* daysAfterDue have passed.
ListEntries(d) ==
  /\ dpc[d] = "listed"
  /\ \E next \in [Quotes -> 0..MaxLevel] :
       /\ \A q \in Quotes : next[q] # 0 => q \in listed[d] /\ IsNextLevel(q, next[q])
       /\ level' = [level EXCEPT ![d] = next]
  /\ dpc' = [dpc EXCEPT ![d] = "dunning"]
  /\ listed' = [listed EXCEPT ![d] = {}]
  /\ UNCHANGED <<quoteVars, invoiceVars, quoteLock, invoiceLock, clientVars>>

\* createDunningEntry in its transaction, on the invoice as it was listed.
CreateEntry(d, q) ==
  /\ dpc[d] = "dunning"
  /\ level[d][q] # 0
  /\ level[d][q] \notin dunned[q]
  /\ dunned' = [dunned EXCEPT ![q] = @ \cup {level[d][q]}]
  /\ level' = [level EXCEPT ![d][q] = 0]
  /\ UNCHANGED <<quoteVars, status, paid, received, quoteLock, invoiceLock, clientVars,
                 dpc, listed>>

\* The run is through, or a transaction fails, on a duplicate level for one, and
\* with it the rest of the run.
EndRun(d) ==
  /\ dpc[d] # "idle"
  /\ dpc' = [dpc EXCEPT ![d] = "idle"]
  /\ listed' = [listed EXCEPT ![d] = {}]
  /\ level' = [level EXCEPT ![d] = [q \in Quotes |-> 0]]
  /\ UNCHANGED <<quoteVars, invoiceVars, quoteLock, invoiceLock, clientVars>>

-----------------------------------------------------------------------------
Client(c) ==
  \/ \E q \in Quotes :
       \/ ReadQuote(c, q)
       \/ Accept(c, q)
       \/ ReadToIssue(c, q)
       \/ \E a \in 0..Total : ReadToPay(c, q, a)
  \/ UpdateQuote(c)
  \/ CommitQuote(c)
  \/ CommitAccept(c)
  \/ SetInvoiceIssued(c)
  \/ CommitIssue(c)
  \/ UpdatePaid(c)
  \/ CommitPayment(c)
  \/ Rollback(c)

Dunner(d) ==
  \/ ListInvoices(d)
  \/ ListEntries(d)
  \/ \E q \in Quotes : CreateEntry(d, q)
  \/ EndRun(d)

Next == (\E c \in Clients : Client(c)) \/ (\E d \in Dunners : Dunner(d))

Spec == Init /\ [][Next]_vars

-----------------------------------------------------------------------------
\* A quote is invoiced once at most, however often and concurrently it is
\* accepted, and although a late send or decline may overwrite its status.
OneInvoicePerQuote ==
  \A q \in Quotes : /\ made[q] <= 1
                    /\ qstatus[q] = "accepted" => made[q] = 1

\* Concurrent payments may lose each other's update, but only to the customer's
\* disadvantage: no invoice is credited or taken for paid beyond the money that
\* was received for it (addPayment).
CreditedIsReceived ==
  \A q \in Quotes : /\ paid[q] <= received[q]
                    /\ status[q] = "paid" => received[q] >= Total

\* What is not issued yet is neither paid nor dunned.
DraftIsUntouched ==
  \A q \in Quotes :
    status[q] \in {"absent", "draft"} => received[q] = 0 /\ dunned[q] = {}

\* The dunning levels of an invoice follow each other without a gap, although
\* runs overlap and end halfway (runDunning).
DunningEscalates ==
  \A q \in Quotes : \A n \in dunned[q] : 1..n \subseteq dunned[q]

-----------------------------------------------------------------------------
(* What the code's own refusals say, and concurrent requests get past.     *)

\* "Zahlung uebersteigt offenen Betrag" (service.ts): nobody pays more than the
\* invoice amounts to.
NoOverpayment == \A q \in Quotes : received[q] <= Total

\* "Nur versendete Angebote koennen abgelehnt werden" (service.ts): a quote that
\* was accepted, and so has its invoice, is not declined.
DeclinedHasNoInvoice == \A q \in Quotes : qstatus[q] = "declined" => q \notin linked
=============================================================================
