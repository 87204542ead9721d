--------------------------- MODULE BillingProofs ---------------------------
(***************************************************************************)
(* What Billing promises holds for any number of quotes, clients and       *)
(* dunning runs, any total and any number of dunning levels.               *)
(*                                                                         *)
(* The invariants are not inductive by themselves.  IInv says besides what *)
(* a transaction or a run that is underway may rely on: the quote it has   *)
(* locked, the invoice it has read, the level it is about to issue.        *)
(***************************************************************************)
EXTENDS Billing, TLAPS

Issuing == {"issuing", "issued"}
Paying == {"paying", "credited"}

\* A transaction is on a quote, and who accepts one has locked it.
Transactions ==
  \A c \in Clients :
    /\ pc[c] # "idle" => on[c] \in Quotes
    /\ pc[c] = "accepting" => quoteLock[on[c]] = c

\* A quote is linked, invoiced and has an invoice at the same time, and until
\* then it is not accepted.
Linked ==
  \A q \in Quotes : /\ made[q] = IF q \in linked THEN 1 ELSE 0
                    /\ status[q] = "absent" <=> q \notin linked
                    /\ qstatus[q] = "accepted" => q \in linked

\* What a transaction has read of its invoice is not taken back.
Reads ==
  \A c \in Clients :
    /\ pc[c] = "accepting" => on[c] \notin linked
    /\ pc[c] \in Issuing => status[on[c]] # "absent"
    /\ pc[c] \in Paying => status[on[c]] \notin {"absent", "draft"}

\* A payment underway will credit no more than will have been received.
Receipts ==
  /\ CreditedIsReceived
  /\ \A c \in Clients :
       pc[c] \in Paying => credit[c] <= received[on[c]] + amount[c]

\* Nor will a dunning run take up what is not issued.
Untouched ==
  /\ DraftIsUntouched
  /\ \A d \in Dunners : \A q \in Quotes :
       q \in listed[d] \/ level[d][q] # 0 => status[q] \notin {"absent", "draft"}

\* The levels below the one to be issued are issued.
Escalation ==
  /\ DunningEscalates
  /\ \A d \in Dunners : \A q \in Quotes :
       \A n \in 1..MaxLevel : n < level[d][q] => n \in dunned[q]

IInv ==
  /\ TypeOK
  /\ Transactions
  /\ Linked
  /\ Reads
  /\ Receipts
  /\ Untouched
  /\ Escalation

-----------------------------------------------------------------------------
\* The initial state satisfies the inductive invariant.
LEMMA InitInv == Init => IInv
  BY ConstantsAssumption
     DEF Init, IInv, TypeOK, Transactions, Linked, Reads, Receipts, Untouched, Escalation,
         CreditedIsReceived, DraftIsUntouched, DunningEscalates, QuoteStatus, Status, Pc,
         Issuing, Paying

\* Steps of clients keep every variable in its set.
LEMMA TypeClient ==
  ASSUME TypeOK, Transactions, NEW c \in Clients, Client(c)
  PROVE  TypeOK'
<1> USE ConstantsAssumption
      DEF TypeOK, QuoteStatus, Status, Pc, quoteVars, invoiceVars,
        clientVars, dunnerVars
<1>1. ASSUME NEW q \in Quotes, ReadQuote(c, q) PROVE TypeOK'
  <2>1. CASE Start(c, q, "sending")
    BY <1>1, <2>1 DEF ReadQuote, Start
  <2>2. CASE Start(c, q, "declining")
    BY <1>1, <2>2 DEF ReadQuote, Start
  <2>3. QED
    BY <1>1, <2>1, <2>2 DEF ReadQuote
<1>2. ASSUME NEW q \in Quotes, Accept(c, q) PROVE TypeOK'
  BY <1>2 DEF Accept, Start
<1>3. ASSUME NEW q \in Quotes, ReadToIssue(c, q) PROVE TypeOK'
  BY <1>3 DEF ReadToIssue, Start
<1>4. ASSUME NEW q \in Quotes, NEW a \in 0..Total, ReadToPay(c, q, a) PROVE TypeOK'
  BY <1>4 DEF ReadToPay, Start
<1>5. CASE UpdateQuote(c)
  BY <1>5 DEF UpdateQuote, Goto
<1>6. CASE CommitQuote(c)
  BY <1>6 DEF CommitQuote, End
<1>7. CASE CommitAccept(c)
  BY <1>7 DEF CommitAccept, End, Transactions
<1>8. CASE SetInvoiceIssued(c)
  BY <1>8 DEF SetInvoiceIssued, Goto
<1>9. CASE CommitIssue(c)
  BY <1>9 DEF CommitIssue, End
<1>10. CASE UpdatePaid(c)
  BY <1>10 DEF UpdatePaid, Goto
<1>11. CASE CommitPayment(c)
  BY <1>11 DEF CommitPayment, End, Transactions
<1>12. CASE Rollback(c)
  BY <1>12 DEF Rollback, End
<1>13. QED
  BY <1>1, <1>2, <1>3, <1>4, <1>5, <1>6, <1>7, <1>8, <1>9, <1>10, <1>11, <1>12 DEF Client

\* Steps of dunning runs keep every variable in its set.
LEMMA TypeDunner ==
  ASSUME TypeOK, NEW d \in Dunners, Dunner(d)
  PROVE  TypeOK'
<1> USE ConstantsAssumption
      DEF TypeOK, QuoteStatus, Status, Pc, quoteVars, invoiceVars,
        clientVars, dunnerVars
<1>1. CASE ListInvoices(d)
  BY <1>1 DEF ListInvoices
<1>2. CASE ListEntries(d)
  BY <1>2 DEF ListEntries
<1>3. ASSUME NEW q \in Quotes, CreateEntry(d, q) PROVE TypeOK'
  BY <1>3 DEF CreateEntry
<1>4. CASE EndRun(d)
  BY <1>4 DEF EndRun
<1>5. QED
  BY <1>1, <1>2, <1>3, <1>4 DEF Dunner

-----------------------------------------------------------------------------
\* Every step is a client's or a dunning run's; the latter touch neither the
\* quotes nor the transactions.
LEMMA Frames ==
  ASSUME [Next]_vars
  PROVE  \/ \E c \in Clients : Client(c)
         \/ /\ \E d \in Dunners : Dunner(d)
            /\ UNCHANGED <<qstatus, linked, made, status, paid, received, quoteLock,
                           pc, on, amount, credit>>
         \/ UNCHANGED vars
<1>1. ASSUME NEW d \in Dunners, Dunner(d)
      PROVE  UNCHANGED <<qstatus, linked, made, status, paid, received, quoteLock,
                         pc, on, amount, credit>>
  BY <1>1 DEF Dunner, ListInvoices, ListEntries, CreateEntry, EndRun, quoteVars,
              invoiceVars, clientVars
<1>2. QED
  BY <1>1 DEF Next
\* Nobody else releases or takes the lock of a transaction.
LEMMA TransactionsStep ==
  ASSUME IInv, \E c \in Clients : Client(c)
  PROVE  Transactions'
<1> USE ConstantsAssumption
      DEF IInv, TypeOK, Status, Pc, QuoteStatus, quoteVars, invoiceVars,
          dunnerVars, Transactions
<1>1. PICK c \in Clients : Client(c)
  OBVIOUS
<1>2. ASSUME NEW q \in Quotes, ReadQuote(c, q) PROVE Transactions'
  BY <1>2 DEF ReadQuote, Start
<1>3. ASSUME NEW q \in Quotes, Accept(c, q) PROVE Transactions'
  BY <1>3 DEF Accept, Start
<1>4. ASSUME NEW q \in Quotes, ReadToIssue(c, q) PROVE Transactions'
  BY <1>4 DEF ReadToIssue, Start
<1>5. ASSUME NEW q \in Quotes, NEW a \in 0..Total, ReadToPay(c, q, a) PROVE Transactions'
  BY <1>5 DEF ReadToPay, Start
<1>6. CASE UpdateQuote(c)
  BY <1>6 DEF UpdateQuote, Goto
<1>7. CASE CommitQuote(c)
  BY <1>7 DEF CommitQuote, End
<1>8. CASE CommitAccept(c)
  BY <1>8 DEF CommitAccept, End
<1>9. CASE SetInvoiceIssued(c)
  BY <1>9 DEF SetInvoiceIssued, Goto
<1>10. CASE CommitIssue(c)
  BY <1>10 DEF CommitIssue, End
<1>11. CASE UpdatePaid(c)
  BY <1>11 DEF UpdatePaid, Goto
<1>12. CASE CommitPayment(c)
  BY <1>12 DEF CommitPayment, End
<1>13. CASE Rollback(c)
  BY <1>13 DEF Rollback, End
<1>14. QED
  BY <1>1, <1>2, <1>3, <1>4, <1>5, <1>6, <1>7, <1>8, <1>9, <1>10, <1>11, <1>12, <1>13
     DEF Client

\* Who accepts a quote has found it unlinked, and is alone with it.
LEMMA LinkedStep ==
  ASSUME IInv, \E c \in Clients : Client(c)
  PROVE  Linked'
<1> USE ConstantsAssumption
      DEF IInv, TypeOK, Status, Pc, QuoteStatus, quoteVars, invoiceVars,
          dunnerVars, Linked, Reads, Issuing, Paying, Transactions
<1>1. PICK c \in Clients : Client(c)
  OBVIOUS
<1>2. ASSUME NEW q \in Quotes, ReadQuote(c, q) PROVE Linked'
  BY <1>2 DEF ReadQuote, Start
<1>3. ASSUME NEW q \in Quotes, Accept(c, q) PROVE Linked'
  BY <1>3 DEF Accept, Start
<1>4. ASSUME NEW q \in Quotes, ReadToIssue(c, q) PROVE Linked'
  BY <1>4 DEF ReadToIssue, Start
<1>5. ASSUME NEW q \in Quotes, NEW a \in 0..Total, ReadToPay(c, q, a) PROVE Linked'
  BY <1>5 DEF ReadToPay, Start
<1>6. CASE UpdateQuote(c)
  BY <1>6 DEF UpdateQuote, Goto
<1>7. CASE CommitQuote(c)
  BY <1>7 DEF CommitQuote, End
<1>8. CASE CommitAccept(c)
  BY <1>8 DEF CommitAccept, End
<1>9. CASE SetInvoiceIssued(c)
  BY <1>9 DEF SetInvoiceIssued, Goto
<1>10. CASE CommitIssue(c)
  BY <1>10 DEF CommitIssue, End
<1>11. CASE UpdatePaid(c)
  BY <1>11 DEF UpdatePaid, Goto
<1>12. CASE CommitPayment(c)
  BY <1>12 DEF CommitPayment, End
<1>13. CASE Rollback(c)
  BY <1>13 DEF Rollback, End
<1>14. QED
  BY <1>1, <1>2, <1>3, <1>4, <1>5, <1>6, <1>7, <1>8, <1>9, <1>10, <1>11, <1>12, <1>13
     DEF Client

\* An invoice never goes back to draft, nor a quote that somebody else has
\* locked becomes linked.
LEMMA ReadsStep ==
  ASSUME IInv, \E c \in Clients : Client(c)
  PROVE  Reads'
<1> USE ConstantsAssumption
      DEF IInv, TypeOK, Status, Pc, QuoteStatus, quoteVars, invoiceVars,
          dunnerVars, Reads, Issuing, Paying, Linked, Transactions
<1>1. PICK c \in Clients : Client(c)
  OBVIOUS
<1>2. ASSUME NEW q \in Quotes, ReadQuote(c, q) PROVE Reads'
  BY <1>2 DEF ReadQuote, Start
<1>3. ASSUME NEW q \in Quotes, Accept(c, q) PROVE Reads'
  BY <1>3 DEF Accept, Start
<1>4. ASSUME NEW q \in Quotes, ReadToIssue(c, q) PROVE Reads'
  BY <1>4 DEF ReadToIssue, Start
<1>5. ASSUME NEW q \in Quotes, NEW a \in 0..Total, ReadToPay(c, q, a) PROVE Reads'
  BY <1>5 DEF ReadToPay, Start, Payable
<1>6. CASE UpdateQuote(c)
  BY <1>6 DEF UpdateQuote, Goto
<1>7. CASE CommitQuote(c)
  BY <1>7 DEF CommitQuote, End
<1>8. CASE CommitAccept(c)
  BY <1>8 DEF CommitAccept, End
<1>9. CASE SetInvoiceIssued(c)
  BY <1>9 DEF SetInvoiceIssued, Goto
<1>10. CASE CommitIssue(c)
  BY <1>10 DEF CommitIssue, End
<1>11. CASE UpdatePaid(c)
  BY <1>11 DEF UpdatePaid, Goto
<1>12. CASE CommitPayment(c)
  BY <1>12 DEF CommitPayment, End
<1>13. CASE Rollback(c)
  BY <1>13 DEF Rollback, End
<1>14. QED
  BY <1>1, <1>2, <1>3, <1>4, <1>5, <1>6, <1>7, <1>8, <1>9, <1>10, <1>11, <1>12, <1>13
     DEF Client

\* What was received only grows while a payment is underway.
LEMMA ReceiptsStep ==
  ASSUME IInv, \E c \in Clients : Client(c)
  PROVE  Receipts'
<1> USE ConstantsAssumption
      DEF IInv, TypeOK, Status, Pc, QuoteStatus, quoteVars, invoiceVars,
          dunnerVars, Receipts, CreditedIsReceived, Reads, Issuing, Paying,
          Transactions
<1>1. PICK c \in Clients : Client(c)
  OBVIOUS
<1>2. ASSUME NEW q \in Quotes, ReadQuote(c, q) PROVE Receipts'
  BY <1>2 DEF ReadQuote, Start
<1>3. ASSUME NEW q \in Quotes, Accept(c, q) PROVE Receipts'
  BY <1>3 DEF Accept, Start
<1>4. ASSUME NEW q \in Quotes, ReadToIssue(c, q) PROVE Receipts'
  BY <1>4 DEF ReadToIssue, Start
<1>5. ASSUME NEW q \in Quotes, NEW a \in 0..Total, ReadToPay(c, q, a) PROVE Receipts'
  BY <1>5 DEF ReadToPay, Start
<1>6. CASE UpdateQuote(c)
  BY <1>6 DEF UpdateQuote, Goto
<1>7. CASE CommitQuote(c)
  BY <1>7 DEF CommitQuote, End
<1>8. CASE CommitAccept(c)
  BY <1>8 DEF CommitAccept, End
<1>9. CASE SetInvoiceIssued(c)
  BY <1>9 DEF SetInvoiceIssued, Goto
<1>10. CASE CommitIssue(c)
  BY <1>10 DEF CommitIssue, End
<1>11. CASE UpdatePaid(c)
  BY <1>11 DEF UpdatePaid, Goto
<1>12. CASE CommitPayment(c)
  BY <1>12 DEF CommitPayment, End
<1>13. CASE Rollback(c)
  BY <1>13 DEF Rollback, End
<1>14. QED
  BY <1>1, <1>2, <1>3, <1>4, <1>5, <1>6, <1>7, <1>8, <1>9, <1>10, <1>11, <1>12, <1>13
     DEF Client

\* Payments and dunning find the invoice issued, and it remains so.
LEMMA UntouchedStep ==
  ASSUME IInv, \E c \in Clients : Client(c)
  PROVE  Untouched'
<1> USE ConstantsAssumption
      DEF IInv, TypeOK, Status, Pc, QuoteStatus, quoteVars, invoiceVars,
          dunnerVars, Untouched, DraftIsUntouched, Reads, Linked, Issuing,
          Paying, Transactions
<1>1. PICK c \in Clients : Client(c)
  OBVIOUS
<1>2. ASSUME NEW q \in Quotes, ReadQuote(c, q) PROVE Untouched'
  BY <1>2 DEF ReadQuote, Start
<1>3. ASSUME NEW q \in Quotes, Accept(c, q) PROVE Untouched'
  BY <1>3 DEF Accept, Start
<1>4. ASSUME NEW q \in Quotes, ReadToIssue(c, q) PROVE Untouched'
  BY <1>4 DEF ReadToIssue, Start
<1>5. ASSUME NEW q \in Quotes, NEW a \in 0..Total, ReadToPay(c, q, a) PROVE Untouched'
  BY <1>5 DEF ReadToPay, Start, Payable
<1>6. CASE UpdateQuote(c)
  BY <1>6 DEF UpdateQuote, Goto
<1>7. CASE CommitQuote(c)
  BY <1>7 DEF CommitQuote, End
<1>8. CASE CommitAccept(c)
  BY <1>8 DEF CommitAccept, End
<1>9. CASE SetInvoiceIssued(c)
  BY <1>9 DEF SetInvoiceIssued, Goto
<1>10. CASE CommitIssue(c)
  BY <1>10 DEF CommitIssue, End
<1>11. CASE UpdatePaid(c)
  BY <1>11 DEF UpdatePaid, Goto
<1>12. CASE CommitPayment(c)
  BY <1>12 DEF CommitPayment, End
<1>13. CASE Rollback(c)
  BY <1>13 DEF Rollback, End
<1>14. QED
  BY <1>1, <1>2, <1>3, <1>4, <1>5, <1>6, <1>7, <1>8, <1>9, <1>10, <1>11, <1>12, <1>13
     DEF Client

-----------------------------------------------------------------------------
\* Runs start from what is issued, and end with what they started from.
LEMMA UntouchedDunner ==
  ASSUME IInv, NEW d \in Dunners, Dunner(d)
  PROVE  Untouched'
<1> USE
      DEF IInv, TypeOK, Untouched, DraftIsUntouched, quoteVars, invoiceVars,
          clientVars
<1>1. CASE ListInvoices(d)
  BY <1>1 DEF ListInvoices, Overdue, Payable
<1>2. CASE ListEntries(d)
  BY <1>2 DEF ListEntries
<1>3. ASSUME NEW q \in Quotes, CreateEntry(d, q) PROVE Untouched'
  BY <1>3 DEF CreateEntry
<1>4. CASE EndRun(d)
  BY <1>4 DEF EndRun
<1>5. QED
  BY <1>1, <1>2, <1>3, <1>4 DEF Dunner

\* A level to be issued stands on the ones below it, also while other runs issue
\* theirs.
LEMMA EscalationDunner ==
  ASSUME IInv, NEW d \in Dunners, Dunner(d)
  PROVE  Escalation'
<1> USE ConstantsAssumption DEF IInv, TypeOK, Escalation, DunningEscalates, quoteVars,
        invoiceVars, clientVars
<1>1. CASE ListInvoices(d)
  BY <1>1 DEF ListInvoices
<1>2. CASE ListEntries(d)
  <2>1. PICK next \in [Quotes -> 0..MaxLevel] :
          /\ \A q \in Quotes : next[q] # 0 => q \in listed[d] /\ IsNextLevel(q, next[q])
          /\ level' = [level EXCEPT ![d] = next]
    BY <1>2 DEF ListEntries
  <2>2. UNCHANGED dunned
    BY <1>2 DEF ListEntries
  <2>3. ASSUME NEW q \in Quotes, NEW n \in 1..MaxLevel, n < next[q]
        PROVE  n \in dunned[q]
    <3>1. next[q] \in 0..MaxLevel /\ next[q] # 0 /\ next[q] # 1
      BY <2>1, <2>3
    <3>4. next[q] - 1 \in dunned[q]
      BY <2>1, <3>1 DEF IsNextLevel
    <3>2. n \in 1..(next[q] - 1)
      BY <2>3, <3>1
    <3>3. QED
      BY <3>2, <3>4
  <2>4. QED
    BY <2>1, <2>2, <2>3
<1>3. ASSUME NEW q \in Quotes, CreateEntry(d, q) PROVE Escalation'
  <2>1. level[d][q] \in 1..MaxLevel
    BY <1>3 DEF CreateEntry
  <2>2. \A n \in 1..MaxLevel : n < level[d][q] => n \in dunned[q]
    OBVIOUS
  <2>3. dunned' = [dunned EXCEPT ![q] = @ \cup {level[d][q]}]
    BY <1>3 DEF CreateEntry
  <2>4. level' = [level EXCEPT ![d] = [level[d] EXCEPT ![q] = 0]]
    BY <1>3 DEF CreateEntry
  <2>5. DunningEscalates'
    <3>1. ASSUME NEW p \in Quotes, NEW n \in dunned'[p], NEW m \in 1..n
          PROVE  m \in dunned'[p]
      <4>1. CASE n \in dunned[p]
        BY <4>1, <2>1, <2>3
      <4>2. CASE p = q /\ n = level[d][q]
        BY <4>2, <2>1, <2>2, <2>3
      <4>3. QED
        BY <4>1, <4>2, <2>3
    <3>2. QED
      BY <3>1
  <2>6. \A e \in Dunners : \A p \in Quotes : level'[e][p] # 0 => level'[e][p] = level[e][p]
    BY <2>4
  <2>7. \A e \in Dunners : \A p \in Quotes :
          \A n \in 1..MaxLevel : n < level'[e][p] => n \in dunned'[p]
    BY <2>3, <2>4, <2>6
  <2>8. QED
    BY <2>5, <2>7
<1>4. CASE EndRun(d)
  BY <1>4 DEF EndRun
<1>5. QED
  BY <1>1, <1>2, <1>3, <1>4 DEF Dunner

\* No client touches the dunning.
LEMMA EscalationClient ==
  ASSUME IInv, \E c \in Clients : Client(c)
  PROVE  Escalation'
<1>1. UNCHANGED <<dunned, level>>
  BY DEF Client, ReadQuote, Accept, ReadToIssue, ReadToPay, UpdateQuote, CommitQuote,
         CommitAccept, SetInvoiceIssued, CommitIssue, UpdatePaid, CommitPayment, Rollback,
         invoiceVars, dunnerVars
<1>2. QED
  BY <1>1 DEF IInv, Escalation, DunningEscalates

-----------------------------------------------------------------------------
\* The inductive invariant is preserved by every step.
LEMMA NextInv == IInv /\ [Next]_vars => IInv'
<1> SUFFICES ASSUME IInv, [Next]_vars
             PROVE  IInv'
  OBVIOUS
<1>1. CASE \E c \in Clients : Client(c)
  BY <1>1, TypeClient, TransactionsStep, LinkedStep, ReadsStep, ReceiptsStep,
     UntouchedStep, EscalationClient DEF IInv
<1>2. CASE /\ \E d \in Dunners : Dunner(d)
           /\ UNCHANGED <<qstatus, linked, made, status, paid, received, quoteLock,
                          pc, on, amount, credit>>
  <2>1. TypeOK' /\ Untouched' /\ Escalation'
    BY <1>2, TypeDunner, UntouchedDunner, EscalationDunner DEF IInv
  <2>2. Transactions' /\ Linked' /\ Reads' /\ Receipts'
    BY <1>2 DEF IInv, Transactions, Linked, Reads, Receipts, CreditedIsReceived
  <2>3. QED
    BY <2>1, <2>2 DEF IInv
<1>3. CASE UNCHANGED vars
  BY <1>3 DEF IInv, TypeOK, Transactions, Linked, Reads, Receipts, Untouched, Escalation,
              CreditedIsReceived, DraftIsUntouched, DunningEscalates, vars, quoteVars,
              invoiceVars, clientVars, dunnerVars
<1>4. QED
  BY <1>1, <1>2, <1>3, Frames

\* The inductive invariant holds in every reachable state.
THEOREM InvHolds == Spec => []IInv
  BY InitInv, NextInv, PTL DEF Spec

\* Every variable stays in its set, the level to be issued among them: a run
\* never issues one beyond the last (runDunning).
THEOREM TypeCorrect == Spec => []TypeOK
<1>1. IInv => TypeOK
  BY DEF IInv
<1>2. QED
  BY <1>1, InvHolds, PTL

\* However many clients accept a quote at once, it is invoiced once at most, and
\* an accepted quote is invoiced (acceptQuote).
THEOREM InvoicedOnce == Spec => []OneInvoicePerQuote
<1>1. IInv => OneInvoicePerQuote
  <2>1. ASSUME IInv, NEW q \in Quotes
        PROVE  made[q] <= 1 /\ (qstatus[q] = "accepted" => made[q] = 1)
    <3>1. CASE q \in linked
      BY <3>1, <2>1 DEF IInv, Linked
    <3>2. CASE q \notin linked
      BY <3>2, <2>1 DEF IInv, Linked
    <3>3. QED
      BY <3>1, <3>2
  <2>2. QED
    BY <2>1 DEF OneInvoicePerQuote
<1>2. QED
  BY <1>1, InvHolds, PTL

\* However many payments overwrite each other's sum, no invoice is credited or
\* taken for paid beyond what was received (recordPayment, addPayment).
THEOREM NothingIsCreditedTwice == Spec => []CreditedIsReceived
<1>1. IInv => CreditedIsReceived
  BY DEF IInv, Receipts
<1>2. QED
  BY <1>1, InvHolds, PTL

\* An invoice that was not issued is neither paid nor dunned (recordPayment,
\* runDunning).
THEOREM DraftsAreLeftAlone == Spec => []DraftIsUntouched
<1>1. IInv => DraftIsUntouched
  BY DEF IInv, Untouched
<1>2. QED
  BY <1>1, InvHolds, PTL

\* However many dunning runs overlap or break off, no level is left out
\* (runDunning).
THEOREM NoLevelIsSkipped == Spec => []DunningEscalates
<1>1. IInv => DunningEscalates
  BY DEF IInv, Escalation
<1>2. QED
  BY <1>1, InvHolds, PTL

-----------------------------------------------------------------------------
(* What the refusals of the code need.                                     *)

\* No two transactions under way on the same quote or its invoice.
Apart ==
  \A b, c \in Clients : pc[b] # "idle" /\ pc[c] # "idle" /\ on[b] = on[c] => b = c

\* Then what a transaction has read is still so when it writes: a payment
\* credits what has been received with it, within the total, and a quote that is
\* sent or declined has no invoice.
ReadingsHold ==
  /\ \A q \in Quotes : /\ paid[q] = received[q] /\ received[q] <= Total
                       /\ q \in linked => qstatus[q] = "accepted"
  /\ \A c \in Clients :
       /\ pc[c] \in Paying => credit[c] = received[on[c]] + amount[c] /\ credit[c] <= Total
       /\ pc[c] \in {"sending", "sent", "declining", "declined"} => on[c] \notin linked

LEMMA ReadingsHoldStep ==
  ASSUME IInv, Apart, ReadingsHold, NEW c \in Clients, Client(c)
  PROVE  ReadingsHold'
<1> USE ConstantsAssumption
      DEF IInv, TypeOK, Status, Pc, QuoteStatus, quoteVars, invoiceVars,
          dunnerVars, ReadingsHold, Paying, Transactions
<1>1. ASSUME NEW q \in Quotes, ReadQuote(c, q) PROVE ReadingsHold'
  BY <1>1 DEF ReadQuote, Start
<1>2. ASSUME NEW q \in Quotes, Accept(c, q) PROVE ReadingsHold'
  BY <1>2 DEF Accept, Start
<1>3. ASSUME NEW q \in Quotes, ReadToIssue(c, q) PROVE ReadingsHold'
  BY <1>3 DEF ReadToIssue, Start
<1>4. ASSUME NEW q \in Quotes, NEW a \in 0..Total, ReadToPay(c, q, a) PROVE ReadingsHold'
  BY <1>4 DEF ReadToPay, Start
<1>5. CASE UpdateQuote(c) \/ SetInvoiceIssued(c) \/ UpdatePaid(c)
  BY <1>5 DEF UpdateQuote, SetInvoiceIssued, UpdatePaid, Goto
<1>6. CASE CommitQuote(c)
  BY <1>6 DEF CommitQuote, End
<1>7. CASE CommitAccept(c)
  BY <1>7 DEF CommitAccept, End, Apart
<1>8. CASE CommitIssue(c) \/ Rollback(c)
  BY <1>8 DEF CommitIssue, Rollback, End
<1>9. CASE CommitPayment(c)
  BY <1>9 DEF CommitPayment, End, Apart
<1> QED BY <1>1, <1>2, <1>3, <1>4, <1>5, <1>6, <1>7, <1>8, <1>9 DEF Client

\* It takes two transactions on one quote to pay more than its invoice amounts
\* to, or to decline it with an invoice (recordPayment, transitionQuote): as long
\* as they are apart, neither happens.
THEOREM RefusalsHoldApart == Spec /\ []Apart => [](NoOverpayment /\ DeclinedHasNoInvoice)
<1>1. Init => ReadingsHold
  BY ConstantsAssumption DEF Init, ReadingsHold, Paying
<1>2. IInv /\ Apart /\ ReadingsHold /\ [Next]_vars => ReadingsHold'
  <2>1. CASE (\E d \in Dunners : Dunner(d)) \/ UNCHANGED vars
    BY <2>1 DEF Dunner, ListInvoices, ListEntries, CreateEntry, EndRun, vars, quoteVars,
       invoiceVars, clientVars, ReadingsHold, Paying
  <2> QED BY <2>1, ReadingsHoldStep DEF Next
<1>3. ReadingsHold => NoOverpayment /\ DeclinedHasNoInvoice
  BY DEF ReadingsHold, NoOverpayment, DeclinedHasNoInvoice
<1> QED BY <1>1, <1>2, <1>3, InvHolds, PTL DEF Spec
=============================================================================
