------------------------------ MODULE Amounts ------------------------------
(***************************************************************************)
(* The arithmetic of modules/billing: money.ts and formulas.ts.  Amounts   *)
(* are cents, quantities and percentages hundredths, annual rates          *)
(* ten-thousandths; a decimal string is its sign, its whole part and its   *)
(* digits after the point.                                                 *)
(***************************************************************************)
EXTENDS Integers, Sequences, SequencesExt

Digits == 0..9
TenTo[n \in Nat] == IF n = 0 THEN 1 ELSE 10 * TenTo[n - 1]

\* scaled, of a string with all its digits after the point; a shorter one is
\* padded with zeros, a longer one refused.
Scaled(text) ==
  LET fraction == FoldLeft(LAMBDA n, d : 10 * n + d, 0, text.fraction)
      unsigned == text.whole * TenTo[Len(text.fraction)] + fraction
  IN IF text.negative THEN -unsigned ELSE unsigned

\* decimal: no sign before zero
Decimal(value, digits) ==
  LET absolute == IF value < 0 THEN -value ELSE value IN
  [negative |-> value < 0, whole |-> absolute \div TenTo[digits],
   fraction |-> [i \in 1..digits |-> (absolute \div TenTo[digits - i]) % 10]]

\* roundQuotient: half a cent away from zero
RoundQuotient(numerator, denominator) ==
  IF numerator < 0 THEN -((denominator \div 2 - numerator) \div denominator)
  ELSE (numerator + denominator \div 2) \div denominator

MultiplyMoney(value, quantity) == RoundQuotient(value * quantity, 100)
PercentMoney(value, rate) == RoundQuotient(value * rate, 10000)

\* annualInterest
AnnualInterest(value, rate, days) ==
  RoundQuotient(value * rate * (IF days > 0 THEN days ELSE 0), 1000000 * 365)

\* positionAmount of every item [quantity, price], their sum, vatFor the sum.
Subtotal(items) ==
  FoldLeft(LAMBDA sum, i : sum + MultiplyMoney(i.price, i.quantity), 0, items)
VatRate(treatment) == IF treatment = "VAT19" THEN 1900 ELSE 0
Totals(items, treatment) ==
  LET subtotal == Subtotal(items)
      vat == PercentMoney(subtotal, VatRate(treatment))
  IN [subtotal |-> subtotal, vat |-> vat, total |-> subtotal + vat]

\* dunningCharges
DunningCharges(outstanding, days, fee, rate) ==
  LET interest == AnnualInterest(outstanding, rate, days)
  IN [interest |-> interest, total |-> outstanding + fee + interest]

\* What the entries of an invoice [due, total] amount to: the level and the
\* hour of the last one, their number, days and interest, the last one's claim.
NoReminder(invoice) ==
  [level |-> 0, at |-> invoice.due, sent |-> 0, days |-> 0, interest |-> 0, claim |-> 0]

\* runDunning for one issued invoice, at a run's hour and with what is paid by
\* then: the days count from the last reminder, the first one's from the due
\* date, and fee and rate are those of the next level.
RemindIfDue(invoice, levels, log, run) ==
  LET higher == {l \in levels : l.level > log.level}
      next == CHOOSE l \in higher : \A m \in higher : l.level <= m.level
      days == (run.hour - log.at) \div 24
      outstanding == invoice.total - run.paid
      charges == DunningCharges(outstanding, days, next.fee, next.rate)
  IN IF invoice.due > run.hour \/ higher = {} \/ days < next.after \/ outstanding = 0 THEN log
     ELSE [level |-> next.level, at |-> run.hour, sent |-> log.sent + 1, days |-> log.days + days,
           interest |-> log.interest + charges.interest, claim |-> charges.total]

Reminders(invoice, levels, runs) ==
  FoldLeft(LAMBDA log, run : RemindIfDue(invoice, levels, log, run), NoReminder(invoice), runs)

-----------------------------------------------------------------------------
(* Properties.                                                             *)

Absolute(n) == IF n < 0 THEN -n ELSE n
Exact(items) == FoldLeft(LAMBDA sum, i : sum + i.price * i.quantity, 0, items)

\* However many items are rounded one by one, their subtotal is half a cent off
\* for each of them at most, the VAT half a cent of its share of the subtotal,
\* and the total is the sum of what is printed.
TotalsAreNear(items, treatment, totals) ==
  /\ Absolute(2 * (100 * totals.subtotal - Exact(items))) <= 100 * Len(items)
  /\ Absolute(2 * (10000 * totals.vat - totals.subtotal * VatRate(treatment))) <= 10000
  /\ totals.total = totals.subtotal + totals.vat

\* An amount that is written as a string and read again is the same amount,
\* between -1 and 1 too.
AmountIsReadBack(value, text) == Scaled(text) = value

\* However often the dunning runs, and whatever is paid between two runs: no
\* level is left out or repeated; no day's interest is charged by two reminders
\* (the interest of all of them is that of the days since the due date on the
\* whole invoice at the highest rate, half a cent more for each rounding); and
\* no reminder claims an earlier one's fee or interest again on top of that.
RemindersChargeOnce(invoice, levels, log) ==
  LET overdue == (log.at - invoice.due) \div 24 IN
  /\ log.sent = Cardinality({l \in levels : l.level <= log.level})
  /\ log.days <= overdue
  /\ \A top \in {r \in levels : \A l \in levels : l.rate <= r.rate} :
       /\ 2 * (log.interest - AnnualInterest(invoice.total, top.rate, overdue)) <= log.sent + 1
       /\ \A l \in levels : l.level = log.level =>
            log.claim <= invoice.total + l.fee + AnnualInterest(invoice.total, top.rate, overdue)
=============================================================================
