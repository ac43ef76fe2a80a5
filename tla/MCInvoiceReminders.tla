-------------------------- MODULE MCInvoiceReminders --------------------------
(* Instances of InvoiceReminders for TLC.                                  *)
EXTENDS InvoiceReminders

CONSTANTS i1, i2, email, portal, w1, w2

\* The second invoice is due a day after the first.
DueDays == [i \in Invoices |-> IF i = i1 THEN 1 ELSE 2]
=============================================================================
