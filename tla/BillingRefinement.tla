------------------------- MODULE BillingRefinement -------------------------
(***************************************************************************)
(* AttendanceBilling, run one request at a time over a table that carries  *)
(* uq_ai_candidate, implements InvoiceLedger, even when a request dies     *)
(* between two of its statements.                                          *)
(***************************************************************************)
EXTENDS AttendanceBilling

\* The ledger entry of candidate c is its invoice row; a payment takes effect
\* with the update of the invoice, not with the insert of its record.
BillOf(c) ==
    IF InvoicesOf(c) = {}
    THEN [status |-> "none", total |-> 0, paid |-> 0]
    ELSE LET i == CHOOSE j \in InvoicesOf(c) : TRUE
         IN [status |-> invoice[i].status, total |-> invoice[i].total, paid |-> invoice[i].paid]

Ledger == INSTANCE InvoiceLedger
          WITH review <- candidate, bill <- [c \in Candidates |-> BillOf(c)]

\* One request at a time never breaks the lifecycle an invoice promises.
ImplementsLedger == Ledger!Spec
=============================================================================
