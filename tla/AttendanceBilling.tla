-------------------------- MODULE AttendanceBilling --------------------------
(***************************************************************************)
(* The finance half of attendance billing: the tRPC procedures of          *)
(* server/routers/attendanceBilling.ts and the two services they call,     *)
(* over the tables attendance_billing_candidates, attendance_invoices and  *)
(* attendance_invoice_payment_records.                                     *)
(*                                                                         *)
(* No procedure opens a transaction: each `await db...` is one statement   *)
(* of its own, and the statements of concurrent requests interleave.  So   *)
(* an action is ONE statement, and req[r] is what request r holds between  *)
(* two of them: the statement it runs next and the values it has read.  A  *)
(* request whose first read fails a guard throws and changes nothing; it   *)
(* is a stuttering step and has no action.                                 *)
(*                                                                         *)
(* Money is counted in thousandths of an OMR, the scale of the columns.    *)
(***************************************************************************)
EXTENDS Integers, Sequences

CONSTANTS
    Requests,            \* requests in flight at the same time
    Candidates,          \* attendance_billing_candidates rows (created by the approval hook)
    Clientless,          \* candidates whose client_company_id is null
    SnapshotMissing,     \* candidates with snapshot_missing_count > 0
    Totals,              \* invoice totals a conversion can compute (rate x hours + VAT)
    Amounts,             \* payment amounts a caller can enter
    MaxInvoices,         \* bound: invoice rows ever inserted
    MaxPayments,         \* bound: payment records of one invoice
    UniqueCandidateKey   \* does the table carry uq_ai_candidate (created by 0085, not by 0070)

ASSUME BillingAssumption ==
    /\ Clientless \subseteq Candidates
    /\ SnapshotMissing \subseteq Candidates
    /\ Totals \subseteq Nat
    /\ Amounts \subseteq Nat \ {0}
    /\ MaxInvoices \in Nat
    /\ MaxPayments \in Nat
    /\ UniqueCandidateKey \in BOOLEAN

VARIABLES
    candidate,   \* status of each billing candidate
    invoice,     \* attendance_invoices, the auto-increment id being the index
    req          \* what each request holds

vars == <<candidate, invoice, req>>

-----------------------------------------------------------------------------
CandidateStatus == {"draft", "review_ready", "cancelled"}
InvoiceStatus   == {"draft", "review_ready", "issued", "sent", "paid", "cancelled"}

\* The 0.001 OMR by which a payment may exceed the balance, and a balance count as settled.
Tolerance == 1

\* Definitions whose comment begins with "Fault" are plausible bugs in the definition
\* that follows.  No behaviour uses them: they show which property would notice.

\* Fault: a cancelled invoice can be issued again.
ReissueCancelled == {"draft", "review_ready", "cancelled"}

Issuable == {"draft", "review_ready"}
Payable  == {"issued", "sent"}

\* ATTENDANCE_INVOICE_EDGES
Edges == {<<"draft", "review_ready">>, <<"draft", "issued">>, <<"draft", "cancelled">>,
          <<"review_ready", "issued">>, <<"review_ready", "cancelled">>,
          <<"issued", "sent">>, <<"issued", "paid">>, <<"issued", "cancelled">>,
          <<"sent", "paid">>, <<"sent", "cancelled">>}

\* A row of attendance_invoices, with the number and the sum of the
\* attendance_invoice_payment_records that point to it.
Invoice ==
    [cand: Candidates, total: Nat, override: BOOLEAN, status: InvoiceStatus,
     issued: BOOLEAN,       \* issued_at is set
     sent: BOOLEAN,         \* sent_at is set
     voided: BOOLEAN,       \* notes carry a [VOIDED ...] line
     paid: Nat,             \* amount_paid_omr
     records: Nat, recorded: Nat]

Idle == [at |-> "idle"]

\* The statements a request can be about to run, by what it holds meanwhile.
CandidateOps == {"reviewReady.write", "cancelCandidate.check", "cancelCandidate.write"}
ConvertOps   == {"convert.check", "convert.insert"}
StatusOps    == {"issue.write", "send.write", "cancel.write", "void.check", "void.write"}
PayOps       == {"pay.insert", "pay.update"}

Request ==
    {Idle}
    \cup [at: CandidateOps, cand: Candidates]
    \cup [at: ConvertOps, cand: Candidates, total: Totals, override: BOOLEAN]
    \cup [at: StatusOps, inv: Nat \ {0}, seen: InvoiceStatus]
    \cup [at: PayOps, inv: Nat \ {0}, seen: InvoiceStatus, paid: Nat, amount: Amounts]

TypeOK ==
    /\ candidate \in [Candidates -> CandidateStatus]
    /\ invoice \in Seq(Invoice)
    /\ req \in [Requests -> Request]

InvoiceIds == DOMAIN invoice
InvoicesOf(c) == {i \in InvoiceIds : invoice[i].cand = c}
Live(i) == invoice[i].status # "cancelled"

Init ==
    /\ candidate = [c \in Candidates |-> "draft"]
    /\ invoice = << >>
    /\ req = [r \in Requests |-> Idle]

Goto(r, held) == req' = [req EXCEPT ![r] = held]
Advance(r, at) == req' = [req EXCEPT ![r].at = at]
Return(r) == Goto(r, Idle)

\* The invoice row request r works on, and the update of that row.
Row(r) == invoice[req[r].inv]
Store(r, row) == invoice' = [invoice EXCEPT ![req[r].inv] = row] /\ UNCHANGED candidate

-----------------------------------------------------------------------------
(* Billing candidates *)

\* markAttendanceBillingCandidateReviewReady
ReviewReadyRead(r, c) ==
    /\ req[r] = Idle
    /\ candidate[c] = "draft"
    /\ Goto(r, [at |-> "reviewReady.write", cand |-> c])
    /\ UNCHANGED <<candidate, invoice>>

ReviewReadyWrite(r) ==
    /\ req[r].at = "reviewReady.write"
    /\ candidate' = [candidate EXCEPT ![req[r].cand] = "review_ready"]
    /\ Return(r)
    /\ UNCHANGED invoice

\* cancelAttendanceBillingCandidate
CancelCandidateRead(r, c) ==
    /\ req[r] = Idle
    /\ candidate[c] \in {"draft", "review_ready"}
    /\ Goto(r, [at |-> "cancelCandidate.check", cand |-> c])
    /\ UNCHANGED <<candidate, invoice>>

\* What `select ... where candidate_id = c limit 1`, without an ORDER BY, says of a
\* live invoice: no row, or the status of any one of the rows.
NoLiveInvoiceFound(c) ==
    \/ InvoicesOf(c) = {}
    \/ \E i \in InvoicesOf(c) : ~Live(i)
LiveInvoiceFound(c) == \E i \in InvoicesOf(c) : Live(i)

CancelCandidateCheck(r) ==
    /\ req[r].at = "cancelCandidate.check"
    /\ \/ NoLiveInvoiceFound(req[r].cand) /\ Advance(r, "cancelCandidate.write")
       \/ LiveInvoiceFound(req[r].cand) /\ Return(r)
    /\ UNCHANGED <<candidate, invoice>>

CancelCandidateWrite(r) ==
    /\ req[r].at = "cancelCandidate.write"
    /\ candidate' = [candidate EXCEPT ![req[r].cand] = "cancelled"]
    /\ Return(r)
    /\ UNCHANGED invoice

\* convertAttendanceBillingCandidateToInvoice
ConvertRead(r, c, total, override) ==
    /\ req[r] = Idle
    /\ candidate[c] = "review_ready"
    /\ c \notin Clientless
    /\ c \in SnapshotMissing => override
    /\ Goto(r, [at |-> "convert.check", cand |-> c, total |-> total, override |-> override])
    /\ UNCHANGED <<candidate, invoice>>

ConvertCheck(r) ==
    /\ req[r].at = "convert.check"
    /\ \/ NoLiveInvoiceFound(req[r].cand) /\ Advance(r, "convert.insert")
       \/ LiveInvoiceFound(req[r].cand) /\ Return(r)
    /\ UNCHANGED <<candidate, invoice>>

\* The invoice number is a function of the candidate, so uq_ai_inv_number refuses
\* the same rows as uq_ai_candidate; both indexes are made by 0085 or neither is.
KeyCollision(c) == UniqueCandidateKey /\ InvoicesOf(c) # {}

NewInvoice(c, total, override) ==
    [cand |-> c, total |-> total, override |-> override, status |-> "draft",
     issued |-> FALSE, sent |-> FALSE, voided |-> FALSE,
     paid |-> 0, records |-> 0, recorded |-> 0]

ConvertInsert(r) ==
    /\ req[r].at = "convert.insert"
    /\ Len(invoice) < MaxInvoices
    /\ invoice' = IF KeyCollision(req[r].cand)
                  THEN invoice
                  ELSE Append(invoice, NewInvoice(req[r].cand, req[r].total, req[r].override))
    /\ Return(r)
    /\ UNCHANGED candidate

-----------------------------------------------------------------------------
(* Invoice lifecycle *)

\* The select that opens every invoice procedure, and its status gate.
InvoiceRead(r, i, allowed, next) ==
    /\ req[r] = Idle
    /\ invoice[i].status \in allowed
    /\ Goto(r, [at |-> next, inv |-> i, seen |-> invoice[i].status])
    /\ UNCHANGED <<candidate, invoice>>

\* issueAttendanceInvoice; between the two statements the HTML artifact is uploaded,
\* and a failed upload is passed over.
IssueRead(r, i) == InvoiceRead(r, i, Issuable, "issue.write")

IssueWrite(r) ==
    /\ req[r].at = "issue.write"
    /\ Store(r, [Row(r) EXCEPT !.status = "issued", !.issued = TRUE])
    /\ Return(r)

\* markAttendanceInvoiceSent
SendRead(r, i) == InvoiceRead(r, i, {s \in InvoiceStatus : <<s, "sent">> \in Edges}, "send.write")

SendWrite(r) ==
    /\ req[r].at = "send.write"
    /\ Store(r, [Row(r) EXCEPT !.status = "sent", !.sent = TRUE])
    /\ Return(r)

\* cancelAttendanceInvoice
CancelRead(r, i) == InvoiceRead(r, i, Issuable, "cancel.write")

CancelWrite(r) ==
    /\ req[r].at = "cancel.write"
    /\ Store(r, [Row(r) EXCEPT !.status = "cancelled"])
    /\ Return(r)

\* voidAttendanceInvoice
VoidRead(r, i) == InvoiceRead(r, i, Payable, "void.check")

\* Fault: the payment check of phase 12F is missing.
UncheckedVoid(r) ==
    /\ req[r].at = "void.check"
    /\ Advance(r, "void.write")
    /\ UNCHANGED <<candidate, invoice>>

VoidCheck(r) ==
    /\ req[r].at = "void.check"
    /\ IF Row(r).records = 0 THEN Advance(r, "void.write") ELSE Return(r)
    /\ UNCHANGED <<candidate, invoice>>

VoidWrite(r) ==
    /\ req[r].at = "void.write"
    /\ Store(r, [Row(r) EXCEPT !.status = "cancelled", !.voided = TRUE])
    /\ Return(r)

\* Fault: the amount is not compared with the balance.
UnboundedPayRead(r, i, amount) ==
    /\ req[r] = Idle
    /\ invoice[i].status \in Payable
    /\ Goto(r, [at |-> "pay.insert", inv |-> i, seen |-> invoice[i].status,
                paid |-> invoice[i].paid, amount |-> amount])
    /\ UNCHANGED <<candidate, invoice>>

\* recordAttendanceInvoicePayment
PayRead(r, i, amount) ==
    /\ req[r] = Idle
    /\ invoice[i].status \in Payable
    /\ amount <= invoice[i].total - invoice[i].paid + Tolerance
    /\ Goto(r, [at |-> "pay.insert", inv |-> i, seen |-> invoice[i].status,
                paid |-> invoice[i].paid, amount |-> amount])
    /\ UNCHANGED <<candidate, invoice>>

\* Fault: the insert of the record fails silently.
PayWithoutRecord(r) ==
    /\ req[r].at = "pay.insert"
    /\ Advance(r, "pay.update")
    /\ UNCHANGED <<candidate, invoice>>

PayInsert(r) ==
    /\ req[r].at = "pay.insert"
    /\ Row(r).records < MaxPayments
    /\ Store(r, [Row(r) EXCEPT !.records = @ + 1, !.recorded = @ + req[r].amount])
    /\ Advance(r, "pay.update")

\* Fault: the amount is subtracted, as from a balance.
SubtractedAmount(h) == h.paid - h.amount

NewAmountPaid(h) == h.paid + h.amount

\* Fault: the status "paid" is kept by every later payment, whatever sum it writes.
PaidIsKept(r) ==
    LET newAmountPaid == NewAmountPaid(req[r])
        newStatus == IF Row(r).status = "paid" \/ Row(r).total - newAmountPaid <= Tolerance
                     THEN "paid" ELSE req[r].seen
    IN  /\ req[r].at = "pay.update"
        /\ Store(r, [Row(r) EXCEPT !.paid = newAmountPaid, !.status = newStatus])
        /\ Return(r)

\* Fault: the balance is compared without the tolerance.
ExactlyPaid(r) ==
    LET newAmountPaid == NewAmountPaid(req[r])
        newStatus == IF Row(r).total = newAmountPaid THEN "paid" ELSE req[r].seen
    IN  /\ req[r].at = "pay.update"
        /\ Store(r, [Row(r) EXCEPT !.paid = newAmountPaid, !.status = newStatus])
        /\ Return(r)

\* The status written back is "paid", or the one READ in the first statement.
PayUpdate(r) ==
    LET newAmountPaid == NewAmountPaid(req[r])
        newStatus == IF Row(r).total - newAmountPaid <= Tolerance THEN "paid" ELSE req[r].seen
    IN  /\ req[r].at = "pay.update"
        /\ Store(r, [Row(r) EXCEPT !.paid = newAmountPaid, !.status = newStatus])
        /\ Return(r)

-----------------------------------------------------------------------------
\* The process dies, the connection is lost or a statement fails: the request
\* stops where it is and nothing it wrote is undone.
Abort(r) ==
    /\ req[r] # Idle
    /\ Return(r)
    /\ UNCHANGED <<candidate, invoice>>

CandidateStep(r) ==
    \/ \E c \in Candidates : ReviewReadyRead(r, c) \/ CancelCandidateRead(r, c)
    \/ \E c \in Candidates, t \in Totals, o \in BOOLEAN : ConvertRead(r, c, t, o)
    \/ ReviewReadyWrite(r)
    \/ CancelCandidateCheck(r)
    \/ CancelCandidateWrite(r)
    \/ ConvertCheck(r)
    \/ ConvertInsert(r)

InvoiceStep(r) ==
    \/ \E i \in InvoiceIds : IssueRead(r, i) \/ SendRead(r, i) \/ CancelRead(r, i) \/ VoidRead(r, i)
    \/ \E i \in InvoiceIds, a \in Amounts : PayRead(r, i, a)
    \/ IssueWrite(r)
    \/ SendWrite(r)
    \/ CancelWrite(r)
    \/ VoidCheck(r)
    \/ VoidWrite(r)
    \/ PayInsert(r)
    \/ PayUpdate(r)

Step == \E r \in Requests : CandidateStep(r) \/ InvoiceStep(r)
Next == Step \/ \E r \in Requests : Abort(r)

Spec == Init /\ [][Next]_vars

\* No request is cut short.
CrashFreeSpec == Init /\ [][Step]_vars

\* Requests do not overlap; any of them can still be cut short.
Alone == \A r, q \in Requests : req[r] # Idle /\ req[q] # Idle => r = q
SerialSpec == Init /\ [][Next /\ Alone']_vars
-----------------------------------------------------------------------------
(* What holds whatever requests overlap, and whatever request is cut short. *)

\* The amount an invoice shows as paid never exceeds the payment records behind it:
\* a lost update or a crash between the two writes of recordAttendanceInvoicePayment
\* can hide money, and never invents any.
PaidIsBacked == \A i \in InvoiceIds : invoice[i].paid <= invoice[i].recorded

\* The amount shown as paid exceeds the invoice's total by the tolerance at most,
\* although two payments can both be checked against the same balance.
PaidIsBounded == \A i \in InvoiceIds : invoice[i].paid <= invoice[i].total + Tolerance

\* An invoice that reads "paid" is covered by the amount it shows and has at least one
\* payment record: no stale write leaves the status "paid" over a smaller amount.
PaidMeansCovered ==
    \A i \in InvoiceIds : invoice[i].status = "paid" =>
        /\ invoice[i].total - invoice[i].paid <= Tolerance
        /\ invoice[i].records > 0

\* No invoice is sent, voided, paid or has a payment recorded that was not issued
\* first, however issue, cancel, void and payment interleave.
MoneyOnlyOnIssued ==
    \A i \in InvoiceIds :
        \/ invoice[i].status \in {"issued", "sent", "paid"}
        \/ invoice[i].sent \/ invoice[i].voided \/ invoice[i].records > 0
        => invoice[i].issued

\* Every invoice comes from a candidate that finance reviewed, that has a client
\* company, and whose missing snapshots were acknowledged; a reviewed candidate
\* never falls back to draft under an invoice.
InvoiceIsReviewed ==
    \A i \in InvoiceIds :
        /\ candidate[invoice[i].cand] # "draft"
        /\ invoice[i].cand \notin Clientless
        /\ invoice[i].cand \in SnapshotMissing => invoice[i].override

\* The status gates written by hand in each procedure agree with
\* ATTENDANCE_INVOICE_EDGES: a request whose read is still current when it writes
\* moves the invoice along an edge of the state machine, or not at all.
FreshWritesFollowTheMachine ==
    [][\A r \in Requests : \A i \in InvoiceIds :
          /\ req'[r] # req[r]
          /\ req[r].at \in StatusOps \cup PayOps
          /\ req[r].inv = i
          /\ req[r].seen = invoice[i].status
          => \/ invoice'[i].status = invoice[i].status
             \/ <<invoice[i].status, invoice'[i].status>> \in Edges]_vars

-----------------------------------------------------------------------------
(* What holds when requests do not overlap, and is lost when they do. *)

\* voidAttendanceInvoice is "blocked if payment records exist for the invoice"
\* (attendanceBilling.ts:614).
NoPaymentOnVoided ==
    \A i \in InvoiceIds : invoice[i].voided => invoice[i].records = 0

(***************************************************************************)
(* Promises of the documentation that the code does not keep: TLC refutes  *)
(* them.                                                                   *)
(***************************************************************************)
\* "Running sum of recorded manual payments" (drizzle/schema.ts:5388): outside a payment
\* that is being recorded, the amount shown is the sum of the records.
AmountPaidIsRunningSum ==
    \A i \in InvoiceIds :
        \/ invoice[i].paid = invoice[i].recorded
        \/ \E r \in Requests : req[r].at = "pay.update" /\ req[r].inv = i

\* "allows re-conversion when the existing invoice is cancelled"
\* (attendance.invoiceConversion.test.ts:397): a conversion that has passed every
\* check while no live invoice exists is not refused by a unique key.
ReconversionIsPossible ==
    \A r \in Requests :
        /\ req[r].at = "convert.insert"
        /\ \A i \in InvoicesOf(req[r].cand) : ~Live(i)
        => ~KeyCollision(req[r].cand)
=============================================================================
