----------------------- MODULE AttendanceBilling_proofs -----------------------
(***************************************************************************)
(* Proofs about AttendanceBilling for every number of requests, candidates *)
(* and invoices, and for both forms of the attendance_invoices table.      *)
(***************************************************************************)
EXTENDS BillingRefinement, TLAPS, SequenceTheorems

-----------------------------------------------------------------------------
(* The inductive invariant: what request r holds stays true of the tables, *)
(* although it was read some statements ago.                               *)

\* A request that works on an invoice works on one that exists.
HeldInvoiceExists(r) ==
    req[r].at \in StatusOps \cup PayOps => req[r].inv \in InvoiceIds

\* A request that sends, voids or pays an invoice has read it as issued or sent.
HeldIsIssued(r) ==
    req[r].at \in PayOps \cup {"send.write", "void.check", "void.write"}
    => Row(r).issued

\* The payment about to be written back is bounded by the total, and by the records.
HeldPaymentFits(r) ==
    req[r].at \in PayOps =>
        /\ req[r].paid + req[r].amount <= Row(r).total + Tolerance
        /\ req[r].seen \in Payable

HeldPaymentIsBacked(r) ==
    /\ req[r].at = "pay.insert" => req[r].paid <= Row(r).recorded
    /\ req[r].at = "pay.update" =>
          /\ req[r].paid + req[r].amount <= Row(r).recorded
          /\ Row(r).records > 0

\* A conversion under way is about a candidate that passed the gates.
HeldCandidateIsReviewed(r) ==
    req[r].at \in ConvertOps =>
        /\ candidate[req[r].cand] # "draft"
        /\ req[r].cand \notin Clientless
        /\ req[r].cand \in SnapshotMissing => req[r].override

\* The status a request has read passed the gate of its procedure.
HeldPassedGate(r) ==
    /\ req[r].at \in {"issue.write", "cancel.write"} => req[r].seen \in Issuable
    /\ req[r].at = "send.write" => req[r].seen = "issued"
    /\ req[r].at \in {"void.check", "void.write"} => req[r].seen \in Payable

Held(r) ==
    /\ HeldInvoiceExists(r)
    /\ HeldPassedGate(r)
    /\ HeldIsIssued(r)
    /\ HeldPaymentFits(r)
    /\ HeldPaymentIsBacked(r)
    /\ HeldCandidateIsReviewed(r)

\* What Safe says of one row.
RowSafe(w) ==
    /\ w.paid <= w.recorded
    /\ w.paid <= w.total + Tolerance
    /\ w.status = "paid" => w.total - w.paid <= Tolerance /\ w.records > 0
    /\ \/ w.status \in {"issued", "sent", "paid"}
       \/ w.sent \/ w.voided \/ w.records > 0
       => w.issued

Safe ==
    /\ PaidIsBacked
    /\ PaidIsBounded
    /\ PaidMeansCovered
    /\ MoneyOnlyOnIssued
    /\ InvoiceIsReviewed

IInv == TypeOK /\ (\A r \in Requests : Held(r)) /\ Safe

-----------------------------------------------------------------------------
(* Shapes and updates *)

\* A request holds an invoice id exactly when its next statement is about an invoice,
\* and a candidate exactly when it is about a candidate.
LEMMA RequestShape ==
    ASSUME NEW h \in Request
    PROVE  /\ h.at \in StatusOps \cup PayOps => h.inv \in Nat \ {0} /\ h.seen \in InvoiceStatus
           /\ h.at \in PayOps => h.paid \in Nat /\ h.amount \in Amounts
           /\ h.at \in CandidateOps \cup ConvertOps => h.cand \in Candidates
           /\ h.at \in ConvertOps => h.total \in Totals /\ h.override \in BOOLEAN
  BY DEF Request, Idle, StatusOps, PayOps, CandidateOps, ConvertOps

\* Moving to the next statement keeps what the request holds.
LEMMA AdvanceShape ==
    ASSUME NEW h \in Request, NEW at
    PROVE  /\ h.at \in CandidateOps /\ at \in CandidateOps => [h EXCEPT !.at = at] \in Request
           /\ h.at \in ConvertOps /\ at \in ConvertOps => [h EXCEPT !.at = at] \in Request
           /\ h.at \in StatusOps /\ at \in StatusOps => [h EXCEPT !.at = at] \in Request
           /\ h.at \in PayOps /\ at \in PayOps => [h EXCEPT !.at = at] \in Request
           /\ [h EXCEPT !.at = at].at = at
  BY DEF Request, Idle, StatusOps, PayOps, CandidateOps, ConvertOps

\* An update by id changes that row and no other.
LEMMA StoreRow ==
    ASSUME TypeOK, NEW r \in Requests, req[r].inv \in InvoiceIds,
           NEW row \in Invoice, Store(r, row)
    PROVE  /\ invoice' \in Seq(Invoice)
           /\ InvoiceIds' = InvoiceIds
           /\ \A i \in InvoiceIds :
                 invoice'[i] = IF i = req[r].inv THEN row ELSE invoice[i]
           /\ candidate' = candidate
  <1>1. invoice \in Seq(Invoice) /\ InvoiceIds = 1..Len(invoice)
    BY LenProperties DEF TypeOK, InvoiceIds
  <1>2. invoice' = [invoice EXCEPT ![req[r].inv] = row] /\ candidate' = candidate
    BY DEF Store
  <1>3. /\ invoice' \in Seq(Invoice)
        /\ Len(invoice') = Len(invoice)
        /\ \A i \in 1..Len(invoice) : invoice'[i] = IF i = req[r].inv THEN row ELSE invoice[i]
    BY <1>1, <1>2, ExceptSeq
  <1>4. InvoiceIds' = 1..Len(invoice')
    BY <1>3, LenProperties DEF InvoiceIds
  <1> QED
    BY <1>1, <1>2, <1>3, <1>4

\* Rewriting columns of an invoice row leaves an invoice row.
LEMMA RowUpdates ==
    ASSUME NEW w \in Invoice, NEW s \in InvoiceStatus, NEW n \in Nat
    PROVE  /\ [w EXCEPT !.status = s] \in Invoice
           /\ [w EXCEPT !.status = s, !.issued = TRUE] \in Invoice
           /\ [w EXCEPT !.status = s, !.sent = TRUE] \in Invoice
           /\ [w EXCEPT !.status = s, !.voided = TRUE] \in Invoice
           /\ [w EXCEPT !.records = @ + 1, !.recorded = @ + n] \in Invoice
           /\ [w EXCEPT !.paid = n, !.status = s] \in Invoice
  <1>1. [w EXCEPT !.status = s] \in Invoice
    BY DEF Invoice
  <1>2. [w EXCEPT !.status = s, !.issued = TRUE] \in Invoice
    BY DEF Invoice
  <1>3. [w EXCEPT !.status = s, !.sent = TRUE] \in Invoice
    BY DEF Invoice
  <1>4. [w EXCEPT !.status = s, !.voided = TRUE] \in Invoice
    BY DEF Invoice
  <1>5. [w EXCEPT !.records = @ + 1, !.recorded = @ + n] \in Invoice
    <2>1. w.records + 1 \in Nat /\ w.recorded + n \in Nat
      BY DEF Invoice
    <2> QED
      BY <2>1 DEF Invoice
  <1>6. [w EXCEPT !.paid = n, !.status = s] \in Invoice
    BY DEF Invoice
  <1> QED
    BY <1>1, <1>2, <1>3, <1>4, <1>5, <1>6

\* No statement removes an invoice, rewrites what it was converted from, takes back
\* its issue or its payment records, or makes a reviewed candidate a draft again.
Grows ==
    /\ InvoiceIds \subseteq InvoiceIds'
    /\ \A i \in InvoiceIds :
          /\ invoice'[i].cand = invoice[i].cand
          /\ invoice'[i].total = invoice[i].total
          /\ invoice'[i].override = invoice[i].override
          /\ invoice[i].issued => invoice'[i].issued
          /\ invoice[i].records <= invoice'[i].records
          /\ invoice[i].recorded <= invoice'[i].recorded
    /\ \A c \in Candidates : candidate[c] # "draft" => candidate'[c] # "draft"
    /\ invoice' \in Seq(Invoice)
    /\ candidate' \in [Candidates -> CandidateStatus]

LEMMA UnchangedGrows == TypeOK /\ UNCHANGED <<candidate, invoice>> => Grows
  <1> SUFFICES ASSUME TypeOK, UNCHANGED <<candidate, invoice>> PROVE Grows
    OBVIOUS
  <1>1. \A i \in InvoiceIds : invoice[i] \in Invoice
    BY ElementOfSeq, LenProperties DEF TypeOK, InvoiceIds
  <1> QED
    BY <1>1 DEF Grows, TypeOK, InvoiceIds, Invoice

LEMMA StoreGrows ==
    ASSUME TypeOK, NEW r \in Requests, req[r].inv \in InvoiceIds,
           NEW row \in Invoice, Store(r, row),
           row.cand = Row(r).cand, row.total = Row(r).total, row.override = Row(r).override,
           Row(r).issued => row.issued,
           Row(r).records <= row.records, Row(r).recorded <= row.recorded
    PROVE  Grows
  <1>row. \A i \in InvoiceIds : invoice[i] \in Invoice
    BY ElementOfSeq, LenProperties DEF TypeOK, InvoiceIds
  <1>1. \A i \in InvoiceIds : invoice[i].records \in Nat /\ invoice[i].recorded \in Nat
    BY <1>row DEF Invoice
  <1>2. /\ invoice' \in Seq(Invoice)
        /\ InvoiceIds' = InvoiceIds
        /\ \A i \in InvoiceIds : invoice'[i] = IF i = req[r].inv THEN row ELSE invoice[i]
        /\ candidate' = candidate
    BY StoreRow
  <1>3. \A i \in InvoiceIds :
          /\ invoice'[i].cand = invoice[i].cand
          /\ invoice'[i].total = invoice[i].total
          /\ invoice'[i].override = invoice[i].override
          /\ invoice[i].issued => invoice'[i].issued
          /\ invoice[i].records <= invoice'[i].records
          /\ invoice[i].recorded <= invoice'[i].recorded
    BY <1>1, <1>2 DEF Row
  <1> QED
    BY <1>2, <1>3 DEF Grows, TypeOK

\* What the statements that write an invoice store.
LEMMA StoredRow ==
    ASSUME TypeOK, NEW r \in Requests, Held(r),
           \/ IssueWrite(r) \/ SendWrite(r) \/ CancelWrite(r) \/ VoidWrite(r)
           \/ PayInsert(r) \/ PayUpdate(r)
    PROVE  /\ req[r].inv \in InvoiceIds
           /\ Row(r) \in Invoice
           /\ \E row \in Invoice :
                 /\ Store(r, row)
                 /\ row.cand = Row(r).cand
                 /\ row.total = Row(r).total
                 /\ row.override = Row(r).override
                 /\ Row(r).issued => row.issued
                 /\ Row(r).records <= row.records
                 /\ Row(r).recorded <= row.recorded
                 /\ RowSafe(Row(r)) => RowSafe(row)
  <1>0. req[r].inv \in InvoiceIds
    BY DEF Held, HeldInvoiceExists, IssueWrite, SendWrite, CancelWrite, VoidWrite, PayInsert,
           PayUpdate, StatusOps, PayOps
  <1>w. Row(r) \in Invoice
    BY <1>0, ElementOfSeq, LenProperties DEF TypeOK, Row, InvoiceIds
  <1>n. Row(r).records \in Nat /\ Row(r).recorded \in Nat
    BY <1>w DEF Invoice
  <1>1. CASE IssueWrite(r)
    <2> DEFINE row == [Row(r) EXCEPT !.status = "issued", !.issued = TRUE]
    <2>1. row \in Invoice
      BY <1>w, RowUpdates DEF InvoiceStatus
    <2>2. Store(r, row)
      BY <1>1 DEF IssueWrite
    <2>3. /\ row.cand = Row(r).cand /\ row.total = Row(r).total /\ row.override = Row(r).override
          /\ Row(r).issued => row.issued
          /\ row.records = Row(r).records /\ row.recorded = Row(r).recorded
      BY <1>w DEF Invoice
    <2>4. RowSafe(Row(r)) => RowSafe(row)
      BY <1>w, <1>1
      DEF RowSafe, Invoice, Held, HeldIsIssued, IssueWrite
    <2> HIDE DEF row
    <2> QED
      BY <1>0, <1>w, <1>n, <2>1, <2>2, <2>3, <2>4
  <1>2. CASE SendWrite(r)
    <2> DEFINE row == [Row(r) EXCEPT !.status = "sent", !.sent = TRUE]
    <2>1. row \in Invoice
      BY <1>w, RowUpdates DEF InvoiceStatus
    <2>2. Store(r, row)
      BY <1>2 DEF SendWrite
    <2>3. /\ row.cand = Row(r).cand /\ row.total = Row(r).total /\ row.override = Row(r).override
          /\ Row(r).issued => row.issued
          /\ row.records = Row(r).records /\ row.recorded = Row(r).recorded
      BY <1>w DEF Invoice
    <2>4. RowSafe(Row(r)) => RowSafe(row)
      BY <1>w, <1>2
      DEF RowSafe, Invoice, Held, HeldIsIssued, SendWrite
    <2> HIDE DEF row
    <2> QED
      BY <1>0, <1>w, <1>n, <2>1, <2>2, <2>3, <2>4
  <1>3. CASE CancelWrite(r)
    <2> DEFINE row == [Row(r) EXCEPT !.status = "cancelled"]
    <2>1. row \in Invoice
      BY <1>w, RowUpdates DEF InvoiceStatus
    <2>2. Store(r, row)
      BY <1>3 DEF CancelWrite
    <2>3. /\ row.cand = Row(r).cand /\ row.total = Row(r).total /\ row.override = Row(r).override
          /\ Row(r).issued => row.issued
          /\ row.records = Row(r).records /\ row.recorded = Row(r).recorded
      BY <1>w DEF Invoice
    <2>4. RowSafe(Row(r)) => RowSafe(row)
      BY <1>w, <1>3
      DEF RowSafe, Invoice, Held, HeldIsIssued, CancelWrite
    <2> HIDE DEF row
    <2> QED
      BY <1>0, <1>w, <1>n, <2>1, <2>2, <2>3, <2>4
  <1>4. CASE VoidWrite(r)
    <2> DEFINE row == [Row(r) EXCEPT !.status = "cancelled", !.voided = TRUE]
    <2>1. row \in Invoice
      BY <1>w, RowUpdates DEF InvoiceStatus
    <2>2. Store(r, row)
      BY <1>4 DEF VoidWrite
    <2>3. /\ row.cand = Row(r).cand /\ row.total = Row(r).total /\ row.override = Row(r).override
          /\ Row(r).issued => row.issued
          /\ row.records = Row(r).records /\ row.recorded = Row(r).recorded
      BY <1>w DEF Invoice
    <2>4. RowSafe(Row(r)) => RowSafe(row)
      BY <1>w, <1>4
      DEF RowSafe, Invoice, Held, HeldIsIssued, VoidWrite
    <2> HIDE DEF row
    <2> QED
      BY <1>0, <1>w, <1>n, <2>1, <2>2, <2>3, <2>4
  <1>5. CASE PayInsert(r)
    <2> DEFINE row == [Row(r) EXCEPT !.records = @ + 1, !.recorded = @ + req[r].amount]
    <2>0. req[r].amount \in Nat
      BY <1>5, RequestShape, BillingAssumption DEF TypeOK, PayInsert, PayOps
    <2>1. row \in Invoice
      BY <1>w, <2>0, RowUpdates DEF InvoiceStatus
    <2>2. Store(r, row)
      BY <1>5 DEF PayInsert
    <2>3. row.records = Row(r).records + 1 /\ row.recorded = Row(r).recorded + req[r].amount
      BY <1>w DEF Invoice
    <2>4. row.cand = Row(r).cand /\ row.total = Row(r).total /\ row.override = Row(r).override
          /\ row.issued = Row(r).issued
      BY <1>w DEF Invoice
    <2>5. Row(r).issued /\ Row(r).paid \in Nat /\ Row(r).total \in Nat
      BY <1>w, <1>5 DEF Held, HeldIsIssued, PayInsert, PayOps, Invoice
    <2>6. row.paid = Row(r).paid /\ row.status = Row(r).status
      BY <1>w DEF Invoice
    <2> HIDE DEF row
    <2>7. RowSafe(Row(r)) => RowSafe(row)
      BY <1>n, <2>0, <2>3, <2>4, <2>5, <2>6 DEF RowSafe
    <2> QED
      BY <1>0, <1>w, <1>n, <2>0, <2>1, <2>2, <2>3, <2>4, <2>7
  <1>6. CASE PayUpdate(r)
    <2> DEFINE new == NewAmountPaid(req[r])
               s == IF Row(r).total - new <= Tolerance THEN "paid" ELSE req[r].seen
               row == [Row(r) EXCEPT !.paid = new, !.status = s]
    <2>0. /\ req[r].seen \in InvoiceStatus
          /\ req[r].paid \in Nat /\ req[r].amount \in Nat
          /\ new = req[r].paid + req[r].amount
      BY <1>6, RequestShape, BillingAssumption DEF TypeOK, PayUpdate, PayOps, NewAmountPaid
    <2>1. /\ Row(r).issued
          /\ new <= Row(r).total + Tolerance
          /\ new <= Row(r).recorded
          /\ Row(r).records > 0
          /\ req[r].seen # "paid"
      BY <1>6, <2>0
      DEF Held, HeldIsIssued, HeldPaymentFits, HeldPaymentIsBacked, PayUpdate, PayOps, Payable
    <2>2. Store(r, row)
      BY <1>6 DEF PayUpdate
    <2> HIDE DEF new
    <2>3. new \in Nat /\ s \in InvoiceStatus
      BY <2>0 DEF InvoiceStatus
    <2>4. s = "paid" => Row(r).total - new <= Tolerance
      BY <2>1
    <2> HIDE DEF s
    <2>5. row \in Invoice
      BY <1>w, <2>3, RowUpdates
    <2>6. /\ row.cand = Row(r).cand /\ row.total = Row(r).total /\ row.override = Row(r).override
          /\ row.issued = Row(r).issued
          /\ row.records = Row(r).records /\ row.recorded = Row(r).recorded
          /\ row.paid = new /\ row.status = s
      BY <1>w DEF Invoice
    <2> HIDE DEF row
    <2>7. RowSafe(row)
      BY <1>n, <2>1, <2>3, <2>4, <2>6 DEF RowSafe
    <2> QED
      BY <1>0, <1>w, <1>n, <2>2, <2>5, <2>6, <2>7
  <1> QED
    BY <1>1, <1>2, <1>3, <1>4, <1>5, <1>6

LEMMA StepGrows ==
    ASSUME TypeOK, \A r \in Requests : Held(r), [Next]_vars
    PROVE  Grows
  <1>rows. \A i \in InvoiceIds : invoice[i] \in Invoice
    BY ElementOfSeq, LenProperties DEF TypeOK, InvoiceIds
  <1>1. CASE UNCHANGED <<candidate, invoice>>
    BY <1>1, UnchangedGrows
  <1>2. ASSUME NEW r \in Requests, ReviewReadyWrite(r) \/ CancelCandidateWrite(r)
        PROVE  Grows
    <2>1. req[r].cand \in Candidates
      BY <1>2, RequestShape DEF TypeOK, ReviewReadyWrite, CancelCandidateWrite, CandidateOps
    <2>2. /\ candidate' \in [Candidates -> CandidateStatus]
          /\ \A c \in Candidates : candidate[c] # "draft" => candidate'[c] # "draft"
          /\ invoice' = invoice
      BY <1>2, <2>1 DEF TypeOK, ReviewReadyWrite, CancelCandidateWrite, CandidateStatus
    <2> QED
      BY <1>rows, <2>2 DEF Grows, TypeOK, InvoiceIds, Invoice
  <1>3. ASSUME NEW r \in Requests, ConvertInsert(r)
        PROVE  Grows
    <2>1. /\ req[r].cand \in Candidates
          /\ req[r].total \in Nat
          /\ req[r].override \in BOOLEAN
      BY <1>3, RequestShape, BillingAssumption DEF TypeOK, ConvertInsert, ConvertOps
    <2>2. CASE invoice' = invoice
      BY <1>3, <2>2, UnchangedGrows DEF ConvertInsert
    <2>3. CASE invoice' = Append(invoice, NewInvoice(req[r].cand, req[r].total, req[r].override))
      <3>1. NewInvoice(req[r].cand, req[r].total, req[r].override) \in Invoice
        BY <2>1 DEF NewInvoice, Invoice, InvoiceStatus
      <3>2. /\ invoice' \in Seq(Invoice)
            /\ Len(invoice') = Len(invoice) + 1
            /\ \A i \in 1..Len(invoice) : invoice'[i] = invoice[i]
        BY <2>3, <3>1, AppendProperties DEF TypeOK
      <3>3. /\ InvoiceIds = 1..Len(invoice)
            /\ InvoiceIds' = 1..Len(invoice')
            /\ Len(invoice) \in Nat
        BY <3>2, LenProperties DEF TypeOK, InvoiceIds
      <3>4. \A i \in InvoiceIds : invoice'[i] = invoice[i]
        BY <3>2, <3>3
      <3>5. InvoiceIds \subseteq InvoiceIds'
        BY <3>2, <3>3
      <3>6. \A i \in InvoiceIds : invoice[i].records \in Nat /\ invoice[i].recorded \in Nat
        BY <1>rows DEF Invoice
      <3>7. candidate' = candidate
        BY <1>3 DEF ConvertInsert
      <3> QED
        BY <3>2, <3>4, <3>5, <3>6, <3>7 DEF Grows, TypeOK
    <2> QED
      BY <1>3, <2>2, <2>3 DEF ConvertInsert
  <1>4. ASSUME NEW r \in Requests,
               \/ IssueWrite(r) \/ SendWrite(r) \/ CancelWrite(r) \/ VoidWrite(r)
               \/ PayInsert(r) \/ PayUpdate(r)
        PROVE  Grows
    BY <1>4, StoredRow, StoreGrows
  <1>5. ASSUME NEW r \in Requests,
               \/ CandidateStep(r) \/ InvoiceStep(r) \/ Abort(r)
        PROVE  Grows
    BY <1>1, <1>2, <1>3, <1>4, <1>5
    DEF CandidateStep, InvoiceStep, Abort, ReviewReadyRead, CancelCandidateRead,
        CancelCandidateCheck, ConvertRead, ConvertCheck, IssueRead, SendRead, CancelRead,
        VoidRead, InvoiceRead, VoidCheck, PayRead
  <1> QED
    BY <1>1, <1>5 DEF Next, Step, vars

-----------------------------------------------------------------------------
(* One step at a time *)

\* What a request holds survives the statements of the others.
LEMMA HeldStays ==
    ASSUME TypeOK, Grows, NEW r \in Requests, Held(r), req'[r] = req[r]
    PROVE  Held(r)'
  <1>1. CASE req[r].at \in StatusOps \cup PayOps
    <2>1. req[r].inv \in InvoiceIds /\ req[r].inv \in InvoiceIds'
      BY <1>1 DEF Held, HeldInvoiceExists, Grows
    <2>2. Row(r) \in Invoice /\ Row(r)' \in Invoice
      BY <2>1, ElementOfSeq, LenProperties DEF TypeOK, Grows, Row, InvoiceIds
    <2>3. /\ Row(r)'.total = Row(r).total
          /\ Row(r).issued => Row(r)'.issued
          /\ Row(r).records <= Row(r)'.records
          /\ Row(r).recorded <= Row(r)'.recorded
      BY <2>1 DEF Grows, Row
    <2>4. /\ Row(r).records \in Nat /\ Row(r)'.records \in Nat
          /\ Row(r).recorded \in Nat /\ Row(r)'.recorded \in Nat
      BY <2>2 DEF Invoice
    <2>5. req[r].at \in PayOps => req[r].paid \in Nat /\ req[r].amount \in Nat
      BY RequestShape, BillingAssumption DEF TypeOK
    <2>6. HeldInvoiceExists(r)' /\ HeldPassedGate(r)' /\ HeldIsIssued(r)' /\ HeldPaymentFits(r)'
      BY <2>1, <2>3
      DEF Held, HeldInvoiceExists, HeldPassedGate, HeldIsIssued, HeldPaymentFits
    <2>7. HeldPaymentIsBacked(r)'
      BY <2>3, <2>4, <2>5 DEF Held, HeldPaymentIsBacked, PayOps
    <2>8. HeldCandidateIsReviewed(r)'
      BY <1>1 DEF HeldCandidateIsReviewed, StatusOps, PayOps, ConvertOps
    <2> QED
      BY <2>6, <2>7, <2>8 DEF Held
  <1>2. CASE req[r].at \notin StatusOps \cup PayOps
    <2>1. req[r].at \in ConvertOps => req[r].cand \in Candidates
      BY RequestShape DEF TypeOK
    <2>2. HeldCandidateIsReviewed(r)'
      BY <2>1 DEF Held, HeldCandidateIsReviewed, Grows
    <2> QED
      BY <1>2, <2>2
      DEF Held, HeldInvoiceExists, HeldPassedGate, HeldIsIssued, HeldPaymentFits, HeldPaymentIsBacked,
          StatusOps, PayOps
  <1> QED
    BY <1>1, <1>2

\* A request that has returned holds nothing.
LEMMA IdleHolds ==
    ASSUME TypeOK, NEW r \in Requests, Return(r)
    PROVE  req'[r] \in Request /\ Held(r)'
  <1>1. req'[r] = Idle
    BY DEF Return, Goto, TypeOK
  <1> QED
    BY <1>1
    DEF Idle, Request, Held, HeldInvoiceExists, HeldPassedGate, HeldIsIssued, HeldPaymentFits,
        HeldPaymentIsBacked, HeldCandidateIsReviewed, StatusOps, PayOps, ConvertOps

LEMMA SafeRows ==
    TypeOK => (Safe <=> (\A i \in InvoiceIds : RowSafe(invoice[i])) /\ InvoiceIsReviewed)
  BY DEF Safe, RowSafe, PaidIsBacked, PaidIsBounded, PaidMeansCovered, MoneyOnlyOnIssued

\* The selects that open a procedure: what they put into req[r] is true when they put it.
LEMMA ReadHolds ==
    ASSUME IInv, NEW r \in Requests, req[r] = Idle, UNCHANGED <<candidate, invoice>>,
           \/ \E c \in Candidates : ReviewReadyRead(r, c) \/ CancelCandidateRead(r, c)
           \/ \E c \in Candidates, t \in Totals, o \in BOOLEAN : ConvertRead(r, c, t, o)
           \/ \E i \in InvoiceIds :
                 IssueRead(r, i) \/ SendRead(r, i) \/ CancelRead(r, i) \/ VoidRead(r, i)
           \/ \E i \in InvoiceIds, a \in Amounts : PayRead(r, i, a)
    PROVE  /\ req' = [req EXCEPT ![r] = req'[r]]
           /\ req'[r] \in Request
           /\ Held(r)'
  <1>1. ASSUME NEW c \in Candidates, ReviewReadyRead(r, c) \/ CancelCandidateRead(r, c)
        PROVE  /\ req' = [req EXCEPT ![r] = req'[r]]
               /\ req'[r] \in Request /\ Held(r)'
    BY <1>1
    DEF ReviewReadyRead, CancelCandidateRead, Goto, IInv, TypeOK, Request, CandidateOps,
        Held, HeldInvoiceExists, HeldPassedGate, HeldIsIssued, HeldPaymentFits, HeldPaymentIsBacked,
        HeldCandidateIsReviewed, StatusOps, PayOps, ConvertOps
  <1>2. ASSUME NEW c \in Candidates, NEW t \in Totals, NEW o \in BOOLEAN, ConvertRead(r, c, t, o)
        PROVE  /\ req' = [req EXCEPT ![r] = req'[r]]
               /\ req'[r] \in Request /\ Held(r)'
    BY <1>2
    DEF ConvertRead, Goto, IInv, TypeOK, Request, CandidateOps,
        Held, HeldInvoiceExists, HeldPassedGate, HeldIsIssued, HeldPaymentFits, HeldPaymentIsBacked,
        HeldCandidateIsReviewed, StatusOps, PayOps, ConvertOps
  <1>3. ASSUME NEW i \in InvoiceIds,
               IssueRead(r, i) \/ SendRead(r, i) \/ CancelRead(r, i) \/ VoidRead(r, i)
        PROVE  /\ req' = [req EXCEPT ![r] = req'[r]]
               /\ req'[r] \in Request /\ Held(r)'
    <2>1. i \in Nat \ {0} /\ invoice[i] \in Invoice
      BY ElementOfSeq, LenProperties DEF IInv, TypeOK, InvoiceIds
    <2>2. invoice[i].status \in {"issued", "sent"} => invoice[i].issued
      BY DEF IInv, Safe, MoneyOnlyOnIssued
    <2>3. /\ req' = [req EXCEPT ![r] = req'[r]]
          /\ req'[r].at \in {"issue.write", "send.write", "cancel.write", "void.check"}
          /\ req'[r] = [at |-> req'[r].at, inv |-> i, seen |-> invoice[i].status]
          /\ req'[r].at \in {"issue.write", "cancel.write"} => invoice[i].status \in Issuable
          /\ req'[r].at = "send.write" => invoice[i].status = "issued"
          /\ req'[r].at = "void.check" => invoice[i].status \in Payable
      BY <1>3
      DEF IssueRead, SendRead, CancelRead, VoidRead, InvoiceRead, Goto, IInv, TypeOK, Edges, Payable
    <2>4. req'[r] \in Request
      BY <2>1, <2>3 DEF Request, StatusOps, Invoice
    <2> QED
      BY <2>1, <2>2, <2>3, <2>4
      DEF Held, HeldInvoiceExists, HeldPassedGate, HeldIsIssued, HeldPaymentFits, HeldPaymentIsBacked,
          HeldCandidateIsReviewed, StatusOps, PayOps, ConvertOps, Payable, Row, InvoiceIds
  <1>4. ASSUME NEW i \in InvoiceIds, NEW a \in Amounts, PayRead(r, i, a)
        PROVE  /\ req' = [req EXCEPT ![r] = req'[r]]
               /\ req'[r] \in Request /\ Held(r)'
    <2>1. i \in Nat \ {0} /\ invoice[i] \in Invoice
      BY ElementOfSeq, LenProperties DEF IInv, TypeOK, InvoiceIds
    <2>2. /\ invoice[i].status \in {"issued", "sent"} => invoice[i].issued
          /\ invoice[i].paid <= invoice[i].recorded
      BY DEF IInv, Safe, MoneyOnlyOnIssued, PaidIsBacked
    <2>3. /\ req' = [req EXCEPT ![r] = req'[r]]
          /\ req'[r] = [at |-> "pay.insert", inv |-> i, seen |-> invoice[i].status,
                        paid |-> invoice[i].paid, amount |-> a]
          /\ invoice[i].status \in Payable
          /\ a <= invoice[i].total - invoice[i].paid + Tolerance
      BY <1>4 DEF PayRead, Goto, IInv, TypeOK
    <2>4. a \in Nat /\ invoice[i].total \in Nat /\ invoice[i].paid \in Nat
      BY <2>1, BillingAssumption DEF Invoice
    <2>5. invoice[i].paid + a <= invoice[i].total + Tolerance
      BY <2>3, <2>4 DEF Tolerance
    <2>6. req'[r] \in Request
      BY <2>1, <2>3 DEF Request, PayOps, Invoice
    <2> QED
      BY <2>1, <2>2, <2>3, <2>5, <2>6
      DEF Held, HeldInvoiceExists, HeldPassedGate, HeldIsIssued, HeldPaymentFits, HeldPaymentIsBacked,
          HeldCandidateIsReviewed, StatusOps, PayOps, ConvertOps, Payable, Row, InvoiceIds
  <1> QED
    BY <1>1, <1>2, <1>3, <1>4

\* The checks in the middle of a procedure: they go on to the next statement, or return.
LEMMA CheckHolds ==
    ASSUME IInv, NEW r \in Requests,
           CancelCandidateCheck(r) \/ ConvertCheck(r) \/ VoidCheck(r)
    PROVE  /\ req' = [req EXCEPT ![r] = req'[r]]
           /\ req'[r] \in Request
           /\ Held(r)'
  <1>0. req[r] \in Request /\ req \in [Requests -> Request] /\ TypeOK /\ Held(r)
    BY DEF IInv, TypeOK
  <1>1. CASE Return(r)
    BY <1>0, <1>1, IdleHolds DEF Return, Goto
  <1>2. CASE /\ req[r].at \in CandidateOps \ {"reviewReady.write"}
             /\ Advance(r, "cancelCandidate.write")
    <2>1. /\ req' = [req EXCEPT ![r] = req'[r]]
          /\ req'[r] = [req[r] EXCEPT !.at = "cancelCandidate.write"]
      BY <1>0, <1>2 DEF Advance
    <2>2. req'[r] \in Request /\ req'[r].at = "cancelCandidate.write"
      BY <1>0, <1>2, <2>1, AdvanceShape DEF CandidateOps
    <2> QED
      BY <2>1, <2>2
      DEF Held, HeldInvoiceExists, HeldPassedGate, HeldIsIssued, HeldPaymentFits, HeldPaymentIsBacked,
          HeldCandidateIsReviewed, StatusOps, PayOps, ConvertOps
  <1>3. CASE ConvertCheck(r) /\ Advance(r, "convert.insert")
    <2>1. /\ req' = [req EXCEPT ![r] = req'[r]]
          /\ req'[r] = [req[r] EXCEPT !.at = "convert.insert"]
          /\ req[r].at = "convert.check"
          /\ candidate' = candidate
      BY <1>0, <1>3 DEF Advance, ConvertCheck
    <2>2. req'[r] \in Request /\ req'[r].at = "convert.insert"
      BY <1>0, <2>1, AdvanceShape DEF ConvertOps
    <2>3. req[r] \in [at: ConvertOps, cand: Candidates, total: Totals, override: BOOLEAN]
      BY <1>0, <2>1 DEF Request, Idle, StatusOps, PayOps, CandidateOps
    <2>4. req'[r].cand = req[r].cand /\ req'[r].override = req[r].override
      BY <2>1, <2>3
    <2>5. HeldCandidateIsReviewed(r)'
      BY <1>0, <2>1, <2>2, <2>4 DEF Held, HeldCandidateIsReviewed, ConvertOps
    <2> QED
      BY <2>1, <2>2, <2>5
      DEF Held, HeldInvoiceExists, HeldPassedGate, HeldIsIssued, HeldPaymentFits, HeldPaymentIsBacked,
          StatusOps, PayOps, ConvertOps
  <1>4. CASE VoidCheck(r) /\ Advance(r, "void.write")
    <2>1. /\ req' = [req EXCEPT ![r] = req'[r]]
          /\ req'[r] = [req[r] EXCEPT !.at = "void.write"]
          /\ req[r].at = "void.check"
          /\ invoice' = invoice
      BY <1>0, <1>4 DEF Advance, VoidCheck
    <2>2. req'[r] \in Request /\ req'[r].at = "void.write"
      BY <1>0, <2>1, AdvanceShape DEF StatusOps
    <2>3. req[r] \in [at: StatusOps, inv: Nat \ {0}, seen: InvoiceStatus]
      BY <1>0, <2>1 DEF Request, Idle, ConvertOps, PayOps, CandidateOps, StatusOps
    <2>4. req'[r].inv = req[r].inv /\ req'[r].seen = req[r].seen
      BY <2>1, <2>3
    <2>5. HeldInvoiceExists(r)' /\ HeldPassedGate(r)' /\ HeldIsIssued(r)'
      BY <1>0, <2>1, <2>2, <2>4
      DEF Held, HeldInvoiceExists, HeldPassedGate, HeldIsIssued, StatusOps, PayOps, Row, InvoiceIds
    <2> QED
      BY <2>1, <2>2, <2>5
      DEF Held, HeldPaymentFits, HeldPaymentIsBacked, HeldCandidateIsReviewed,
          StatusOps, PayOps, ConvertOps
  <1> QED
    BY <1>1, <1>2, <1>3, <1>4 DEF CancelCandidateCheck, ConvertCheck, VoidCheck, CandidateOps

\* A payment record inserted, the update of the invoice is backed by it.
LEMMA PayInsertHolds ==
    ASSUME IInv, NEW r \in Requests, PayInsert(r)
    PROVE  /\ req' = [req EXCEPT ![r] = req'[r]]
           /\ req'[r] \in Request
           /\ Held(r)'
  <1>0. req[r] \in Request /\ req \in [Requests -> Request] /\ TypeOK /\ Held(r)
    BY DEF IInv, TypeOK
  <1>1. /\ req' = [req EXCEPT ![r] = req'[r]]
        /\ req'[r] = [req[r] EXCEPT !.at = "pay.update"]
        /\ req[r].at = "pay.insert"
    BY <1>0 DEF Advance, PayInsert
  <1>2. req'[r] \in Request /\ req'[r].at = "pay.update"
    BY <1>0, <1>1, AdvanceShape DEF PayOps
  <1>3. req[r] \in [at: PayOps, inv: Nat \ {0}, seen: InvoiceStatus, paid: Nat, amount: Amounts]
    BY <1>0, <1>1 DEF Request, Idle, ConvertOps, PayOps, CandidateOps, StatusOps
  <1>4. /\ req'[r].inv = req[r].inv /\ req'[r].seen = req[r].seen
        /\ req'[r].paid = req[r].paid /\ req'[r].amount = req[r].amount
        /\ req[r].paid \in Nat /\ req[r].amount \in Nat
    BY <1>1, <1>3, BillingAssumption
  <1>5. req[r].inv \in InvoiceIds /\ Row(r) \in Invoice
    BY <1>0, StoredRow
  <1> DEFINE row == [Row(r) EXCEPT !.records = @ + 1, !.recorded = @ + req[r].amount]
  <1>6. row \in Invoice
    BY <1>4, <1>5, RowUpdates DEF InvoiceStatus
  <1>7. /\ row.records = Row(r).records + 1
        /\ row.recorded = Row(r).recorded + req[r].amount
        /\ row.total = Row(r).total
        /\ row.issued = Row(r).issued
        /\ Row(r).records \in Nat /\ Row(r).recorded \in Nat
    BY <1>5 DEF Invoice
  <1>8. Store(r, row)
    BY DEF PayInsert
  <1> HIDE DEF row
  <1>9. InvoiceIds' = InvoiceIds /\ invoice'[req[r].inv] = row
    BY <1>0, <1>5, <1>6, <1>8, StoreRow
  <1>10. Row(r)' = row
    BY <1>4, <1>9 DEF Row
  <1>11. HeldPaymentIsBacked(r)'
    BY <1>0, <1>1, <1>2, <1>4, <1>7, <1>10 DEF Held, HeldPaymentIsBacked
  <1>12. HeldInvoiceExists(r)' /\ HeldPassedGate(r)' /\ HeldIsIssued(r)' /\ HeldPaymentFits(r)'
    BY <1>0, <1>1, <1>2, <1>4, <1>5, <1>7, <1>9, <1>10
    DEF Held, HeldInvoiceExists, HeldPassedGate, HeldIsIssued, HeldPaymentFits, PayOps
  <1>13. HeldCandidateIsReviewed(r)'
    BY <1>2 DEF HeldCandidateIsReviewed, ConvertOps
  <1> QED
    BY <1>1, <1>2, <1>11, <1>12, <1>13 DEF Held

\* Every step is the step of one request.
LEMMA OneRequestMoves ==
    ASSUME IInv, NEW r \in Requests, CandidateStep(r) \/ InvoiceStep(r) \/ Abort(r)
    PROVE  /\ req' = [req EXCEPT ![r] = req'[r]]
           /\ req'[r] \in Request
           /\ Held(r)'
  <1>0. req \in [Requests -> Request] /\ TypeOK
    BY DEF IInv, TypeOK
  <1>1. CASE Return(r)
    BY <1>0, <1>1, IdleHolds DEF Return, Goto
  <1>2. CASE \/ \E c \in Candidates : ReviewReadyRead(r, c) \/ CancelCandidateRead(r, c)
             \/ \E c \in Candidates, t \in Totals, o \in BOOLEAN : ConvertRead(r, c, t, o)
             \/ \E i \in InvoiceIds :
                   IssueRead(r, i) \/ SendRead(r, i) \/ CancelRead(r, i) \/ VoidRead(r, i)
             \/ \E i \in InvoiceIds, a \in Amounts : PayRead(r, i, a)
    <2>1. req[r] = Idle /\ UNCHANGED <<candidate, invoice>>
      BY <1>2
      DEF ReviewReadyRead, CancelCandidateRead, ConvertRead, IssueRead, SendRead, CancelRead,
          VoidRead, InvoiceRead, PayRead
    <2> QED
      BY <1>2, <2>1, ReadHolds
  <1>3. CASE CancelCandidateCheck(r) \/ ConvertCheck(r) \/ VoidCheck(r)
    BY <1>3, CheckHolds
  <1>4. CASE PayInsert(r)
    BY <1>4, PayInsertHolds
  <1> QED
    BY <1>1, <1>2, <1>3, <1>4
    DEF CandidateStep, InvoiceStep, Abort, ReviewReadyWrite, CancelCandidateWrite,
        ConvertInsert, IssueWrite, SendWrite, CancelWrite, VoidWrite, PayUpdate

-----------------------------------------------------------------------------
(* The safety invariants *)

LEMMA StepSafe ==
    ASSUME IInv, Grows, NEW r \in Requests, CandidateStep(r) \/ InvoiceStep(r) \/ Abort(r)
    PROVE  Safe'
  <1>0. TypeOK /\ Held(r) /\ Safe /\ (\A i \in InvoiceIds : RowSafe(invoice[i])) /\ InvoiceIsReviewed
    BY SafeRows DEF IInv
  <1>rows. \A i \in InvoiceIds : invoice[i] \in Invoice
    BY <1>0, ElementOfSeq, LenProperties DEF TypeOK, InvoiceIds
  <1> SUFFICES (\A i \in InvoiceIds : RowSafe(invoice[i]))' /\ InvoiceIsReviewed'
    BY DEF Safe, RowSafe, PaidIsBacked, PaidIsBounded, PaidMeansCovered, MoneyOnlyOnIssued
  <1>1. CASE invoice' = invoice
    <2>1. (\A i \in InvoiceIds : RowSafe(invoice[i]))'
      BY <1>0, <1>1 DEF InvoiceIds, RowSafe
    <2>2. InvoiceIsReviewed'
      BY <1>0, <1>1, <1>rows DEF InvoiceIsReviewed, Grows, InvoiceIds, Invoice
    <2> QED
      BY <2>1, <2>2
  <1>2. CASE ConvertInsert(r) /\ invoice' # invoice
    <2> DEFINE row == NewInvoice(req[r].cand, req[r].total, req[r].override)
    <2>1. /\ req[r].cand \in Candidates /\ req[r].total \in Nat /\ req[r].override \in BOOLEAN
          /\ candidate[req[r].cand] # "draft"
          /\ req[r].cand \notin Clientless
          /\ req[r].cand \in SnapshotMissing => req[r].override
      BY <1>0, <1>2, RequestShape, BillingAssumption
      DEF TypeOK, ConvertInsert, ConvertOps, Held, HeldCandidateIsReviewed
    <2>2. invoice' = Append(invoice, row) /\ candidate' = candidate
      BY <1>2 DEF ConvertInsert
    <2>3. row \in Invoice
      BY <2>1 DEF NewInvoice, Invoice, InvoiceStatus
    <2>4. RowSafe(row) /\ row.cand = req[r].cand /\ row.override = req[r].override
      BY <2>1 DEF NewInvoice, RowSafe, Tolerance
    <2> HIDE DEF row
    <2>5. /\ Len(invoice') = Len(invoice) + 1
          /\ \A i \in 1..Len(invoice) : invoice'[i] = invoice[i]
          /\ invoice'[Len(invoice) + 1] = row
          /\ invoice' \in Seq(Invoice) /\ invoice \in Seq(Invoice)
      BY <1>0, <2>2, <2>3, AppendProperties DEF TypeOK
    <2>6. /\ InvoiceIds = 1..Len(invoice) /\ InvoiceIds' = 1..Len(invoice')
          /\ Len(invoice) \in Nat
      BY <2>5, LenProperties DEF InvoiceIds
    <2>7. \A i \in InvoiceIds' : (i \in InvoiceIds /\ invoice'[i] = invoice[i]) \/ invoice'[i] = row
      BY <2>5, <2>6
    <2>8. \A i \in InvoiceIds' : RowSafe(invoice'[i])
      BY <1>0, <2>4, <2>7
    <2>9. \A i \in InvoiceIds' :
             /\ candidate'[invoice'[i].cand] # "draft"
             /\ invoice'[i].cand \notin Clientless
             /\ invoice'[i].cand \in SnapshotMissing => invoice'[i].override
      BY <1>0, <2>1, <2>2, <2>4, <2>7 DEF InvoiceIsReviewed
    <2> QED
      BY <2>8, <2>9 DEF InvoiceIsReviewed, RowSafe
  <1>3. CASE \/ IssueWrite(r) \/ SendWrite(r) \/ CancelWrite(r) \/ VoidWrite(r)
             \/ PayInsert(r) \/ PayUpdate(r)
    <2>1. req[r].inv \in InvoiceIds /\ Row(r) \in Invoice
      BY <1>0, <1>3, StoredRow
    <2>2. PICK row \in Invoice :
             /\ Store(r, row)
             /\ row.cand = Row(r).cand /\ row.override = Row(r).override
             /\ RowSafe(Row(r)) => RowSafe(row)
      BY <1>0, <1>3, StoredRow
    <2>3. /\ InvoiceIds' = InvoiceIds
          /\ \A i \in InvoiceIds : invoice'[i] = IF i = req[r].inv THEN row ELSE invoice[i]
          /\ candidate' = candidate
      BY <1>0, <2>1, <2>2, StoreRow
    <2>4. RowSafe(row)
      BY <1>0, <2>1, <2>2 DEF Row
    <2>5. \A i \in InvoiceIds' : RowSafe(invoice'[i])
      BY <1>0, <2>3, <2>4
    <2>6. \A i \in InvoiceIds' :
             /\ candidate'[invoice'[i].cand] # "draft"
             /\ invoice'[i].cand \notin Clientless
             /\ invoice'[i].cand \in SnapshotMissing => invoice'[i].override
      BY <1>0, <2>1, <2>2, <2>3 DEF InvoiceIsReviewed, Row
    <2> QED
      BY <2>5, <2>6 DEF InvoiceIsReviewed, RowSafe
  <1> QED
    BY <1>1, <1>2, <1>3
    DEF CandidateStep, InvoiceStep, Abort, ReviewReadyRead, ReviewReadyWrite,
        CancelCandidateRead, CancelCandidateCheck, CancelCandidateWrite, ConvertRead,
        ConvertCheck, IssueRead, SendRead, CancelRead, VoidRead, InvoiceRead, VoidCheck, PayRead

LEMMA InitInvariant == Init => IInv
  <1> SUFFICES ASSUME Init PROVE IInv
    OBVIOUS
  <1>1. invoice = << >> /\ InvoiceIds = {}
    BY EmptySeq, LenProperties DEF Init, InvoiceIds
  <1>2. TypeOK
    BY EmptySeq DEF Init, TypeOK, Request, CandidateStatus
  <1>3. \A r \in Requests : Held(r)
    BY DEF Init, Idle, Held, HeldInvoiceExists, HeldPassedGate, HeldIsIssued, HeldPaymentFits,
           HeldPaymentIsBacked, HeldCandidateIsReviewed, StatusOps, PayOps, ConvertOps
  <1> QED
    BY <1>1, <1>2, <1>3
    DEF IInv, Safe, PaidIsBacked, PaidIsBounded, PaidMeansCovered, MoneyOnlyOnIssued,
        InvoiceIsReviewed

LEMMA NextInvariant == IInv /\ [Next]_vars => IInv'
  <1> SUFFICES ASSUME IInv, [Next]_vars PROVE IInv'
    OBVIOUS
  <1>0. TypeOK /\ (\A r \in Requests : Held(r))
    BY DEF IInv
  <1>g. Grows
    BY <1>0, StepGrows
  <1>1. CASE UNCHANGED vars
    BY <1>1 DEF vars, IInv, TypeOK, Held, HeldInvoiceExists, HeldPassedGate, HeldIsIssued, HeldPaymentFits,
        HeldPaymentIsBacked, HeldCandidateIsReviewed, Safe, PaidIsBacked, PaidIsBounded,
        PaidMeansCovered, MoneyOnlyOnIssued, InvoiceIsReviewed, Row, InvoiceIds
  <1>2. ASSUME NEW r \in Requests, CandidateStep(r) \/ InvoiceStep(r) \/ Abort(r)
        PROVE  IInv'
    <2>1. /\ req' = [req EXCEPT ![r] = req'[r]]
          /\ req'[r] \in Request
          /\ Held(r)'
      BY <1>2, OneRequestMoves
    <2>2. TypeOK'
      BY <1>0, <1>g, <2>1 DEF TypeOK, Grows
    <2>3. ASSUME NEW q \in Requests PROVE Held(q)'
      <3>1. CASE q = r
        BY <2>1, <3>1
      <3>2. CASE q # r
        BY <1>0, <1>g, <2>1, <3>2, HeldStays DEF TypeOK
      <3> QED
        BY <3>1, <3>2
    <2>4. Safe'
      BY <1>2, <1>g, StepSafe
    <2> QED
      BY <2>2, <2>3, <2>4 DEF IInv
  <1> QED
    BY <1>1, <1>2 DEF Next, Step

\* IInv is invariant, for every number of requests, candidates and invoices.
THEOREM Invariance == Spec => []IInv
  BY InitInvariant, NextInvariant, PTL DEF Spec

\* Every state is well typed.
THEOREM TypeCorrect == Spec => []TypeOK
  BY Invariance, PTL DEF IInv

\* Whatever overlaps and whatever dies half-way, an invoice shows no money as paid
\* that is not on record.
THEOREM MoneyIsBacked == Spec => []PaidIsBacked
  <1>1. IInv => PaidIsBacked
    BY DEF IInv, Safe
  <1> QED
    BY <1>1, Invariance, PTL

\* ... nor more than its total and the tolerance.
THEOREM MoneyIsBounded == Spec => []PaidIsBounded
  <1>1. IInv => PaidIsBounded
    BY DEF IInv, Safe
  <1> QED
    BY <1>1, Invariance, PTL

\* A "paid" invoice is covered.
THEOREM PaidIsCovered == Spec => []PaidMeansCovered
  <1>1. IInv => PaidMeansCovered
    BY DEF IInv, Safe
  <1> QED
    BY <1>1, Invariance, PTL

\* Only an issued invoice is sent, voided or paid.
THEOREM IssuedFirst == Spec => []MoneyOnlyOnIssued
  <1>1. IInv => MoneyOnlyOnIssued
    BY DEF IInv, Safe
  <1> QED
    BY <1>1, Invariance, PTL

\* Every invoice comes from a candidate that passed the gates of the conversion.
THEOREM ReviewedFirst == Spec => []InvoiceIsReviewed
  <1>1. IInv => InvoiceIsReviewed
    BY DEF IInv, Safe
  <1> QED
    BY <1>1, Invariance, PTL

-----------------------------------------------------------------------------
(* The unique key, and the state machine *)

\* What uq_ai_candidate keeps: no two invoices of a candidate, so that the check of convert
\* and of cancel, which looks at any one row, has looked at all.
OneInvoicePerCandidate ==
    \A i, j \in InvoiceIds : invoice[i].cand = invoice[j].cand => i = j

LEMMA StepKeepsOneInvoice ==
    ASSUME UniqueCandidateKey, IInv, [Next]_vars, OneInvoicePerCandidate
    PROVE  OneInvoicePerCandidate'
  <1>0. TypeOK /\ (\A r \in Requests : Held(r)) /\ Grows
    BY StepGrows DEF IInv
  <1>1. CASE InvoiceIds' = InvoiceIds
    BY <1>0, <1>1 DEF OneInvoicePerCandidate, Grows
  <1>2. ASSUME NEW r \in Requests, ConvertInsert(r), ~KeyCollision(req[r].cand)
        PROVE  OneInvoicePerCandidate'
    <2> DEFINE row == NewInvoice(req[r].cand, req[r].total, req[r].override)
    <2>1. \A i \in InvoiceIds : invoice[i].cand # req[r].cand
      BY <1>2 DEF KeyCollision, InvoicesOf
    <2>2. row \in Invoice /\ row.cand = req[r].cand
      <3>1. req[r].cand \in Candidates /\ req[r].total \in Nat /\ req[r].override \in BOOLEAN
        BY <1>0, <1>2, RequestShape, BillingAssumption DEF TypeOK, ConvertInsert, ConvertOps
      <3> QED
        BY <3>1 DEF NewInvoice, Invoice, InvoiceStatus
    <2>3. invoice' = Append(invoice, row)
      BY <1>2 DEF ConvertInsert
    <2> HIDE DEF row
    <2>4. /\ Len(invoice') = Len(invoice) + 1
          /\ \A i \in 1..Len(invoice) : invoice'[i] = invoice[i]
          /\ invoice'[Len(invoice) + 1] = row
          /\ invoice' \in Seq(Invoice) /\ invoice \in Seq(Invoice)
      BY <1>0, <2>2, <2>3, AppendProperties DEF TypeOK
    <2>5. /\ InvoiceIds = 1..Len(invoice) /\ InvoiceIds' = 1..Len(invoice')
          /\ Len(invoice) \in Nat
      BY <2>4, LenProperties DEF InvoiceIds
    <2>6. \A i \in InvoiceIds' : \/ i \in InvoiceIds /\ invoice'[i] = invoice[i]
                                 \/ i = Len(invoice) + 1 /\ invoice'[i] = row
      BY <2>4, <2>5
    <2> QED
      BY <2>1, <2>2, <2>6 DEF OneInvoicePerCandidate
  <1>3. ASSUME NEW r \in Requests,
               \/ IssueWrite(r) \/ SendWrite(r) \/ CancelWrite(r) \/ VoidWrite(r)
               \/ PayInsert(r) \/ PayUpdate(r)
        PROVE  InvoiceIds' = InvoiceIds
    BY <1>0, <1>3, StoredRow, StoreRow
  <1>4. CASE invoice' = invoice
    BY <1>1, <1>4 DEF InvoiceIds
  <1>5. ASSUME NEW r \in Requests, CandidateStep(r) \/ InvoiceStep(r) \/ Abort(r)
        PROVE  OneInvoicePerCandidate'
    BY <1>1, <1>2, <1>3, <1>4, <1>5
    DEF CandidateStep, InvoiceStep, Abort, ReviewReadyRead, ReviewReadyWrite,
        CancelCandidateRead, CancelCandidateCheck, CancelCandidateWrite, ConvertRead,
        ConvertCheck, ConvertInsert, IssueRead, SendRead, CancelRead, VoidRead, InvoiceRead,
        VoidCheck, PayRead
  <1> QED
    BY <1>4, <1>5 DEF Next, Step, vars

LEMMA StepIsFresh ==
    ASSUME IInv, [Next]_vars, NEW r \in Requests, NEW i \in InvoiceIds,
           req'[r] # req[r], req[r].at \in StatusOps \cup PayOps,
           req[r].inv = i, req[r].seen = invoice[i].status
    PROVE  \/ invoice'[i].status = invoice[i].status
           \/ <<invoice[i].status, invoice'[i].status>> \in Edges
  <1>0. TypeOK /\ Held(r) /\ req[r] # Idle
    BY DEF IInv, Idle, StatusOps, PayOps
  <1>1. CandidateStep(r) \/ InvoiceStep(r) \/ Abort(r)
    <2>1. ASSUME NEW q \in Requests, CandidateStep(q) \/ InvoiceStep(q) \/ Abort(q)
          PROVE  q = r
      BY <2>1, OneRequestMoves DEF IInv, TypeOK
    <2> QED
      BY <2>1 DEF Next, Step, vars
  <1>2. Row(r) \in Invoice /\ Row(r) = invoice[i]
    BY <1>0, ElementOfSeq, LenProperties DEF TypeOK, Row, InvoiceIds
  <1>3. ASSUME NEW row \in Invoice, Store(r, row)
        PROVE  invoice'[i] = row
    BY <1>0, <1>3, StoreRow
  <1>4. CASE invoice' = invoice
    BY <1>4
  <1>5. CASE IssueWrite(r)
    <2> DEFINE row == [Row(r) EXCEPT !.status = "issued", !.issued = TRUE]
    <2>1. row \in Invoice
      BY <1>2, RowUpdates DEF InvoiceStatus
    <2>s. row.status = "issued"
      BY <1>2 DEF Invoice
    <2>2. invoice'[i].status = "issued"
      BY <1>3, <1>5, <2>1, <2>s DEF IssueWrite
    <2> QED
      BY <1>0, <1>5, <2>2 DEF IssueWrite, Held, HeldPassedGate, Issuable, Edges
  <1>6. CASE SendWrite(r)
    <2> DEFINE row == [Row(r) EXCEPT !.status = "sent", !.sent = TRUE]
    <2>1. row \in Invoice
      BY <1>2, RowUpdates DEF InvoiceStatus
    <2>s. row.status = "sent"
      BY <1>2 DEF Invoice
    <2>2. invoice'[i].status = "sent"
      BY <1>3, <1>6, <2>1, <2>s DEF SendWrite
    <2> QED
      BY <1>0, <1>6, <2>2 DEF SendWrite, Held, HeldPassedGate, Edges
  <1>7. CASE CancelWrite(r)
    <2> DEFINE row == [Row(r) EXCEPT !.status = "cancelled"]
    <2>1. row \in Invoice
      BY <1>2, RowUpdates DEF InvoiceStatus
    <2>s. row.status = "cancelled"
      BY <1>2 DEF Invoice
    <2>2. invoice'[i].status = "cancelled"
      BY <1>3, <1>7, <2>1, <2>s DEF CancelWrite
    <2> QED
      BY <1>0, <1>7, <2>2 DEF CancelWrite, Held, HeldPassedGate, Issuable, Edges
  <1>8. CASE VoidWrite(r)
    <2> DEFINE row == [Row(r) EXCEPT !.status = "cancelled", !.voided = TRUE]
    <2>1. row \in Invoice
      BY <1>2, RowUpdates DEF InvoiceStatus
    <2>s. row.status = "cancelled"
      BY <1>2 DEF Invoice
    <2>2. invoice'[i].status = "cancelled"
      BY <1>3, <1>8, <2>1, <2>s DEF VoidWrite
    <2> QED
      BY <1>0, <1>8, <2>2 DEF VoidWrite, Held, HeldPassedGate, Payable, Edges
  <1>9. CASE PayInsert(r)
    <2> DEFINE row == [Row(r) EXCEPT !.records = @ + 1, !.recorded = @ + req[r].amount]
    <2>0. req[r].amount \in Nat
      BY <1>0, <1>9, RequestShape, BillingAssumption DEF TypeOK, PayInsert, PayOps
    <2>1. row \in Invoice
      BY <1>2, <2>0, RowUpdates DEF InvoiceStatus
    <2>s. row.status = Row(r).status
      BY <1>2 DEF Invoice
    <2>2. invoice'[i].status = invoice[i].status
      BY <1>2, <1>3, <1>9, <2>1, <2>s DEF PayInsert
    <2> QED
      BY <2>2
  <1>10. CASE PayUpdate(r)
    <2> DEFINE new == NewAmountPaid(req[r])
               s == IF Row(r).total - new <= Tolerance THEN "paid" ELSE req[r].seen
               row == [Row(r) EXCEPT !.paid = new, !.status = s]
    <2>0. new \in Nat /\ s \in InvoiceStatus
      BY <1>0, <1>10, RequestShape, BillingAssumption
      DEF TypeOK, PayUpdate, PayOps, NewAmountPaid, InvoiceStatus
    <2>1. Store(r, row)
      BY <1>10 DEF PayUpdate
    <2>2. s \in {"paid", req[r].seen} /\ req[r].seen \in Payable
      BY <1>0, <1>10 DEF PayUpdate, PayOps, Held, HeldPaymentFits
    <2> HIDE DEF new, s
    <2>3. row \in Invoice /\ row.status = s
      <3>1. row \in Invoice
        BY <1>2, <2>0, RowUpdates
      <3>2. row.status = s
        BY <1>2 DEF Invoice
      <3> QED
        BY <3>1, <3>2
    <2> HIDE DEF row
    <2>4. invoice'[i].status = s
      BY <1>3, <2>1, <2>3
    <2> QED
      BY <2>2, <2>4 DEF Payable, Edges
  <1> QED
    BY <1>0, <1>1, <1>4, <1>5, <1>6, <1>7, <1>8, <1>9, <1>10
    DEF CandidateStep, InvoiceStep, Abort, ReviewReadyRead, ReviewReadyWrite,
        CancelCandidateRead, CancelCandidateCheck, CancelCandidateWrite, ConvertRead,
        ConvertCheck, ConvertInsert, IssueRead, SendRead, CancelRead, VoidRead, InvoiceRead,
        VoidCheck, PayRead, CandidateOps, ConvertOps, StatusOps, PayOps

\* Each write is an edge of the state machine from the status its request has read.
THEOREM GatesAgree == Spec => FreshWritesFollowTheMachine
  <1>1. IInv /\ [Next]_vars =>
          [\A r \in Requests : \A i \in InvoiceIds :
              /\ req'[r] # req[r]
              /\ req[r].at \in StatusOps \cup PayOps
              /\ req[r].inv = i
              /\ req[r].seen = invoice[i].status
              => \/ invoice'[i].status = invoice[i].status
                 \/ <<invoice[i].status, invoice'[i].status>> \in Edges]_vars
    BY StepIsFresh
  <1> QED
    BY <1>1, Invariance, PTL DEF Spec, FreshWritesFollowTheMachine

-----------------------------------------------------------------------------
(* When requests do not overlap *)

\* What a request that holds h has read is what the tables still say.
Fresh(h) ==
    /\ h.at \in StatusOps \cup PayOps => h.seen = invoice[h.inv].status
    /\ h.at \in PayOps => h.paid = invoice[h.inv].paid
    /\ h.at = "void.write" => invoice[h.inv].records = 0
    /\ h.at = "reviewReady.write" => candidate[h.cand] = "draft"
    /\ h.at \in {"cancelCandidate.check", "cancelCandidate.write"} =>
          candidate[h.cand] \in {"draft", "review_ready"}
    /\ h.at \in ConvertOps => candidate[h.cand] = "review_ready"
    /\ UniqueCandidateKey /\ h.at \in {"cancelCandidate.write", "convert.insert"} =>
          \A i \in InvoicesOf(h.cand) : ~Live(i)

\* A voided invoice stays cancelled and has no payment; no money is shown without a record;
\* no procedure makes an invoice "review_ready".
RowSerial(w) ==
    /\ w.voided => w.status = "cancelled" /\ w.records = 0
    /\ w.records = 0 => w.paid = 0
    /\ w.status # "review_ready"

SerialInv ==
    /\ IInv
    /\ Alone
    /\ \A r \in Requests : Fresh(req[r])
    /\ \A i \in InvoiceIds : RowSerial(invoice[i])
    /\ UniqueCandidateKey => OneInvoicePerCandidate

-----------------------------------------------------------------------------
(* What a write does to a row that is still what its request has read *)

\* A step of the bill that an invoice row stands for: issue, send, withdrawal while no
\* money is on it, payment, or none of these.
BillStep(v, w) ==
    \/ w.status = v.status /\ w.paid = v.paid
    \/ v.status = "draft" /\ w.status = "issued" /\ w.paid = v.paid
    \/ v.status = "issued" /\ w.status = "sent" /\ w.paid = v.paid
    \/ /\ v.status = "draft" \/ (v.status \in Payable /\ v.paid = 0)
       /\ w.status = "cancelled" /\ w.paid = v.paid
    \/ \E a \in Amounts :
          /\ v.status \in Payable
          /\ v.paid + a <= v.total + Tolerance
          /\ w.paid = v.paid + a
          /\ w.status = IF v.paid + a >= v.total - Tolerance THEN "paid" ELSE v.status

RowMoves(v, w) ==
    /\ w.cand = v.cand
    /\ w.total = v.total
    /\ RowSerial(v) => RowSerial(w) /\ BillStep(v, w)

LEMMA StoredSerial ==
    ASSUME IInv, NEW r \in Requests, Fresh(req[r]),
           \/ IssueWrite(r) \/ SendWrite(r) \/ CancelWrite(r) \/ VoidWrite(r)
           \/ PayInsert(r) \/ PayUpdate(r)
    PROVE  \E row \in Invoice : Store(r, row) /\ RowMoves(Row(r), row)
  <1>0. TypeOK /\ Held(r) /\ req[r] \in Request
    BY DEF IInv, TypeOK
  <1>1. PICK v \in Invoice : v = Row(r)
    BY <1>0, StoredRow
  <1>2. /\ v.status \in InvoiceStatus /\ v.records \in Nat /\ v.recorded \in Nat
        /\ v.paid \in Nat /\ v.total \in Nat /\ v.voided \in BOOLEAN
    BY DEF Invoice
  <1>3. ASSUME NEW s \in InvoiceStatus, NEW row,
               \/ row = [v EXCEPT !.status = s]
               \/ row = [v EXCEPT !.status = s, !.issued = TRUE]
               \/ row = [v EXCEPT !.status = s, !.sent = TRUE]
        PROVE  /\ row \in Invoice
               /\ row.cand = v.cand /\ row.total = v.total /\ row.status = s
               /\ row.paid = v.paid /\ row.records = v.records /\ row.voided = v.voided
    <2>1. row \in Invoice
      BY <1>3, RowUpdates
    <2>2. /\ row.cand = v.cand /\ row.total = v.total /\ row.status = s
          /\ row.paid = v.paid /\ row.records = v.records /\ row.voided = v.voided
      BY <1>3 DEF Invoice
    <2> QED
      BY <2>1, <2>2
  <1>4. CASE IssueWrite(r)
    <2>1. PICK row : row = [v EXCEPT !.status = "issued", !.issued = TRUE]
      OBVIOUS
    <2>2. Store(r, row) /\ v.status \in Issuable
      BY <1>0, <1>1, <1>4, <2>1 DEF IssueWrite, Fresh, Held, HeldPassedGate, StatusOps, Row
    <2>3. /\ row \in Invoice
          /\ row.cand = v.cand /\ row.total = v.total /\ row.status = "issued"
          /\ row.paid = v.paid /\ row.records = v.records /\ row.voided = v.voided
      BY <1>3, <2>1 DEF InvoiceStatus
    <2>4. RowMoves(v, row)
      BY <2>2, <2>3 DEF RowMoves, RowSerial, BillStep, Issuable
    <2> QED
      BY <1>1, <2>2, <2>3, <2>4
  <1>5. CASE SendWrite(r)
    <2>1. PICK row : row = [v EXCEPT !.status = "sent", !.sent = TRUE]
      OBVIOUS
    <2>2. Store(r, row) /\ v.status = "issued"
      BY <1>0, <1>1, <1>5, <2>1 DEF SendWrite, Fresh, Held, HeldPassedGate, StatusOps, Row
    <2>3. /\ row \in Invoice
          /\ row.cand = v.cand /\ row.total = v.total /\ row.status = "sent"
          /\ row.paid = v.paid /\ row.records = v.records /\ row.voided = v.voided
      BY <1>3, <2>1 DEF InvoiceStatus
    <2>4. RowMoves(v, row)
      BY <2>2, <2>3 DEF RowMoves, RowSerial, BillStep
    <2> QED
      BY <1>1, <2>2, <2>3, <2>4
  <1>6. CASE CancelWrite(r)
    <2>1. PICK row : row = [v EXCEPT !.status = "cancelled"]
      OBVIOUS
    <2>2. Store(r, row) /\ v.status \in Issuable
      BY <1>0, <1>1, <1>6, <2>1 DEF CancelWrite, Fresh, Held, HeldPassedGate, StatusOps, Row
    <2>3. /\ row \in Invoice
          /\ row.cand = v.cand /\ row.total = v.total /\ row.status = "cancelled"
          /\ row.paid = v.paid /\ row.records = v.records /\ row.voided = v.voided
      BY <1>3, <2>1 DEF InvoiceStatus
    <2>4. RowMoves(v, row)
      BY <2>2, <2>3 DEF RowMoves, RowSerial, BillStep, Issuable
    <2> QED
      BY <1>1, <2>2, <2>3, <2>4
  <1>7. CASE VoidWrite(r)
    <2>1. PICK row : row = [v EXCEPT !.status = "cancelled", !.voided = TRUE]
      OBVIOUS
    <2>2. Store(r, row) /\ v.status \in Payable /\ v.records = 0
      BY <1>0, <1>1, <1>7, <2>1 DEF VoidWrite, Fresh, Held, HeldPassedGate, StatusOps, Row
    <2>i. row \in Invoice
      BY <2>1, RowUpdates DEF InvoiceStatus
    <2>3. /\ row.cand = v.cand /\ row.total = v.total /\ row.status = "cancelled"
          /\ row.paid = v.paid /\ row.records = v.records
      BY <2>1 DEF Invoice
    <2>4. RowMoves(v, row)
      BY <2>2, <2>3 DEF RowMoves, RowSerial, BillStep
    <2> QED
      BY <1>1, <2>i, <2>2, <2>3, <2>4
  <1>8. CASE PayInsert(r)
    <2>0. PICK a \in Nat : a = req[r].amount
      BY <1>0, <1>8, RequestShape, BillingAssumption DEF PayInsert, PayOps
    <2>1. PICK row : row = [v EXCEPT !.records = @ + 1, !.recorded = @ + a]
      OBVIOUS
    <2>2. Store(r, row) /\ v.status \in Payable
      BY <1>0, <1>1, <1>8, <2>0, <2>1 DEF PayInsert, Fresh, Held, HeldPaymentFits, PayOps, Row
    <2>3. row \in Invoice
      BY <2>1, RowUpdates DEF InvoiceStatus
    <2>4. /\ row.cand = v.cand /\ row.total = v.total /\ row.status = v.status
          /\ row.paid = v.paid /\ row.records = v.records + 1 /\ row.voided = v.voided
      BY <2>1 DEF Invoice
    <2>5. RowMoves(v, row)
      BY <1>2, <2>2, <2>4 DEF RowMoves, RowSerial, BillStep, Payable
    <2> QED
      BY <1>1, <2>2, <2>3, <2>5
  <1>9. CASE PayUpdate(r)
    <2>0. PICK a \in Amounts : a = req[r].amount
      BY <1>0, <1>9, RequestShape DEF PayUpdate, PayOps
    <2>a. a \in Nat
      BY BillingAssumption
    <2>1. PICK new : new = v.paid + a
      OBVIOUS
    <2>2. /\ v.status \in Payable /\ req[r].seen = v.status
          /\ new = NewAmountPaid(req[r])
          /\ new <= v.total + Tolerance
          /\ v.records > 0
      BY <1>0, <1>1, <1>9, <2>0, <2>1
      DEF PayUpdate, Fresh, Held, HeldPaymentFits, HeldPaymentIsBacked, PayOps, NewAmountPaid, Row
    <2>3. PICK s : s = IF v.total - new <= Tolerance THEN "paid" ELSE v.status
      OBVIOUS
    <2>4. PICK row : row = [v EXCEPT !.paid = new, !.status = s]
      OBVIOUS
    <2>5. Store(r, row)
      BY <1>1, <1>9, <2>2, <2>3, <2>4 DEF PayUpdate
    <2>6. new \in Nat /\ s \in InvoiceStatus
      BY <1>2, <2>a, <2>1, <2>3 DEF InvoiceStatus
    <2>7. row \in Invoice
      BY <2>4, <2>6, RowUpdates
    <2>8. /\ row.cand = v.cand /\ row.total = v.total /\ row.status = s
          /\ row.paid = new /\ row.records = v.records /\ row.voided = v.voided
      BY <2>4 DEF Invoice
    <2>9. s = IF v.paid + a >= v.total - Tolerance THEN "paid" ELSE v.status
      BY <1>2, <2>a, <2>1, <2>3 DEF Tolerance
    <2>10. BillStep(v, row)
      BY <2>1, <2>2, <2>8, <2>9 DEF BillStep
    <2>11. RowSerial(v) => RowSerial(row)
      BY <1>2, <2>2, <2>3, <2>8 DEF RowSerial, Payable
    <2> QED
      BY <1>1, <2>5, <2>7, <2>8, <2>10, <2>11 DEF RowMoves
  <1> QED
    BY <1>4, <1>5, <1>6, <1>7, <1>8, <1>9

\* The tables after such a write, row by row.
LEMMA SerialStore ==
    ASSUME IInv, NEW r \in Requests, Fresh(req[r]),
           \/ IssueWrite(r) \/ SendWrite(r) \/ CancelWrite(r) \/ VoidWrite(r)
           \/ PayInsert(r) \/ PayUpdate(r)
    PROVE  /\ InvoiceIds' = InvoiceIds
           /\ req[r].inv \in InvoiceIds
           /\ \A i \in InvoiceIds : i # req[r].inv => invoice'[i] = invoice[i]
           /\ RowMoves(invoice[req[r].inv], invoice'[req[r].inv])
           /\ candidate' = candidate
  <1>1. TypeOK /\ req[r].inv \in InvoiceIds
    BY StoredRow DEF IInv
  <1>2. PICK row \in Invoice : Store(r, row) /\ RowMoves(Row(r), row)
    BY StoredSerial
  <1>3. /\ InvoiceIds' = InvoiceIds
        /\ \A i \in InvoiceIds : invoice'[i] = IF i = req[r].inv THEN row ELSE invoice[i]
        /\ candidate' = candidate
    BY <1>1, <1>2, StoreRow
  <1> QED
    BY <1>1, <1>2, <1>3 DEF Row

-----------------------------------------------------------------------------
(* What the request that moves holds afterwards *)

\* Request r goes on to hold h, which is what the new tables say.
FreshNext(r) == \E h : req' = [req EXCEPT ![r] = h] /\ Fresh(h)'

LEMMA ReturnFresh ==
    ASSUME NEW r \in Requests, Return(r)
    PROVE  FreshNext(r)
  <1>1. PICK h : h = Idle
    OBVIOUS
  <1>2. h.at = "idle"
    BY <1>1 DEF Idle
  <1>3. Fresh(h)'
    BY <1>2 DEF Fresh, StatusOps, PayOps, ConvertOps
  <1> QED
    BY <1>1, <1>3 DEF Return, Goto, FreshNext

\* The selects that open a procedure.
Opens(r) ==
    \/ \E c \in Candidates : ReviewReadyRead(r, c) \/ CancelCandidateRead(r, c)
    \/ \E c \in Candidates, t \in Totals, o \in BOOLEAN : ConvertRead(r, c, t, o)
    \/ \E i \in InvoiceIds : IssueRead(r, i) \/ SendRead(r, i) \/ CancelRead(r, i) \/ VoidRead(r, i)
    \/ \E i \in InvoiceIds, a \in Amounts : PayRead(r, i, a)

LEMMA OpenFresh ==
    ASSUME NEW r \in Requests, Opens(r)
    PROVE  FreshNext(r) /\ UNCHANGED <<candidate, invoice>> /\ req[r] = Idle
  <1>1. UNCHANGED <<candidate, invoice>> /\ req[r] = Idle
    BY DEF Opens, ReviewReadyRead, CancelCandidateRead, ConvertRead, IssueRead, SendRead,
           CancelRead, VoidRead, InvoiceRead, PayRead
  <1>2. ASSUME NEW c \in Candidates, ReviewReadyRead(r, c) PROVE FreshNext(r)
    <2>1. PICK h : h = [at |-> "reviewReady.write", cand |-> c]
      OBVIOUS
    <2>2. h.at = "reviewReady.write" /\ h.cand = c
      BY <2>1
    <2>3. Fresh(h)'
      BY <1>2, <2>2 DEF ReviewReadyRead, Fresh, StatusOps, PayOps, ConvertOps
    <2> QED
      BY <1>2, <2>1, <2>3 DEF ReviewReadyRead, Goto, FreshNext
  <1>3. ASSUME NEW c \in Candidates, CancelCandidateRead(r, c) PROVE FreshNext(r)
    <2>1. PICK h : h = [at |-> "cancelCandidate.check", cand |-> c]
      OBVIOUS
    <2>2. h.at = "cancelCandidate.check" /\ h.cand = c
      BY <2>1
    <2>3. Fresh(h)'
      BY <1>3, <2>2 DEF CancelCandidateRead, Fresh, StatusOps, PayOps, ConvertOps
    <2> QED
      BY <1>3, <2>1, <2>3 DEF CancelCandidateRead, Goto, FreshNext
  <1>4. ASSUME NEW c \in Candidates, NEW t \in Totals, NEW o \in BOOLEAN, ConvertRead(r, c, t, o)
        PROVE  FreshNext(r)
    <2>1. PICK h : h = [at |-> "convert.check", cand |-> c, total |-> t, override |-> o]
      OBVIOUS
    <2>2. h.at = "convert.check" /\ h.cand = c
      BY <2>1
    <2>3. Fresh(h)'
      BY <1>4, <2>2 DEF ConvertRead, Fresh, StatusOps, PayOps, ConvertOps
    <2> QED
      BY <1>4, <2>1, <2>3 DEF ConvertRead, Goto, FreshNext
  <1>5. ASSUME NEW i \in InvoiceIds, NEW allowed,
               NEW next \in {"issue.write", "send.write", "cancel.write", "void.check"},
               InvoiceRead(r, i, allowed, next)
        PROVE  FreshNext(r)
    <2>1. PICK h : h = [at |-> next, inv |-> i, seen |-> invoice[i].status]
      OBVIOUS
    <2>2. h.at = next /\ h.inv = i /\ h.seen = invoice[i].status
      BY <2>1
    <2>3. Fresh(h)'
      BY <1>1, <2>2 DEF Fresh, StatusOps, PayOps, ConvertOps
    <2> QED
      BY <1>5, <2>1, <2>3 DEF InvoiceRead, Goto, FreshNext
  <1>6. ASSUME NEW i \in InvoiceIds, NEW a \in Amounts, PayRead(r, i, a) PROVE FreshNext(r)
    <2>1. PICK h : h = [at |-> "pay.insert", inv |-> i, seen |-> invoice[i].status,
                        paid |-> invoice[i].paid, amount |-> a]
      OBVIOUS
    <2>2. /\ h.at = "pay.insert" /\ h.inv = i
          /\ h.seen = invoice[i].status /\ h.paid = invoice[i].paid
      BY <2>1
    <2>3. Fresh(h)'
      BY <1>1, <2>2 DEF Fresh, StatusOps, PayOps, ConvertOps
    <2> QED
      BY <1>6, <2>1, <2>3 DEF PayRead, Goto, FreshNext
  <1> QED
    BY <1>1, <1>2, <1>3, <1>4, <1>5, <1>6 DEF Opens, IssueRead, SendRead, CancelRead, VoidRead

\* With one invoice per candidate, a check that finds no live one has seen them all.
LEMMA NoLiveInvoice ==
    ASSUME OneInvoicePerCandidate, NEW c, NoLiveInvoiceFound(c)
    PROVE  \A i \in InvoicesOf(c) : ~Live(i)
  BY DEF OneInvoicePerCandidate, NoLiveInvoiceFound, InvoicesOf

LEMMA CheckFresh ==
    ASSUME IInv, UniqueCandidateKey => OneInvoicePerCandidate, NEW r \in Requests, Fresh(req[r]),
           CancelCandidateCheck(r) \/ ConvertCheck(r) \/ VoidCheck(r)
    PROVE  FreshNext(r) /\ UNCHANGED <<candidate, invoice>>
  <1>0. UNCHANGED <<candidate, invoice>> /\ req \in [Requests -> Request]
    BY DEF CancelCandidateCheck, ConvertCheck, VoidCheck, IInv, TypeOK
  <1>1. CASE Return(r)
    BY <1>0, <1>1, ReturnFresh
  <1>2. CASE CancelCandidateCheck(r) /\ ~Return(r)
    <2>1. PICK old \in [at: CandidateOps, cand: Candidates] : old = req[r]
      BY <1>0, <1>2
      DEF CancelCandidateCheck, Request, Idle, StatusOps, PayOps, CandidateOps, ConvertOps
    <2>2. PICK h : h = [old EXCEPT !.at = "cancelCandidate.write"]
      OBVIOUS
    <2>3. h.at = "cancelCandidate.write" /\ h.cand = old.cand
      BY <2>1, <2>2
    <2>4. /\ req' = [req EXCEPT ![r] = h]
          /\ NoLiveInvoiceFound(old.cand)
          /\ candidate[old.cand] \in {"draft", "review_ready"}
      BY <1>2, <2>1, <2>2 DEF CancelCandidateCheck, Advance, Fresh
    <2>5. Fresh(h)'
      BY <1>0, <2>3, <2>4, NoLiveInvoice
      DEF Fresh, StatusOps, PayOps, ConvertOps, InvoicesOf, InvoiceIds, Live
    <2> QED
      BY <1>0, <2>4, <2>5 DEF FreshNext
  <1>3. CASE ConvertCheck(r) /\ ~Return(r)
    <2>1. PICK old \in [at: ConvertOps, cand: Candidates, total: Totals, override: BOOLEAN] :
             old = req[r]
      BY <1>0, <1>3
      DEF ConvertCheck, Request, Idle, StatusOps, PayOps, CandidateOps, ConvertOps
    <2>2. PICK h : h = [old EXCEPT !.at = "convert.insert"]
      OBVIOUS
    <2>3. h.at = "convert.insert" /\ h.cand = old.cand
      BY <2>1, <2>2
    <2>4. /\ req' = [req EXCEPT ![r] = h]
          /\ NoLiveInvoiceFound(old.cand)
          /\ candidate[old.cand] = "review_ready"
      BY <1>3, <2>1, <2>2 DEF ConvertCheck, Advance, Fresh, ConvertOps
    <2>5. Fresh(h)'
      BY <1>0, <2>3, <2>4, NoLiveInvoice
      DEF Fresh, StatusOps, PayOps, ConvertOps, InvoicesOf, InvoiceIds, Live
    <2> QED
      BY <1>0, <2>4, <2>5 DEF FreshNext
  <1>4. CASE VoidCheck(r) /\ ~Return(r)
    <2>1. PICK old \in [at: StatusOps, inv: Nat \ {0}, seen: InvoiceStatus] : old = req[r]
      BY <1>0, <1>4 DEF VoidCheck, Request, Idle, StatusOps, PayOps, CandidateOps, ConvertOps
    <2>2. PICK h : h = [old EXCEPT !.at = "void.write"]
      OBVIOUS
    <2>3. h.at = "void.write" /\ h.inv = old.inv /\ h.seen = old.seen
      BY <2>1, <2>2
    <2>4. /\ req' = [req EXCEPT ![r] = h]
          /\ invoice[old.inv].records = 0
          /\ old.seen = invoice[old.inv].status
      BY <1>4, <2>1, <2>2 DEF VoidCheck, Advance, Fresh, StatusOps, Row
    <2>5. Fresh(h)'
      BY <1>0, <2>3, <2>4 DEF Fresh, StatusOps, PayOps, ConvertOps
    <2> QED
      BY <1>0, <2>4, <2>5 DEF FreshNext
  <1> QED
    BY <1>1, <1>2, <1>3, <1>4

\* The record of a payment leaves the amount and the status that the update will rest on.
LEMMA PayInsertFresh ==
    ASSUME IInv, NEW r \in Requests, Fresh(req[r]), PayInsert(r)
    PROVE  FreshNext(r)
  <1>0. TypeOK /\ req \in [Requests -> Request] /\ req[r].inv \in InvoiceIds /\ Row(r) \in Invoice
    BY StoredRow DEF IInv, TypeOK
  <1>1. PICK old \in [at: PayOps, inv: Nat \ {0}, seen: InvoiceStatus, paid: Nat, amount: Amounts] :
           old = req[r]
    BY <1>0 DEF PayInsert, Request, Idle, StatusOps, PayOps, CandidateOps, ConvertOps
  <1>2. PICK h : h = [old EXCEPT !.at = "pay.update"]
    OBVIOUS
  <1>3. h.at = "pay.update" /\ h.inv = old.inv /\ h.seen = old.seen /\ h.paid = old.paid
    BY <1>1, <1>2
  <1>4. req' = [req EXCEPT ![r] = h]
    BY <1>1, <1>2 DEF PayInsert, Advance
  <1>5. PICK v \in Invoice : v = Row(r)
    BY <1>0
  <1>6. PICK row : row = [v EXCEPT !.records = @ + 1, !.recorded = @ + old.amount]
    OBVIOUS
  <1>7. old.amount \in Nat
    BY <1>1, BillingAssumption
  <1>8. row \in Invoice
    BY <1>6, <1>7, RowUpdates DEF InvoiceStatus
  <1>9. Store(r, row) /\ row.status = v.status /\ row.paid = v.paid
    BY <1>1, <1>5, <1>6 DEF PayInsert, Invoice
  <1>10. invoice'[old.inv] = row
    BY <1>0, <1>1, <1>8, <1>9, StoreRow
  <1>11. old.seen = v.status /\ old.paid = v.paid
    BY <1>1, <1>5 DEF Fresh, PayInsert, PayOps, Row
  <1>12. Fresh(h)'
    BY <1>3, <1>9, <1>10, <1>11 DEF Fresh, StatusOps, PayOps, ConvertOps
  <1> QED
    BY <1>4, <1>12 DEF FreshNext

-----------------------------------------------------------------------------
(* Every step that overlaps no other request keeps the serial invariant *)

\* A request opens a procedure, goes on from a check, writes, or stops.
LEMMA RequestSteps ==
    ASSUME NEW r \in Requests, CandidateStep(r) \/ InvoiceStep(r) \/ Abort(r)
    PROVE  \/ Opens(r)
           \/ CancelCandidateCheck(r) \/ ConvertCheck(r) \/ VoidCheck(r)
           \/ IssueWrite(r) \/ SendWrite(r) \/ CancelWrite(r) \/ VoidWrite(r)
           \/ PayInsert(r) \/ PayUpdate(r)
           \/ ReviewReadyWrite(r) \/ CancelCandidateWrite(r) \/ ConvertInsert(r)
           \/ Abort(r)
  BY DEF CandidateStep, InvoiceStep, Opens

LEMMA SerialMove ==
    ASSUME SerialInv, NEW r \in Requests, CandidateStep(r) \/ InvoiceStep(r) \/ Abort(r)
    PROVE  /\ FreshNext(r)
           /\ \/ UNCHANGED <<candidate, invoice>>
              \/ \A q \in Requests : q # r => req[q] = Idle
  <1>0. /\ IInv /\ Fresh(req[r]) /\ Alone
        /\ UniqueCandidateKey => OneInvoicePerCandidate
    BY DEF SerialInv
  <1>1. CASE Opens(r)
    BY <1>1, OpenFresh
  <1>2. CASE CancelCandidateCheck(r) \/ ConvertCheck(r) \/ VoidCheck(r)
    BY <1>0, <1>2, CheckFresh
  <1>3. CASE ~Opens(r)
    <2>1. Idle.at = "idle"
      BY DEF Idle
    <2>2. req[r] # Idle
      BY <1>3, <2>1, RequestSteps
      DEF CancelCandidateCheck, ConvertCheck, VoidCheck, IssueWrite, SendWrite, CancelWrite,
          VoidWrite, PayInsert, PayUpdate, ReviewReadyWrite, CancelCandidateWrite, ConvertInsert,
          Abort
    <2>3. \A q \in Requests : q # r => req[q] = Idle
      BY <1>0, <2>2 DEF Alone
    <2>4. CASE PayInsert(r)
      BY <1>0, <2>3, <2>4, PayInsertFresh
    <2>5. CASE Return(r)
      BY <2>3, <2>5, ReturnFresh
    <2> QED
      BY <1>2, <1>3, <2>4, <2>5, RequestSteps
      DEF IssueWrite, SendWrite, CancelWrite, VoidWrite, PayUpdate, ReviewReadyWrite,
          CancelCandidateWrite, ConvertInsert, Abort
  <1> QED
    BY <1>1, <1>3

LEMMA SerialFresh ==
    ASSUME SerialInv, NEW r \in Requests, CandidateStep(r) \/ InvoiceStep(r) \/ Abort(r),
           NEW q \in Requests
    PROVE  Fresh(req[q])'
  <1>1. PICK h : req' = [req EXCEPT ![r] = h] /\ Fresh(h)'
    BY SerialMove DEF FreshNext
  <1>2. req \in [Requests -> Request] /\ Fresh(req[q])
    BY DEF SerialInv, IInv, TypeOK
  <1>3. CASE q = r
    BY <1>1, <1>2, <1>3 DEF Fresh, InvoicesOf, InvoiceIds, Live
  <1>4. CASE q # r
    <2>1. req'[q] = req[q]
      BY <1>1, <1>2, <1>4
    <2>2. CASE UNCHANGED <<candidate, invoice>>
      BY <1>2, <2>1, <2>2 DEF Fresh, InvoicesOf, InvoiceIds, Live
    <2>3. CASE req[q] = Idle
      <3>1. req'[q].at = "idle"
        BY <2>1, <2>3 DEF Idle
      <3> QED
        BY <3>1 DEF Fresh, StatusOps, PayOps, ConvertOps
    <2> QED
      BY <1>4, <2>2, <2>3, SerialMove
  <1> QED
    BY <1>3, <1>4

\* The row that a conversion inserts.
LEMMA InsertedInvoice ==
    ASSUME IInv, NEW r \in Requests, ConvertInsert(r), invoice' # invoice
    PROVE  /\ ~KeyCollision(req[r].cand)
           /\ req[r].cand \in Candidates /\ req[r].total \in Totals
           /\ candidate' = candidate
           /\ InvoiceIds' = InvoiceIds \cup {Len(invoice) + 1}
           /\ Len(invoice) + 1 \notin InvoiceIds
           /\ \A i \in InvoiceIds : invoice'[i] = invoice[i]
           /\ invoice'[Len(invoice) + 1] = NewInvoice(req[r].cand, req[r].total, req[r].override)
  <1> DEFINE row == NewInvoice(req[r].cand, req[r].total, req[r].override)
             n == Len(invoice) + 1
  <1>1. /\ invoice \in Seq(Invoice)
        /\ req[r].cand \in Candidates /\ req[r].total \in Totals /\ req[r].override \in BOOLEAN
    BY RequestShape DEF IInv, TypeOK, ConvertInsert, ConvertOps
  <1>2. row \in Invoice
    BY <1>1, BillingAssumption DEF NewInvoice, Invoice, InvoiceStatus
  <1>3. invoice' = Append(invoice, row) /\ candidate' = candidate /\ ~KeyCollision(req[r].cand)
    BY DEF ConvertInsert
  <1> HIDE DEF row
  <1>4. /\ Len(invoice') = n
        /\ \A i \in 1..Len(invoice) : invoice'[i] = invoice[i]
        /\ invoice'[n] = row
        /\ invoice' \in Seq(Invoice)
    BY <1>1, <1>2, <1>3, AppendProperties
  <1>5. InvoiceIds = 1..Len(invoice) /\ InvoiceIds' = 1..Len(invoice') /\ Len(invoice) \in Nat
    BY <1>1, <1>4, LenProperties DEF InvoiceIds
  <1> QED
    BY <1>1, <1>3, <1>4, <1>5 DEF row

LEMMA SerialRows ==
    ASSUME SerialInv, NEW r \in Requests, CandidateStep(r) \/ InvoiceStep(r) \/ Abort(r)
    PROVE  \A i \in InvoiceIds' : RowSerial(invoice'[i])
  <1>0. IInv /\ Fresh(req[r]) /\ \A i \in InvoiceIds : RowSerial(invoice[i])
    BY DEF SerialInv
  <1>1. CASE \/ IssueWrite(r) \/ SendWrite(r) \/ CancelWrite(r) \/ VoidWrite(r)
             \/ PayInsert(r) \/ PayUpdate(r)
    BY <1>0, <1>1, SerialStore DEF RowMoves
  <1>2. CASE ConvertInsert(r) /\ invoice' # invoice
    <2>1. RowSerial(NewInvoice(req[r].cand, req[r].total, req[r].override))
      BY DEF RowSerial, NewInvoice
    <2> QED
      BY <1>0, <1>2, <2>1, InsertedInvoice
  <1>3. CASE invoice' = invoice
    BY <1>0, <1>3 DEF InvoiceIds
  <1> QED
    BY <1>1, <1>2, <1>3, RequestSteps, OpenFresh
    DEF CancelCandidateCheck, ConvertCheck, VoidCheck, ReviewReadyWrite, CancelCandidateWrite, Abort

LEMMA SerialStepOK == SerialInv /\ [Next /\ Alone']_vars => SerialInv'
  <1> SUFFICES ASSUME SerialInv, [Next /\ Alone']_vars PROVE SerialInv'
    OBVIOUS
  <1>1. IInv' /\ (UniqueCandidateKey => OneInvoicePerCandidate')
    BY NextInvariant, StepKeepsOneInvoice DEF SerialInv
  <1>2. CASE UNCHANGED vars
    <2>1. Alone' /\ \A r \in Requests : Fresh(req[r])'
      BY <1>2 DEF SerialInv, Alone, vars, Fresh, InvoicesOf, InvoiceIds, Live
    <2>2. \A i \in InvoiceIds' : RowSerial(invoice'[i])
      BY <1>2 DEF SerialInv, vars, InvoiceIds
    <2> QED
      BY <1>1, <2>1, <2>2 DEF SerialInv, RowSerial
  <1>3. ASSUME NEW r \in Requests, CandidateStep(r) \/ InvoiceStep(r) \/ Abort(r), Alone'
        PROVE  SerialInv'
    <2>1. \A q \in Requests : Fresh(req[q])'
      BY <1>3, SerialFresh
    <2>2. \A i \in InvoiceIds' : RowSerial(invoice'[i])
      BY <1>3, SerialRows
    <2> QED
      BY <1>1, <1>3, <2>1, <2>2 DEF SerialInv, RowSerial
  <1> QED
    BY <1>2, <1>3 DEF Next, Step

LEMMA SerialInitOK == Init => SerialInv
  <1> SUFFICES ASSUME Init PROVE SerialInv
    OBVIOUS
  <1>1. IInv /\ invoice = << >> /\ InvoiceIds = {}
    BY InitInvariant DEF Init, InvoiceIds
  <1>2. \A r \in Requests : req[r] = Idle
    BY DEF Init
  <1>3. Idle.at = "idle"
    BY DEF Idle
  <1>4. \A r \in Requests : Fresh(req[r])
    BY <1>2, <1>3 DEF Fresh, StatusOps, PayOps, ConvertOps
  <1> QED
    BY <1>1, <1>2, <1>4 DEF SerialInv, Alone, OneInvoicePerCandidate

LEMMA SerialInvariance == SerialSpec => []SerialInv
  BY SerialInitOK, SerialStepOK, PTL DEF SerialSpec

\* When requests do not overlap, the check for payment records decides: no invoice is both
\* voided and paid, although a payment can die between its record and the update of the row.
THEOREM VoidedIsUnpaid == SerialSpec => []NoPaymentOnVoided
  <1>1. SerialInv => NoPaymentOnVoided
    BY DEF SerialInv, RowSerial, NoPaymentOnVoided
  <1> QED
    BY <1>1, SerialInvariance, PTL

-----------------------------------------------------------------------------
(* One request at a time implements InvoiceLedger *)

BillRow(w) == [status |-> w.status, total |-> w.total, paid |-> w.paid]

\* The bill of a candidate is its only invoice, or there is none.
LEMMA BillIs ==
    ASSUME OneInvoicePerCandidate, NEW c
    PROVE  /\ \A i \in InvoiceIds : invoice[i].cand = c => BillOf(c) = BillRow(invoice[i])
           /\ (\A i \in InvoiceIds : invoice[i].cand # c)
                 => BillOf(c) = [status |-> "none", total |-> 0, paid |-> 0]
  <1>1. ASSUME NEW i \in InvoiceIds, invoice[i].cand = c
        PROVE  BillOf(c) = BillRow(invoice[i])
    <2>1. InvoicesOf(c) = {i}
      BY <1>1 DEF InvoicesOf, OneInvoicePerCandidate
    <2> QED
      BY <2>1 DEF BillOf, BillRow
  <1>2. (\A i \in InvoiceIds : invoice[i].cand # c) => InvoicesOf(c) = {}
    BY DEF InvoicesOf
  <1> QED
    BY <1>1, <1>2 DEF BillOf

\* BillIs in the next state.
LEMMA BillIsNext ==
    ASSUME OneInvoicePerCandidate', NEW c
    PROVE  /\ \A i \in InvoiceIds' : invoice'[i].cand = c => BillOf(c)' = BillRow(invoice'[i])
           /\ (\A i \in InvoiceIds' : invoice'[i].cand # c)
                 => BillOf(c)' = [status |-> "none", total |-> 0, paid |-> 0]
  <1>1. ASSUME NEW i \in InvoiceIds', invoice'[i].cand = c
        PROVE  BillOf(c)' = BillRow(invoice'[i])
    <2>1. InvoicesOf(c)' = {i}
      BY <1>1 DEF InvoicesOf, OneInvoicePerCandidate
    <2> QED
      BY <2>1 DEF BillOf, BillRow
  <1>2. (\A i \in InvoiceIds' : invoice'[i].cand # c) => InvoicesOf(c)' = {}
    BY DEF InvoicesOf
  <1> QED
    BY <1>1, <1>2 DEF BillOf

\* The bills b2 are b with a new status s2 and amount p2 of candidate c, as the ledger writes it.
Rebilled(b, b2, c, s, p, s2, p2) ==
    /\ b2 = [b EXCEPT ![c].paid = p2, ![c].status = s2]
    /\ p2 = p => b2 = [b EXCEPT ![c].status = s2]
    /\ p2 = p /\ s2 = s => b2 = b

LEMMA BillUpdate ==
    ASSUME NEW b, NEW b2, NEW c \in Candidates, NEW s, NEW t, NEW p, NEW s2, NEW p2,
           b = [d \in Candidates |-> b[d]], b2 = [d \in Candidates |-> b2[d]],
           b[c] = [status |-> s, total |-> t, paid |-> p],
           b2[c] = [status |-> s2, total |-> t, paid |-> p2],
           \A d \in Candidates : d # c => b2[d] = b[d]
    PROVE  Rebilled(b, b2, c, s, p, s2, p2)
  <1>1. PICK x : x = b[c] /\ x = [status |-> s, total |-> t, paid |-> p]
    OBVIOUS
  <1>2. PICK y : y = [x EXCEPT !.paid = p2]
    OBVIOUS
  <1>3. y = [status |-> s, total |-> t, paid |-> p2]
    BY <1>1, <1>2
  <1>4. [y EXCEPT !.status = s2] = [status |-> s2, total |-> t, paid |-> p2]
    BY <1>3
  <1>5. [x EXCEPT !.status = s2] = [status |-> s2, total |-> t, paid |-> p]
    BY <1>1
  <1>6. PICK z : z = b2[c] /\ z = [status |-> s2, total |-> t, paid |-> p2]
    OBVIOUS
  <1>7. b2 = [b EXCEPT ![c] = z]
    BY <1>6
  <1>8. b2 = [b EXCEPT ![c].paid = p2, ![c].status = s2]
    <2>1. z = [y EXCEPT !.status = s2]
      BY <1>4, <1>6
    <2>2. [b EXCEPT ![c].paid = p2, ![c].status = s2] = [b EXCEPT ![c] = [y EXCEPT !.status = s2]]
      BY <1>1, <1>2
    <2> QED
      BY <1>7, <2>1, <2>2
  <1>9. p2 = p => b2 = [b EXCEPT ![c].status = s2]
    <2>1. p2 = p => z = [x EXCEPT !.status = s2]
      BY <1>5, <1>6
    <2>2. [b EXCEPT ![c].status = s2] = [b EXCEPT ![c] = [x EXCEPT !.status = s2]]
      BY <1>1
    <2> QED
      BY <1>7, <2>1, <2>2
  <1>10. p2 = p /\ s2 = s => b2 = b
    OBVIOUS
  <1> QED
    BY <1>8, <1>9, <1>10 DEF Rebilled

LEMMA LedgerSteps ==
    ASSUME NEW c \in Candidates,
           \/ Ledger!Review(c) \/ Ledger!Drop(c) \/ Ledger!Issue(c) \/ Ledger!Send(c)
           \/ Ledger!Withdraw(c)
           \/ \E t \in Totals : Ledger!Bill(c, t)
           \/ \E a \in Amounts : Ledger!Settle(c, a)
    PROVE  Ledger!Next
  BY DEF Ledger!Next

\* While the invoices stand, so do the bills.
LEMMA SameBills ==
    ASSUME invoice' = invoice
    PROVE  [c \in Candidates |-> BillOf(c)]' = [c \in Candidates |-> BillOf(c)]
  <1>1. \A c : InvoicesOf(c)' = InvoicesOf(c)
    BY DEF InvoicesOf, InvoiceIds
  <1>2. \A c : BillOf(c)' = BillOf(c)
    BY <1>1 DEF BillOf
  <1> QED
    BY <1>2

LEMMA StutterKeepsLedger ==
    ASSUME UNCHANGED <<candidate, invoice>>
    PROVE  UNCHANGED Ledger!vars
  BY SameBills DEF Ledger!vars

\* A write of an invoice row is one step of its bill.
LEMMA RowIsLedgerStep ==
    ASSUME UniqueCandidateKey, SerialInv, OneInvoicePerCandidate', NEW r \in Requests,
           \/ IssueWrite(r) \/ SendWrite(r) \/ CancelWrite(r) \/ VoidWrite(r)
           \/ PayInsert(r) \/ PayUpdate(r)
    PROVE  Ledger!Next \/ UNCHANGED Ledger!vars
  <1>0. IInv /\ TypeOK /\ Fresh(req[r]) /\ OneInvoicePerCandidate
    BY DEF SerialInv, IInv
  <1>1. /\ InvoiceIds' = InvoiceIds
        /\ req[r].inv \in InvoiceIds
        /\ \A i \in InvoiceIds : i # req[r].inv => invoice'[i] = invoice[i]
        /\ RowMoves(invoice[req[r].inv], invoice'[req[r].inv])
        /\ candidate' = candidate
    BY <1>0, SerialStore
  <1>2. PICK i \in InvoiceIds : i = req[r].inv
    BY <1>1
  <1>3. PICK v \in Invoice : v = invoice[i]
    BY <1>0, <1>2, ElementOfSeq, LenProperties DEF TypeOK, InvoiceIds
  <1>4. PICK w : w = invoice'[i]
    OBVIOUS
  <1>5. /\ w.cand = v.cand /\ w.total = v.total
        /\ BillStep(v, w)
        /\ v.paid \in Nat /\ v.total \in Nat
    BY <1>1, <1>2, <1>3, <1>4 DEF RowMoves, SerialInv, Invoice
  <1>6. PICK c \in Candidates : c = v.cand
    BY <1>3 DEF Invoice
  <1> DEFINE bill == [d \in Candidates |-> BillOf(d)]
  <1>7. PICK b : b = bill
    OBVIOUS
  <1>8. PICK b2 : b2 = bill'
    OBVIOUS
  <1>9. b[c] = BillRow(v)
    BY <1>0, <1>3, <1>6, <1>7, BillIs
  <1>10. b2[c] = BillRow(w)
    BY <1>1, <1>4, <1>5, <1>6, <1>8, BillIsNext
  <1>11. ASSUME NEW d \in Candidates, d # c PROVE b2[d] = b[d]
    <2>1. CASE \E j \in InvoiceIds : invoice[j].cand = d
      <3>1. PICK j \in InvoiceIds : invoice[j].cand = d
        BY <2>1
      <3>2. invoice'[j] = invoice[j]
        BY <1>1, <1>2, <1>3, <1>6, <1>11, <3>1
      <3> QED
        BY <1>0, <1>1, <1>7, <1>8, <3>1, <3>2, BillIs, BillIsNext
    <2>2. CASE \A j \in InvoiceIds : invoice[j].cand # d
      <3>1. \A j \in InvoiceIds' : invoice'[j].cand # d
        BY <1>1, <1>2, <1>4, <1>5, <1>6, <1>11, <2>2
      <3> QED
        BY <1>0, <1>7, <1>8, <2>2, <3>1, BillIs, BillIsNext
    <2> QED
      BY <2>1, <2>2
  <1>12. PICK s, t, p, s2, p2 :
            s = v.status /\ t = v.total /\ p = v.paid /\ s2 = w.status /\ p2 = w.paid
    OBVIOUS
  <1>13. /\ b[c] = [status |-> s, total |-> t, paid |-> p]
         /\ b2[c] = [status |-> s2, total |-> t, paid |-> p2]
    BY <1>5, <1>9, <1>10, <1>12 DEF BillRow
  <1>14. b = [d \in Candidates |-> b[d]] /\ b2 = [d \in Candidates |-> b2[d]]
    BY <1>7, <1>8
  <1>15. /\ b2 = [b EXCEPT ![c].paid = p2, ![c].status = s2]
         /\ p2 = p => b2 = [b EXCEPT ![c].status = s2]
         /\ p2 = p /\ s2 = s => b2 = b
    <2>1. Rebilled(b, b2, c, s, p, s2, p2)
      BY <1>11, <1>13, <1>14, BillUpdate
    <2> QED
      BY <2>1 DEF Rebilled
  <1>16. b[c].status = s /\ b[c].total = t /\ b[c].paid = p
    BY <1>13
  <1> HIDE DEF bill
  <1>17. CASE w.status = v.status /\ w.paid = v.paid
    <2>1. bill' = bill
      BY <1>7, <1>8, <1>12, <1>15, <1>17
    <2> QED
      BY <1>1, <2>1 DEF Ledger!vars, bill
  <1>18. CASE v.status = "draft" /\ w.status = "issued" /\ w.paid = v.paid
    <2>1. bill[c].status = "draft" /\ bill' = [bill EXCEPT ![c].status = "issued"]
      BY <1>7, <1>8, <1>12, <1>15, <1>16, <1>18
    <2>2. Ledger!Issue(c)
      BY <1>1, <2>1 DEF Ledger!Issue, Ledger!SetStatus, bill
    <2> QED
      BY <2>2, LedgerSteps
  <1>19. CASE v.status = "issued" /\ w.status = "sent" /\ w.paid = v.paid
    <2>1. bill[c].status = "issued" /\ bill' = [bill EXCEPT ![c].status = "sent"]
      BY <1>7, <1>8, <1>12, <1>15, <1>16, <1>19
    <2>2. Ledger!Send(c)
      BY <1>1, <2>1 DEF Ledger!Send, Ledger!SetStatus, bill
    <2> QED
      BY <2>2, LedgerSteps
  <1>20. CASE /\ v.status = "draft" \/ (v.status \in Payable /\ v.paid = 0)
              /\ w.status = "cancelled" /\ w.paid = v.paid
    <2>1. /\ bill[c].status = "draft"
             \/ (bill[c].status \in {"issued", "sent"} /\ bill[c].paid = 0)
          /\ bill' = [bill EXCEPT ![c].status = "cancelled"]
      BY <1>7, <1>8, <1>12, <1>15, <1>16, <1>20 DEF Payable
    <2>2. Ledger!Withdraw(c)
      BY <1>1, <2>1 DEF Ledger!Withdraw, Ledger!Owed, Ledger!SetStatus, bill
    <2> QED
      BY <2>2, LedgerSteps
  <1>21. ASSUME NEW a \in Amounts,
                /\ v.status \in Payable
                /\ v.paid + a <= v.total + Tolerance
                /\ w.paid = v.paid + a
                /\ w.status = IF v.paid + a >= v.total - Tolerance THEN "paid" ELSE v.status
         PROVE  Ledger!Next
    <2>1. /\ bill[c].status \in {"issued", "sent"}
          /\ bill[c].paid + a <= bill[c].total + 1
      BY <1>7, <1>12, <1>16, <1>21 DEF Payable, Tolerance
    <2>2. bill' = [bill EXCEPT
             ![c].paid = @ + a,
             ![c].status = IF bill[c].paid + a >= bill[c].total - 1 THEN "paid" ELSE @]
      <3>1. p2 = b[c].paid + a
        BY <1>12, <1>16, <1>21
      <3>2. s2 = IF b[c].paid + a >= b[c].total - 1 THEN "paid" ELSE b[c].status
        BY <1>12, <1>16, <1>21 DEF Tolerance
      <3>3. b2 = [b EXCEPT
               ![c].paid = @ + a,
               ![c].status = IF b[c].paid + a >= b[c].total - 1 THEN "paid" ELSE @]
        BY <1>13, <1>14, <1>15, <3>1, <3>2
      <3> QED
        BY <1>7, <1>8, <3>3
    <2>3. Ledger!Settle(c, a)
      BY <1>1, <2>1, <2>2 DEF Ledger!Settle, Ledger!Owed, Ledger!Slack, bill
    <2> QED
      BY <2>3, LedgerSteps
  <1> QED
    BY <1>5, <1>17, <1>18, <1>19, <1>20, <1>21 DEF BillStep

\* A candidate is billed once, and after its review.
LEMMA InsertIsBill ==
    ASSUME UniqueCandidateKey, SerialInv, OneInvoicePerCandidate', NEW r \in Requests,
           ConvertInsert(r), invoice' # invoice
    PROVE  Ledger!Next
  <1>0. IInv /\ Fresh(req[r]) /\ OneInvoicePerCandidate
    BY DEF SerialInv
  <1>1. PICK c \in Candidates : c = req[r].cand
    BY <1>0, InsertedInvoice
  <1>2. PICK t \in Totals : t = req[r].total
    BY <1>0, InsertedInvoice
  <1>3. PICK n : n = Len(invoice) + 1
    OBVIOUS
  <1>4. /\ ~KeyCollision(c)
        /\ candidate' = candidate
        /\ InvoiceIds' = InvoiceIds \cup {n} /\ n \notin InvoiceIds
        /\ \A i \in InvoiceIds : invoice'[i] = invoice[i]
        /\ invoice'[n] = NewInvoice(c, t, req[r].override)
    BY <1>0, <1>1, <1>2, <1>3, InsertedInvoice
  <1>5. /\ invoice'[n].cand = c /\ invoice'[n].status = "draft"
        /\ invoice'[n].total = t /\ invoice'[n].paid = 0
    BY <1>4 DEF NewInvoice
  <1>6. \A i \in InvoiceIds : invoice[i].cand # c
    BY <1>4 DEF KeyCollision, InvoicesOf
  <1>7. candidate[c] = "review_ready"
    BY <1>0, <1>1 DEF Fresh, ConvertInsert, ConvertOps
  <1> DEFINE bill == [d \in Candidates |-> BillOf(d)]
  <1>8. bill[c] = [status |-> "none", total |-> 0, paid |-> 0]
    BY <1>0, <1>6, BillIs
  <1>9. BillOf(c)' = [status |-> "draft", total |-> t, paid |-> 0]
    <2>1. BillOf(c)' = BillRow(invoice'[n])
      BY <1>4, <1>5, BillIsNext
    <2> QED
      BY <1>5, <2>1 DEF BillRow
  <1>10. ASSUME NEW d \in Candidates, d # c PROVE BillOf(d)' = BillOf(d)
    <2>1. CASE \E j \in InvoiceIds : invoice[j].cand = d
      <3>1. PICK j \in InvoiceIds : invoice[j].cand = d
        BY <2>1
      <3> QED
        BY <1>0, <1>4, <3>1, BillIs, BillIsNext
    <2>2. CASE \A j \in InvoiceIds : invoice[j].cand # d
      <3>1. \A j \in InvoiceIds' : invoice'[j].cand # d
        BY <1>4, <1>5, <1>10, <2>2
      <3> QED
        BY <1>0, <2>2, <3>1, BillIs, BillIsNext
    <2> QED
      BY <2>1, <2>2
  <1>11. bill' = [bill EXCEPT ![c] = [status |-> "draft", total |-> t, paid |-> 0]]
    BY <1>9, <1>10
  <1>12. Ledger!Bill(c, t)
    BY <1>4, <1>7, <1>8, <1>11 DEF Ledger!Bill, Ledger!Open
  <1> QED
    BY <1>12, LedgerSteps

\* A candidate is reviewed from draft, and dropped while no live invoice of it exists.
LEMMA CandidateIsLedgerStep ==
    ASSUME UniqueCandidateKey, SerialInv, NEW r \in Requests,
           ReviewReadyWrite(r) \/ CancelCandidateWrite(r)
    PROVE  Ledger!Next
  <1>0. TypeOK /\ IInv /\ Fresh(req[r]) /\ OneInvoicePerCandidate
    BY DEF SerialInv, IInv
  <1>1. PICK c \in Candidates : c = req[r].cand
    BY <1>0, RequestShape DEF TypeOK, ReviewReadyWrite, CancelCandidateWrite, CandidateOps
  <1> DEFINE bill == [d \in Candidates |-> BillOf(d)]
  <1>2. bill' = bill
    BY SameBills DEF ReviewReadyWrite, CancelCandidateWrite
  <1>3. CASE ReviewReadyWrite(r)
    <2>1. candidate[c] = "draft" /\ candidate' = [candidate EXCEPT ![c] = "review_ready"]
      BY <1>0, <1>1, <1>3 DEF ReviewReadyWrite, Fresh
    <2>2. Ledger!Review(c)
      BY <1>2, <2>1 DEF Ledger!Review
    <2> QED
      BY <2>2, LedgerSteps
  <1>4. CASE CancelCandidateWrite(r)
    <2>1. /\ candidate[c] \in {"draft", "review_ready"}
          /\ candidate' = [candidate EXCEPT ![c] = "cancelled"]
          /\ \A i \in InvoicesOf(c) : ~Live(i)
      BY <1>0, <1>1, <1>4 DEF CancelCandidateWrite, Fresh
    <2>2. bill[c].status \in {"none", "cancelled"}
      <3>1. CASE \E i \in InvoiceIds : invoice[i].cand = c
        <4>1. PICK i \in InvoiceIds : invoice[i].cand = c
          BY <3>1
        <4>2. invoice[i].status = "cancelled"
          BY <2>1, <4>1 DEF InvoicesOf, Live
        <4>3. bill[c] = BillRow(invoice[i])
          BY <1>0, <4>1, BillIs
        <4> QED
          BY <4>2, <4>3 DEF BillRow
      <3>2. CASE \A i \in InvoiceIds : invoice[i].cand # c
        BY <1>0, <3>2, BillIs
      <3> QED
        BY <3>1, <3>2
    <2>3. Ledger!Drop(c)
      BY <1>2, <2>1, <2>2 DEF Ledger!Drop, Ledger!Open
    <2> QED
      BY <2>3, LedgerSteps
  <1> QED
    BY <1>3, <1>4

LEMMA StepImplementsLedger ==
    ASSUME UniqueCandidateKey, SerialInv, [Next /\ Alone']_vars
    PROVE  [Ledger!Next]_(Ledger!vars)
  <1>0. OneInvoicePerCandidate'
    BY StepKeepsOneInvoice DEF SerialInv
  <1>1. CASE UNCHANGED <<candidate, invoice>>
    BY <1>1, StutterKeepsLedger
  <1>2. ASSUME NEW r \in Requests, CandidateStep(r) \/ InvoiceStep(r) \/ Abort(r)
        PROVE  [Ledger!Next]_(Ledger!vars)
    <2>1. CASE \/ IssueWrite(r) \/ SendWrite(r) \/ CancelWrite(r) \/ VoidWrite(r)
               \/ PayInsert(r) \/ PayUpdate(r)
      BY <1>0, <2>1, RowIsLedgerStep
    <2>2. CASE ReviewReadyWrite(r) \/ CancelCandidateWrite(r)
      BY <2>2, CandidateIsLedgerStep
    <2>3. CASE ConvertInsert(r) /\ invoice' # invoice
      BY <1>0, <2>3, InsertIsBill
    <2>4. CASE ConvertInsert(r) /\ invoice' = invoice
      BY <1>1, <2>4 DEF ConvertInsert
    <2>5. CASE Opens(r)
      BY <1>1, <2>5, OpenFresh
    <2> QED
      BY <1>1, <1>2, <2>1, <2>2, <2>3, <2>4, <2>5, RequestSteps
      DEF CancelCandidateCheck, ConvertCheck, VoidCheck, Abort
  <1> QED
    BY <1>1, <1>2 DEF Next, Step, vars

\* Over a table with uq_ai_candidate, requests that do not overlap take candidates and
\* invoices through the steps of InvoiceLedger only, wherever one of them dies.
THEOREM SerialBillingIsALedger ==
    ASSUME UniqueCandidateKey PROVE SerialSpec => ImplementsLedger
  <1>1. Init => Ledger!Init
    <2> SUFFICES ASSUME Init PROVE Ledger!Init
      OBVIOUS
    <2>1. InvoiceIds = {}
      BY DEF Init, InvoiceIds
    <2>2. \A c : InvoicesOf(c) = {}
      BY <2>1 DEF InvoicesOf
    <2>3. \A c : BillOf(c) = [status |-> "none", total |-> 0, paid |-> 0]
      BY <2>2 DEF BillOf
    <2> QED
      BY <2>3 DEF Init, Ledger!Init, Ledger!NoBill
  <1>2. SerialInv /\ [Next /\ Alone']_vars => [Ledger!Next]_(Ledger!vars)
    BY StepImplementsLedger
  <1> QED
    BY <1>1, <1>2, SerialInvariance, PTL DEF SerialSpec, ImplementsLedger, Ledger!Spec
=============================================================================
