# SmartPRO Hub: TLA+ models of attendance, payroll, billing and contracts

SmartPRO Hub is a multi-tenant back office for business services: attendance, payroll,
contracts, billing, client portal. This directory holds TLA+ modules of its core
workflows, the TLC configurations that model-check them on small instances, and TLAPS
proofs of their main properties for every size.

Contents: [Inventory](#inventory) · [How the program executes](#how-the-program-executes-and-what-an-action-is)
· [Modules](#modules) · [Runs](#runs-and-what-they-show) · [Findings](#where-the-code-and-its-documents-disagree) · [Refuted promises](#promises-no-run-keeps)
· [Fairness](#fairness) · [Proofs](#proofs) · [Not modelled](#what-is-left-out) · [Plan](#plan)

## Inventory

The server is Express + tRPC 11 over one MySQL database (Drizzle, a `mysql2` pool); the
client is React; `shared/` holds pure rules (status machines, validations) both sides
import. Components in bold are modelled. Components interact through tables: a procedure reads rows another one wrote.
The only in-process calls that outlive a request are fire-and-forget promises (the
billing hook, notifications), and the `setInterval` jobs started in
`server/_core/index.ts`.

| Component | State | Operations | Interacts with | What is hard | What makes it correct |
|---|---|---|---|---|---|
| **Attendance billing** (`routers/attendanceBilling.ts`, `services/attendanceBilling*.service.ts`) | billing candidates, attendance invoices, payment records | review, cancel candidate, convert, issue, send, cancel, void, record payment | rows made by the approval hook; object storage for the HTML artifact | every procedure is read, check, write in separate statements; payments write back values read earlier | money shown is backed by records, bounded by the total; status machine; no payment on a voided invoice |
| **Period lock** (`routers/attendance.ts` 3516-3880, `lib/attendancePeriodGuard.ts`) | one status per company month, audit trail | lock, reopen, export, guard | all attendance writers call the guard | guard and write are not atomic; the upsert depends on a unique key | state diagram, audited transitions, no export without a lock |
| **Client approval** (`routers/attendance/clientApproval.router.ts`, `lib/attendanceClientApprovalHooks.ts`) | approval batches, their items, signed tokens | create, submit, token, approve/reject (HR and portal), dispute, billing hook | period lock (guard), billing (inserts candidates) | two approvers; hook after the answer; client and HR at once | the candidate of a batch bills approved items only, and all that stand approved; decisions final; an approved batch is billed |
| **Attendance clock** (`routers/attendance.ts`, `attendanceSessionFromRecord.ts`) | punches and the session of each, both with an open key; manual requests; corrections | check-in, check-out, forced check-out, manual requests and corrections with their reviews, repair | period lock (guard, and what blocks a lock); payroll counts its sessions | transactions that trust a read made before them; two rows that must move together in six procedures; a request that outlives its month | sessions agree with punches; nothing is counted that is still open; a request is decided once; a closed month stays as it is |
| **Client invoices and online payments** (`routers/clientBilling.ts`, `routers/payments.ts`, `paymentWebhooks.ts`, `lib/applyClientInvoicePayment.ts`, `lib/billingEngine.ts`) | client invoices, their payment records, checkout sessions, webhook events | generate, manual payment, create session, webhook, refund | Thawani and Stripe, which deliver an event until it is answered | repeated, overlapping and failed deliveries; provider calls between two statements; refund against payment | a session's money enters the books once; amounts shown are covered; no paid session is answered away; the books agree with the provider |
| **Payroll** (`routers/payroll.ts`, `lib/payrollExecuteMonthly.ts`, `lib/payrollAuthoritative.ts`) | runs with their lines, salary loans | preview, execute, edit a line, approve, export for the bank, mark paid; grant, correct and cancel a loan | counts closed attendance sessions | re-execution; status written by id after a read; a preview that collects loans outside a transaction | only executed runs become payable; nobody has two lines in a month; a loan is not collected twice; a paid run stays |
| Promoter financial runs (`promoterFinancialExecution.service.ts`, `promoterAssignmentOps.service.ts`) | runs, promoter invoices, export generations | prepare, transition, export, supersede | assignments, attendance | status update by id after a read | status machine, one current export |
| **Contracts** (`modules/contractManagement`, `routers/contractManagement.ts`, `jobs/syncExpiredContracts.ts`) | contracts with their audit trail | create, update, activate, terminate, renew, amend, delete, lazy expiry, daily job | names its predecessor or base contract | job, views and users on one contract; a renewal of five statements; restarts | the trail tells the status; a superseded contract has a successor, one; a draft is decided by a user; overdue contracts expire |
| Engagements, client workspace | derived roll-ups | refresh | many tables | staleness | roll-up equals its definition |
| Control tower, resolution workflow | overlay of item states | acknowledge, assign, resolve | signals recomputed by queries | overlay of a signal that is gone | |
| Automation engine, SLA | rules, throttle, logs | periodic loop | messages, tasks | repetition | a rule fires once per window |
| Collections, quotations, subscriptions, renewals | status columns | record keeping | billing | | |
| HR core, scheduling, KPI | employees, leave, shifts | record keeping, approvals | feeds the clock | | |
| Identity, roles, capabilities | users, memberships, 2FA | login, invite, grants | guards every procedure | | tenant isolation |
| Sanad intelligence, marketplace, surveys | imports, scores | import, outreach | | | |
| Documents, agreements | files, versions | render, store | storage | | |
| Migrations (`drizzle/`, `scripts/migrate.ts`) | the schema | apply, skip | every table | a skipped migration leaves a table without its unique keys | |
| Web client | cached views | | procedures | no authoritative state | |

`PROJECT.json` lists the same components with their sources and status, and under
`hazards` the places where each is hard to test.

## How the program executes, and what an action is

Most procedures open no transaction. Each `await db...` is one autocommitted statement, and
between two of them the handlers of other requests run. So **an action is one statement (or
one transaction, or one call of a payment provider) together with the code up to the next
`await`**, and what a handler keeps in local variables between two of them is the request's state:

* `req[r]` (`procs[p]` for contracts) is `Idle` or a record with the next statement, `at`, and
  exactly the values the handler read and will use. `r` is a slot; a finished request frees it
  for another one.
* A request whose first read fails a guard throws and changes nothing: it is a stutter, and has
  no action. A guard that fails later (`cancelCandidate.check`, the period guard, a foreign key) is an
  action that returns.
* An update writes the columns the code's `set` names, by id, with the values read *earlier* where
  the code does so (`PayUpdate` writes the old status and the old amount plus the payment).
* A transaction is one step. InnoDB's default isolation reads a snapshot, so a transaction that reads
  inside (`executeMonthlyPayroll`, `updateLoanBalance`) is two steps: the snapshot, and the commit of
  what was computed from it.
* `select ... limit 1` without `ORDER BY` may return any matching row.
* `Abort(r)` is a crash, a lost connection or a failed statement: the request ends where it
  is and nothing is undone. In the crash-free specifications it never happens. `Crash` of
  `ContractLifecycle` ends everything that is in flight at once.
* MySQL's unique keys are part of the insert (`KeyCollision`, `BatchKeyCollision`, `Upsert`,
  `PeriodKeyCollision`, `PunchKey`, `SessionKey`). That a key leaves one row is its own doing and is not stated as a
  property; what the code around the insert makes of it is. Whether a database has those of migrations 0081/0085
  is a constant, because the baseline migration 0070 creates the same tables without them and
  the later ones are then skipped.

Who may call a procedure is not modelled: every action is taken by a permitted caller of one
company, and rows of different companies never meet (every statement filters on `company_id`).

Each module has a specification in which everything overlaps and dies, `Spec`, and most have one in which
requests take turns (`SerialSpec`, `FairSerialSpec`; in that of `Payroll` approvals, exports and payments overlap with
everything, and only what writes lines or balances takes turns). They answer different questions: what the code
guarantees without transactions, and whether its procedures are right at all. A property that only
the second one keeps is marked so in its comment, and [below](#promises-no-run-keeps).

## Modules

### `AttendanceBilling`

`candidate[c]`, `invoice[i]` and `req[r]`. An invoice row carries the number and the sum of its
payment records, since the code only counts and lists them. Money is in thousandths of an
OMR, the scale of the columns, so the code's `0.001` is `Tolerance == 1`.

| Actions | Procedure |
|---|---|
| `ReviewReadyRead/Write` | `markAttendanceBillingCandidateReviewReady` |
| `CancelCandidateRead/Check/Write` | `cancelAttendanceBillingCandidate` |
| `ConvertRead/Check/Insert` | `convertAttendanceBillingCandidateToInvoice` |
| `IssueRead/Write` | `issueAttendanceInvoice` (the artifact is uploaded between the two; an upload that fails is caught, and the invoice is issued without it) |
| `SendRead/Write`, `CancelRead/Write` | `markAttendanceInvoiceSent`, `cancelAttendanceInvoice` |
| `VoidRead/Check/Write` | `voidAttendanceInvoice` |
| `PayRead/Insert/Update` | `recordAttendanceInvoicePayment` |

`Edges` is `ATTENDANCE_INVOICE_EDGES`. The procedures do not all use it: most write their gate by
hand, so that gates and edges agree is a property (`FreshWritesFollowTheMachine`), not a
definition. The total a conversion computes (rate × hours + VAT) is any value of `Totals`.

### `InvoiceLedger` and `BillingRefinement`

`InvoiceLedger` is what billing promises: one atomic step per operation, at most one open invoice
per candidate, an invoice withdrawn only while no money is on it, and a payment that fits the
balance. `BillingRefinement` maps the tables to it: the bill of a candidate is its invoice row,
and a payment takes effect with the update of the invoice. The run `BillingSerial` checks
`ImplementsLedger` with one request at a time, crashes included. It does not hold when requests
overlap.

### `PeriodLock`

`lock[m]` is the set of statuses found in the rows of month `m` (a set, because without the
unique key there can be several rows), `trail[m]` the transitions in its audit trail,
`officer[o]` the lock, reopen or export request in flight. Each transition is `ReadPeriod` (select
and validation), `WritePeriod` (upsert), `WriteAudit`. `PeriodIsOpen` is the guard. The module is run
inside the two below, which supply the writers that the guard is for.

### `ClientApproval`

EXTENDS `PeriodLock` and runs it in parallel: requests consult `lock` through the guard while
officers change it. `batch[b]` with its items, `candidate` (what the hook inserts), `token` (the
batches for which a portal token was signed; it is stored nowhere and cannot be revoked).

| Actions | Code |
|---|---|
| `CreateRead/Insert/Items` | `createClientApprovalBatch` |
| `SubmitRead/Write`, `GenerateToken` | `submitClientApprovalBatch`, `generateClientApprovalToken` |
| `InternalApprove`, `ClientApproveByToken`, then `ApproveGuard/Write/Items` | the two approvals, which run the same statements |
| `HookBatch/Existing/Items/Insert` | `onClientApprovalComplete`, which goes on after the answer |
| `InternalReject`, `ClientRejectByToken`, then `RejectGuard/Write` | the two rejections; only the client's consults the guard |
| `DisputeRead/Item/Write` | `clientDisputeItemByToken` |

The hook keeps its request's slot until it ends; more slots stand for more handlers and hooks.

### `AttendanceClock`

EXTENDS `PeriodLock`. The punches of one employee: `punch[i]` is a row of `attendance_records` and
`session[i]` the row of `attendance_sessions` whose `source_record_id` it is; payroll counts the
closed sessions and never looks at punches. `asked` are the manual check-in requests, `correction` the
correction requests, `today` the day in Muscat. Rows that the code deletes stay in `punch` with
`gone = TRUE`, because their sessions stay.

| Actions | Procedure |
|---|---|
| `CheckInRead/Commit`, `CheckOutRead/Commit` | `checkIn`, `checkOut` |
| `ForceCheckoutRead/Commit`, `RepairRead/Commit` | `forceCheckout`, `repairSessionFromAttendanceRecord` |
| `AskRead/Commit`, `ApproveRead/Commit`, `RejectRead/Commit` | `submitManualCheckIn`, `approveManualCheckIn`, `rejectManualCheckIn` |
| `SubmitRead/Commit`, `CorrectRead/Commit`, `RefuseRead/Commit` | `submitCorrection`, `approveCorrection`, `rejectCorrection` |
| `Guard` | `loadAndAssertPeriodNotLocked`, between the selects and the transaction |
| `OfficerStep`, with `Blockers` | `lockAttendancePeriod` refuses a month with open sessions or pending requests |

The schedule of a punch may be null (`Unscheduled`), but not after `checkIn`, whose gate refuses an employee without
a current shift. The shift of a manual request is the one it names or the one that the approval infers, if any.
`Commit` is a transaction: all of its rows, or none when one of the two open keys refuses a row. Within
a day the clock may decide either way (which shift is current, whether its window is open, which
of two punches is the newest).

### `OnlinePayments` and `Settlement`

`invoice` and `session` are the tables, `claim` the rows of `payment_webhook_events`, and `charge[s]` what the
*provider* knows of a checkout session: whether it exists there, was paid, was refunded, and whether its
event was answered with a 200. The provider is a party of its own: a client may pay as soon as
the provider has the session, and the event of a paid session is delivered as often as the
provider likes, to two handlers at once if there are two.

| Actions | Code |
|---|---|
| `GenerateRead/Insert/Lines` | `generateClientServiceInvoices` |
| `CreateRead/Insert/Open/Link` | `createSession`; `Open` is the provider's part, `Link` stores its id |
| `Settle` | the client pays at the provider (external) |
| `Deliver`, `WebhookLink/Claim`, `ApplyRead/Insert/Update`, `WebhookComplete` | `reconcileThawaniPaid`, `reconcileStripeCheckoutCompleted`, `applyInvoicePayment` |
| `PayRead`, then `ApplyInsert/Update` | `recordManual`, `recordPayment` |
| `RefundRead/Provider/Update` | `refund` |

`Settlement` is the promise: the money of a session enters the books at most once, after it was
paid, and the session is closed only after that. `ImplementsSettlement` maps the tables to it
(`entries` is the number of payment records of a session) and holds under every overlap and crash.

The key of a claim is the session. For Stripe it is in the code; for Thawani the key also carries `remote.invoice`
(`paymentWebhooks.ts:79`), which the model takes to be the same in every delivery of one session: that a checkout session has one
invoice at the provider is an assumption about Thawani, and settling once rests on it.

`DuplicateIsRecognised` is `FALSE` in the runs: `isDuplicateKeyError` (`dbErrors.ts:6`) looks for `ER_DUP_ENTRY` on the error
itself, and drizzle-orm 0.45 (`package.json:41`) throws an error of its own that carries the driver's as `cause`.

### `Payroll`

`run[i]` is a row of `payroll_runs` with its lines, and of each line the loan deduction only. The other amounts
are computed and stored; the bank file (`payroll.ts:197`) and the payslips read them, and no property is about them.
`loan[k]` are the salary loans. Who gets a line is any non-empty set of employees (`Listings`): the preview takes the
active ones, an execution those of them that were hired by the first of the month (`payrollExecuteMonthly.ts:163-172`), so
executing again may leave out somebody whose old deduction it gives back. `edited` is a history variable: by how much
HR's edits changed the deductions of an employee. No action reads it but for the bound of `EditLine`.

| Actions | Procedure |
|---|---|
| `ExecuteRead/Commit` | `executeMonthlyPayroll`, one transaction: snapshot and commit |
| `CreateRead/Insert/Loans`, `CreateLine`, `CreateLoan` | `createRun`, the preview, statement by statement over the employees |
| `EditLine` | `updateLineItem` |
| `ApproveRead/Write`, `WpsRead/Write`, `PaidRead/Write` | `approveRun`, `generateWpsBankFileForRun`, `markPaid` |
| `GrantLoan`, `BalanceRead/Write`, `CancelLoan` | `createLoan`, `updateLoanBalance`, `cancelLoan` |

### `ContractLifecycle`

`contracts[c]` is a row of `outsourcing_contracts` with its audit trail, what it renews, what it amends, and
whether the rows it is made of (parties, location, promoter) were written. `procs` holds the calls and
the daily job.

| Actions | Code |
|---|---|
| `CreateContract`, then `InsertParts`, `CreatedEvent` | `createPromoterAssignment`, `createOutsourcingContractFull` |
| `ReadStatus`, `WriteStatus`, `StatusEvent` | `transitionContractStatus`, which every status change goes through |
| `Activate`, `Terminate`, `Update`, `UpdateFields`, `DeleteContract` | the mutations of the router |
| `Renew`, `SuccessorHeader`, then parts, event and the mark on the original | `renew` |
| `CreateAmendmentDraft`, `FindDraftAmendment`, `SuccessorHeader` | `createAmendmentDraft` |
| `ViewContract` | `lazyExpireContract`, of every read by id |
| `JobRead`, `JobPick` | `runSyncExpiredContracts`, `expireOverdueContracts` |
| `Tick`, `Crash` | the calendar, a restart of the server |

### The rest

`MCBilling`, `MCClientApproval`, `MCAttendanceClock`, `MCOnlinePayments`, `MCPayroll` and `MCContractLifecycle` hold model
values and the sets the configurations assign to the constants. The modules that end in `_proofs` hold the
theorems, and `Sums` what they need to know of sums over finite sets; see [Proofs](#proofs).

Definitions whose comment begins with "Fault" are plausible bugs in the definition that follows them
(a dropped check, a swapped gate, a forgotten statement). No behaviour uses them. Substituting one for
its original must break the property it is paired with in `PROJECT.json`: this is how we know that the
property says something about the code.

## Runs and what they show

`cd tla; tlc -workers 2 -config <run>.cfg <module>`.

| Run | Specification | Instance | Distinct states | Shows |
|---|---|---|---|---|
| `BillingOverlap` | `Spec` (overlap, crashes) | 2 requests, 1 candidate, 2 invoices, 2 payments | 65 k | what survives every overlap of two statements: the amount shown never exceeds the records or the total, "paid" is covered, and a write whose read is current is an edge of the machine |
| `BillingSerial` | `SerialSpec` (turns, crashes) | 1 request, 2 candidates, 3 invoices, 2 payments | 294 k | what the procedures promise when they do not overlap: no payment on a voided invoice, and the ledger is implemented, whatever request dies between two statements |
| `ApprovalOverlap` | `FairCrashFreeSpec` | 2 requests, 1 officer, 2 items, 1 batch | 164 k | a candidate bills approved items of an approved batch, and, whichever of two hooks wins, all that stand approved; disputes stand; fresh transitions of the month are arrows; and an approved batch is billed in the end |
| `ApprovalSerial` | `SerialSpec` (turns, crashes) | 1 request, 1 officer, 2 items, 2 batches | 4.5 k | duplicate prevention, final decisions, the hook's re-check of the batch and the guard hold when requests take turns |
| `PaymentsOverlap` | `Spec` | 2 requests or deliveries, 1 month, 2 sessions, 1 manual payment, Thawani | 310 k | paid amounts are covered by records and total, no paid session is answered without its claim, and `Settlement` is implemented |
| `PaymentsSerial` | `FairCrashFreeSpec` | 1 request or delivery, 2 sessions, 2 manual payments, both providers | 9 k | between requests an invoice shows what was recorded less what the provider gave back; and the event of a paid session is answered unless its claim is stranded |
| `PayrollSerial` | `SerialSpec` | 2 requests, 2 months, 2 employees, 2 runs, 2 loans of 3 with instalments of 2, an edit of 3 | 1.7 M | only executed runs become payable, although approvals, exports and payments overlap with executions; nobody has two lines in a month; and executing again, also over lines that HR edited, collects nothing twice |
| `ClockOverlap` | `Spec` | 2 requests, 1 shift, 2 days of a month, 2 punches, 1 correction | 1.3 M | no session that payroll would count is closed while its punch is open |
| `ClockSerial` | `SerialSpec` | 1 request, 1 officer, 1 day, 2 punches, 1 manual request, 2 corrections | 2.4 M | sessions follow their punches, and a manual request is decided once |
| `ContractSerial` | `FairSerialSpec` | 1 call, the job, 3 days, 3 contracts | 433 k | the trail tells the status, one complete successor, one amendment draft, a draft is decided by a user, and an overdue contract expires in the end |

The two runs `PaidReexecuted` and `ClosedMonthSession` must end in a violation; see the next section.

**Why these bounds.** Two requests suffice for the overlaps: every property there relates one row to one stale
write, which needs a writer and one other, and slots are reused, so a behaviour has any number of requests,
two at a time. In approval they are two approvals with their hooks, or an approval and a stale submit,
rejection or dispute, while the officer closes and opens the month. In billing, payments are 1, 2 and 4
thousandths against totals of 0 and 3: exact settlement, settlement within the tolerance on both
sides, one payment of 4 that exceeds the total of 3 by exactly the tolerance, and a total of zero
that is payable. In `PaymentsOverlap` two sessions of 2 against a total of 3 do not both fit, so a delivery
is refused after its claim; with the manual payment three writers meet on one amount. In payroll a
loan of 3 takes a whole instalment of 2 and then a last one of 1, which completes it; two months and two loans of one
employee are the cases in which a deduction could go to the wrong loan; writing 3 over an instalment of 2 is an edit
that collects more than the loan is asked for (`MaxEdited` = 1). `SmallCompany` lets one of the two
employees borrow, and only the first run be approved, exported and paid; requests and months are symmetric. The clock needs two
punches of a day for a correction to delete one, and two days for a shift to have two open sessions. Three
contracts are a contract, its successor and an amendment or the successor's successor; dates 0 and 2 lie
before and on the last day.

`Max...` constants cap inserts and, where their comment says so, the begin of a request, and nothing else; a request that
waits at the bound, or a state in which everything is decided, is why the runs do not check
deadlock. The proofs have no bounds on size.

## Where the code and its documents disagree

Each is a run that must end in a violation; `PROJECT.json` quotes the two sides with their lines.

| Run | What happens |
|---|---|
| `PaidReexecuted` | a paid run is exported for the bank again, which sets its status to `wps_generated`; the month is executed again, and the lines that were paid are replaced. The error message says a paid run "cannot be re-executed" |
| `ClosedMonthSession` | a manual request for january is made and approved in february: the session is dated january, the punch february. january is locked; a repair of the punch is checked against february and moves the session out of january. The guard's header says that every write to a month must ask the guard about that month |

## Promises no run keeps

The runs above are the ones worth repeating. The following are consequences of the same models that TLC
refuted along the way. Where a definition exists, change the specification or the constant of the
run named, check that definition alone, and TLC prints the behaviour.

| What the code or its documents say | What happens | How to see it |
|---|---|---|
| `amount_paid_omr` is the "running sum of recorded manual payments" | two payments read the same amount; both records stay, one amount is lost | `AmountPaidIsRunningSum` in `BillingOverlap` |
| a void is "blocked if payment records exist" | a payment lands between the check and the update | `NoPaymentOnVoided` in `BillingOverlap` |
| "allows re-conversion when the existing invoice is cancelled" (a test, on a mock without keys) | the unique key on `candidate_id` refuses it | `ReconversionIsPossible` in `BillingSerial` |
| "one row per (company_id, year, month)" | on a database built from the migrations alone, the upsert of a second transition inserts a second row | `OneRowPerMonth` in `ApprovalSerial` with `UniquePeriodKey = FALSE` |
| the hook makes a candidate of every approved batch | a crash after the approval: a second approval returns early, no candidate is ever made | `ApprovedIsBilled` under `FairSpec` |
| no approval in a locked month | the guard sees only the month of `periodStart` | `NoApprovalInClosedPeriod` with `MonthsOf <- IntoFebruary` and two months |
| no decision in a locked month | HR's rejection does not consult the guard | `ClosedMonthKeepsItsDecisions` in `ApprovalSerial` |
| a delivery that repeats is answered, "webhook idempotency" | the claim is stored, the payment is refused, and every repetition fails on the claim. If the duplicate were recognised the answer would be 200, and the money would never be recorded | `SettledIsAnswered` in `PaymentsSerial` |
| the books agree with the provider | overlapping payments and refunds overwrite each other's amount; a refund the process dies in is not booked | `BooksAgree` in `PaymentsOverlap` |
| executing again does not change what is owed | a preview that dies between a line and its loan, or overlaps an execution, leaves deductions no balance shows; correcting the balance of a cancelled loan makes it active again | `NeverOvercharged`, `OnePayslip` under `Spec` |
| the deductions of replaced lines are given back | not to a loan that the first execution completed: the employee's next loan gets them, or nobody | reading `Restored`; the equality instead of `<=` in `NeverOvercharged` |
| a request is decided once | two approvals overlap: two punches; an approval and a rejection: a punch and "rejected" | `OneDecisionOnePunch` under `Spec` |
| sessions follow punches | a repair that read an open punch reopens the session of a closed one; deleted punches keep their sessions, and an open one blocks the lock of its month | `SessionsFollowPunches` under `Spec` |
| the no-op guard "prevents duplicate writes and duplicate audit events if a contract is concurrently expired" | both read "active" before either writes: two events | `TrailTellsStatus` under `Spec` |
| one successor, one amendment draft | two overlapping calls write two | `OneSuccessor`, `OneDraftAmendmentPerBase` under `Spec` with two requests |
| terminated contracts "are permanently sealed" | an `update` with status "terminated" goes on to write its fields; an expiry that read "active" is written over "terminated" | reading `Update`, `UpdateFields`; `Spec` |

## Fairness

Three properties are liveness properties, each with the fairness the code justifies:

* `ApprovedIsBilled`: weak fairness of `Continue(r)`. A handler that has started runs on, because the database
  answers each statement with a result or an error and the event loop resumes the handler. Nothing is assumed of
  users: no arrival, no approval and no officer is fair. Crashes are excluded, since after one the
  property is false.
* `SettledIsHandled`: the same, and strong fairness of the delivery of a paid session's event that was not
  answered: the providers repeat a delivery until they see a 200. It is strong because in this model a
  delivery needs the one free slot, which other requests keep taking; a real server is not that narrow.
* `OverdueIsExpired`: weak fairness of every call and of the job's next row, strong fairness of the job's select:
  its timer fires whether or not calls are in flight, and in the specification in which calls take turns it must find
  a moment between them. The property says that an overdue contract does not stay overdue; a user may also
  end it or extend it.

## Proofs

Checked by TLAPS, for any sets of requests, candidates, items, scopes, months, officers and employees, any totals
and amounts, and any bounds. Every safety property that a run checks, action properties and the two refinements
included, is stated by a theorem. Assumptions: the named `ASSUME`s of the modules (types of the constants;
`Items # {}` in `ClientApproval`, because creation refuses a scope that enumerates nothing), and in the theorem that
needs it:

| Hypothesis | Theorem | Why it is there |
|---|---|---|
| `UniqueCandidateKey` | `SerialBillingIsALedger` | the key of `drizzle/schema.ts` that a database built from the baseline migration lacks |
| `UniquePeriodKey` | `TransitionsAgree`, `ClosedMonthIsNotApproved` | the same of the table of periods: with two rows per month the guard reads either |

The invariants that the runs check are not inductive: they speak of a row, and the next write is made of values
read before. So in each module the inductive invariant adds what stays true of those values: under `Spec`,
whatever other requests do; under the specifications in which requests take turns, that what the one request at work
holds is still what the tables say.

### With overlap and crashes

**Billing.** `IInv` is `TypeOK`, `Held(r)` for each request and `Safe`, the invariants of the run and those the
theorems `IssuedFirst` and `ReviewedFirst` state. `Held(r)`: the invoice a request holds exists (rows are never
deleted); the status it read passed the gate of its operation; an invoice it read as issued, sent or paid
still has `issued_at`; the amount it read plus its payment is within total and tolerance (checked at the read, and
total never changes) and, once its record is inserted, within the recorded sum (records only grow); a candidate it
converts was reviewed and does not return to draft. From `IInv`: `TypeCorrect`, `MoneyIsBacked`, `MoneyIsBounded`,
`PaidIsCovered`, `IssuedFirst`, `ReviewedFirst`, `GatesAgree` (an action property). That lost updates can hide money and never invent any is the point of `MoneyIsBacked` and
`MoneyIsBounded`: they hold with crashes and with any number of overlapping payments.

**Period lock.** `PeriodInv` (types; what a request is about to write is an arrow from the status it read)
holds with crashes; with the unique key it gives `TransitionsAgree`. `TrailInv`, for `PeriodCrashFreeSpec`, adds that
a request that has read "locked" in order to export found the lock audited or about to be;
it gives `TrailIsComplete` and `LockedFirst`.

**Client approval.** `IInv` is the types, `PeriodInv`, `Sound(req[r])` (the batch a request holds exists; past the
approval write it has `approved_at`; the lines a hook is about to insert are non-empty and were reached by the
approval; the item of a dispute has a row), `CreatorsAreAlone` (a batch without items has one request that is going
to insert them, so no late insert resets items) and `CandidatesAreSound`. It gives `ApprovalTypeCorrect`,
`BilledWasApproved` and the action property `DisputesAreKept`, with crashes; `NeverEmpty` is of
`CrashFreeSpec`. `DraftCoversTheBatch` says that the candidate has every item that stands approved, whichever of two hooks won.
`CompleteInv` is what it takes: a batch with an approved item has no pending one, and the lines that a hook holds or a candidate has are
all that is approved. `RowSettles`, proved of every write to a batch, says that in a row without a pending item nothing becomes approved any
more, so what the first hook read is all there will be. The proofs of the period lock are reused by name.

**Online payments.** What makes the money of a session enter once is who owns it. `Own(h)` is the session that a delivery
has claimed and not completed, or that a request has inserted and not opened at the provider; `OneOwner` says that no two requests own the same one, which the insert into
`payment_webhook_events` gives and nothing takes away (a request that dies leaves the claim behind, so no later one
can own the session). `HeldIsSound` says how far a session is at each statement of its owner (`Reached`): claimed and without
a record before `ApplyInsert`, with one after it; and of everyone else that what they read of an amount is still within what
was recorded, and that the rows they will write exist. `SessionsOK` is the life of a session: paid at the provider, then claimed,
then one record, then completed. Together `PaymentsInv`, which gives `PaymentsTypeCorrect`,
`PaidIsAlwaysCovered` and `NoPaidSessionIsDropped`. `WebhooksSettleOnce` is the refinement of
`Settlement`: with `OneOwner` every step is a step of the book of one session, or of none.

**Attendance clock.** `ClockInv` is the types, `PeriodInv` and, at its heart, `RowsOK`: a session is open as long as its punch is. It is
inductive only with what a request holds: a repair writes the session from the punch it read before its
transaction, so `Sound` says of a repair that a punch which is open now was open when it was read. That is true because no
punch is opened again (`RowsStay`, proved of every transaction). It gives `ClockTypeCorrect` and `NoOpenPunchIsCounted`.

**Payroll.** `PayrollInv` is `TypeOK`, `RunsOK` and `HeldIsSound`. `PayableIsExecuted` is not inductive: an approval writes by id
what it read earlier. `RunsOK` is the strengthening: a run that is no preview, or that can be paid, was executed, and
nothing turns an executed run back. `HeldIsSound` then says of a request about to approve, export or pay that its run was
executed (a set that only grows), of a preview that its run exists, and of everyone that they read no more loans
than there are. The loan arithmetic is proved apart: a deduction is taken from an active loan of that employee and is at
most its balance, so no balance falls below zero, which is part of `PayrollTypeCorrect`. `PayableWasExecuted` holds with
overlap and crashes, where the money properties of `PayrollSerial` do not. It does not say that every active employee has a
line, which is false: an employee hired after the first of the month has none.

**Contracts.** `ContractInv` is `TypeOK`, `SupersededHasSuccessor` and `HeldIsSound`: the rows a call writes have
existed; a renewal that is about to mark its original has a complete successor that names it; a move about to be
written was allowed, and from "draft" if the contract still is one. `MovesOn`, proved of every step, says that rows stay
with their links, that nothing becomes a draft again, and that a contract newly superseded has its successor. It gives
`ContractTypeCorrect`, `SupersededWasSucceeded` and the action property `DraftWasDecided`, of `Spec`: with overlaps,
with the job and with restarts. (With two requests TLC agrees on 26 M states, too many for a run to repeat.)

### When requests take turns

For any number of requests, one of which is at work at a time. `SerialInv` of each module extends its invariant above.

**Billing** (crashes included). A request is `Fresh`: the status and the amount paid that it holds are those of the row. With
`RowSerial` (a voided invoice is cancelled and has no record, and an invoice without a record shows no money) it gives
`VoidedIsUnpaid`. `SerialBillingIsALedger` takes each write as a step of the bill that the row stands for (`BillStep`), and the
key makes the row of a candidate the only one. A payment that dies between its record and the update is no step
of the ledger.

**Client approval** (crashes included). `Knows` says of each request what it may rely on: of a creation, that the scope still has no batch; of a decision,
that the batch is still submitted; of the hook, that the items it is about to bill are still approved. `Tables`: a scope has one
batch, and what is billed is approved. They give
`ScopeIsBatchedOnce`, `RejectionIsFinal` and `DisputeIsNotBilled`; with the key of the periods, `ClosedMonthIsNotApproved`, an
action property for which `GuardHolds` carries the guard's answer to the write.

**Attendance clock.** `Agreed`: the session of a punch is open when the punch is and has its shift; an approved request has the one
punch it names, another none. `Fresh`: a request's rows are still those it read. They give `SessionsTrackPunches` and `RequestsAreDecidedOnce`.

**Contracts.** `Alone(h, cs)` says of the call at work what its contract still is, which events it still owes, and which mark a
renewal still owes; every trail is the history of its contract, up to the event owed. They give `TrailIsTheHistory`, `RenewedOnce`
and `AmendedOnceAtATime`, with the daily job.

**Payroll.** Here a request takes turns only while it is `Working`, writing lines or balances; approvals, exports and payments overlap
with it and with each other, and `SerialMove` and `LoanMove` show that their writes leave every line and loan alone.
`SerialInv`: a month has one run (`OneRunPerMonth`), a line list has one entry at most, and `Fits`: the month about to
be inserted has no run, the employees a preview has still to visit have no line. It gives `OnePayslipEach`. `NobodyIsOvercharged` is the
property about money. `LoanInv` states it in the midst of a request, for each employee: what the lines charge, plus what the
loans still ask for, less what the request has put into a line and not yet collected (`Uncollected`), is at most what was lent
and what HR's edits added (`Covered`, with the history variable `edited`; the theorem assumes nothing of `Edits`).
To keep it, a request must hold the truth (`Noted`): an execution has the loans and the lines as they are, a preview
the loans of the employees it has still to visit, a correction no balance above the present one. The step that matters is
`LoanExecute`: the deduction of the old line, edited or not, is given back to the first active loan, the new one is taken from the same
loan, so the sum of lines and balances stays, also for an employee who is listed no more and gets no new line; if there is no active loan, the old deduction is lost to the employee, which is why the
property is `<=`.

**Online payments** (clients and providers act meanwhile). `SerialInv` states in the midst of a request that `paid` is the sum of the
records less the sum of the refunds, up to the statement that is still to come (`Balanced`), that the request read the present amount
(`UpToDate`), and that a session never gave back more than it brought in (`NetsOK`). It gives `SerialBooksAgree`.

### Sums

The two theorems about money speak of sums over tables, `MapThenSumSet` of the community modules, which folds over a set in an order that
`CHOOSE` picks. `Sums` proves of them what the proofs use: a sum exists and is an integer, depends on the values alone, can be taken
apart at any element (`TotalWithout`), and changes by the difference when one value does (`TotalWithChange`). It goes back to the
definition of the fold, with an induction over the cardinality of finite sets: a smallest counterexample, since no induction
rule can be instantiated with a predicate here.

### Model-checked only

The three liveness properties, `ApprovedIsBilled`, `SettledIsHandled` and `OverdueIsExpired`: TLAPS does not reason about `ENABLED`.

## What is left out

* Queries, and the procedures of the modelled routers that only read.
* HTML and e-mail rendering, notifications, the best-effort audit logs, object storage: an upload that fails ends the bank export
  (an `Abort`), and changes nothing that is modelled in the issue of an invoice, which catches it and goes on.
* Authorisation and tenancy (every caller is permitted, one company).
* Computation of totals, hours, VAT and salaries: any value of a small set. Amounts of the code are floats, rounded to
  three decimals when stored; the models count thousandths exactly, so an amount with more decimals, and a
  comparison that floating point decides at the very boundary of a tolerance, are outside them.
* Client invoices: the invoice number, cut to 24 characters (`clientBilling.ts:28-29`), could collide between clients; the model
  has the period key only.
* Attendance clock: the legacy table `attendance` with `markMissedShiftsAbsent`, which no modelled procedure reads; operational
  issues; time windows and geofences of a shift.
* Checkout sessions: a client can pay a session whose address `createSession` died too early to return (`Settle` asks only that the
  provider has it); the model allows at least the code's behaviours.
* Contracts: documents, party and site tools, events that change no status.
* Promoter financial runs: read, not modelled. Their transitions are updates by id after a read, of the kind
  the period lock and payroll models show.
* Control tower, automation, engagements: they recompute their state from queries, or keep overlays in which the last write wins.
* Collections, quotations, subscriptions, HR core, identity, Sanad, documents: single-statement record keeping for the most
  part, not read in depth.
* Migrations, except for their outcome: which unique keys a database has.
* The web client. It is most of the repository's lines: React views over the procedures, without authoritative
  state.

## Plan

Done: `AttendanceBilling` with its ledger, `PeriodLock`, `ClientApproval`, `AttendanceClock`, `OnlinePayments` with `Settlement`,
`Payroll`, `ContractLifecycle`, and the proofs of their safety properties. In order of importance, what remains:

1. `AttendanceToInvoice`: `ClientApproval` and `AttendanceBilling` over one candidate table; end to end, an invoice bills
   items the client approved, once. The two invariants speak of disjoint columns of the candidate.
2. `PromoterRuns`: the run's status machine and its export generations.

No module of the plan needs a RECURSIVE operator; sums over records are kept as counters updated by
the actions, or taken with the folds of the community modules.
