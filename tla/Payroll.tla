------------------------------- MODULE Payroll -------------------------------
(***************************************************************************)
(* The monthly payroll of a company and the salary loans it collects       *)
(* (server/routers/payroll.ts, server/lib/payrollExecuteMonthly.ts,        *)
(* server/lib/payrollAuthoritative.ts), over payroll_runs,                 *)
(* payroll_line_items and salary_loans.                                    *)
(*                                                                         *)
(* A month can be previewed (createRun), which runs statement by statement *)
(* and already collects the loans, and executed (executeMonthlyPayroll),   *)
(* which is one transaction: all it reads is the snapshot of its first     *)
(* select, all it writes appears with its commit.  The run is then         *)
(* approved, exported for the bank and marked paid: each of these reads    *)
(* the run, and updates it by id alone later on.                           *)
(*                                                                         *)
(* Of the money only the loan deduction of a line is kept.                 *)
(***************************************************************************)
EXTENDS Integers, Sequences, FiniteSetsExt

CONSTANTS
    Requests,      \* requests in flight at the same time
    Months,        \* company x month pairs
    Employees,     \* employees of the company
    Principals,    \* loan amounts that can be entered
    Instalments,   \* monthly deductions that can be entered
    Edits,         \* loan deductions that HR can write into a line by hand
    MaxRuns,       \* bound: runs ever inserted
    MaxLoans,      \* bound: loans ever granted
    MaxEdited      \* bound: what edits add to, or take from, the deductions of an employee

ASSUME PayrollAssumption ==
    /\ Principals \subseteq Nat \ {0}
    /\ Instalments \subseteq Nat \ {0}
    /\ Edits \subseteq Int
    /\ MaxRuns \in Nat
    /\ MaxLoans \in Nat
    /\ MaxEdited \in Nat

VARIABLES
    run,    \* payroll_runs with their lines, the id being the index
    loan,   \* salary_loans, the id being the index
    req,    \* what each request holds
    edited  \* history: what HR's edits changed the deductions of each employee by

vars == <<run, loan, req, edited>>

-----------------------------------------------------------------------------
\* The statuses that some statement writes; the enum has four more.
RunStatus == {"draft", "pending_execution", "approved", "wps_generated", "paid"}

\* The lines of a run: the loan deduction of each, which an edit can make negative.
Lines == [Employees -> Seq(Int)]
NoLines == [e \in Employees |-> << >>]

Run == [month: Months,
        status: RunStatus,
        preview: BOOLEAN,     \* preview_only
        snapshot: BOOLEAN,    \* attendance_preflight_snapshot is set
        paid: BOOLEAN,        \* paid_at is set
        lines: Lines]

Loan == [employee: Employees, principal: Nat, monthly: Nat, balance: Nat,
         status: {"active", "completed", "cancelled"}]

Idle == [at |-> "idle"]

\* seen is the state of salary_loans that a request works from; run 0 is no run.
Request ==
    {Idle}
    \cup [at: {"execute.commit"}, month: Months, run: Nat, lines: Lines, seen: Seq(Loan)]
    \cup [at: {"create.insert"}, month: Months]
    \cup [at: {"create.loans"}, run: Nat \ {0}]
    \cup [at: {"create.line"}, run: Nat \ {0}, todo: SUBSET Employees, seen: Seq(Loan)]
    \cup [at: {"create.loan"}, run: Nat \ {0}, todo: SUBSET Employees, seen: Seq(Loan),
          employee: Employees]
    \cup [at: {"approve.write", "paid.write", "wps.write"}, run: Nat \ {0}]
    \cup [at: {"balance.write"}, loan: Nat \ {0}, balance: Nat]

RunIds == DOMAIN run
LoanIds == DOMAIN loan

TypeOK ==
    /\ run \in Seq(Run)
    /\ loan \in Seq(Loan)
    /\ req \in [Requests -> Request]
    /\ edited \in [Employees -> Int]

Init ==
    /\ run = << >>
    /\ loan = << >>
    /\ req = [r \in Requests |-> Idle]
    /\ edited = [e \in Employees |-> 0]

Goto(r, held) == req' = [req EXCEPT ![r] = held]
Advance(r, at) == req' = [req EXCEPT ![r].at = at]
Return(r) == Goto(r, Idle)
Only(A) == A /\ UNCHANGED <<run, loan, edited>>

RunsOf(m) == {i \in RunIds : run[i].month = m}

\* The employees a payroll lists, which are never none: createRun takes the active ones,
\* executeMonthlyPayroll those of them that were hired by the first of the month.  Who is
\* active is not kept here, so every choice is possible.
Listings == (SUBSET Employees) \ {{}}

-----------------------------------------------------------------------------
(* Loan arithmetic, on the rows ls that a request has read *)

Smaller(a, b) == IF a < b THEN a ELSE b

ActiveOf(ls, e) == {k \in DOMAIN ls : ls[k].employee = e /\ ls[k].status = "active"}

\* activeLoans.find(...): the first active loan, rows coming in the order of their ids.
LoanOf(ls, e) == CHOOSE k \in ActiveOf(ls, e) : \A j \in ActiveOf(ls, e) : k <= j

\* The deduction of a line.
DeductionOf(ls, e) ==
    IF ActiveOf(ls, e) = {} THEN 0
    ELSE Smaller(ls[LoanOf(ls, e)].monthly, ls[LoanOf(ls, e)].balance)

\* The loans an instalment is taken from.
Collected(ls) == {k \in DOMAIN ls : k \in ActiveOf(ls, ls[k].employee) /\ k = LoanOf(ls, ls[k].employee)}

\* Fault: the balance is not written.
SameBalance(row, balance) == row

\* The row of a loan with a new balance: balance and status are written together.
WithBalance(row, balance) ==
    [row EXCEPT !.balance = balance,
                !.status = IF balance = 0 THEN "completed" ELSE "active"]

-----------------------------------------------------------------------------
(* executeMonthlyPayroll *)

\* "locked" blocks too, but nothing writes it.
Blocked == {"paid", "approved"}

\* The snapshot: of the runs of the month any can be found, and a blocked one throws.
ExecuteRead(r, m) ==
    /\ req[r] = Idle
    /\ \/ /\ RunsOf(m) = {}
          /\ Len(run) < MaxRuns
          /\ Only(Goto(r, [at |-> "execute.commit", month |-> m, run |-> 0, lines |-> NoLines,
                           seen |-> loan]))
       \/ \E i \in RunsOf(m) :
             /\ run[i].status \notin Blocked
             /\ Only(Goto(r, [at |-> "execute.commit", month |-> m, run |-> i,
                              lines |-> run[i].lines, seen |-> loan]))

\* What old lines took from employee e; of several the last one counts, since each is
\* added to the balance that was read before.
TakenFrom(lines, e) ==
    LET taking == {k \in DOMAIN lines[e] : lines[e][k] > 0}
    IN IF taking = {} THEN 0 ELSE lines[e][Max(taking)]

\* The lines that go away give their deduction back to the employee's first active loan.
Restored(ls, lines) ==
    [k \in DOMAIN ls |->
        IF k \in Collected(ls)
        THEN [ls[k] EXCEPT !.balance = @ + TakenFrom(lines, ls[k].employee)]
        ELSE ls[k]]

\* Fault: the lines of the run that is executed again are not deleted.
LinesAdded(old, ls, listed) ==
    [e \in Employees |-> IF e \in listed THEN Append(old[e], DeductionOf(ls, e)) ELSE old[e]]

\* One line per employee that is listed; those the run had are deleted.
LinesReplaced(old, ls, listed) ==
    [e \in Employees |-> IF e \in listed THEN <<DeductionOf(ls, e)>> ELSE << >>]

\* What the loans ls, restored from seen, are left with: who is listed pays an instalment;
\* of the others' loans, those that got a deduction back are written.
Left(ls, k, listed) ==
    IF ls[k].employee \in listed THEN ls[k].balance - DeductionOf(ls, ls[k].employee)
    ELSE ls[k].balance
Written(seen, ls, listed) ==
    {k \in Collected(ls) : ls[k].employee \in listed \/ ls[k].balance # seen[k].balance}

ExecuteCommit(r) ==
    /\ req[r].at = "execute.commit"
    /\ \E listed \in Listings :
       LET ls == Restored(req[r].seen, req[r].lines)
           row == IF req[r].run = 0
                  THEN [month |-> req[r].month, paid |-> FALSE, lines |-> NoLines]
                  ELSE [month |-> req[r].month, paid |-> run[req[r].run].paid,
                        lines |-> run[req[r].run].lines]
           executed == [month |-> row.month, status |-> "pending_execution", preview |-> FALSE,
                        snapshot |-> TRUE, paid |-> row.paid,
                        lines |-> LinesReplaced(row.lines, ls, listed)]
       IN /\ IF req[r].run = 0
             THEN Len(run) < MaxRuns /\ run' = Append(run, executed)
             ELSE run' = [run EXCEPT ![req[r].run] = executed]
          /\ loan' = [k \in LoanIds |->
                        IF k \in Written(req[r].seen, ls, listed)
                        THEN WithBalance(loan[k], Left(ls, k, listed))
                        ELSE loan[k]]
    /\ Return(r)
    /\ UNCHANGED edited

-----------------------------------------------------------------------------
(* createRun *)

CreateRead(r, m) ==
    /\ req[r] = Idle
    /\ RunsOf(m) = {}
    /\ Len(run) < MaxRuns
    /\ Only(Goto(r, [at |-> "create.insert", month |-> m]))

CreateInsert(r) ==
    /\ req[r].at = "create.insert"
    /\ Len(run) < MaxRuns
    /\ run' = Append(run, [month |-> req[r].month, status |-> "draft", preview |-> TRUE,
                           snapshot |-> FALSE, paid |-> FALSE, lines |-> NoLines])
    /\ Goto(r, [at |-> "create.loans", run |-> Len(run) + 1])
    /\ UNCHANGED <<loan, edited>>

\* The employees were read before the insert.
CreateLoans(r) ==
    /\ req[r].at = "create.loans"
    /\ \E listed \in Listings :
          Only(Goto(r, [at |-> "create.line", run |-> req[r].run, todo |-> listed, seen |-> loan]))

\* On to the next employee of the loop.
NextEmployee(r, e) ==
    IF req[r].todo = {e}
    THEN Return(r)
    ELSE Goto(r, [at |-> "create.line", run |-> req[r].run, todo |-> req[r].todo \ {e},
                  seen |-> req[r].seen])

CreateLine(r) ==
    /\ req[r].at = "create.line"
    /\ \E e \in req[r].todo :
          /\ run' = [run EXCEPT ![req[r].run].lines[e] = Append(@, DeductionOf(req[r].seen, e))]
          /\ IF DeductionOf(req[r].seen, e) = 0
             THEN NextEmployee(r, e)
             ELSE Goto(r, [at |-> "create.loan", run |-> req[r].run, todo |-> req[r].todo,
                           seen |-> req[r].seen, employee |-> e])
    /\ UNCHANGED <<loan, edited>>

CreateLoan(r) ==
    /\ req[r].at = "create.loan"
    /\ LET e == req[r].employee
           k == LoanOf(req[r].seen, e)
       IN /\ loan' = [loan EXCEPT ![k] =
                         WithBalance(@, req[r].seen[k].balance - DeductionOf(req[r].seen, e))]
          /\ NextEmployee(r, e)
    /\ UNCHANGED <<run, edited>>

-----------------------------------------------------------------------------
(* updateLineItem *)

\* What a line takes from the salary for a loan.
Taking(deduction) == IF deduction > 0 THEN deduction ELSE 0

\* Two reads and an update, taken as one step: an executed run never becomes a preview
\* again, and the update of a line that is gone changes nothing.  Neither the status of the
\* run nor the sign of the amount is looked at.
EditLine(i, e, k, deduction) ==
    LET more == Taking(deduction) - Taking(run[i].lines[e][k])
    IN /\ ~run[i].preview
       /\ edited[e] + more \in -MaxEdited .. MaxEdited
       /\ run' = [run EXCEPT ![i].lines[e][k] = deduction]
       /\ edited' = [edited EXCEPT ![e] = @ + more]
       /\ UNCHANGED <<loan, req>>

-----------------------------------------------------------------------------
(* approveRun, generateWpsBankFileForRun, markPaid *)

\* Fault: drafts can be approved.
ApproveDraft(r, i) ==
    /\ req[r] = Idle
    /\ run[i].status \in {"draft", "pending_execution"}
    /\ Only(Goto(r, [at |-> "approve.write", run |-> i]))

\* assertAuthoritativePayrollForApprove
ApproveRead(r, i) ==
    /\ req[r] = Idle
    /\ ~run[i].preview /\ run[i].status = "pending_execution" /\ run[i].snapshot
    /\ Only(Goto(r, [at |-> "approve.write", run |-> i]))

SetStatus(r, status) ==
    /\ run' = [run EXCEPT ![req[r].run].status = status]
    /\ Return(r)
    /\ UNCHANGED <<loan, edited>>

ApproveWrite(r) == req[r].at = "approve.write" /\ SetStatus(r, "approved")

\* A run that waits for approval can be exported, and so can a paid one.
WpsRead(r, i) ==
    /\ req[r] = Idle
    /\ ~run[i].preview /\ run[i].status \in {"pending_execution", "approved", "paid", "wps_generated"}
    /\ Only(Goto(r, [at |-> "wps.write", run |-> i]))

\* After the upload of the file.
WpsWrite(r) == req[r].at = "wps.write" /\ SetStatus(r, "wps_generated")

PaidRead(r, i) ==
    /\ req[r] = Idle
    /\ ~run[i].preview /\ run[i].status \in {"approved", "wps_generated"}
    /\ Only(Goto(r, [at |-> "paid.write", run |-> i]))

PaidWrite(r) ==
    /\ req[r].at = "paid.write"
    /\ run' = [run EXCEPT ![req[r].run].status = "paid", ![req[r].run].paid = TRUE]
    /\ Return(r)
    /\ UNCHANGED <<loan, edited>>

-----------------------------------------------------------------------------
(* createLoan, updateLoanBalance, cancelLoan *)

GrantLoan(e, principal, monthly) ==
    /\ Len(loan) < MaxLoans
    /\ loan' = Append(loan, [employee |-> e, principal |-> principal, monthly |-> monthly,
                             balance |-> principal, status |-> "active"])
    /\ UNCHANGED <<run, req, edited>>

\* Fault: the balance is not kept from falling below zero.
BalanceReadUnbounded(r, k, amount) ==
    /\ req[r] = Idle
    /\ Only(Goto(r, [at |-> "balance.write", loan |-> k, balance |-> loan[k].balance - amount]))

\* The status of the loan is not looked at.
BalanceRead(r, k, amount) ==
    /\ req[r] = Idle
    /\ Only(Goto(r, [at |-> "balance.write", loan |-> k,
                     balance |-> IF amount < loan[k].balance THEN loan[k].balance - amount ELSE 0]))

BalanceWrite(r) ==
    /\ req[r].at = "balance.write"
    /\ loan' = [loan EXCEPT ![req[r].loan] = WithBalance(@, req[r].balance)]
    /\ Return(r)
    /\ UNCHANGED <<run, edited>>

CancelLoan(k) ==
    /\ loan' = [loan EXCEPT ![k].status = "cancelled"]
    /\ UNCHANGED <<run, req, edited>>

-----------------------------------------------------------------------------
\* The process dies or a statement fails: a transaction leaves nothing, and of the other
\* requests what they wrote stays.
Abort(r) ==
    /\ req[r] # Idle
    /\ Only(Return(r))

\* The requests that write lines or balances, and those that move a run on.
BeginWork(r) ==
    \/ \E m \in Months : ExecuteRead(r, m) \/ CreateRead(r, m)
    \/ \E k \in LoanIds, a \in Instalments : BalanceRead(r, k, a)
BeginMove(r) == \E i \in RunIds : ApproveRead(r, i) \/ WpsRead(r, i) \/ PaidRead(r, i)

Continue(r) ==
    \/ ExecuteCommit(r)
    \/ CreateInsert(r)
    \/ CreateLoans(r)
    \/ CreateLine(r)
    \/ CreateLoan(r)
    \/ ApproveWrite(r)
    \/ WpsWrite(r)
    \/ PaidWrite(r)
    \/ BalanceWrite(r)

\* The procedures that take effect in one statement.
AtOnce ==
    \/ \E e \in Employees, p \in Principals, n \in Instalments : GrantLoan(e, p, n)
    \/ \E k \in LoanIds : CancelLoan(k)
    \/ \E i \in RunIds, e \in Employees, d \in Edits :
          \E k \in DOMAIN run[i].lines[e] : EditLine(i, e, k, d)

Step == AtOnce \/ \E r \in Requests : BeginWork(r) \/ BeginMove(r) \/ Continue(r)

Next == Step \/ \E r \in Requests : Abort(r)

Spec == Init /\ [][Next]_vars

\* No request is cut short, and what writes lines or balances takes turns.  Approvals,
\* exports and payments overlap with all of it and with each other.
MoveOps == {"approve.write", "wps.write", "paid.write"}
Quiet == \A r \in Requests : req[r] = Idle \/ req[r].at \in MoveOps
SerialNext ==
    \/ Quiet /\ (AtOnce \/ \E r \in Requests : BeginWork(r))
    \/ \E r \in Requests : BeginMove(r) \/ Continue(r)
SerialSpec == Init /\ [][SerialNext]_vars

-----------------------------------------------------------------------------
(* What holds whatever requests overlap, and whatever request is cut short. *)

\* A preview "must not be approved, paid, or exported as official payroll"
\* (drizzle/schema.ts:2311), although approval, export and payment update a run that a
\* preview or an execution may still be writing: a run that got that far was executed,
\* with its attendance snapshot and the lines of those it lists.
PayableIsExecuted ==
    \A i \in RunIds : run[i].status \in {"approved", "wps_generated", "paid"} =>
        /\ ~run[i].preview
        /\ run[i].snapshot
        /\ \E e \in Employees : run[i].lines[e] # << >>

-----------------------------------------------------------------------------
(* What holds when what writes lines and balances neither overlaps nor dies. *)

\* However often a month is previewed, executed and executed again, an employee has one
\* line in it at most.
OnePayslip ==
    \A m \in Months, e \in Employees : Quiet =>
        \A i, j \in RunsOf(m) : \A k \in DOMAIN run[i].lines[e], n \in DOMAIN run[j].lines[e] :
            i = j /\ k = n

LinesTotal(i, e) == MapThenSumSet(LAMBDA k : Taking(run[i].lines[e][k]), DOMAIN run[i].lines[e])
LoansOf(e) == {k \in LoanIds : loan[k].employee = e}

\* What the payrolls took from an employee for loans, and what the loans still ask for,
\* is never more than was lent, but for what HR wrote into lines by hand: executing a month
\* again does not collect it twice, also when the lines it deletes had been edited.
NeverOvercharged ==
    \A e \in Employees : Quiet =>
        MapThenSumSet(LAMBDA i : LinesTotal(i, e), RunIds)
          + MapThenSumSet(LAMBDA k : loan[k].balance, LoansOf(e))
        <= MapThenSumSet(LAMBDA k : loan[k].principal, LoansOf(e)) + edited[e]

-----------------------------------------------------------------------------
(* What the code says, and does not keep. *)

\* "Payroll for ... is paid and cannot be re-executed" (payrollExecuteMonthly.ts:153):
\* the lines of a run that was paid stay as they are.
PaidRunKeepsItsLines ==
    [][\A i \in RunIds : run[i].paid => run'[i].lines = run[i].lines]_vars
=============================================================================
