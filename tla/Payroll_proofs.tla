--------------------------- MODULE Payroll_proofs ---------------------------
(***************************************************************************)
(* Proofs about Payroll for every number of overlapping requests, months,  *)
(* employees, runs and loans, with and without requests that die half-way. *)
(***************************************************************************)
EXTENDS Payroll, Sums, SequenceTheorems, TLAPS

-----------------------------------------------------------------------------
(* Loan arithmetic *)

\* A set of numbers up to n that has an element has a largest one.
LEMMA LargestExists ==
    ASSUME NEW n \in Nat, NEW S, S \subseteq 1..n, S # {}
    PROVE  \E k \in S : \A j \in S : k >= j
  <1> DEFINE T == {n - k : k \in S}
  <1>1. T \subseteq Nat /\ T # {}
    <2>1. \A k \in S : k \in Int /\ k <= n /\ n - k \in Nat
      OBVIOUS
    <2>2. T \subseteq Nat
      BY <2>1, Zenon
    <2>3. PICK k \in S : TRUE
      OBVIOUS
    <2>4. n - k \in T
      BY <2>3, Zenon
    <2> QED
      BY <2>2, <2>4
  <1>2. PICK d \in T : \A b \in T : d <= b
    <2> HIDE DEF T
    <2> QED
      BY <1>1, LeastNumber
  <1>3. PICK k \in S : d = n - k
    OBVIOUS
  <1>4. \A j \in S : n - k <= n - j
    BY <1>2, <1>3
  <1> QED
    BY <1>4

\* The loan that a deduction is taken from is an active loan of the employee.
LEMMA LoanOfIsActive ==
    ASSUME NEW ls \in Seq(Loan), NEW e, ActiveOf(ls, e) # {}
    PROVE  LoanOf(ls, e) \in ActiveOf(ls, e)
  <1>1. ActiveOf(ls, e) \subseteq Nat
    BY LenProperties DEF ActiveOf
  <1>2. \E k \in ActiveOf(ls, e) : \A j \in ActiveOf(ls, e) : k <= j
    BY <1>1, LeastNumber
  <1> QED
    BY <1>2 DEF LoanOf

LEMMA LoanRow ==
    ASSUME NEW ls \in Seq(Loan), NEW k \in DOMAIN ls
    PROVE  /\ ls[k] \in Loan
           /\ ls[k].employee \in Employees
           /\ ls[k].monthly \in Nat
           /\ ls[k].balance \in Nat
  <1>1. ls[k] \in Loan
    BY LenProperties
  <1> QED
    BY <1>1 DEF Loan

\* A deduction is never more than what the loan still asks for.
LEMMA DeductionFits ==
    ASSUME NEW ls \in Seq(Loan), NEW e
    PROVE  /\ DeductionOf(ls, e) \in Nat
           /\ ActiveOf(ls, e) # {} =>
                 /\ LoanOf(ls, e) \in DOMAIN ls
                 /\ ls[LoanOf(ls, e)].balance - DeductionOf(ls, e) \in Nat
  <1>1. CASE ActiveOf(ls, e) = {}
    BY <1>1 DEF DeductionOf
  <1>2. CASE ActiveOf(ls, e) # {}
    <2> DEFINE k == LoanOf(ls, e)
    <2>1. k \in DOMAIN ls
      BY <1>2, LoanOfIsActive DEF ActiveOf
    <2>2. ls[k].monthly \in Nat /\ ls[k].balance \in Nat
      BY <2>1, LoanRow
    <2>3. DeductionOf(ls, e) = Smaller(ls[k].monthly, ls[k].balance)
      BY <1>2 DEF DeductionOf
    <2> HIDE DEF k
    <2>4. DeductionOf(ls, e) \in Nat /\ ls[k].balance - DeductionOf(ls, e) \in Nat
      BY <2>2, <2>3 DEF Smaller
    <2> QED
      BY <2>1, <2>4 DEF k
  <1> QED
    BY <1>1, <1>2

LEMMA CollectedFits ==
    ASSUME NEW ls \in Seq(Loan), NEW k \in Collected(ls)
    PROVE  /\ k \in DOMAIN ls
           /\ ls[k].balance - DeductionOf(ls, ls[k].employee) \in Nat
  <1>1. /\ k \in DOMAIN ls
        /\ ActiveOf(ls, ls[k].employee) # {}
        /\ k = LoanOf(ls, ls[k].employee)
    BY DEF Collected
  <1> QED
    BY <1>1, DeductionFits

\* What a loan is left with is never less than nothing.
LEMMA LeftFits ==
    ASSUME NEW ls \in Seq(Loan), NEW k \in Collected(ls), NEW listed
    PROVE  k \in DOMAIN ls /\ Left(ls, k, listed) \in Nat
  <1>1. /\ k \in DOMAIN ls /\ ls[k].balance \in Nat
        /\ ls[k].balance - DeductionOf(ls, ls[k].employee) \in Nat
    BY CollectedFits, LoanRow
  <1> QED
    BY <1>1 DEF Left

\* A balance is written to a loan row.
LEMMA BalanceOfALoan ==
    ASSUME NEW row \in Loan, NEW b \in Nat, NEW n \in Nat
    PROVE  [row EXCEPT !.balance = b + n] \in Loan
  BY DEF Loan

LEMMA WithBalanceIsALoan ==
    ASSUME NEW row \in Loan, NEW b \in Nat
    PROVE  WithBalance(row, b) \in Loan
  BY DEF WithBalance, Loan

\* What a line took from an employee is an amount.
LEMMA TakenIsAnAmount ==
    ASSUME NEW lines \in Lines, NEW e \in Employees
    PROVE  TakenFrom(lines, e) \in Nat
  <1> DEFINE taking == {k \in DOMAIN lines[e] : lines[e][k] > 0}
  <1>1. lines[e] \in Seq(Int)
    BY DEF Lines
  <1>2. Len(lines[e]) \in Nat /\ DOMAIN lines[e] = 1..Len(lines[e])
        /\ \A k \in DOMAIN lines[e] : lines[e][k] \in Int
    BY <1>1, LenProperties
  <1>3. CASE taking = {}
    BY <1>3 DEF TakenFrom
  <1>4. CASE taking # {}
    <2>1. \E k \in taking : \A j \in taking : k >= j
      BY <1>2, <1>4, LargestExists
    <2>2. Max(taking) \in taking
      <3> HIDE DEF taking
      <3> QED
        BY <2>1 DEF Max
    <2>3. lines[e][Max(taking)] \in Int /\ lines[e][Max(taking)] > 0
      BY <1>2, <2>2
    <2> QED
      BY <1>4, <2>3 DEF TakenFrom
  <1> QED
    BY <1>3, <1>4

LEMMA RestoredLoans ==
    ASSUME NEW ls \in Seq(Loan), NEW lines \in Lines
    PROVE  /\ Restored(ls, lines) \in Seq(Loan)
           /\ DOMAIN Restored(ls, lines) = DOMAIN ls
  <1>1. Len(ls) \in Nat /\ DOMAIN ls = 1..Len(ls)
    BY LenProperties
  <1>2. ASSUME NEW k \in DOMAIN ls
        PROVE  Restored(ls, lines)[k] \in Loan
    <2>1. ls[k] \in Loan /\ ls[k].employee \in Employees /\ ls[k].balance \in Nat
      BY LoanRow
    <2>2. TakenFrom(lines, ls[k].employee) \in Nat
      BY <2>1, TakenIsAnAmount
    <2>3. [ls[k] EXCEPT !.balance = ls[k].balance + TakenFrom(lines, ls[k].employee)] \in Loan
      BY <2>1, <2>2, BalanceOfALoan
    <2> QED
      BY <2>1, <2>3 DEF Restored
  <1>3. DOMAIN Restored(ls, lines) = 1..Len(ls)
    BY <1>1 DEF Restored
  <1>4. Restored(ls, lines) \in [1..Len(ls) -> Loan]
    BY <1>1, <1>2, <1>3 DEF Restored
  <1> QED
    BY <1>1, <1>3, <1>4

-----------------------------------------------------------------------------
(* The inductive invariant *)

\* The runs that were executed: nothing turns one back into a preview.
RowExecuted(row) ==
    /\ ~row.preview
    /\ row.snapshot
    /\ \E e \in Employees : row.lines[e] # << >>

ExecutedRuns == {i \in RunIds : RowExecuted(run[i])}

PayableStatus == {"approved", "wps_generated", "paid"}

\* A run that is no preview any more was executed, and so was one that can be paid.
Released(row) == row.status \in PayableStatus \/ ~row.preview
RunsOK == \A i \in RunIds : Released(run[i]) => RowExecuted(run[i])

\* What a request may hold when R are the runs, n is the number of loans and X are the
\* executed runs: the rows it is about to write to exist, it has read no more loans than
\* there are, and a run it is about to approve, export or pay was executed.
Sound(h, R, n, X) ==
    /\ h \in Request
    /\ h.at = "execute.commit" => h.run \in {0} \cup R /\ Len(h.seen) <= n
    /\ h.at \in {"create.loans", "create.line", "create.loan"} => h.run \in R
    /\ h.at \in {"create.line", "create.loan"} => Len(h.seen) <= n
    /\ h.at = "create.loan" => DeductionOf(h.seen, h.employee) # 0
    /\ h.at = "balance.write" => h.loan \in 1..n
    /\ h.at \in {"approve.write", "wps.write", "paid.write"} => h.run \in X

HeldIsSound == \A r \in Requests : Sound(req[r], RunIds, Len(loan), ExecutedRuns)

PayrollInv == TypeOK /\ RunsOK /\ HeldIsSound

\* What a step has to show of the tables it leaves.
TablesOK ==
    /\ run \in Seq(Run)
    /\ loan \in Seq(Loan)
    /\ edited \in [Employees -> Int]
    /\ RunsOK

\* The tables move on: rows stay, and an executed run stays executed.
MovesOn ==
    /\ RunIds \subseteq RunIds'
    /\ Len(loan) \in Nat /\ Len(loan') \in Nat /\ Len(loan) <= Len(loan')
    /\ ExecutedRuns \subseteq ExecutedRuns'

\* What a request holds tells which statement it is about to run.
LEMMA RequestShape ==
    ASSUME NEW h \in Request
    PROVE  /\ h.at = "execute.commit" =>
                 h.month \in Months /\ h.run \in Nat /\ h.lines \in Lines /\ h.seen \in Seq(Loan)
           /\ h.at = "create.insert" => h.month \in Months
           /\ h.at \in {"create.loans", "create.line", "create.loan"} => h.run \in Nat \ {0}
           /\ h.at \in {"create.line", "create.loan"} =>
                 h.todo \in SUBSET Employees /\ h.seen \in Seq(Loan)
           /\ h.at = "create.loan" => h.employee \in Employees
           /\ h.at = "balance.write" => h.loan \in Nat \ {0} /\ h.balance \in Nat
  BY DEF Request, Idle

LEMMA IdleIsSound == \A R, n, X : Sound(Idle, R, n, X)
  BY DEF Request, Idle, Sound

\* What a request holds stays sound as the tables move on.
LEMMA SoundLasts ==
    ASSUME NEW h, NEW R, NEW n \in Nat, NEW X, Sound(h, R, n, X),
           NEW S, NEW m \in Nat, NEW Y, R \subseteq S, n <= m, X \subseteq Y
    PROVE  Sound(h, S, m, Y)
  <1>1. h.at \in {"execute.commit", "create.line", "create.loan"} => Len(h.seen) \in Nat
    BY RequestShape, LenProperties DEF Sound
  <1> QED
    BY <1>1 DEF Sound

\* One request moves, and the others may go on with what they hold.
LEMMA OneMoves ==
    ASSUME PayrollInv, NEW r \in Requests, NEW h, Goto(r, h), TablesOK', MovesOn,
           Sound(h, RunIds', Len(loan'), ExecutedRuns')
    PROVE  PayrollInv'
  <1>1. req \in [Requests -> Request] /\ req' = [req EXCEPT ![r] = h] /\ h \in Request
    BY DEF PayrollInv, TypeOK, Goto, Sound
  <1>2. ASSUME NEW q \in Requests
        PROVE  Sound(req'[q], RunIds', Len(loan'), ExecutedRuns')
    <2>1. CASE q = r
      BY <1>1, <2>1
    <2>2. CASE q # r
      <3>1. req'[q] = req[q]
        BY <1>1, <2>2
      <3>2. Sound(req[q], RunIds, Len(loan), ExecutedRuns)
        BY DEF PayrollInv, HeldIsSound
      <3> QED
        BY <3>1, <3>2, SoundLasts DEF MovesOn
    <2> QED
      BY <2>1, <2>2
  <1>3. TypeOK'
    BY <1>1 DEF TablesOK, TypeOK
  <1> QED
    BY <1>2, <1>3 DEF PayrollInv, HeldIsSound, TablesOK

\* A step that leaves the requests alone.
LEMMA NoneMoves ==
    ASSUME PayrollInv, req' = req, TablesOK', MovesOn
    PROVE  PayrollInv'
  <1>1. ASSUME NEW q \in Requests
        PROVE  Sound(req'[q], RunIds', Len(loan'), ExecutedRuns')
    <2>1. Sound(req[q], RunIds, Len(loan), ExecutedRuns)
      BY DEF PayrollInv, HeldIsSound
    <2> QED
      BY <2>1, SoundLasts DEF MovesOn
  <1>2. TypeOK'
    BY DEF TablesOK, TypeOK, PayrollInv
  <1> QED
    BY <1>1, <1>2 DEF PayrollInv, HeldIsSound, TablesOK

-----------------------------------------------------------------------------
(* What the statements do to the tables *)

LEMMA TablesShape ==
    ASSUME PayrollInv
    PROVE  /\ run \in Seq(Run) /\ Len(run) \in Nat /\ RunIds = 1..Len(run)
           /\ \A i \in RunIds : run[i] \in Run
           /\ loan \in Seq(Loan) /\ Len(loan) \in Nat /\ LoanIds = 1..Len(loan)
           /\ \A k \in LoanIds : loan[k] \in Loan
           /\ \A i \in RunIds : Released(run[i]) => RowExecuted(run[i])
           /\ \A r \in Requests : req[r] \in Request
           /\ edited \in [Employees -> Int]
  <1>1. /\ run \in Seq(Run) /\ loan \in Seq(Loan) /\ req \in [Requests -> Request]
        /\ edited \in [Employees -> Int]
    BY DEF PayrollInv, TypeOK
  <1> QED
    BY <1>1, LenProperties
    DEF PayrollInv, RunsOK, RunIds, LoanIds

LEMMA TablesStay ==
    ASSUME PayrollInv, UNCHANGED <<run, loan, edited>>
    PROVE  /\ TablesOK' /\ MovesOn
           /\ RunIds' = RunIds /\ Len(loan') = Len(loan) /\ ExecutedRuns' = ExecutedRuns
  BY TablesShape
  DEF TablesOK, MovesOn, PayrollInv, RunsOK, RunIds, ExecutedRuns

LEMMA LoansStay ==
    ASSUME PayrollInv, UNCHANGED loan
    PROVE  loan' \in Seq(Loan) /\ Len(loan') = Len(loan)
  BY TablesShape

LEMMA RunsStay ==
    ASSUME PayrollInv, UNCHANGED run
    PROVE  /\ run' \in Seq(Run) /\ RunsOK'
           /\ RunIds' = RunIds /\ ExecutedRuns' = ExecutedRuns
  BY TablesShape
  DEF PayrollInv, RunsOK, RunIds, ExecutedRuns, RowExecuted, Released

\* An update of one run that leaves an executed run executed.
LEMMA RunRowChanges ==
    ASSUME PayrollInv, NEW i \in RunIds, NEW row \in Run, run' = [run EXCEPT ![i] = row],
           Released(row) \/ RowExecuted(run[i]) => RowExecuted(row)
    PROVE  /\ run' \in Seq(Run) /\ RunsOK'
           /\ RunIds' = RunIds /\ ExecutedRuns \subseteq ExecutedRuns'
  <1>1. /\ run' \in Seq(Run) /\ Len(run') = Len(run)
        /\ \A j \in RunIds : run'[j] = IF j = i THEN row ELSE run[j]
    BY TablesShape, ExceptSeq
  <1>2. RunIds' = RunIds
    BY <1>1, TablesShape, LenProperties DEF RunIds
  <1>3. \A j \in RunIds :
           Released(run'[j]) \/ RowExecuted(run[j]) => RowExecuted(run'[j])
    BY <1>1, TablesShape
  <1> QED
    BY <1>1, <1>2, <1>3 DEF RunsOK, ExecutedRuns, RowExecuted

\* A new run.
LEMMA RunIsAdded ==
    ASSUME PayrollInv, NEW row \in Run, run' = Append(run, row),
           Released(row) => RowExecuted(row)
    PROVE  /\ run' \in Seq(Run) /\ RunsOK'
           /\ RunIds \subseteq RunIds' /\ Len(run) + 1 \in RunIds'
           /\ ExecutedRuns \subseteq ExecutedRuns'
  <1>1. /\ run' \in Seq(Run) /\ Len(run') = Len(run) + 1
        /\ \A j \in 1..Len(run) : run'[j] = run[j]
        /\ run'[Len(run) + 1] = row
    BY TablesShape, AppendProperties
  <1>2. RunIds' = 1..(Len(run) + 1) /\ RunIds = 1..Len(run)
    BY <1>1, TablesShape, LenProperties DEF RunIds
  <1>3. /\ \A j \in RunIds' : j \in RunIds \/ j = Len(run) + 1
        /\ RunIds \subseteq RunIds' /\ Len(run) + 1 \in RunIds'
    BY <1>2, TablesShape
  <1>4. \A j \in RunIds' : Released(run'[j]) => RowExecuted(run'[j])
    BY <1>1, <1>2, <1>3, TablesShape
  <1>5. \A j \in RunIds : RowExecuted(run[j]) => RowExecuted(run'[j])
    BY <1>1, <1>2
  <1> QED
    BY <1>1, <1>3, <1>4, <1>5 DEF RunsOK, ExecutedRuns, RowExecuted

\* An update of one loan.
LEMMA LoanRowChanges ==
    ASSUME PayrollInv, NEW k \in LoanIds, NEW row \in Loan, loan' = [loan EXCEPT ![k] = row]
    PROVE  loan' \in Seq(Loan) /\ Len(loan') = Len(loan)
  BY TablesShape, ExceptSeq

\* Reads take no more than a note.
LEMMA ReadIsSafe ==
    ASSUME PayrollInv, NEW r \in Requests, NEW h, Only(Goto(r, h)),
           Sound(h, RunIds, Len(loan), ExecutedRuns)
    PROVE  PayrollInv'
  <1>1. Goto(r, h) /\ UNCHANGED <<run, loan, edited>>
    BY DEF Only
  <1> QED
    BY <1>1, TablesStay, OneMoves

\* A statement on payroll_runs.
LEMMA RunWriteIsSafe ==
    ASSUME PayrollInv, NEW r \in Requests, NEW h, Goto(r, h), UNCHANGED <<loan, edited>>,
           run' \in Seq(Run), RunsOK', RunIds \subseteq RunIds',
           ExecutedRuns \subseteq ExecutedRuns',
           Sound(h, RunIds', Len(loan), ExecutedRuns')
    PROVE  PayrollInv'
  <1>1. TablesOK' /\ MovesOn /\ Len(loan') = Len(loan)
    BY TablesShape DEF TablesOK, MovesOn
  <1> QED
    BY <1>1, OneMoves

\* A statement on salary_loans.
LEMMA LoanWriteIsSafe ==
    ASSUME PayrollInv, NEW r \in Requests, NEW h, Goto(r, h), UNCHANGED <<run, edited>>,
           loan' \in Seq(Loan), Len(loan') = Len(loan),
           Sound(h, RunIds, Len(loan), ExecutedRuns)
    PROVE  PayrollInv'
  <1>1. TablesOK' /\ MovesOn
    BY RunsStay, TablesShape DEF TablesOK, MovesOn
  <1> QED
    BY <1>1, RunsStay, OneMoves

-----------------------------------------------------------------------------
(* One lemma per procedure *)

LEMMA InitOK == Init => PayrollInv
  <1> SUFFICES ASSUME Init
               PROVE  PayrollInv
    OBVIOUS
  <1>1. run \in Seq(Run) /\ loan \in Seq(Loan) /\ RunIds = {} /\ Len(loan) = 0
    BY EmptySeq DEF Init, RunIds
  <1>2. \A r \in Requests : req[r] = Idle
    BY DEF Init
  <1>3. req \in [Requests -> Request]
    <2>1. Idle \in Request
      BY DEF Request
    <2> QED
      BY <2>1 DEF Init
  <1>4. edited \in [Employees -> Int]
    BY DEF Init
  <1> QED
    BY <1>1, <1>2, <1>3, <1>4, IdleIsSound DEF PayrollInv, TypeOK, RunsOK, HeldIsSound

\* The selects of executeMonthlyPayroll.
LEMMA ExecuteReadOK ==
    ASSUME PayrollInv, NEW r \in Requests, NEW m \in Months, ExecuteRead(r, m)
    PROVE  PayrollInv'
  <1> DEFINE held(i, lines) == [at |-> "execute.commit", month |-> m, run |-> i,
                                lines |-> lines, seen |-> loan]
  <1>1. ASSUME NEW i \in {0} \cup RunIds, NEW lines \in Lines
        PROVE  Sound(held(i, lines), RunIds, Len(loan), ExecutedRuns)
    BY TablesShape DEF Sound, Request
  <1>2. NoLines \in Lines
    BY DEF NoLines, Lines
  <1>3. \A i \in RunsOf(m) : i \in RunIds /\ run[i].lines \in Lines
    BY TablesShape DEF RunsOf, Run
  <1>4. PICK i \in {0} \cup RunIds, lines \in Lines : Only(Goto(r, held(i, lines)))
    BY <1>2, <1>3 DEF ExecuteRead
  <1> QED
    BY <1>1, <1>4, ReadIsSafe

LEMMA ExecuteCommitOK ==
    ASSUME PayrollInv, NEW r \in Requests, ExecuteCommit(r)
    PROVE  PayrollInv'
  <1> DEFINE i == req[r].run
             ls == Restored(req[r].seen, req[r].lines)
             old == IF i = 0 THEN [month |-> req[r].month, paid |-> FALSE, lines |-> NoLines]
                    ELSE [month |-> req[r].month, paid |-> run[i].paid, lines |-> run[i].lines]
             executed(listed) ==
                [month |-> old.month, status |-> "pending_execution", preview |-> FALSE,
                 snapshot |-> TRUE, paid |-> old.paid,
                 lines |-> LinesReplaced(old.lines, ls, listed)]
  <1>1. /\ req[r].month \in Months /\ req[r].lines \in Lines /\ req[r].seen \in Seq(Loan)
        /\ i \in {0} \cup RunIds /\ Len(req[r].seen) <= Len(loan)
    BY TablesShape, RequestShape DEF ExecuteCommit, PayrollInv, HeldIsSound, Sound
  <1>2. ls \in Seq(Loan)
    BY <1>1, RestoredLoans
  <1>3. PICK listed \in Listings :
           /\ \/ i = 0 /\ run' = Append(run, executed(listed))
              \/ i # 0 /\ run' = [run EXCEPT ![i] = executed(listed)]
           /\ loan' = [k \in LoanIds |->
                         IF k \in Written(req[r].seen, ls, listed)
                         THEN WithBalance(loan[k], Left(ls, k, listed))
                         ELSE loan[k]]
    BY DEF ExecuteCommit
  <1>4. /\ LinesReplaced(old.lines, ls, listed) \in Lines
        /\ \E e \in Employees : LinesReplaced(old.lines, ls, listed)[e] # << >>
    <2>1. \A e \in Employees :
             /\ <<DeductionOf(ls, e)>> \in Seq(Int) /\ << >> \in Seq(Int)
             /\ <<DeductionOf(ls, e)>> # << >>
      BY <1>2, DeductionFits
    <2>2. \E e \in Employees : e \in listed
      BY DEF Listings
    <2> HIDE DEF old, ls
    <2> QED
      BY <2>1, <2>2 DEF LinesReplaced, Lines
  <1>5. executed(listed) \in Run /\ RowExecuted(executed(listed))
    <2>1. old.month \in Months /\ old.paid \in BOOLEAN
      BY <1>1, TablesShape DEF Run
    <2> HIDE DEF old
    <2> QED
      BY <1>4, <2>1 DEF Run, RunStatus, RowExecuted
  <1>6. Goto(r, Idle) /\ UNCHANGED edited
    BY DEF ExecuteCommit, Return
  <1> HIDE DEF ls, executed, i
  <1>7. run' \in Seq(Run) /\ RunsOK' /\ RunIds \subseteq RunIds'
        /\ ExecutedRuns \subseteq ExecutedRuns'
    BY <1>1, <1>3, <1>5, RunRowChanges, RunIsAdded
  <1>8. \A k \in LoanIds : loan'[k] \in Loan
    <2>1. \A k \in Written(req[r].seen, ls, listed) : Left(ls, k, listed) \in Nat
      BY <1>2, LeftFits DEF Written
    <2> QED
      BY <1>3, <2>1, WithBalanceIsALoan, TablesShape
  <1>9. loan' \in [1..Len(loan) -> Loan]
    BY <1>3, <1>8, TablesShape
  <1>10. loan' \in Seq(Loan) /\ Len(loan') = Len(loan)
    BY <1>9, TablesShape, LenProperties
  <1>11. TablesOK' /\ MovesOn
    BY <1>6, <1>7, <1>10, TablesShape DEF TablesOK, MovesOn
  <1> QED
    BY <1>6, <1>11, IdleIsSound, OneMoves

\* createRun: the run, its lines one by one, and the loan of a line after the line.
LEMMA CreateOK ==
    ASSUME PayrollInv, NEW r \in Requests,
           \/ \E m \in Months : CreateRead(r, m)
           \/ CreateInsert(r) \/ CreateLoans(r) \/ CreateLine(r) \/ CreateLoan(r)
    PROVE  PayrollInv'
  <1>0. /\ req[r] \in Request
        /\ Sound(req[r], RunIds, Len(loan), ExecutedRuns)
    BY DEF PayrollInv, TypeOK, HeldIsSound
  <1>1. ASSUME NEW m \in Months, CreateRead(r, m)
        PROVE  PayrollInv'
    <2> DEFINE h == [at |-> "create.insert", month |-> m]
    <2>1. Sound(h, RunIds, Len(loan), ExecutedRuns)
      BY DEF Sound, Request
    <2>2. Only(Goto(r, h))
      BY <1>1 DEF CreateRead
    <2> HIDE DEF h
    <2> QED
      BY <2>1, <2>2, ReadIsSafe
  <1>2. CASE CreateInsert(r)
    <2> DEFINE row == [month |-> req[r].month, status |-> "draft", preview |-> TRUE,
                       snapshot |-> FALSE, paid |-> FALSE, lines |-> NoLines]
               h == [at |-> "create.loans", run |-> Len(run) + 1]
    <2>1. row \in Run /\ ~Released(row)
      BY <1>0, <1>2, RequestShape
      DEF CreateInsert, Run, RunStatus, NoLines, Lines, Released, PayableStatus
    <2>2. run' = Append(run, row) /\ Goto(r, h) /\ UNCHANGED <<loan, edited>>
      BY <1>2 DEF CreateInsert
    <2> HIDE DEF row
    <2>3. /\ run' \in Seq(Run) /\ RunsOK' /\ RunIds \subseteq RunIds'
          /\ Len(run) + 1 \in RunIds' /\ ExecutedRuns \subseteq ExecutedRuns'
      BY <2>1, <2>2, RunIsAdded
    <2>4. Sound(h, RunIds', Len(loan), ExecutedRuns')
      BY <2>3, TablesShape DEF Sound, Request
    <2> HIDE DEF h
    <2> QED
      BY <2>2, <2>3, <2>4, RunWriteIsSafe
  <1>3. CASE CreateLoans(r)
    <2>1. req[r].run \in RunIds /\ req[r].run \in Nat \ {0}
      BY <1>0, <1>3, RequestShape DEF CreateLoans, Sound
    <2>2. PICK listed \in Listings :
             Only(Goto(r, [at |-> "create.line", run |-> req[r].run, todo |-> listed,
                           seen |-> loan]))
      BY <1>3 DEF CreateLoans
    <2> DEFINE h == [at |-> "create.line", run |-> req[r].run, todo |-> listed, seen |-> loan]
    <2>3. Sound(h, RunIds, Len(loan), ExecutedRuns)
      BY <2>1, TablesShape DEF Sound, Request, Listings
    <2>4. Only(Goto(r, h))
      BY <2>2
    <2> HIDE DEF h
    <2> QED
      BY <2>3, <2>4, ReadIsSafe
  <1>4. ASSUME req[r].at \in {"create.line", "create.loan"}, NEW e \in Employees
        PROVE  /\ [at |-> "create.line", run |-> req[r].run, todo |-> req[r].todo \ {e},
                   seen |-> req[r].seen] \in Request
               /\ [at |-> "create.loan", run |-> req[r].run, todo |-> req[r].todo,
                   seen |-> req[r].seen, employee |-> e] \in Request
               /\ req[r].run \in RunIds /\ Len(req[r].seen) <= Len(loan)
    <2>1. /\ req[r].run \in RunIds /\ req[r].run \in Nat \ {0}
          /\ req[r].todo \in SUBSET Employees /\ req[r].seen \in Seq(Loan)
          /\ Len(req[r].seen) <= Len(loan)
      BY <1>0, <1>4, RequestShape DEF Sound
    <2> QED
      BY <2>1 DEF Request
  <1>5. ASSUME req[r].at \in {"create.line", "create.loan"}, NEW e \in Employees,
               NextEmployee(r, e)
        PROVE  \E h : Goto(r, h) /\ \A X : Sound(h, RunIds, Len(loan), X)
    <2> DEFINE h == [at |-> "create.line", run |-> req[r].run, todo |-> req[r].todo \ {e},
                     seen |-> req[r].seen]
    <2>1. \A X : Sound(h, RunIds, Len(loan), X)
      BY ZenonT(60), <1>4, <1>5 DEF Sound
    <2>2. Goto(r, h) \/ Goto(r, Idle)
      BY <1>5 DEF NextEmployee, Return
    <2> HIDE DEF h
    <2> QED
      BY <2>1, <2>2, IdleIsSound
  <1>6. CASE CreateLine(r)
    <2>1. PICK e \in req[r].todo :
             /\ run' = [run EXCEPT ![req[r].run].lines[e] =
                           Append(@, DeductionOf(req[r].seen, e))]
             /\ IF DeductionOf(req[r].seen, e) = 0
                THEN NextEmployee(r, e)
                ELSE Goto(r, [at |-> "create.loan", run |-> req[r].run, todo |-> req[r].todo,
                              seen |-> req[r].seen, employee |-> e])
      BY <1>6 DEF CreateLine
    <2>2. req[r].at = "create.line" /\ UNCHANGED <<loan, edited>>
      BY <1>6 DEF CreateLine
    <2>3. e \in Employees /\ req[r].seen \in Seq(Loan) /\ req[r].run \in RunIds
      BY <1>0, <2>1, <2>2, RequestShape DEF Sound
    <2> DEFINE i == req[r].run
               d == DeductionOf(req[r].seen, e)
               line == Append(run[i].lines[e], d)
               row == [run[i] EXCEPT !.lines = [run[i].lines EXCEPT ![e] = line]]
    <2>4. run[i] \in Run /\ run[i].lines \in Lines /\ run[i].lines[e] \in Seq(Int)
      BY <2>3, TablesShape DEF Run, Lines
    <2>5. line \in Seq(Int) /\ line # << >>
      <3>1. d \in Int
        BY <2>3, DeductionFits
      <3> HIDE DEF d, i
      <3>2. line \in Seq(Int) /\ Len(line) = Len(run[i].lines[e]) + 1
            /\ Len(run[i].lines[e]) \in Nat
        BY <2>4, <3>1, AppendProperties, LenProperties
      <3> QED
        BY <3>2, EmptySeq
    <2>6. run' = [run EXCEPT ![i] = row]
      BY <2>1
    <2> HIDE DEF line, d
    <2>7. /\ row \in Run
          /\ Released(row) <=> Released(run[i])
          /\ RowExecuted(run[i]) => RowExecuted(row)
      BY <2>4, <2>5 DEF Run, Lines, RowExecuted, Released
    <2>8. Released(row) => RowExecuted(row)
      BY <2>3, <2>7, TablesShape
    <2> HIDE DEF row, i
    <2>9. /\ run' \in Seq(Run) /\ RunsOK'
          /\ RunIds' = RunIds /\ ExecutedRuns \subseteq ExecutedRuns'
      BY <2>3, <2>6, <2>7, <2>8, RunRowChanges DEF i
    <2> DEFINE held == [at |-> "create.loan", run |-> req[r].run, todo |-> req[r].todo,
                        seen |-> req[r].seen, employee |-> e]
    <2>10. d # 0 => \A X : Sound(held, RunIds, Len(loan), X)
      BY <1>4, <2>2, <2>3 DEF Sound, d
    <2>11. \E h : Goto(r, h) /\ \A X : Sound(h, RunIds, Len(loan), X)
      BY <1>5, <2>1, <2>2, <2>3, <2>10 DEF d
    <2> HIDE DEF held
    <2> QED
      BY <2>2, <2>9, <2>11, RunWriteIsSafe
  <1>7. CASE CreateLoan(r)
    <2> DEFINE e == req[r].employee
               ls == req[r].seen
               k == LoanOf(ls, e)
               b == ls[k].balance - DeductionOf(ls, e)
    <2>1. /\ req[r].at = "create.loan" /\ UNCHANGED <<run, edited>> /\ NextEmployee(r, e)
          /\ loan' = [loan EXCEPT ![k] = WithBalance(loan[k], b)]
      BY <1>7 DEF CreateLoan
    <2>2. /\ e \in Employees /\ ls \in Seq(Loan) /\ Len(ls) <= Len(loan)
          /\ DeductionOf(ls, e) # 0
      BY <1>0, <2>1, RequestShape DEF Sound
    <2>3. ActiveOf(ls, e) # {}
      BY <2>2 DEF DeductionOf
    <2>4. k \in DOMAIN ls /\ b \in Nat
      BY <2>2, <2>3, DeductionFits
    <2>5. k \in LoanIds
      BY <2>2, <2>4, TablesShape, LenProperties
    <2> HIDE DEF e, ls, k, b
    <2>6. loan' \in Seq(Loan) /\ Len(loan') = Len(loan)
      BY <2>1, <2>4, <2>5, TablesShape, WithBalanceIsALoan, LoanRowChanges
    <2>7. PICK h : Goto(r, h) /\ \A X : Sound(h, RunIds, Len(loan), X)
      BY <1>5, <2>1, <2>2
    <2> QED
      BY <2>1, <2>6, <2>7, LoanWriteIsSafe
  <1> QED
    BY <1>1, <1>2, <1>3, <1>6, <1>7

\* approveRun, generateWpsBankFileForRun and markPaid: the status of a run that was seen
\* executed is written, whatever has been written to the run since.
LEMMA ReleaseOK ==
    ASSUME PayrollInv, NEW r \in Requests,
           BeginMove(r) \/ ApproveWrite(r) \/ WpsWrite(r) \/ PaidWrite(r)
    PROVE  PayrollInv'
  <1>1. ASSUME NEW i \in RunIds, ApproveRead(r, i) \/ WpsRead(r, i) \/ PaidRead(r, i)
        PROVE  PayrollInv'
    <2>1. i \in ExecutedRuns
      BY <1>1, TablesShape DEF ApproveRead, WpsRead, PaidRead, Released, ExecutedRuns
    <2>2. PICK h : /\ Only(Goto(r, h)) /\ h \in Request /\ h.run = i
                   /\ h.at \in {"approve.write", "wps.write", "paid.write"}
      BY <1>1, TablesShape DEF ApproveRead, WpsRead, PaidRead, Request
    <2>3. Sound(h, RunIds, Len(loan), ExecutedRuns)
      BY <2>1, <2>2 DEF Sound
    <2> QED
      BY <2>2, <2>3, ReadIsSafe
  <1>2. CASE ApproveWrite(r) \/ WpsWrite(r) \/ PaidWrite(r)
    <2>1. req[r].run \in ExecutedRuns
      BY <1>2, TablesShape
      DEF ApproveWrite, WpsWrite, PaidWrite, PayrollInv, HeldIsSound, Sound
    <2> DEFINE i == req[r].run
    <2>2. i \in RunIds /\ RowExecuted(run[i]) /\ run[i] \in Run
      BY <2>1, TablesShape DEF ExecutedRuns
    <2>3. PICK row \in Run : RowExecuted(row) /\ run' = [run EXCEPT ![i] = row]
      <3>1. \A s \in RunStatus :
               /\ [run[i] EXCEPT !.status = s] \in Run
               /\ [run[i] EXCEPT !.status = s, !.paid = TRUE] \in Run
               /\ RowExecuted([run[i] EXCEPT !.status = s])
               /\ RowExecuted([run[i] EXCEPT !.status = s, !.paid = TRUE])
        BY <2>2 DEF Run, RowExecuted
      <3>2. \/ run' = [run EXCEPT ![i] = [run[i] EXCEPT !.status = "approved"]]
            \/ run' = [run EXCEPT ![i] = [run[i] EXCEPT !.status = "wps_generated"]]
            \/ run' = [run EXCEPT ![i] = [run[i] EXCEPT !.status = "paid", !.paid = TRUE]]
        BY <1>2 DEF ApproveWrite, WpsWrite, PaidWrite, SetStatus
      <3> QED
        BY <3>1, <3>2 DEF RunStatus
    <2>4. Goto(r, Idle) /\ UNCHANGED <<loan, edited>>
      BY <1>2 DEF ApproveWrite, WpsWrite, PaidWrite, SetStatus, Return
    <2>5. /\ run' \in Seq(Run) /\ RunsOK'
          /\ RunIds' = RunIds /\ ExecutedRuns \subseteq ExecutedRuns'
      BY <2>2, <2>3, RunRowChanges
    <2> QED
      BY <2>4, <2>5, IdleIsSound, RunWriteIsSafe
  <1> QED
    BY <1>1, <1>2 DEF BeginMove

\* updateLineItem: a line may change, none appears or goes.
LEMMA EditOK ==
    ASSUME PayrollInv, NEW i \in RunIds, NEW e \in Employees, NEW d \in Edits,
           NEW k \in DOMAIN run[i].lines[e], EditLine(i, e, k, d)
    PROVE  PayrollInv'
  <1> DEFINE line == [run[i].lines[e] EXCEPT ![k] = d]
             row == [run[i] EXCEPT !.lines = [run[i].lines EXCEPT ![e] = line]]
  <1>1. run[i] \in Run /\ run[i].lines \in Lines /\ run[i].lines[e] \in Seq(Int)
    BY TablesShape DEF Run, Lines
  <1>2. line \in Seq(Int) /\ Len(line) = Len(run[i].lines[e])
    BY <1>1, LenProperties, ExceptSeq, PayrollAssumption
  <1>3. run[i].lines[e] # << >> /\ line # << >>
    BY <1>1, <1>2, LenProperties, EmptySeq
  <1>4. run' = [run EXCEPT ![i] = row] /\ UNCHANGED <<loan, req>>
    BY DEF EditLine
  <1> HIDE DEF line
  <1>5. /\ row \in Run
        /\ Released(row) <=> Released(run[i])
        /\ RowExecuted(run[i]) => RowExecuted(row)
    BY <1>1, <1>2, <1>3 DEF Run, Lines, RowExecuted, Released
  <1>6. Released(row) => RowExecuted(row)
    BY <1>5, TablesShape
  <1> HIDE DEF row
  <1>7. /\ run' \in Seq(Run) /\ RunsOK'
        /\ RunIds' = RunIds /\ ExecutedRuns \subseteq ExecutedRuns'
    BY <1>4, <1>5, <1>6, RunRowChanges
  <1>8. edited' \in [Employees -> Int]
    <2>1. \A n \in Int : Taking(n) \in Int
      BY DEF Taking
    <2>2. d \in Int /\ run[i].lines[e][k] \in Int
      BY <1>1, PayrollAssumption, LenProperties
    <2> DEFINE more == Taking(d) - Taking(run[i].lines[e][k])
    <2>3. more \in Int
      BY <2>1, <2>2
    <2>4. edited' = [edited EXCEPT ![e] = edited[e] + more]
      BY DEF EditLine
    <2> HIDE DEF more
    <2> QED
      BY <2>3, <2>4, TablesShape
  <1>9. TablesOK' /\ MovesOn
    BY <1>4, <1>7, <1>8, LoansStay, TablesShape DEF TablesOK, MovesOn
  <1> QED
    BY <1>4, <1>9, NoneMoves

\* createLoan, updateLoanBalance and cancelLoan.
LEMMA GrantOK ==
    ASSUME PayrollInv, NEW e \in Employees, NEW p \in Principals, NEW n \in Instalments,
           GrantLoan(e, p, n)
    PROVE  PayrollInv'
  <1> DEFINE row == [employee |-> e, principal |-> p, monthly |-> n, balance |-> p,
                     status |-> "active"]
  <1>1. row \in Loan
    BY PayrollAssumption DEF Loan
  <1>2. loan' = Append(loan, row) /\ UNCHANGED <<run, req, edited>>
    BY DEF GrantLoan
  <1> HIDE DEF row
  <1>3. loan' \in Seq(Loan) /\ Len(loan') = Len(loan) + 1
    BY <1>1, <1>2, TablesShape, AppendProperties
  <1>4. TablesOK' /\ MovesOn
    BY <1>2, <1>3, RunsStay, TablesShape DEF TablesOK, MovesOn
  <1> QED
    BY <1>2, <1>4, NoneMoves

LEMMA CancelOK ==
    ASSUME PayrollInv, NEW k \in LoanIds, CancelLoan(k)
    PROVE  PayrollInv'
  <1>1. [loan[k] EXCEPT !.status = "cancelled"] \in Loan
    BY TablesShape DEF Loan
  <1>2. loan' = [loan EXCEPT ![k] = [loan[k] EXCEPT !.status = "cancelled"]]
        /\ UNCHANGED <<run, req, edited>>
    BY DEF CancelLoan
  <1>3. loan' \in Seq(Loan) /\ Len(loan') = Len(loan)
    BY <1>1, <1>2, LoanRowChanges
  <1>4. TablesOK' /\ MovesOn
    BY <1>2, <1>3, RunsStay, TablesShape DEF TablesOK, MovesOn
  <1> QED
    BY <1>2, <1>4, NoneMoves

LEMMA BalanceOK ==
    ASSUME PayrollInv, NEW r \in Requests,
           \/ \E k \in LoanIds, a \in Instalments : BalanceRead(r, k, a)
           \/ BalanceWrite(r)
    PROVE  PayrollInv'
  <1>1. ASSUME NEW k \in LoanIds, NEW a \in Instalments, BalanceRead(r, k, a)
        PROVE  PayrollInv'
    <2> DEFINE b == IF a < loan[k].balance THEN loan[k].balance - a ELSE 0
               h == [at |-> "balance.write", loan |-> k, balance |-> b]
    <2>1. loan[k].balance \in Nat /\ a \in Nat
      BY TablesShape, PayrollAssumption DEF Loan
    <2>2. b \in Nat
      BY <2>1
    <2>3. Only(Goto(r, h))
      BY <1>1 DEF BalanceRead
    <2> HIDE DEF b
    <2>4. Sound(h, RunIds, Len(loan), ExecutedRuns)
      BY <2>2, TablesShape DEF Sound, Request
    <2> HIDE DEF h
    <2> QED
      BY <2>3, <2>4, ReadIsSafe
  <1>2. CASE BalanceWrite(r)
    <2> DEFINE k == req[r].loan
               b == req[r].balance
    <2>1. /\ loan' = [loan EXCEPT ![k] = WithBalance(loan[k], b)]
          /\ Goto(r, Idle) /\ UNCHANGED <<run, edited>>
      BY <1>2 DEF BalanceWrite, Return
    <2>2. k \in LoanIds /\ b \in Nat
      BY <1>2, TablesShape, RequestShape DEF BalanceWrite, PayrollInv, HeldIsSound, Sound
    <2> HIDE DEF k, b
    <2>3. loan' \in Seq(Loan) /\ Len(loan') = Len(loan)
      BY <2>1, <2>2, TablesShape, WithBalanceIsALoan, LoanRowChanges
    <2> QED
      BY <2>1, <2>3, IdleIsSound, LoanWriteIsSafe
  <1> QED
    BY <1>1, <1>2

-----------------------------------------------------------------------------
(* The theorems *)

\* Every statement of every procedure, and its failure, keeps the invariant.
LEMMA StepOK ==
    ASSUME PayrollInv, [Next]_vars
    PROVE  PayrollInv'
  <1>1. CASE AtOnce
    BY <1>1, GrantOK, CancelOK, EditOK DEF AtOnce
  <1>2. ASSUME NEW r \in Requests, BeginWork(r) \/ BeginMove(r)
        PROVE  PayrollInv'
    BY <1>2, ExecuteReadOK, CreateOK, ReleaseOK, BalanceOK DEF BeginWork
  <1>3. ASSUME NEW r \in Requests, Continue(r)
        PROVE  PayrollInv'
    BY <1>3, ExecuteCommitOK, CreateOK, ReleaseOK, BalanceOK DEF Continue
  <1>4. ASSUME NEW r \in Requests, Abort(r)
        PROVE  PayrollInv'
    BY <1>4, IdleIsSound, ReadIsSafe DEF Abort, Return
  <1>5. CASE UNCHANGED vars
    BY <1>5, TablesStay, NoneMoves DEF vars, TablesOK
  <1> QED
    BY <1>1, <1>2, <1>3, <1>4, <1>5 DEF Next, Step

\* Whatever requests overlap and whichever of them die, the invariant holds.
THEOREM PayrollInvariance == Spec => []PayrollInv
  <1>1. PayrollInv /\ [Next]_vars => PayrollInv'
    BY StepOK
  <1> QED
    BY InitOK, <1>1, PTL DEF Spec

\* Runs, loans and requests keep their types: in particular no execution, preview or
\* repayment takes the balance of a loan below zero.
THEOREM PayrollTypeCorrect == Spec => []TypeOK
  <1>1. PayrollInv => TypeOK
    BY DEF PayrollInv
  <1> QED
    BY PayrollInvariance, <1>1, PTL

\* A run that is approved, exported or paid was executed: it is no preview, and it has its
\* attendance snapshot and the lines of those it lists, although approval, export and
\* payment write to a run that they read earlier (payrollAuthoritative.ts:20), over
\* whatever previews, executions and edits wrote to it meanwhile.
THEOREM PayableWasExecuted == Spec => []PayableIsExecuted
  <1>1. PayrollInv => PayableIsExecuted
    BY DEF PayrollInv, RunsOK, Released, RowExecuted, PayableStatus, PayableIsExecuted
  <1> QED
    BY PayrollInvariance, <1>1, PTL

-----------------------------------------------------------------------------
(* When what writes lines or balances neither overlaps nor dies *)

\* One request that writes lines or balances is under way at most.
Working(h) == h # Idle /\ h.at \notin MoveOps
Alone == \A r, q \in Requests : Working(req[r]) /\ Working(req[q]) => r = q

NoRunOf(m, runs) == \A i \in DOMAIN runs : runs[i].month # m
OneRunPerMonth(runs) == \A i, j \in DOMAIN runs : runs[i].month = runs[j].month => i = j
OneLine(lines) == \A e \in Employees : Len(lines[e]) <= 1
OneLineEach(runs) == \A i \in DOMAIN runs : OneLine(runs[i].lines)

\* What a request that works alone knows of the runs: the month it is about to insert
\* has none, the run it is about to execute is that of the month, and the employees its
\* loop has still to visit have no line yet.
Fits(h, runs) ==
    /\ h.at = "create.insert" => NoRunOf(h.month, runs)
    /\ h.at = "execute.commit" =>
          IF h.run = 0 THEN NoRunOf(h.month, runs) ELSE runs[h.run].month = h.month
    /\ h.at = "create.loans" => \A e \in Employees : runs[h.run].lines[e] = << >>
    /\ h.at = "create.line" => \A e \in h.todo : runs[h.run].lines[e] = << >>
    /\ h.at = "create.loan" => \A e \in h.todo \ {h.employee} : runs[h.run].lines[e] = << >>

SerialInv ==
    /\ PayrollInv
    /\ Alone
    /\ OneRunPerMonth(run)
    /\ OneLineEach(run)
    /\ \A r \in Requests : Fits(req[r], run)

\* The statements of a request that works.
WorkOps == {"execute.commit", "create.insert", "create.loans", "create.line", "create.loan",
            "balance.write"}

LEMMA WorkingShape ==
    ASSUME NEW h
    PROVE  /\ h.at \in WorkOps => Working(h)
           /\ h.at \in MoveOps => ~Working(h)
           /\ ~Working(Idle)
           /\ ~Working(h) => h = Idle \/ h.at \in MoveOps
  BY DEF Working, WorkOps, MoveOps, Idle

LEMMA QuietMeans == Quiet <=> \A r \in Requests : ~Working(req[r])
  BY DEF Quiet, Working

\* Who does not work holds nothing that the runs could belie.
LEMMA IdleFits ==
    ASSUME NEW h, ~Working(h)
    PROVE  \A runs : Fits(h, runs)
  BY DEF Fits, Working, MoveOps, Idle

\* What is known of the runs after a step.
RunsSerial == OneRunPerMonth(run) /\ OneLineEach(run)

\* A request works on, or starts to work having found nobody else at it.
LEMMA SerialMove ==
    ASSUME SerialInv, PayrollInv', NEW r \in Requests, Quiet \/ Working(req[r]),
           NEW h, Goto(r, h), RunsSerial', Fits(h, run')
    PROVE  SerialInv'
  <1>1. \A q \in Requests : req'[q] = IF q = r THEN h ELSE req[q]
    BY DEF Goto, SerialInv, PayrollInv, TypeOK
  <1>2. \A q \in Requests \ {r} : ~Working(req'[q])
    BY <1>1, QuietMeans DEF SerialInv, Alone
  <1>3. Alone'
    BY <1>2 DEF Alone
  <1>4. \A q \in Requests : Fits(req'[q], run')
    BY <1>1, <1>2, IdleFits
  <1> QED
    BY <1>3, <1>4 DEF SerialInv, RunsSerial

\* The runs S are the runs R with other statuses.
SameLines(R, S) ==
    /\ DOMAIN S = DOMAIN R
    /\ \A i \in DOMAIN R : S[i].month = R[i].month /\ S[i].lines = R[i].lines

\* What a request knows of the runs it still knows when statuses change.
LEMMA StatusFits ==
    ASSUME NEW h, NEW R, NEW S, SameLines(R, S), NEW n, NEW X, Fits(h, R),
           Sound(h, DOMAIN R, n, X)
    PROVE  Fits(h, S)
  <1>1. h.at = "execute.commit" => h.run = 0 \/ h.run \in DOMAIN R
    BY DEF Sound
  <1>2. h.at \in {"create.loans", "create.line", "create.loan"} => h.run \in DOMAIN R
    BY DEF Sound
  <1>3. \A m : NoRunOf(m, R) => NoRunOf(m, S)
    BY DEF NoRunOf, SameLines
  <1> QED
    BY <1>1, <1>2, <1>3 DEF Fits, SameLines

\* A request that changes statuses moves, whoever works.
LEMMA SerialPass ==
    ASSUME SerialInv, PayrollInv', NEW r \in Requests, ~Working(req[r]),
           NEW h, ~Working(h), Goto(r, h), SameLines(run, run')
    PROVE  SerialInv'
  <1>1. \A q \in Requests : req'[q] = IF q = r THEN h ELSE req[q]
    BY DEF Goto, SerialInv, PayrollInv, TypeOK
  <1>2. Alone'
    BY <1>1 DEF SerialInv, Alone
  <1>3. OneRunPerMonth(run') /\ OneLineEach(run')
    BY DEF SerialInv, OneRunPerMonth, OneLineEach, SameLines
  <1>4. ASSUME NEW q \in Requests
        PROVE  Fits(req'[q], run')
    <2>1. CASE q = r
      BY <1>1, <2>1, IdleFits
    <2>2. CASE q # r
      <3>1. Fits(req[q], run) /\ Sound(req[q], DOMAIN run, Len(loan), ExecutedRuns)
        BY DEF SerialInv, PayrollInv, HeldIsSound, RunIds
      <3>2. Fits(req[q], run')
        BY <3>1, StatusFits
      <3> QED
        BY <1>1, <2>2, <3>2
    <2> QED
      BY <2>1, <2>2
  <1> QED
    BY <1>2, <1>3, <1>4 DEF SerialInv

\* A procedure of one statement, nobody being at work.
LEMMA SerialAtOnce ==
    ASSUME SerialInv, PayrollInv', Quiet, UNCHANGED req, RunsSerial'
    PROVE  SerialInv'
  <1>1. \A q \in Requests : ~Working(req'[q])
    BY QuietMeans
  <1>2. Alone'
    BY <1>1 DEF Alone
  <1>3. \A q \in Requests : Fits(req'[q], run')
    BY <1>1, IdleFits
  <1> QED
    BY <1>2, <1>3 DEF SerialInv, RunsSerial

\* An update of one run that leaves it its month and one line per employee at most.
LEMMA SerialRow ==
    ASSUME SerialInv, NEW i \in RunIds, NEW row, run' = [run EXCEPT ![i] = row],
           row.month = run[i].month, OneLine(row.lines)
    PROVE  RunsSerial' /\ run'[i] = row
  <1>1. \A j \in RunIds : run'[j] = IF j = i THEN row ELSE run[j]
    BY DEF RunIds
  <1>2. DOMAIN run' = RunIds
    BY DEF RunIds
  <1>3. \A j \in RunIds : run'[j].month = run[j].month
    BY <1>1
  <1>4. OneRunPerMonth(run')
    BY <1>2, <1>3 DEF OneRunPerMonth, SerialInv, RunIds
  <1>5. OneLineEach(run')
    BY <1>1, <1>2 DEF OneLineEach, SerialInv, RunIds
  <1> QED
    BY <1>1, <1>4, <1>5 DEF RunsSerial

\* A new run of a month that has none.
LEMMA SerialRun ==
    ASSUME SerialInv, NEW row \in Run, run' = Append(run, row),
           NoRunOf(row.month, run), OneLine(row.lines)
    PROVE  RunsSerial' /\ run'[Len(run) + 1] = row
  <1>1. /\ run' \in Seq(Run) /\ Len(run') = Len(run) + 1
        /\ \A j \in 1..Len(run) : run'[j] = run[j]
        /\ run'[Len(run) + 1] = row
        /\ Len(run) \in Nat /\ RunIds = 1..Len(run)
    BY TablesShape, AppendProperties DEF SerialInv
  <1>2. /\ DOMAIN run' = 1..(Len(run) + 1)
        /\ \A j \in DOMAIN run' : j \in RunIds \/ j = Len(run) + 1
    BY <1>1, LenProperties
  <1>3. \A j \in RunIds : run'[j] = run[j] /\ run'[j].month # row.month
    BY <1>1 DEF NoRunOf, RunIds
  <1>4. OneRunPerMonth(run')
    BY <1>1, <1>2, <1>3 DEF OneRunPerMonth, SerialInv, RunIds
  <1>5. OneLineEach(run')
    BY <1>1, <1>2, <1>3 DEF OneLineEach, SerialInv, RunIds
  <1> QED
    BY <1>1, <1>4, <1>5 DEF RunsSerial

LEMMA SerialRead ==
    ASSUME SerialInv, PayrollInv', NEW r \in Requests, Quiet \/ Working(req[r]),
           NEW h, Only(Goto(r, h)), Fits(h, run)
    PROVE  SerialInv'
  <1>1. Goto(r, h) /\ run' = run
    BY DEF Only
  <1>2. RunsSerial'
    BY <1>1 DEF RunsSerial, SerialInv
  <1> QED
    BY <1>1, <1>2, SerialMove

LEMMA ShortLine == \A x \in Int : Len(<<x>>) <= 1 /\ Len(<< >>) <= 1
  OBVIOUS

\* executeMonthlyPayroll: the month has no run and gets one, or its run gets new lines.
LEMMA SerialExecute ==
    ASSUME SerialInv, PayrollInv', NEW r \in Requests,
           (Quiet /\ \E m \in Months : ExecuteRead(r, m)) \/ ExecuteCommit(r)
    PROVE  SerialInv'
  <1>1. ASSUME Quiet, NEW m \in Months, ExecuteRead(r, m)
        PROVE  SerialInv'
    <2> DEFINE held(i, lines) == [at |-> "execute.commit", month |-> m, run |-> i,
                                  lines |-> lines, seen |-> loan]
    <2>1. RunsOf(m) = {} => NoRunOf(m, run)
      BY DEF RunsOf, NoRunOf, RunIds
    <2>2. CASE RunsOf(m) = {} /\ Only(Goto(r, held(0, NoLines)))
      <3>1. Fits(held(0, NoLines), run)
        BY <2>1, <2>2 DEF Fits
      <3> HIDE DEF held
      <3> QED
        BY <1>1, <2>2, <3>1, SerialRead
    <2>3. ASSUME NEW i \in RunsOf(m), Only(Goto(r, held(i, run[i].lines)))
          PROVE  SerialInv'
      <3>1. i \in 1..Len(run) /\ Len(run) \in Nat /\ run[i].month = m
        BY TablesShape DEF RunsOf, SerialInv
      <3>2. Fits(held(i, run[i].lines), run)
        BY <3>1 DEF Fits
      <3> HIDE DEF held
      <3> QED
        BY <1>1, <2>3, <3>2, SerialRead
    <2> QED
      BY <1>1, <2>2, <2>3 DEF ExecuteRead
  <1>2. CASE ExecuteCommit(r)
    <2> DEFINE i == req[r].run
               ls == Restored(req[r].seen, req[r].lines)
               old == IF i = 0 THEN [month |-> req[r].month, paid |-> FALSE, lines |-> NoLines]
                      ELSE [month |-> req[r].month, paid |-> run[i].paid, lines |-> run[i].lines]
               executed(listed) ==
                  [month |-> old.month, status |-> "pending_execution", preview |-> FALSE,
                   snapshot |-> TRUE, paid |-> old.paid,
                   lines |-> LinesReplaced(old.lines, ls, listed)]
    <2>1. /\ req[r].at = "execute.commit" /\ Working(req[r])
          /\ req[r].month \in Months /\ req[r].lines \in Lines /\ req[r].seen \in Seq(Loan)
          /\ i \in {0} \cup RunIds
      <3>1. req[r].at = "execute.commit"
        BY <1>2 DEF ExecuteCommit
      <3> QED
        BY <3>1, TablesShape, RequestShape, WorkingShape
        DEF SerialInv, PayrollInv, HeldIsSound, Sound, WorkOps
    <2>2. IF i = 0 THEN NoRunOf(req[r].month, run) ELSE run[i].month = req[r].month
      BY <2>1 DEF SerialInv, Fits
    <2>3. ls \in Seq(Loan)
      BY <2>1, RestoredLoans
    <2>4. PICK listed :
             \/ i = 0 /\ run' = Append(run, executed(listed))
             \/ i # 0 /\ run' = [run EXCEPT ![i] = executed(listed)]
      BY <1>2 DEF ExecuteCommit
    <2>5. /\ LinesReplaced(old.lines, ls, listed) \in Lines
          /\ OneLine(LinesReplaced(old.lines, ls, listed))
      <3>1. \A e \in Employees :
               /\ <<DeductionOf(ls, e)>> \in Seq(Int) /\ << >> \in Seq(Int)
               /\ Len(<<DeductionOf(ls, e)>>) <= 1 /\ Len(<< >>) <= 1
        BY <2>3, DeductionFits, ShortLine
      <3> HIDE DEF old, ls
      <3> QED
        BY <3>1 DEF LinesReplaced, Lines, OneLine
    <2>6. /\ executed(listed) \in Run /\ executed(listed).month = req[r].month
          /\ OneLine(executed(listed).lines)
      <3>1. old.month \in Months /\ old.paid \in BOOLEAN /\ old.month = req[r].month
        BY <2>1, TablesShape DEF Run, SerialInv
      <3> HIDE DEF old
      <3> QED
        BY <2>5, <3>1 DEF Run, RunStatus
    <2>7. Goto(r, Idle)
      BY <1>2 DEF ExecuteCommit, Return
    <2> HIDE DEF executed, i
    <2>8. RunsSerial'
      BY <2>1, <2>2, <2>4, <2>6, SerialRow, SerialRun
    <2> QED
      BY SMTT(30), <2>1, <2>7, <2>8, WorkingShape, IdleFits, SerialMove
  <1> QED
    BY <1>1, <1>2

\* createRun: a run without lines for a month that has none, and a line for each employee.
LEMMA SerialCreate ==
    ASSUME SerialInv, PayrollInv', NEW r \in Requests,
           \/ Quiet /\ \E m \in Months : CreateRead(r, m)
           \/ CreateInsert(r) \/ CreateLoans(r) \/ CreateLine(r) \/ CreateLoan(r)
    PROVE  SerialInv'
  <1>0. /\ PayrollInv /\ req[r] \in Request /\ Fits(req[r], run)
        /\ Sound(req[r], RunIds, Len(loan), ExecutedRuns)
    BY DEF SerialInv, PayrollInv, TypeOK, HeldIsSound
  <1>1. ASSUME Quiet, NEW m \in Months, CreateRead(r, m)
        PROVE  SerialInv'
    <2> DEFINE h == [at |-> "create.insert", month |-> m]
    <2>1. Only(Goto(r, h)) /\ NoRunOf(m, run)
      BY <1>1 DEF CreateRead, RunsOf, NoRunOf, RunIds
    <2>2. Fits(h, run)
      BY <2>1 DEF Fits
    <2> HIDE DEF h
    <2> QED
      BY <1>1, <2>1, <2>2, SerialRead
  <1>2. CASE CreateInsert(r)
    <2> DEFINE row == [month |-> req[r].month, status |-> "draft", preview |-> TRUE,
                       snapshot |-> FALSE, paid |-> FALSE, lines |-> NoLines]
               h == [at |-> "create.loans", run |-> Len(run) + 1]
    <2>1. /\ req[r].at = "create.insert"
          /\ run' = Append(run, row) /\ Goto(r, h)
      BY <1>2 DEF CreateInsert
    <2>2. row \in Run /\ NoRunOf(row.month, run) /\ OneLine(row.lines)
      BY <1>0, <2>1, RequestShape, ShortLine
      DEF Fits, Run, RunStatus, NoLines, Lines, OneLine
    <2>3. row.lines = NoLines
      OBVIOUS
    <2> HIDE DEF row
    <2>4. RunsSerial' /\ run'[Len(run) + 1] = row
      BY <2>1, <2>2, SerialRun
    <2>5. Fits(h, run')
      BY <2>3, <2>4 DEF Fits, NoLines
    <2>6. Working(req[r])
      BY <2>1, WorkingShape DEF WorkOps
    <2> HIDE DEF h
    <2> QED
      BY <2>1, <2>4, <2>5, <2>6, SerialMove
  <1>3. CASE CreateLoans(r)
    <2>1. req[r].at = "create.loans" /\ Working(req[r])
      BY <1>3, WorkingShape DEF CreateLoans, WorkOps
    <2>2. PICK listed \in Listings :
             Only(Goto(r, [at |-> "create.line", run |-> req[r].run, todo |-> listed,
                           seen |-> loan]))
      BY <1>3 DEF CreateLoans
    <2> DEFINE h == [at |-> "create.line", run |-> req[r].run, todo |-> listed, seen |-> loan]
    <2>3. Fits(h, run)
      BY <1>0, <2>1 DEF Fits, Listings
    <2>4. Only(Goto(r, h))
      BY <2>2
    <2> HIDE DEF h
    <2> QED
      BY <2>1, <2>3, <2>4, SerialRead
  <1>4. ASSUME NEW e \in Employees, NEW runs, NextEmployee(r, e),
               \A f \in req[r].todo \ {e} : runs[req[r].run].lines[f] = << >>
        PROVE  \E h : Goto(r, h) /\ Fits(h, runs)
    <2> DEFINE h == [at |-> "create.line", run |-> req[r].run, todo |-> req[r].todo \ {e},
                     seen |-> req[r].seen]
    <2>1. Fits(h, runs)
      BY <1>4 DEF Fits
    <2>2. Goto(r, h) \/ Goto(r, Idle)
      BY <1>4 DEF NextEmployee, Return
    <2> HIDE DEF h
    <2> QED
      BY <2>1, <2>2, WorkingShape, IdleFits
  <1>5. CASE CreateLine(r)
    <2>1. PICK e \in req[r].todo :
             /\ run' = [run EXCEPT ![req[r].run].lines[e] =
                           Append(@, DeductionOf(req[r].seen, e))]
             /\ IF DeductionOf(req[r].seen, e) = 0
                THEN NextEmployee(r, e)
                ELSE Goto(r, [at |-> "create.loan", run |-> req[r].run, todo |-> req[r].todo,
                              seen |-> req[r].seen, employee |-> e])
      BY <1>5 DEF CreateLine
    <2>2. req[r].at = "create.line" /\ Working(req[r])
      <3>1. req[r].at = "create.line"
        BY <1>5 DEF CreateLine
      <3> QED
        BY SMTT(30), <3>1, WorkingShape DEF WorkOps
    <2>3. /\ e \in Employees /\ req[r].run \in RunIds /\ req[r].todo \in SUBSET Employees
          /\ \A f \in req[r].todo : run[req[r].run].lines[f] = << >>
      BY <1>0, <2>1, <2>2, RequestShape DEF Sound, Fits
    <2> DEFINE i == req[r].run
               d == DeductionOf(req[r].seen, e)
               line == Append(run[i].lines[e], d)
               row == [run[i] EXCEPT !.lines = [run[i].lines EXCEPT ![e] = line]]
    <2>4. run[i] \in Run /\ run[i].lines \in Lines /\ OneLine(run[i].lines)
      BY <1>0, <2>3, TablesShape DEF Run, SerialInv, OneLineEach, RunIds
    <2>5. Len(line) <= 1
      <3>1. d \in Nat
        BY <1>0, <2>2, RequestShape, DeductionFits
      <3>2. run[i].lines[e] = << >>
        BY <2>1, <2>3
      <3> HIDE DEF d, i
      <3> QED
        BY <3>1, <3>2, EmptySeq, AppendProperties
    <2>6. run' = [run EXCEPT ![i] = row]
      BY <2>1
    <2> HIDE DEF line, d
    <2>7. /\ row.month = run[i].month /\ OneLine(row.lines)
          /\ \A f \in req[r].todo \ {e} : row.lines[f] = << >>
      BY <2>3, <2>4, <2>5 DEF Run, Lines, OneLine
    <2> HIDE DEF row
    <2>8. RunsSerial' /\ run'[i] = row
      BY <2>3, <2>6, <2>7, SerialRow
    <2>9. \A f \in req[r].todo \ {e} : run'[i].lines[f] = << >>
      BY <2>7, <2>8
    <2> DEFINE held == [at |-> "create.loan", run |-> req[r].run, todo |-> req[r].todo,
                        seen |-> req[r].seen, employee |-> e]
    <2>10. Fits(held, run')
      BY <2>9 DEF Fits
    <2> HIDE DEF held, i
    <2>11. PICK h : Goto(r, h) /\ Fits(h, run')
      BY <1>4, <2>1, <2>3, <2>9, <2>10 DEF held, d, i
    <2> QED
      BY SMTT(30), <2>2, <2>8, <2>11, SerialMove
  <1>6. CASE CreateLoan(r)
    <2>1. /\ req[r].at = "create.loan" /\ Working(req[r]) /\ run' = run
          /\ NextEmployee(r, req[r].employee)
      BY <1>6, WorkingShape DEF CreateLoan, WorkOps
    <2>2. /\ req[r].employee \in Employees
          /\ \A f \in req[r].todo \ {req[r].employee} : run[req[r].run].lines[f] = << >>
      BY <1>0, <2>1, RequestShape DEF Fits
    <2>3. PICK h : Goto(r, h) /\ Fits(h, run)
      BY <1>4, <2>1, <2>2
    <2>4. RunsSerial' /\ Fits(h, run')
      BY <2>1, <2>3 DEF RunsSerial, SerialInv
    <2> QED
      BY <2>1, <2>3, <2>4, SerialMove
  <1> QED
    BY <1>1, <1>2, <1>3, <1>5, <1>6

\* What approveRun, generateWpsBankFileForRun and markPaid write to a run.
StatusWritten(i) ==
    \/ run' = [run EXCEPT ![i] = [run[i] EXCEPT !.status = "approved"]]
    \/ run' = [run EXCEPT ![i] = [run[i] EXCEPT !.status = "wps_generated"]]
    \/ run' = [run EXCEPT ![i] = [run[i] EXCEPT !.status = "paid", !.paid = TRUE]]

LEMMA StatusIsWritten ==
    ASSUME NEW r \in Requests, ApproveWrite(r) \/ WpsWrite(r) \/ PaidWrite(r)
    PROVE  /\ req[r].at \in MoveOps /\ Goto(r, Idle) /\ StatusWritten(req[r].run)
           /\ UNCHANGED <<loan, edited>>
  BY DEF ApproveWrite, WpsWrite, PaidWrite, SetStatus, Return, StatusWritten, MoveOps

LEMMA StatusOnly ==
    ASSUME PayrollInv, NEW i \in RunIds, StatusWritten(i)
    PROVE  SameLines(run, run')
  <1>1. run[i] \in Run
    BY TablesShape
  <1>2. PICK row : /\ run' = [run EXCEPT ![i] = row]
                   /\ row.month = run[i].month /\ row.lines = run[i].lines
    BY <1>1 DEF StatusWritten, Run
  <1> QED
    BY <1>2 DEF SameLines, RunIds

\* approveRun, generateWpsBankFileForRun and markPaid write no lines.
LEMMA SerialRelease ==
    ASSUME SerialInv, PayrollInv', NEW r \in Requests,
           BeginMove(r) \/ ApproveWrite(r) \/ WpsWrite(r) \/ PaidWrite(r)
    PROVE  SerialInv'
  <1>1. CASE BeginMove(r)
    <2>1. PICK h : Only(Goto(r, h)) /\ h.at \in MoveOps /\ req[r] = Idle
      BY <1>1 DEF BeginMove, ApproveRead, WpsRead, PaidRead, MoveOps
    <2>2. Goto(r, h) /\ SameLines(run, run')
      BY <2>1 DEF Only, SameLines
    <2>3. ~Working(h) /\ ~Working(req[r])
      BY <2>1, WorkingShape
    <2> QED
      BY <2>2, <2>3, SerialPass
  <1>2. CASE ApproveWrite(r) \/ WpsWrite(r) \/ PaidWrite(r)
    <2>1. req[r].at \in MoveOps /\ Goto(r, Idle) /\ StatusWritten(req[r].run)
      BY <1>2, StatusIsWritten
    <2>2. req[r].run \in RunIds
      BY <2>1 DEF SerialInv, PayrollInv, HeldIsSound, Sound, ExecutedRuns, MoveOps
    <2>3. SameLines(run, run')
      BY <2>1, <2>2, StatusOnly DEF SerialInv
    <2>4. ~Working(req[r]) /\ ~Working(Idle)
      BY <2>1, WorkingShape
    <2> QED
      BY <2>1, <2>3, <2>4, SerialPass
  <1> QED
    BY <1>1, <1>2

\* The procedures on salary_loans write no lines either.
LEMMA SerialBalance ==
    ASSUME SerialInv, PayrollInv', NEW r \in Requests,
           \/ Quiet /\ \E k \in LoanIds, a \in Instalments : BalanceRead(r, k, a)
           \/ BalanceWrite(r)
    PROVE  SerialInv'
  <1>1. CASE Quiet /\ \E k \in LoanIds, a \in Instalments : BalanceRead(r, k, a)
    <2>1. PICK h : Only(Goto(r, h)) /\ h.at = "balance.write"
      BY <1>1 DEF BalanceRead
    <2>2. Fits(h, run)
      BY <2>1 DEF Fits
    <2> QED
      BY <1>1, <2>1, <2>2, SerialRead
  <1>2. CASE BalanceWrite(r)
    <2>1. req[r].at = "balance.write" /\ Goto(r, Idle) /\ run' = run
      BY <1>2 DEF BalanceWrite, Return
    <2>2. RunsSerial'
      BY <2>1 DEF RunsSerial, SerialInv
    <2>3. Working(req[r]) /\ Fits(Idle, run')
      BY <2>1, WorkingShape, IdleFits DEF WorkOps
    <2> QED
      BY <2>1, <2>2, <2>3, SerialMove
  <1> QED
    BY <1>1, <1>2

LEMMA SerialOnce ==
    ASSUME SerialInv, PayrollInv', Quiet, AtOnce
    PROVE  SerialInv'
  <1>1. CASE run' = run /\ req' = req
    BY <1>1, SerialAtOnce DEF RunsSerial, SerialInv
  <1>2. ASSUME NEW i \in RunIds, NEW e \in Employees, NEW d \in Edits,
               NEW k \in DOMAIN run[i].lines[e], EditLine(i, e, k, d)
        PROVE  SerialInv'
    <2> DEFINE line == [run[i].lines[e] EXCEPT ![k] = d]
               row == [run[i] EXCEPT !.lines = [run[i].lines EXCEPT ![e] = line]]
    <2>1. /\ run[i] \in Run /\ run[i].lines \in Lines /\ run[i].lines[e] \in Seq(Int)
          /\ OneLine(run[i].lines)
      BY TablesShape DEF Run, Lines, SerialInv, OneLineEach, RunIds
    <2>2. Len(line) = Len(run[i].lines[e])
      BY <2>1, LenProperties, ExceptSeq, PayrollAssumption
    <2>3. run' = [run EXCEPT ![i] = row] /\ req' = req
      BY <1>2 DEF EditLine
    <2> HIDE DEF line
    <2>4. row.month = run[i].month /\ OneLine(row.lines)
      BY <2>1, <2>2 DEF Run, Lines, OneLine
    <2> HIDE DEF row
    <2>5. RunsSerial'
      BY <2>3, <2>4, SerialRow
    <2> QED
      BY <2>3, <2>5, SerialAtOnce
  <1> QED
    BY <1>1, <1>2 DEF AtOnce, GrantLoan, CancelLoan

LEMMA SerialInitOK == Init => SerialInv
  <1> SUFFICES ASSUME Init
               PROVE  SerialInv
    OBVIOUS
  <1>1. run = << >> /\ \A r \in Requests : req[r] = Idle
    BY DEF Init
  <1>2. OneRunPerMonth(run) /\ OneLineEach(run)
    BY <1>1 DEF OneRunPerMonth, OneLineEach
  <1>3. Alone
    BY <1>1 DEF Alone, Working
  <1> QED
    BY <1>1, <1>2, <1>3, InitOK, WorkingShape, IdleFits DEF SerialInv

LEMMA SerialStepOK ==
    ASSUME SerialInv, [SerialNext]_vars
    PROVE  SerialInv'
  <1>1. PayrollInv'
    BY StepOK DEF SerialInv, SerialNext, Next, Step
  <1>2. CASE Quiet /\ AtOnce
    BY <1>1, <1>2, SerialOnce
  <1>3. ASSUME NEW r \in Requests, Quiet, BeginWork(r)
        PROVE  SerialInv'
    BY <1>1, <1>3, SerialExecute, SerialCreate, SerialBalance DEF BeginWork
  <1>4. ASSUME NEW r \in Requests, BeginMove(r) \/ Continue(r)
        PROVE  SerialInv'
    BY <1>1, <1>4, SerialExecute, SerialCreate, SerialRelease, SerialBalance DEF Continue
  <1>5. CASE UNCHANGED vars
    <2>1. run' = run /\ req' = req
      BY <1>5 DEF vars
    <2> QED
      BY <1>1, <2>1 DEF SerialInv, Alone
  <1> QED
    BY <1>2, <1>3, <1>4, <1>5 DEF SerialNext

\* A month that is previewed, executed and executed again, one request after the other and
\* whatever approvals, exports and payments overlap with them,
\* has one run and an employee one line in it: a preview refuses a month that has a run,
\* an execution takes it over and replaces its lines.
THEOREM OnePayslipEach == SerialSpec => []OnePayslip
  <1>1. Init => SerialInv
    BY SerialInitOK
  <1>2. SerialInv /\ [SerialNext]_vars => SerialInv'
    BY SerialStepOK
  <1>3. SerialInv => OnePayslip
    <2> SUFFICES ASSUME SerialInv, NEW m \in Months, NEW e \in Employees,
                        NEW i \in RunsOf(m), NEW j \in RunsOf(m),
                        NEW k \in DOMAIN run[i].lines[e], NEW n \in DOMAIN run[j].lines[e]
                 PROVE  i = j /\ k = n
      BY DEF OnePayslip
    <2>1. i = j
      BY DEF RunsOf, SerialInv, OneRunPerMonth, RunIds
    <2>2. run[i].lines[e] \in Seq(Int) /\ Len(run[i].lines[e]) <= 1
      BY TablesShape DEF RunsOf, RunIds, SerialInv, OneLineEach, OneLine, Run, Lines
    <2>3. k \in 1..Len(run[i].lines[e]) /\ n \in 1..Len(run[i].lines[e])
          /\ Len(run[i].lines[e]) \in Nat
      BY <2>1, <2>2, LenProperties
    <2> QED
      BY <2>1, <2>2, <2>3
  <1> QED
    BY <1>1, <1>2, <1>3, PTL DEF SerialSpec

-----------------------------------------------------------------------------
(* What the payrolls took and the loans ask for *)

\* What a line takes, and over all runs R what they take from employee e.
LineOf(line) == IF line = << >> THEN 0 ELSE Taking(line[1])
Charges(R, e) == [i \in DOMAIN R |-> LineOf(R[i].lines[e])]
ChargedTo(R, e) == Total(Charges(R, e), DOMAIN R)

\* What the loans L of employee e still ask for, and what was lent.
OwnLoans(L, e) == {k \in DOMAIN L : L[k].employee = e}
Balances(L) == [k \in DOMAIN L |-> L[k].balance]
Granted(L) == [k \in DOMAIN L |-> L[k].principal]
OwedBy(L, e) == Total(Balances(L), OwnLoans(L, e))
LentTo(L, e) == Total(Granted(L), OwnLoans(L, e))

LEMMA LineOfOne == LineOf(<< >>) = 0 /\ \A d \in Nat : LineOf(<<d>>) = d
  <1>1. LineOf(<< >>) = 0
    BY DEF LineOf
  <1>2. ASSUME NEW d \in Nat
        PROVE  LineOf(<<d>>) = d
    <2>1. <<d>> # << >> /\ <<d>>[1] = d
      OBVIOUS
    <2> QED
      BY <2>1 DEF LineOf, Taking
  <1> QED
    BY <1>1, <1>2

LEMMA LineIsAmount ==
    ASSUME NEW line \in Seq(Int)
    PROVE  LineOf(line) \in Nat
  <1>1. CASE line = << >>
    BY <1>1 DEF LineOf
  <1>2. CASE line # << >>
    <2>1. line[1] \in Int
      BY <1>2, EmptySeq, LenProperties
    <2> QED
      BY <1>2, <2>1 DEF LineOf, Taking
  <1> QED
    BY <1>1, <1>2

LEMMA ChargedShape ==
    ASSUME NEW R \in Seq(Run), NEW e \in Employees
    PROVE  /\ IsFiniteSet(DOMAIN R) /\ DOMAIN R = 1..Len(R) /\ Len(R) \in Nat
           /\ \A i \in DOMAIN R : /\ Charges(R, e)[i] = LineOf(R[i].lines[e])
                                  /\ Charges(R, e)[i] \in Int
           /\ ChargedTo(R, e) \in Int
  <1>1. IsFiniteSet(DOMAIN R) /\ DOMAIN R = 1..Len(R) /\ Len(R) \in Nat
    BY LenProperties, FS_Interval
  <1>2. ASSUME NEW i \in DOMAIN R
        PROVE  /\ Charges(R, e)[i] = LineOf(R[i].lines[e])
               /\ Charges(R, e)[i] \in Int
    <2>1. R[i] \in Run
      BY <1>1
    <2>2. R[i].lines \in Lines
      BY <2>1 DEF Run
    <2>3. R[i].lines[e] \in Seq(Int)
      BY <2>2 DEF Lines
    <2> QED
      BY <2>3, LineIsAmount DEF Charges
  <1> QED
    BY <1>1, <1>2, TotalIsInt DEF ChargedTo

\* One run gets other lines.
LEMMA ChargedReplaced ==
    ASSUME NEW R \in Seq(Run), NEW S \in Seq(Run), NEW e \in Employees,
           DOMAIN S = DOMAIN R, NEW i \in DOMAIN R,
           \A j \in DOMAIN R \ {i} : S[j].lines[e] = R[j].lines[e]
    PROVE  ChargedTo(S, e) = ChargedTo(R, e) + LineOf(S[i].lines[e]) - LineOf(R[i].lines[e])
  <1>1. /\ IsFiniteSet(DOMAIN R)
        /\ \A j \in DOMAIN R : Charges(R, e)[j] \in Int /\ Charges(S, e)[j] \in Int
        /\ Charges(R, e)[i] = LineOf(R[i].lines[e]) /\ Charges(S, e)[i] = LineOf(S[i].lines[e])
    BY ChargedShape
  <1>2. \A j \in DOMAIN R \ {i} : Charges(S, e)[j] = Charges(R, e)[j]
    BY DEF Charges
  <1>3. Total(Charges(S, e), DOMAIN R)
           = Total(Charges(R, e), DOMAIN R) + Charges(S, e)[i] - Charges(R, e)[i]
    BY <1>1, <1>2, TotalWithChange
  <1> QED
    BY <1>1, <1>3 DEF ChargedTo

RowWritten(R, S, i, row) == S = [R EXCEPT ![i] = row]

LEMMA ChargedRow ==
    ASSUME NEW R \in Seq(Run), NEW S \in Seq(Run), NEW i \in DOMAIN R, NEW row,
           RowWritten(R, S, i, row), NEW e \in Employees
    PROVE  ChargedTo(S, e) = ChargedTo(R, e) + (LineOf(row.lines[e]) - LineOf(R[i].lines[e]))
  <1>1. /\ DOMAIN S = DOMAIN R /\ S[i] = row
        /\ \A j \in DOMAIN R \ {i} : S[j].lines[e] = R[j].lines[e]
    BY DEF RowWritten
  <1>2. ChargedTo(S, e) = ChargedTo(R, e) + LineOf(S[i].lines[e]) - LineOf(R[i].lines[e])
    BY <1>1, ChargedReplaced
  <1>3. /\ Charges(S, e)[i] = LineOf(row.lines[e]) /\ Charges(S, e)[i] \in Int
        /\ Charges(R, e)[i] = LineOf(R[i].lines[e]) /\ Charges(R, e)[i] \in Int
        /\ ChargedTo(R, e) \in Int
    BY <1>1, ChargedShape
  <1> QED
    BY <1>1, <1>2, <1>3

\* A run is added.
LEMMA ChargedMore ==
    ASSUME NEW R \in Seq(Run), NEW row \in Run, NEW e \in Employees
    PROVE  ChargedTo(Append(R, row), e) = ChargedTo(R, e) + LineOf(row.lines[e])
  <1> DEFINE S == Append(R, row)
             n == Len(R) + 1
  <1>1. /\ S \in Seq(Run) /\ Len(S) = n /\ S[n] = row
        /\ \A j \in 1..Len(R) : S[j] = R[j]
        /\ DOMAIN R = 1..Len(R) /\ Len(R) \in Nat /\ IsFiniteSet(DOMAIN R)
    BY AppendProperties, ChargedShape
  <1> HIDE DEF S
  <1>2. DOMAIN S = DOMAIN R \cup {n} /\ n \notin DOMAIN R /\ n \in DOMAIN S
    BY <1>1, LenProperties
  <1>3. /\ \A j \in DOMAIN R : Charges(R, e)[j] \in Int /\ Charges(S, e)[j] = Charges(R, e)[j]
        /\ Charges(S, e)[n] = LineOf(row.lines[e]) /\ Charges(S, e)[n] \in Int
    BY <1>1, <1>2, ChargedShape
  <1> HIDE DEF n
  <1>4. Total(Charges(S, e), DOMAIN R \cup {n}) = Charges(S, e)[n] + Total(Charges(R, e), DOMAIN R)
    <2>1. PICK g, h : g = Charges(R, e) /\ h = Charges(S, e)
      OBVIOUS
    <2>2. PICK D : D = DOMAIN R
      OBVIOUS
    <2>3. /\ IsFiniteSet(D) /\ n \notin D /\ h[n] \in Int
          /\ \A j \in D : g[j] \in Int /\ h[j] = g[j]
      BY <1>1, <1>2, <1>3, <2>1, <2>2
    <2>4. Total(h, D \cup {n}) = h[n] + Total(g, D)
      BY <2>3, TotalWithOneMore
    <2> QED
      BY <2>1, <2>2, <2>4
  <1>5. ChargedTo(R, e) \in Int
    BY ChargedShape
  <1>6. ChargedTo(S, e) = ChargedTo(R, e) + LineOf(row.lines[e])
    BY <1>2, <1>3, <1>4, <1>5 DEF ChargedTo
  <1> QED
    BY <1>6 DEF S

LEMMA LoansShape ==
    ASSUME NEW L \in Seq(Loan), NEW e
    PROVE  /\ IsFiniteSet(OwnLoans(L, e)) /\ OwnLoans(L, e) \subseteq DOMAIN L
           /\ DOMAIN L = 1..Len(L) /\ Len(L) \in Nat
           /\ \A k \in DOMAIN L :
                 /\ Balances(L)[k] = L[k].balance /\ Granted(L)[k] = L[k].principal
                 /\ Balances(L)[k] \in Int /\ Granted(L)[k] \in Int
           /\ OwedBy(L, e) \in Int /\ LentTo(L, e) \in Int
  <1>1. IsFiniteSet(DOMAIN L) /\ DOMAIN L = 1..Len(L) /\ Len(L) \in Nat
    BY LenProperties, FS_Interval
  <1>2. OwnLoans(L, e) \subseteq DOMAIN L
    BY DEF OwnLoans
  <1>3. IsFiniteSet(OwnLoans(L, e))
    BY <1>1, <1>2, FS_Subset
  <1>4. ASSUME NEW k \in DOMAIN L
        PROVE  /\ Balances(L)[k] = L[k].balance /\ Granted(L)[k] = L[k].principal
               /\ Balances(L)[k] \in Int /\ Granted(L)[k] \in Int
    <2>1. L[k].balance \in Nat /\ L[k].principal \in Nat
      BY LoanRow DEF Loan
    <2> QED
      BY <2>1 DEF Balances, Granted
  <1>5. OwedBy(L, e) \in Int
    BY <1>2, <1>3, <1>4, TotalIsInt DEF OwedBy
  <1>6. LentTo(L, e) \in Int
    BY <1>2, <1>3, <1>4, TotalIsInt DEF LentTo
  <1> QED
    BY <1>1, <1>2, <1>3, <1>4, <1>5, <1>6

\* The loans M are the loans L with other balances.
SameLoans(L, M) ==
    /\ DOMAIN M = DOMAIN L
    /\ \A k \in DOMAIN L : M[k].employee = L[k].employee /\ M[k].principal = L[k].principal

LEMMA LentStays ==
    ASSUME NEW L \in Seq(Loan), NEW M \in Seq(Loan), SameLoans(L, M), NEW e
    PROVE  OwnLoans(M, e) = OwnLoans(L, e) /\ LentTo(M, e) = LentTo(L, e)
  <1>1. OwnLoans(M, e) = OwnLoans(L, e)
    BY DEF OwnLoans, SameLoans
  <1>2. \A k \in OwnLoans(L, e) : Granted(M)[k] = Granted(L)[k]
    BY DEF OwnLoans, Granted, SameLoans
  <1>3. IsFiniteSet(OwnLoans(L, e))
    BY LoansShape
  <1>4. Total(Granted(M), OwnLoans(L, e)) = Total(Granted(L), OwnLoans(L, e))
    BY <1>2, <1>3, TotalSame
  <1> QED
    BY <1>1, <1>4 DEF LentTo

\* None of an employee's loans changes its balance, or one does.
LEMMA OwedStays ==
    ASSUME NEW L \in Seq(Loan), NEW M \in Seq(Loan), SameLoans(L, M), NEW e,
           \A k \in OwnLoans(L, e) : M[k].balance = L[k].balance
    PROVE  OwedBy(M, e) = OwedBy(L, e)
  <1>1. OwnLoans(M, e) = OwnLoans(L, e)
    BY LentStays
  <1>2. IsFiniteSet(OwnLoans(L, e)) /\ \A k \in OwnLoans(L, e) : k \in DOMAIN L /\ k \in DOMAIN M
    BY <1>1, LoansShape
  <1>3. \A k \in OwnLoans(L, e) : Balances(M)[k] = Balances(L)[k]
    BY <1>2 DEF Balances
  <1>4. Total(Balances(M), OwnLoans(L, e)) = Total(Balances(L), OwnLoans(L, e))
    BY <1>2, <1>3, TotalSame
  <1> QED
    BY <1>1, <1>4 DEF OwedBy

LEMMA OwedChanges ==
    ASSUME NEW L \in Seq(Loan), NEW M \in Seq(Loan), SameLoans(L, M), NEW e,
           NEW k \in OwnLoans(L, e),
           \A j \in OwnLoans(L, e) \ {k} : M[j].balance = L[j].balance
    PROVE  OwedBy(M, e) = OwedBy(L, e) + M[k].balance - L[k].balance
  <1>1. OwnLoans(M, e) = OwnLoans(L, e)
    BY LentStays
  <1>2. IsFiniteSet(OwnLoans(L, e)) /\ \A j \in OwnLoans(L, e) : j \in DOMAIN L /\ j \in DOMAIN M
    BY <1>1, LoansShape
  <1>3. \A j \in OwnLoans(L, e) :
           /\ Balances(L)[j] \in Int /\ Balances(M)[j] \in Int
           /\ Balances(L)[j] = L[j].balance /\ Balances(M)[j] = M[j].balance
    BY <1>2, LoansShape
  <1>4. \A j \in OwnLoans(L, e) \ {k} : Balances(M)[j] = Balances(L)[j]
    BY <1>3
  <1>5. Total(Balances(M), OwnLoans(L, e))
           = Total(Balances(L), OwnLoans(L, e)) + Balances(M)[k] - Balances(L)[k]
    BY <1>2, <1>3, <1>4, TotalWithChange
  <1> QED
    BY <1>1, <1>3, <1>5 DEF OwedBy

\* A loan is granted: it asks for what was lent.
LEMMA LoanGranted ==
    ASSUME NEW L \in Seq(Loan), NEW row \in Loan, row.balance = row.principal, NEW e
    PROVE  OwedBy(Append(L, row), e) - LentTo(Append(L, row), e) = OwedBy(L, e) - LentTo(L, e)
  <1> DEFINE M == Append(L, row)
             n == Len(L) + 1
  <1>1. /\ M \in Seq(Loan) /\ Len(M) = n /\ M[n] = row
        /\ \A j \in 1..Len(L) : M[j] = L[j]
        /\ DOMAIN L = 1..Len(L) /\ Len(L) \in Nat
    BY AppendProperties, LenProperties
  <1> HIDE DEF M
  <1>2. DOMAIN M = DOMAIN L \cup {n} /\ n \notin DOMAIN L /\ n \in DOMAIN M
    BY <1>1, LenProperties
  <1>3. /\ \A j \in DOMAIN L : /\ Balances(L)[j] \in Int /\ Balances(M)[j] = Balances(L)[j]
                               /\ Granted(L)[j] \in Int /\ Granted(M)[j] = Granted(L)[j]
        /\ Balances(M)[n] \in Int /\ Granted(M)[n] = Balances(M)[n]
    <2>1. \A j \in DOMAIN L : M[j] = L[j] /\ j \in DOMAIN M
      BY <1>1, <1>2
    <2>2. /\ \A j \in DOMAIN L : /\ Balances(L)[j] = L[j].balance /\ Balances(L)[j] \in Int
                                  /\ Granted(L)[j] = L[j].principal /\ Granted(L)[j] \in Int
          /\ \A j \in DOMAIN M : /\ Balances(M)[j] = M[j].balance /\ Balances(M)[j] \in Int
                                  /\ Granted(M)[j] = M[j].principal
      BY <1>1, LoansShape
    <2> HIDE DEF n
    <2> QED
      BY SMTT(30), <1>1, <1>2, <2>1, <2>2
  <1>4. /\ IsFiniteSet(OwnLoans(L, e)) /\ OwnLoans(L, e) \subseteq DOMAIN L
        /\ OwedBy(L, e) \in Int /\ LentTo(L, e) \in Int
    BY LoansShape
  <1>5. OwnLoans(M, e) = OwnLoans(L, e) \cup (IF row.employee = e THEN {n} ELSE {})
    BY <1>1, <1>2 DEF OwnLoans
  <1> HIDE DEF n
  <1>6. CASE row.employee = e
    <2>1. Total(Balances(M), OwnLoans(L, e) \cup {n})
             = Balances(M)[n] + Total(Balances(L), OwnLoans(L, e))
      BY <1>2, <1>3, <1>4, TotalWithOneMore
    <2>2. Total(Granted(M), OwnLoans(L, e) \cup {n})
             = Granted(M)[n] + Total(Granted(L), OwnLoans(L, e))
      <3>1. Granted(M)[n] \in Int
        BY <1>3
      <3> QED
        BY <1>2, <1>3, <1>4, <3>1, TotalWithOneMore
    <2>3. OwedBy(M, e) - LentTo(M, e) = OwedBy(L, e) - LentTo(L, e)
      BY <1>3, <1>4, <1>5, <1>6, <2>1, <2>2 DEF OwedBy, LentTo
    <2> QED
      BY <2>3 DEF M
  <1>7. CASE row.employee # e
    <2>1. OwnLoans(M, e) = OwnLoans(L, e)
      BY <1>5, <1>7
    <2>2. Total(Balances(M), OwnLoans(L, e)) = Total(Balances(L), OwnLoans(L, e))
      BY <1>3, <1>4, TotalSame
    <2>3. Total(Granted(M), OwnLoans(L, e)) = Total(Granted(L), OwnLoans(L, e))
      BY <1>3, <1>4, TotalSame
    <2> QED
      BY <2>1, <2>2, <2>3 DEF OwedBy, LentTo, M
  <1> QED
    BY <1>6, <1>7

LEMMA ChargedKept ==
    ASSUME NEW R, NEW S, DOMAIN S = DOMAIN R, \A j \in DOMAIN R : S[j].lines = R[j].lines, NEW e
    PROVE  ChargedTo(S, e) = ChargedTo(R, e)
  <1>1. Charges(S, e) = Charges(R, e)
    BY DEF Charges
  <1> QED
    BY <1>1 DEF ChargedTo

\* A new balance changes nothing else of a loan but its status.
LEMMA WithBalanceRow ==
    ASSUME NEW row \in Loan, NEW b
    PROVE  /\ WithBalance(row, b).balance = b
           /\ WithBalance(row, b).employee = row.employee
           /\ WithBalance(row, b).principal = row.principal
  BY DEF WithBalance, Loan

\* What is given back of an employee's one line is what the line took.
LEMMA TakenIsTheLine ==
    ASSUME NEW lines \in Lines, OneLine(lines), NEW e \in Employees
    PROVE  TakenFrom(lines, e) = LineOf(lines[e])
  <1> DEFINE line == lines[e]
             taking == {k \in DOMAIN line : line[k] > 0}
  <1>1. line \in Seq(Int) /\ Len(line) <= 1 /\ Len(line) \in Nat /\ DOMAIN line = 1..Len(line)
    BY LenProperties DEF Lines, OneLine
  <1>2. CASE line = << >>
    <2>1. taking = {}
      BY <1>1, <1>2
    <2> QED
      BY <1>2, <2>1 DEF TakenFrom, LineOf
  <1>3. CASE line # << >>
    <2>1. DOMAIN line = {1} /\ line[1] \in Int
      <3>1. Len(line) = 1
        <4> HIDE DEF line
        <4> QED
          BY <1>1, <1>3, EmptySeq
      <3>2. DOMAIN line = {1}
        BY <1>1, <3>1
      <3> QED
        BY SMTT(30), <1>1, <3>2
    <2>2. CASE line[1] > 0
      <3>1. taking = {1}
        BY <2>1, <2>2
      <3>2. Max({1}) = 1
        BY DEF Max
      <3> HIDE DEF line
      <3> QED
        BY <1>3, <2>2, <3>1, <3>2 DEF TakenFrom, LineOf, Taking, line
    <2>3. CASE ~(line[1] > 0)
      <3>1. taking = {}
        BY <2>1, <2>3
      <3> QED
        BY <1>3, <2>3, <3>1 DEF TakenFrom, LineOf, Taking
    <2> QED
      BY <2>2, <2>3
  <1> QED
    BY <1>2, <1>3

\* Giving back changes the balance of the loans that are collected, and nothing else.
LEMMA RestoredRows ==
    ASSUME NEW L \in Seq(Loan), NEW lines
    PROVE  /\ \A k \in DOMAIN L :
                 /\ Restored(L, lines)[k].employee = L[k].employee
                 /\ Restored(L, lines)[k].status = L[k].status
                 /\ k \in Collected(L) =>
                       Restored(L, lines)[k].balance
                           = L[k].balance + TakenFrom(lines, L[k].employee)
           /\ \A e : /\ ActiveOf(Restored(L, lines), e) = ActiveOf(L, e)
                     /\ LoanOf(Restored(L, lines), e) = LoanOf(L, e)
           /\ Collected(Restored(L, lines)) = Collected(L)
  <1> DEFINE M == Restored(L, lines)
  <1>1. DOMAIN M = DOMAIN L
    BY DEF Restored
  <1>2. ASSUME NEW k \in DOMAIN L
        PROVE  /\ M[k].employee = L[k].employee /\ M[k].status = L[k].status
               /\ k \in Collected(L) => M[k].balance = L[k].balance + TakenFrom(lines, L[k].employee)
    <2>1. L[k] \in Loan
      BY LoanRow
    <2> QED
      BY <2>1 DEF Restored, Loan
  <1> HIDE DEF M
  <1>3. \A e : ActiveOf(M, e) = ActiveOf(L, e)
    BY <1>1, <1>2 DEF ActiveOf
  <1>4. \A e : LoanOf(M, e) = LoanOf(L, e)
    BY <1>3 DEF LoanOf
  <1>5. Collected(M) = Collected(L)
    BY <1>1, <1>2, <1>3, <1>4 DEF Collected
  <1> QED
    BY <1>2, <1>3, <1>4, <1>5 DEF M

\* Of the loans of an employee the first active one is collected, and no other.
LEMMA CollectedOf ==
    ASSUME NEW L \in Seq(Loan), NEW e
    PROVE  /\ ActiveOf(L, e) = {} => \A k \in OwnLoans(L, e) : k \notin Collected(L)
           /\ ActiveOf(L, e) # {} =>
                 /\ LoanOf(L, e) \in OwnLoans(L, e) /\ LoanOf(L, e) \in Collected(L)
                 /\ \A k \in OwnLoans(L, e) : k \in Collected(L) => k = LoanOf(L, e)
  <1>1. CASE ActiveOf(L, e) = {}
    BY <1>1 DEF OwnLoans, Collected
  <1>2. CASE ActiveOf(L, e) # {}
    <2>1. LoanOf(L, e) \in ActiveOf(L, e)
      BY <1>2, LoanOfIsActive
    <2>2. LoanOf(L, e) \in DOMAIN L /\ L[LoanOf(L, e)].employee = e
      BY <2>1 DEF ActiveOf
    <2> QED
      BY <1>2, <2>1, <2>2 DEF OwnLoans, Collected
  <1> QED
    BY <1>1, <1>2

\* Of the loans of employee e the one that is collected changes by n.
CollectedChanges(L, M, e, n) ==
    \A k \in OwnLoans(L, e) :
       M[k].balance = IF k \in Collected(L) THEN L[k].balance + n ELSE L[k].balance

LEMMA CommitOwed ==
    ASSUME NEW L \in Seq(Loan), NEW M \in Seq(Loan), SameLoans(L, M), NEW e,
           NEW n \in Int, CollectedChanges(L, M, e, n)
    PROVE  IF ActiveOf(L, e) = {} THEN OwedBy(M, e) = OwedBy(L, e)
                                  ELSE OwedBy(M, e) = OwedBy(L, e) + n
  <1>1. CASE ActiveOf(L, e) = {}
    <2>1. \A k \in OwnLoans(L, e) : M[k].balance = L[k].balance
      BY <1>1, CollectedOf DEF CollectedChanges
    <2> QED
      BY <1>1, <2>1, OwedStays
  <1>2. CASE ActiveOf(L, e) # {}
    <2>1. PICK k \in OwnLoans(L, e) :
             k \in Collected(L) /\ \A j \in OwnLoans(L, e) : j \in Collected(L) => j = k
      BY <1>2, CollectedOf
    <2>2. \A j \in OwnLoans(L, e) \ {k} : M[j].balance = L[j].balance
      BY <2>1 DEF CollectedChanges
    <2>3. OwedBy(M, e) = OwedBy(L, e) + M[k].balance - L[k].balance
      BY <2>2, OwedChanges
    <2>4. M[k].balance = L[k].balance + n
      BY <2>1 DEF CollectedChanges
    <2>5. L[k].balance \in Int /\ OwedBy(L, e) \in Int
      <3>1. k \in DOMAIN L
        BY DEF OwnLoans
      <3> QED
        BY <3>1, LoanRow, LoansShape
    <2> QED
      BY <1>2, <2>3, <2>4, <2>5
  <1> QED
    BY <1>1, <1>2

\* The instalment of an employee who is listed.
Paid(ls, e, listed) == IF e \in listed THEN DeductionOf(ls, e) ELSE 0

\* What executing a month does to what an employee's loans ask for.
Committed(L, ls, listed) ==
    [k \in DOMAIN L |->
        IF k \in Written(L, ls, listed) THEN WithBalance(L[k], Left(ls, k, listed)) ELSE L[k]]

LEMMA CommitLoans ==
    ASSUME NEW L \in Seq(Loan), NEW lines \in Lines, NEW ls, ls = Restored(L, lines),
           NEW listed, NEW M \in Seq(Loan), M = Committed(L, ls, listed), NEW e \in Employees
    PROVE  /\ LentTo(M, e) = LentTo(L, e)
           /\ Paid(ls, e, listed) \in Nat /\ TakenFrom(lines, e) \in Nat
           /\ IF ActiveOf(L, e) = {}
              THEN Paid(ls, e, listed) = 0 /\ OwedBy(M, e) = OwedBy(L, e)
              ELSE OwedBy(M, e) = OwedBy(L, e) + (TakenFrom(lines, e) - Paid(ls, e, listed))
  <1>1. /\ ls \in Seq(Loan) /\ DOMAIN ls = DOMAIN L
        /\ \A k \in DOMAIN L : ls[k].employee = L[k].employee
        /\ \A k \in Collected(L) : k \in DOMAIN L =>
              ls[k].balance = L[k].balance + TakenFrom(lines, L[k].employee)
        /\ \A f : ActiveOf(ls, f) = ActiveOf(L, f)
        /\ Collected(ls) = Collected(L)
    BY RestoredLoans, RestoredRows
  <1>2. /\ Paid(ls, e, listed) \in Nat /\ TakenFrom(lines, e) \in Nat
        /\ ActiveOf(L, e) = {} => Paid(ls, e, listed) = 0
    BY <1>1, DeductionFits, TakenIsAnAmount DEF DeductionOf, Paid
  <1>3. ASSUME NEW k \in DOMAIN L
        PROVE  /\ M[k].employee = L[k].employee /\ M[k].principal = L[k].principal
               /\ M[k].balance = IF k \in Collected(L)
                                 THEN ls[k].balance - Paid(ls, L[k].employee, listed)
                                 ELSE L[k].balance
    <2>1. L[k] \in Loan /\ ls[k].employee = L[k].employee /\ ls[k].balance \in Int
      BY <1>1, LoanRow
    <2>2. CASE k \in Written(L, ls, listed)
      <3>1. k \in Collected(L) /\ M[k] = WithBalance(L[k], Left(ls, k, listed))
        BY <1>1, <2>2 DEF Written, Committed
      <3>2. Left(ls, k, listed) = ls[k].balance - Paid(ls, L[k].employee, listed)
        BY <2>1 DEF Left, Paid
      <3> QED
        BY <2>1, <3>1, <3>2, WithBalanceRow
    <2>3. CASE k \notin Written(L, ls, listed)
      <3>1. M[k] = L[k]
        BY <2>3 DEF Committed
      <3>2. k \in Collected(L) =>
               ls[k].balance = L[k].balance /\ Paid(ls, L[k].employee, listed) = 0
        BY <1>1, <2>1, <2>3 DEF Written, Paid
      <3> QED
        BY <2>1, <3>1, <3>2
    <2> QED
      BY <2>2, <2>3
  <1>4. SameLoans(L, M)
    BY <1>3 DEF SameLoans, Committed
  <1>5. PICK n : n = TakenFrom(lines, e) - Paid(ls, e, listed)
    OBVIOUS
  <1>6. CollectedChanges(L, M, e, n)
    <2>1. ASSUME NEW k \in OwnLoans(L, e)
          PROVE  M[k].balance = IF k \in Collected(L) THEN L[k].balance + n ELSE L[k].balance
      <3>1. k \in DOMAIN L /\ L[k].employee = e /\ L[k].balance \in Int
        BY LoanRow DEF OwnLoans
      <3> QED
        BY <1>1, <1>2, <1>3, <1>5, <3>1
    <2> QED
      BY <2>1 DEF CollectedChanges
  <1>7. n \in Int
    BY <1>2, <1>5
  <1>8. IF ActiveOf(L, e) = {} THEN OwedBy(M, e) = OwedBy(L, e)
                               ELSE OwedBy(M, e) = OwedBy(L, e) + n
    BY <1>4, <1>6, <1>7, CommitOwed
  <1> QED
    BY <1>2, <1>4, <1>5, <1>8, LentStays

-----------------------------------------------------------------------------
(* Nobody is overcharged while what writes lines or balances neither overlaps nor dies *)

\* What request h has put into a line and not yet taken off the loan.
Uncollected(h, e) ==
    IF h.at = "create.loan" /\ h.employee = e THEN DeductionOf(h.seen, e) ELSE 0

\* The edits changed what the lines take from each employee by E.
Covered(h, R, L, E) ==
    \A e \in Employees :
        ChargedTo(R, e) + OwedBy(L, e) - Uncollected(h, e) <= LentTo(L, e) + E[e]

\* What a request that works alone knows of the loans: an execution has the loans and the
\* lines as they are, a preview the loans of the employees it has still to visit, and a
\* correction does not raise a balance.
Noted(h, R, L) ==
    /\ h.at = "execute.commit" =>
          /\ h.seen = L
          /\ h.lines = IF h.run = 0 THEN NoLines ELSE R[h.run].lines
    /\ h.at \in {"create.line", "create.loan"} =>
          /\ DOMAIN h.seen = DOMAIN L
          /\ \A k \in DOMAIN L : /\ h.seen[k].employee = L[k].employee
                                 /\ L[k].employee \in h.todo => h.seen[k] = L[k]
    /\ h.at = "create.loan" => h.employee \in h.todo
    /\ h.at = "balance.write" => h.balance <= L[h.loan].balance

LoanInv ==
    /\ SerialInv
    /\ Quiet => Covered(Idle, run, loan, edited)
    /\ \A r \in Requests :
          Working(req[r]) => Covered(req[r], run, loan, edited) /\ Noted(req[r], run, loan)

LEMMA IdleNotes == \A R, L : Noted(Idle, R, L) /\ \A e : Uncollected(Idle, e) = 0
  BY DEF Noted, Uncollected, Idle

\* Nor does a request that changes statuses know anything of the loans.
LEMMA MoveNotes ==
    ASSUME NEW h, ~Working(h)
    PROVE  /\ \A R, L : Noted(h, R, L)
           /\ \A e : Uncollected(h, e) = 0
           /\ \A R, L, E : Covered(h, R, L, E) <=> Covered(Idle, R, L, E)
  <1>1. \A R, L : Noted(h, R, L)
    <2>1. CASE h = Idle
      BY <2>1, IdleNotes
    <2>2. CASE h.at \in MoveOps
      <3>1. /\ h.at \notin {"create.line", "create.loan"} /\ h.at # "create.loan"
            /\ h.at # "execute.commit" /\ h.at # "balance.write"
        BY <2>2 DEF MoveOps
      <3> QED
        BY <3>1 DEF Noted
    <2> QED
      BY <2>1, <2>2, WorkingShape
  <1>2. \A e : Uncollected(h, e) = 0
    BY WorkingShape, IdleNotes DEF Uncollected, MoveOps
  <1> QED
    BY <1>1, <1>2, IdleNotes DEF Covered

\* What is known when request r moves.
LEMMA Known ==
    ASSUME LoanInv, NEW r \in Requests, Quiet \/ Working(req[r])
    PROVE  /\ SerialInv /\ PayrollInv /\ run \in Seq(Run) /\ loan \in Seq(Loan)
           /\ edited \in [Employees -> Int] /\ \A e \in Employees : edited[e] \in Int
           /\ \E h : /\ h = req[r] /\ h \in Request
                     /\ Covered(h, run, loan, edited) /\ Noted(h, run, loan)
                     /\ Fits(h, run) /\ Sound(h, RunIds, Len(loan), ExecutedRuns)
  <1>1. SerialInv /\ PayrollInv
    BY DEF LoanInv, SerialInv
  <1>2. /\ run \in Seq(Run) /\ loan \in Seq(Loan) /\ req[r] \in Request
        /\ Fits(req[r], run) /\ Sound(req[r], RunIds, Len(loan), ExecutedRuns)
        /\ edited \in [Employees -> Int]
    BY <1>1 DEF SerialInv, PayrollInv, TypeOK, HeldIsSound
  <1>3. Covered(req[r], run, loan, edited) /\ Noted(req[r], run, loan)
    <2>1. CASE Working(req[r])
      BY <2>1 DEF LoanInv
    <2>2. CASE ~Working(req[r])
      <3>1. Covered(Idle, run, loan, edited)
        BY <2>2 DEF LoanInv
      <3> QED
        BY <2>2, <3>1, MoveNotes
    <2> QED
      BY <2>1, <2>2
  <1> QED
    BY <1>1, <1>2, <1>3

LEMMA TablesAfter ==
    ASSUME SerialInv'
    PROVE  run' \in Seq(Run) /\ loan' \in Seq(Loan) /\ edited' \in [Employees -> Int]
  BY DEF SerialInv, PayrollInv, TypeOK

\* A request works on, or starts to work having found nobody else at it.
LEMMA LoanMove ==
    ASSUME LoanInv, SerialInv', NEW r \in Requests, Quiet \/ Working(req[r]),
           NEW h, Goto(r, h), Covered(h, run', loan', edited'), Noted(h, run', loan')
    PROVE  LoanInv'
  <1>1. \A q \in Requests : req'[q] = IF q = r THEN h ELSE req[q]
    BY DEF Goto, LoanInv, SerialInv, PayrollInv, TypeOK
  <1>2. \A q \in Requests \ {r} : ~Working(req'[q])
    BY <1>1, QuietMeans DEF LoanInv, SerialInv, Alone
  <1>3. Quiet' => Covered(Idle, run', loan', edited')
    <2>1. Quiet' => ~Working(h)
      BY <1>1 DEF Quiet, Working
    <2> QED
      BY <2>1, MoveNotes
  <1>4. \A q \in Requests : Working(req'[q]) =>
           Covered(req'[q], run', loan', edited') /\ Noted(req'[q], run', loan')
    BY <1>1, <1>2
  <1> QED
    BY <1>3, <1>4 DEF LoanInv

\* What a request knows of the loans it still knows when statuses change.
LEMMA StatusNotes ==
    ASSUME NEW h, NEW R, NEW S, SameLines(R, S), NEW n, NEW X, Sound(h, DOMAIN R, n, X),
           NEW L, Noted(h, R, L)
    PROVE  Noted(h, S, L)
  <1>1. h.at = "execute.commit" => h.run = 0 \/ h.run \in DOMAIN R
    BY DEF Sound
  <1> QED
    BY <1>1 DEF Noted, SameLines

\* A request that changes statuses moves, whoever works.
LEMMA LoanPass ==
    ASSUME LoanInv, SerialInv', NEW r \in Requests, ~Working(req[r]),
           NEW h, ~Working(h), Goto(r, h), UNCHANGED <<loan, edited>>, SameLines(run, run')
    PROVE  LoanInv'
  <1>1. \A q \in Requests : req'[q] = IF q = r THEN h ELSE req[q]
    BY DEF Goto, LoanInv, SerialInv, PayrollInv, TypeOK
  <1>2. Quiet' => Quiet
    <2>1. \A q \in Requests : ~Working(req'[q]) => ~Working(req[q])
      BY <1>1
    <2> QED
      BY <2>1 DEF Quiet, Working
  <1>3. \A e : ChargedTo(run', e) = ChargedTo(run, e)
    BY ChargedKept DEF SameLines
  <1>4. \A g : Covered(g, run, loan, edited) => Covered(g, run', loan', edited')
    BY <1>3 DEF Covered
  <1>5. ASSUME NEW q \in Requests, Working(req'[q])
        PROVE  Covered(req'[q], run', loan', edited') /\ Noted(req'[q], run', loan')
    <2>1. q # r /\ req'[q] = req[q]
      BY <1>1, <1>5
    <2>2. /\ Covered(req[q], run, loan, edited) /\ Noted(req[q], run, loan)
          /\ Sound(req[q], DOMAIN run, Len(loan), ExecutedRuns)
      BY <1>5, <2>1 DEF LoanInv, SerialInv, PayrollInv, HeldIsSound, RunIds
    <2>3. Noted(req[q], run', loan)
      BY <2>2, StatusNotes
    <2> QED
      BY <1>4, <2>1, <2>2, <2>3
  <1> QED
    BY <1>2, <1>4, <1>5 DEF LoanInv

\* Statements that leave lines and loans alone.
LEMMA LoanNote ==
    ASSUME LoanInv, SerialInv', NEW r \in Requests, Quiet \/ Working(req[r]),
           req[r].at # "create.loan",
           NEW h, Goto(r, h), h.at # "create.loan", UNCHANGED <<loan, edited>>,
           RunIds' = RunIds, \A i \in RunIds : run'[i].lines = run[i].lines,
           Noted(h, run', loan)
    PROVE  LoanInv'
  <1>1. PICK g : g = req[r] /\ Covered(g, run, loan, edited)
    BY Known
  <1>2. \A e \in Employees : Uncollected(g, e) = 0 /\ Uncollected(h, e) = 0
    BY <1>1 DEF Uncollected
  <1>3. \A e \in Employees : ChargedTo(run', e) = ChargedTo(run, e)
    BY ChargedKept DEF RunIds
  <1>4. Covered(h, run', loan, edited)
    BY <1>1, <1>2, <1>3 DEF Covered
  <1> QED
    BY <1>4, LoanMove

\* executeMonthlyPayroll: what the old line took goes back to the loan that the new line
\* is taken from.
LEMMA LoanExecute ==
    ASSUME LoanInv, SerialInv', NEW r \in Requests, ExecuteCommit(r)
    PROVE  LoanInv'
  <1>0. req[r].at = "execute.commit" /\ Working(req[r]) /\ edited' = edited
    BY WorkingShape DEF ExecuteCommit, WorkOps
  <1>1. PICK g : /\ g = req[r] /\ g \in Request
                 /\ Covered(g, run, loan, edited) /\ Noted(g, run, loan)
                 /\ Sound(g, RunIds, Len(loan), ExecutedRuns)
    BY <1>0, Known
  <1>2. PICK i : i = g.run
    OBVIOUS
  <1>3. PICK ls : ls = Restored(loan, g.lines)
    OBVIOUS
  <1>4. /\ run \in Seq(Run) /\ loan \in Seq(Loan) /\ run' \in Seq(Run) /\ loan' \in Seq(Loan)
        /\ SerialInv /\ edited \in [Employees -> Int]
    BY <1>0, Known, TablesAfter
  <1>5. /\ g.at = "execute.commit" /\ g.lines \in Lines /\ g.seen = loan
        /\ i \in {0} \cup RunIds
        /\ g.lines = IF i = 0 THEN NoLines ELSE run[i].lines
    BY <1>0, <1>1, <1>2, RequestShape DEF Noted, Sound
  <1>6. OneLine(g.lines)
    <2>1. OneLine(NoLines)
      BY SMTT(30), ShortLine DEF OneLine, NoLines
    <2> QED
      BY <1>4, <1>5, <2>1 DEF SerialInv, OneLineEach, RunIds
  <1>7. PICK listed :
           /\ loan' = Committed(loan, ls, listed)
           /\ Goto(r, Idle)
           /\ \E row, old :
                 /\ row.lines = LinesReplaced(old, ls, listed)
                 /\ \/ i = 0 /\ run' = Append(run, row)
                    \/ i # 0 /\ run' = [run EXCEPT ![i] = row]
    <2> DEFINE old == IF i = 0
                      THEN [month |-> g.month, paid |-> FALSE, lines |-> NoLines]
                      ELSE [month |-> g.month, paid |-> run[i].paid, lines |-> run[i].lines]
               executed(listed) ==
                  [month |-> old.month, status |-> "pending_execution", preview |-> FALSE,
                   snapshot |-> TRUE, paid |-> old.paid,
                   lines |-> LinesReplaced(old.lines, ls, listed)]
    <2>1. PICK listed \in Listings :
             /\ \/ i = 0 /\ run' = Append(run, executed(listed))
                \/ i # 0 /\ run' = [run EXCEPT ![i] = executed(listed)]
             /\ loan' = [k \in LoanIds |->
                           IF k \in Written(loan, ls, listed)
                           THEN WithBalance(loan[k], Left(ls, k, listed))
                           ELSE loan[k]]
      BY ZenonT(60), <1>1, <1>2, <1>3, <1>5 DEF ExecuteCommit
    <2>2. executed(listed).lines = LinesReplaced(old.lines, ls, listed)
      OBVIOUS
    <2> HIDE DEF executed, old
    <2>3. loan' = Committed(loan, ls, listed)
      BY <2>1 DEF Committed, LoanIds
    <2>4. Goto(r, Idle)
      BY DEF ExecuteCommit, Return
    <2>5. \E row, lines :
             /\ row.lines = LinesReplaced(lines, ls, listed)
             /\ \/ i = 0 /\ run' = Append(run, row)
                \/ i # 0 /\ run' = [run EXCEPT ![i] = row]
      BY <2>1, <2>2
    <2> QED
      BY <2>3, <2>4, <2>5
  <1>8. ASSUME NEW e \in Employees
        PROVE  ChargedTo(run', e) =
                  ChargedTo(run, e) + (Paid(ls, e, listed) - LineOf(g.lines[e]))
    <2>1. PICK row : /\ \E old : row.lines = LinesReplaced(old, ls, listed)
                     /\ \/ i = 0 /\ run' = Append(run, row)
                        \/ i # 0 /\ run' = [run EXCEPT ![i] = row]
      BY <1>7
    <2>0. DeductionOf(ls, e) \in Nat
      <3>1. ls \in Seq(Loan)
        BY <1>3, <1>4, <1>5, RestoredLoans
      <3> QED
        BY <3>1, DeductionFits
    <2>2. LineOf(row.lines[e]) = Paid(ls, e, listed)
      <3>1. row.lines[e] = IF e \in listed THEN <<DeductionOf(ls, e)>> ELSE << >>
        BY <2>1 DEF LinesReplaced
      <3> QED
        BY <2>0, <3>1, LineOfOne DEF Paid
    <2>3. /\ Paid(ls, e, listed) \in Int /\ ChargedTo(run, e) \in Int
          /\ LineOf(g.lines[e]) \in Int
      <3>1. g.lines[e] \in Seq(Int)
        BY <1>5 DEF Lines
      <3>2. Paid(ls, e, listed) \in Int
        BY <2>0 DEF Paid
      <3> QED
        BY <1>4, <3>1, <3>2, ChargedShape, LineIsAmount
    <2>4. CASE i = 0
      <3>1. run' = Append(run, row) /\ row \in Run
        <4>1. run' = Append(run, row)
          BY <2>1, <2>4
        <4>2. run'[Len(run) + 1] = row /\ Len(run) + 1 \in DOMAIN run'
          BY <1>4, <4>1
        <4> QED
          BY <1>4, <4>1, <4>2, LenProperties
      <3>2. LineOf(g.lines[e]) = 0
        BY <1>5, <2>4, LineOfOne DEF NoLines
      <3>3. ChargedTo(run', e) = ChargedTo(run, e) + LineOf(row.lines[e])
        BY <1>4, <3>1, ChargedMore
      <3> QED
        BY <2>2, <2>3, <3>2, <3>3
    <2>5. CASE i # 0
      <3>1. RowWritten(run, run', i, row) /\ i \in DOMAIN run
        BY <1>5, <2>1, <2>5 DEF RunIds, RowWritten
      <3>2. ChargedTo(run', e)
               = ChargedTo(run, e) + (LineOf(row.lines[e]) - LineOf(run[i].lines[e]))
        BY <1>4, <3>1, ChargedRow
      <3>3. run[i].lines = g.lines
        BY <1>5, <2>5
      <3> QED
        BY <2>2, <3>2, <3>3
    <2> QED
      BY <2>4, <2>5
  <1>9. ASSUME NEW e \in Employees
        PROVE  ChargedTo(run', e) + OwedBy(loan', e) <= LentTo(loan', e) + edited[e]
    <2>1. /\ LentTo(loan', e) = LentTo(loan, e)
          /\ Paid(ls, e, listed) \in Nat /\ TakenFrom(g.lines, e) \in Nat
          /\ IF ActiveOf(loan, e) = {}
             THEN Paid(ls, e, listed) = 0 /\ OwedBy(loan', e) = OwedBy(loan, e)
             ELSE OwedBy(loan', e)
                     = OwedBy(loan, e) + (TakenFrom(g.lines, e) - Paid(ls, e, listed))
      BY <1>3, <1>4, <1>5, <1>7, CommitLoans
    <2>2. LineOf(g.lines[e]) = TakenFrom(g.lines, e)
      BY <1>5, <1>6, TakenIsTheLine
    <2>3. ChargedTo(run, e) + OwedBy(loan, e) <= LentTo(loan, e) + edited[e]
      <3>1. Uncollected(g, e) = 0
        BY <1>5 DEF Uncollected
      <3>2. ChargedTo(run, e) \in Int /\ OwedBy(loan, e) \in Int
        BY <1>4, ChargedShape, LoansShape
      <3>3. ChargedTo(run, e) + OwedBy(loan, e) - Uncollected(g, e) <= LentTo(loan, e) + edited[e]
        BY <1>1 DEF Covered
      <3> QED
        BY <3>1, <3>2, <3>3
    <2>4. /\ ChargedTo(run, e) \in Int /\ OwedBy(loan, e) \in Int /\ LentTo(loan, e) \in Int
          /\ edited[e] \in Int
      BY <1>4, ChargedShape, LoansShape
    <2> QED
      BY <1>8, <2>1, <2>2, <2>3, <2>4
  <1>10. Covered(Idle, run', loan', edited')
    <2>1. ASSUME NEW e \in Employees
          PROVE  ChargedTo(run', e) + OwedBy(loan', e) - Uncollected(Idle, e)
                    <= LentTo(loan', e) + edited'[e]
      <3>1. ChargedTo(run', e) \in Int /\ OwedBy(loan', e) \in Int /\ Uncollected(Idle, e) = 0
        BY <1>4, ChargedShape, LoansShape, IdleNotes
      <3> QED
        BY <1>0, <1>9, <3>1
    <2> QED
      BY <2>1 DEF Covered
  <1> QED
    BY <1>0, <1>7, <1>10, IdleNotes, LoanMove

\* What a request takes along to the next employee.
KeepsOthers(L, M, e) ==
    SameLoans(L, M) /\ \A k \in DOMAIN L : L[k].employee # e => M[k] = L[k]

LEMMA NextNotes ==
    ASSUME NEW r \in Requests, NEW e, NextEmployee(r, e), NEW g, g = req[r],
           g.at \in {"create.line", "create.loan"},
           NEW R, NEW L, Noted(g, R, L), NEW M, KeepsOthers(L, M, e)
    PROVE  \E h : Goto(r, h) /\ h.at # "create.loan" /\ Noted(h, R, M)
  <1> DEFINE h == [at |-> "create.line", run |-> g.run, todo |-> g.todo \ {e}, seen |-> g.seen]
  <1>1. Goto(r, h) \/ Goto(r, Idle)
    BY DEF NextEmployee, Return
  <1>2. /\ h.at = "create.line" /\ h.todo = g.todo \ {e} /\ h.seen = g.seen
    OBVIOUS
  <1> HIDE DEF h
  <1>3. Noted(h, R, M)
    BY <1>2 DEF Noted, SameLoans, KeepsOthers
  <1>4. Idle.at # "create.loan" /\ Noted(Idle, R, M)
    BY IdleNotes DEF Idle
  <1> QED
    BY <1>1, <1>2, <1>3, <1>4

\* createRun
LEMMA LoanLine ==
    ASSUME LoanInv, SerialInv', NEW r \in Requests, CreateLine(r)
    PROVE  LoanInv'
  <1>0. req[r].at = "create.line" /\ Working(req[r]) /\ edited' = edited
    <2>1. req[r].at = "create.line" /\ edited' = edited
      BY DEF CreateLine
    <2> QED
      BY <2>1, WorkingShape DEF WorkOps
  <1>1. PICK g : /\ g = req[r] /\ g \in Request
                 /\ Covered(g, run, loan, edited) /\ Noted(g, run, loan) /\ Fits(g, run)
                 /\ Sound(g, RunIds, Len(loan), ExecutedRuns)
    BY SMTT(30), <1>0, Known
  <1>2. PICK i : i = g.run
    OBVIOUS
  <1>3. PICK e \in g.todo :
           /\ run' = [run EXCEPT ![i].lines[e] = Append(@, DeductionOf(g.seen, e))]
           /\ IF DeductionOf(g.seen, e) = 0
              THEN NextEmployee(r, e)
              ELSE Goto(r, [at |-> "create.loan", run |-> i, todo |-> g.todo,
                            seen |-> g.seen, employee |-> e])
    BY <1>1, <1>2 DEF CreateLine
  <1>4. /\ run \in Seq(Run) /\ loan \in Seq(Loan) /\ run' \in Seq(Run) /\ loan' = loan
        /\ edited \in [Employees -> Int]
    BY <1>0, Known, TablesAfter DEF CreateLine
  <1>5. /\ g.at = "create.line" /\ e \in Employees /\ i \in DOMAIN run /\ run[i].lines[e] = << >>
        /\ DeductionOf(g.seen, e) \in Nat /\ run[i].lines \in Lines
    <2>1. g.at = "create.line" /\ g.seen \in Seq(Loan) /\ g.todo \subseteq Employees
      BY <1>0, <1>1, RequestShape
    <2>2. i \in DOMAIN run /\ run[i].lines[e] = << >>
      BY <1>1, <1>2, <1>3, <2>1 DEF Sound, Fits, RunIds
    <2>3. run[i] \in Run
      BY <1>4, <2>2, LenProperties
    <2> QED
      BY <2>1, <2>2, <2>3, DeductionFits DEF Run
  <1> DEFINE d == DeductionOf(g.seen, e)
             row == [run[i] EXCEPT !.lines = [run[i].lines EXCEPT ![e] = Append(run[i].lines[e], d)]]
  <1>6. /\ RowWritten(run, run', i, row)
        /\ \A f \in Employees : row.lines[f] = IF f = e THEN <<d>> ELSE run[i].lines[f]
    <2>1. RowWritten(run, run', i, row)
      BY <1>3 DEF RowWritten
    <2>2. run[i] \in Run
      BY <1>4, <1>5, LenProperties
    <2>3. Append(<< >>, d) = <<d>>
      OBVIOUS
    <2>4. row.lines = [run[i].lines EXCEPT ![e] = <<d>>]
      BY <1>5, <2>2, <2>3 DEF Run
    <2> HIDE DEF row
    <2> QED
      BY <1>5, <2>1, <2>4 DEF Lines
  <1> HIDE DEF row, d
  <1>7. ASSUME NEW f \in Employees
        PROVE  ChargedTo(run', f) = ChargedTo(run, f) + (IF f = e THEN d ELSE 0)
    <2>1. ChargedTo(run', f)
             = ChargedTo(run, f) + (LineOf(row.lines[f]) - LineOf(run[i].lines[f]))
      BY <1>4, <1>5, <1>6, ChargedRow
    <2>2. LineOf(run[i].lines[f]) \in Int /\ ChargedTo(run, f) \in Int
      <3>1. run[i].lines[f] \in Seq(Int)
        BY <1>5 DEF Lines
      <3> QED
        BY <1>4, <3>1, LineIsAmount, ChargedShape
    <2>3. CASE f = e
      <3>1. LineOf(row.lines[f]) = d /\ LineOf(run[i].lines[f]) = 0 /\ d \in Nat
        BY <1>5, <1>6, <2>3, LineOfOne DEF d
      <3> QED
        BY <2>1, <2>2, <2>3, <3>1
    <2>4. CASE f # e
      <3>1. row.lines[f] = run[i].lines[f]
        BY <1>6, <2>4
      <3> QED
        BY <2>1, <2>2, <2>4, <3>1
    <2> QED
      BY <2>3, <2>4
  <1>8. ASSUME NEW h, \A f \in Employees : Uncollected(h, f) = IF f = e THEN d ELSE 0
        PROVE  Covered(h, run', loan, edited)
    <2>1. ASSUME NEW f \in Employees
          PROVE  ChargedTo(run', f) + OwedBy(loan, f) - Uncollected(h, f)
                    <= LentTo(loan, f) + edited[f]
      <3>1. Uncollected(g, f) = 0
        BY <1>5 DEF Uncollected
      <3>2. ChargedTo(run, f) + OwedBy(loan, f) - Uncollected(g, f) <= LentTo(loan, f) + edited[f]
        BY <1>1 DEF Covered
      <3>3. /\ ChargedTo(run, f) \in Int /\ OwedBy(loan, f) \in Int /\ LentTo(loan, f) \in Int
            /\ d \in Int /\ edited[f] \in Int
        BY <1>4, <1>5, ChargedShape, LoansShape DEF d
      <3> QED
        BY <1>7, <1>8, <3>1, <3>2, <3>3
    <2> QED
      BY <2>1 DEF Covered
  <1>9. Noted(g, run', loan)
    BY <1>1, <1>5 DEF Noted
  <1>10. CASE d = 0
    <2>1. NextEmployee(r, e)
      BY <1>3, <1>10 DEF d
    <2>2. KeepsOthers(loan, loan, e)
      BY DEF SameLoans, KeepsOthers
    <2>3. PICK h : Goto(r, h) /\ h.at # "create.loan" /\ Noted(h, run', loan)
      BY <1>1, <1>5, <1>9, <2>1, <2>2, NextNotes
    <2>4. \A f \in Employees : Uncollected(h, f) = IF f = e THEN d ELSE 0
      BY <1>10, <2>3 DEF Uncollected
    <2> QED
      BY <1>0, <1>4, <1>8, <2>3, <2>4, LoanMove
  <1>11. CASE d # 0
    <2>1. PICK h : /\ Goto(r, h) /\ h.at = "create.loan" /\ h.todo = g.todo /\ h.seen = g.seen
                   /\ h.employee = e
      BY <1>3, <1>11 DEF d
    <2>2. Noted(h, run', loan)
      BY <1>5, <1>9, <2>1 DEF Noted
    <2>3. \A f \in Employees : Uncollected(h, f) = IF f = e THEN d ELSE 0
      BY <2>1 DEF Uncollected, d
    <2> QED
      BY <1>0, <1>4, <1>8, <2>1, <2>2, <2>3, LoanMove
  <1> QED
    BY <1>10, <1>11

LEMMA LoanCollect ==
    ASSUME LoanInv, SerialInv', NEW r \in Requests, CreateLoan(r)
    PROVE  LoanInv'
  <1>0. req[r].at = "create.loan" /\ Working(req[r]) /\ edited' = edited
    BY WorkingShape DEF CreateLoan, WorkOps
  <1>1. PICK g : /\ g = req[r] /\ g \in Request
                 /\ Covered(g, run, loan, edited) /\ Noted(g, run, loan)
                 /\ Sound(g, RunIds, Len(loan), ExecutedRuns)
    BY <1>0, Known
  <1>2. PICK e, k, d : e = g.employee /\ k = LoanOf(g.seen, e) /\ d = DeductionOf(g.seen, e)
    OBVIOUS
  <1>3. /\ run \in Seq(Run) /\ loan \in Seq(Loan) /\ run' = run /\ loan' \in Seq(Loan)
        /\ edited \in [Employees -> Int]
    BY <1>0, Known, TablesAfter DEF CreateLoan
  <1>4. /\ g.at = "create.loan" /\ g.seen \in Seq(Loan) /\ e \in Employees /\ e \in g.todo
        /\ d # 0 /\ d \in Nat
    BY <1>0, <1>1, <1>2, RequestShape, DeductionFits DEF Noted, Sound
  <1>5. k \in DOMAIN loan /\ loan[k].employee = e /\ g.seen[k] = loan[k] /\ k \in OwnLoans(loan, e)
    <2>1. ActiveOf(g.seen, e) # {}
      BY <1>2, <1>4 DEF DeductionOf
    <2>2. k \in DOMAIN g.seen /\ g.seen[k].employee = e
      BY <1>2, <1>4, <2>1, LoanOfIsActive DEF ActiveOf
    <2> QED
      BY <1>1, <1>4, <2>2 DEF Noted, OwnLoans
  <1> DEFINE row == WithBalance(loan[k], loan[k].balance - d)
  <1>6. loan' = [loan EXCEPT ![k] = row] /\ NextEmployee(r, e)
    BY <1>1, <1>2, <1>5 DEF CreateLoan
  <1>7. /\ row.balance = loan[k].balance - d
        /\ row.employee = loan[k].employee /\ row.principal = loan[k].principal
    BY <1>3, <1>5, LoanRow, WithBalanceRow
  <1> HIDE DEF row
  <1>8. /\ SameLoans(loan, loan')
        /\ KeepsOthers(loan, loan', e)
        /\ \A j \in OwnLoans(loan, e) \ {k} : loan'[j].balance = loan[j].balance
        /\ loan'[k].balance = loan[k].balance - d
    BY <1>5, <1>6, <1>7 DEF SameLoans, OwnLoans, KeepsOthers
  <1>9. PICK h : Goto(r, h) /\ h.at # "create.loan" /\ Noted(h, run, loan')
    BY <1>1, <1>4, <1>6, <1>8, NextNotes
  <1>10. ASSUME NEW f \in Employees
         PROVE  ChargedTo(run, f) + OwedBy(loan', f) - Uncollected(h, f)
                   <= LentTo(loan', f) + edited[f]
    <2>1. LentTo(loan', f) = LentTo(loan, f)
      BY <1>3, <1>8, LentStays
    <2>2. ChargedTo(run, f) + OwedBy(loan, f) - Uncollected(g, f) <= LentTo(loan, f) + edited[f]
      BY <1>1 DEF Covered
    <2>3. /\ ChargedTo(run, f) \in Int /\ OwedBy(loan, f) \in Int /\ LentTo(loan, f) \in Int
          /\ loan[k].balance \in Int /\ edited[f] \in Int
      BY <1>3, <1>5, LoanRow, ChargedShape, LoansShape
    <2>4. Uncollected(h, f) = 0
      BY <1>9 DEF Uncollected
    <2>5. CASE f = e
      <3>1. OwedBy(loan', e) = OwedBy(loan, e) + loan'[k].balance - loan[k].balance
        BY <1>3, <1>5, <1>8, OwedChanges
      <3>2. Uncollected(g, f) = d
        BY <1>2, <1>4, <2>5 DEF Uncollected
      <3> QED
        BY <1>4, <1>8, <2>1, <2>2, <2>3, <2>4, <2>5, <3>1, <3>2
    <2>6. CASE f # e
      <3>1. \A j \in OwnLoans(loan, f) : loan'[j].balance = loan[j].balance
        BY <1>8, <2>6 DEF OwnLoans, KeepsOthers
      <3>2. OwedBy(loan', f) = OwedBy(loan, f)
        BY <1>3, <1>8, <3>1, OwedStays
      <3>3. Uncollected(g, f) = 0
        BY <1>2, <2>6 DEF Uncollected
      <3> QED
        BY <2>1, <2>2, <2>3, <2>4, <3>2, <3>3
    <2> QED
      BY <2>5, <2>6
  <1>11. Covered(h, run', loan', edited')
    BY <1>0, <1>3, <1>10 DEF Covered
  <1> QED
    BY <1>0, <1>3, <1>9, <1>11, LoanMove

\* The selects: a request takes note of what it read.
LEMMA LoanRead ==
    ASSUME LoanInv, SerialInv', NEW r \in Requests,
           (Quiet /\ BeginWork(r)) \/ CreateLoans(r)
    PROVE  LoanInv'
  <1>1. ASSUME NEW h, Quiet \/ req[r].at = "create.loans", Only(Goto(r, h)),
               h.at # "create.loan", Noted(h, run, loan)
        PROVE  LoanInv'
    <2>1. /\ Goto(r, h) /\ run' = run /\ UNCHANGED <<loan, edited>>
          /\ RunIds' = RunIds
      BY <1>1 DEF Only, RunIds
    <2>2. (Quiet \/ Working(req[r])) /\ req[r].at # "create.loan"
      <3>1. Quiet => ~Working(req[r])
        BY QuietMeans
      <3>2. Quiet \/ Working(req[r])
        BY <1>1, WorkingShape DEF WorkOps
      <3>3. req[r].at = "create.loan" => Working(req[r]) /\ ~Quiet
        BY <3>1, WorkingShape DEF WorkOps
      <3> QED
        BY <1>1, <3>2, <3>3
    <2> QED
      BY <1>1, <2>1, <2>2, LoanNote
  <1>2. ASSUME Quiet, NEW m \in Months, ExecuteRead(r, m)
        PROVE  LoanInv'
    <2>1. PICK i, lines :
             /\ Only(Goto(r, [at |-> "execute.commit", month |-> m, run |-> i,
                              lines |-> lines, seen |-> loan]))
             /\ lines = IF i = 0 THEN NoLines ELSE run[i].lines
      <3>1. \A i \in RunsOf(m) : i # 0
        <4>1. RunIds = 1..Len(run) /\ Len(run) \in Nat
          BY LenProperties DEF LoanInv, SerialInv, PayrollInv, TypeOK, RunIds
        <4> QED
          BY <4>1 DEF RunsOf
      <3> QED
        BY <1>2, <3>1 DEF ExecuteRead
    <2>2. PICK h : /\ h = [at |-> "execute.commit", month |-> m, run |-> i,
                           lines |-> lines, seen |-> loan]
      OBVIOUS
    <2>3. h.at = "execute.commit" /\ h.run = i /\ h.lines = lines /\ h.seen = loan
      BY <2>2
    <2>4. Noted(h, run, loan)
      BY <2>1, <2>3 DEF Noted
    <2> QED
      BY <1>1, <1>2, <2>1, <2>2, <2>3, <2>4
  <1>3. ASSUME Quiet, NEW m \in Months, CreateRead(r, m)
        PROVE  LoanInv'
    <2>1. PICK h : Only(Goto(r, h)) /\ h.at = "create.insert"
      BY <1>3 DEF CreateRead
    <2>2. Noted(h, run, loan)
      BY <2>1 DEF Noted
    <2> QED
      BY <1>1, <1>3, <2>1, <2>2
  <1>4. ASSUME Quiet, NEW k \in LoanIds, NEW a \in Instalments, BalanceRead(r, k, a)
        PROVE  LoanInv'
    <2>1. PICK b : b = (IF a < loan[k].balance THEN loan[k].balance - a ELSE 0)
      OBVIOUS
    <2>2. PICK h : Only(Goto(r, h)) /\ h.at = "balance.write" /\ h.loan = k /\ h.balance = b
      BY <1>4, <2>1 DEF BalanceRead
    <2>3. b <= loan[k].balance
      <3>1. loan[k].balance \in Nat /\ a \in Nat
        <4>1. loan \in Seq(Loan)
          BY DEF LoanInv, SerialInv, PayrollInv, TypeOK
        <4> QED
          BY <4>1, LoanRow, PayrollAssumption DEF LoanIds
      <3> QED
        BY <2>1, <3>1
    <2>4. Noted(h, run, loan)
      BY <2>2, <2>3 DEF Noted
    <2> QED
      BY <1>1, <1>4, <2>2, <2>4
  <1>5. CASE CreateLoans(r)
    <2>1. PICK h : /\ Only(Goto(r, h)) /\ h.at = "create.line" /\ h.seen = loan
                   /\ req[r].at = "create.loans"
      BY <1>5 DEF CreateLoans
    <2>2. Noted(h, run, loan)
      BY <2>1 DEF Noted
    <2> QED
      BY <1>1, <2>1, <2>2
  <1> QED
    BY <1>2, <1>3, <1>4, <1>5 DEF BeginWork

\* approveRun, generateWpsBankFileForRun, markPaid: the status of a run, whoever works.
LEMMA LoanRelease ==
    ASSUME LoanInv, SerialInv', NEW r \in Requests,
           BeginMove(r) \/ ApproveWrite(r) \/ WpsWrite(r) \/ PaidWrite(r)
    PROVE  LoanInv'
  <1>1. CASE BeginMove(r)
    <2>1. PICK h : Only(Goto(r, h)) /\ h.at \in MoveOps /\ req[r] = Idle
      BY <1>1 DEF BeginMove, ApproveRead, WpsRead, PaidRead, MoveOps
    <2>2. Goto(r, h) /\ UNCHANGED <<loan, edited>> /\ SameLines(run, run')
      BY <2>1 DEF Only, SameLines
    <2>3. ~Working(h) /\ ~Working(req[r])
      BY <2>1, WorkingShape
    <2> QED
      BY <2>2, <2>3, LoanPass
  <1>2. CASE ApproveWrite(r) \/ WpsWrite(r) \/ PaidWrite(r)
    <2>1. /\ req[r].at \in MoveOps /\ Goto(r, Idle) /\ StatusWritten(req[r].run)
          /\ UNCHANGED <<loan, edited>>
      BY <1>2, StatusIsWritten
    <2>2. PayrollInv /\ req[r].run \in RunIds
      BY <2>1 DEF LoanInv, SerialInv, PayrollInv, HeldIsSound, Sound, ExecutedRuns, MoveOps
    <2>3. SameLines(run, run')
      BY <2>1, <2>2, StatusOnly
    <2>4. ~Working(req[r]) /\ ~Working(Idle)
      BY <2>1, WorkingShape
    <2> QED
      BY <2>1, <2>3, <2>4, LoanPass
  <1> QED
    BY <1>1, <1>2

\* createRun inserts a run that takes nothing yet.
LEMMA LoanInsert ==
    ASSUME LoanInv, SerialInv', NEW r \in Requests, CreateInsert(r)
    PROVE  LoanInv'
  <1>0. req[r].at = "create.insert" /\ Working(req[r]) /\ UNCHANGED <<loan, edited>>
    BY WorkingShape DEF CreateInsert, WorkOps
  <1>1. PICK g : /\ g = req[r] /\ g \in Request /\ Covered(g, run, loan, edited)
    BY <1>0, Known
  <1>2. PICK row : /\ row = [month |-> g.month, status |-> "draft", preview |-> TRUE,
                             snapshot |-> FALSE, paid |-> FALSE, lines |-> NoLines]
    OBVIOUS
  <1>3. PICK h : Goto(r, h) /\ h.at = "create.loans"
    BY DEF CreateInsert
  <1>4. row \in Run /\ row.lines = NoLines
    <2>1. g.month \in Months
      BY <1>0, <1>1, RequestShape
    <2>2. NoLines \in Lines
      BY DEF NoLines, Lines
    <2> QED
      BY <1>2, <2>1, <2>2 DEF Run, RunStatus
  <1>5. run' = Append(run, row) /\ run \in Seq(Run) /\ loan \in Seq(Loan)
        /\ edited \in [Employees -> Int]
    BY <1>0, <1>1, <1>2, Known DEF CreateInsert
  <1>6. ASSUME NEW e \in Employees
        PROVE  ChargedTo(run', e) + OwedBy(loan, e) - Uncollected(h, e)
                  <= LentTo(loan, e) + edited[e]
    <2>1. ChargedTo(run', e) = ChargedTo(run, e) + LineOf(row.lines[e])
      BY <1>4, <1>5, ChargedMore
    <2>2. LineOf(row.lines[e]) = 0
      BY <1>4, LineOfOne DEF NoLines
    <2>3. Uncollected(g, e) = 0 /\ Uncollected(h, e) = 0
      BY <1>0, <1>1, <1>3 DEF Uncollected
    <2>4. /\ ChargedTo(run, e) \in Int /\ OwedBy(loan, e) \in Int /\ LentTo(loan, e) \in Int
          /\ edited[e] \in Int
      BY <1>5, ChargedShape, LoansShape
    <2>5. ChargedTo(run, e) + OwedBy(loan, e) - Uncollected(g, e) <= LentTo(loan, e) + edited[e]
      BY <1>1 DEF Covered
    <2> QED
      BY <2>1, <2>2, <2>3, <2>4, <2>5
  <1>7. Covered(h, run', loan', edited')
    BY <1>0, <1>6 DEF Covered
  <1>8. Noted(h, run', loan')
    BY <1>3 DEF Noted
  <1> QED
    BY <1>0, <1>3, <1>7, <1>8, LoanMove

\* updateLoanBalance does not raise what the loan asks for, nobody having collected an
\* instalment since it was read.
LEMMA LoanBalance ==
    ASSUME LoanInv, SerialInv', NEW r \in Requests, BalanceWrite(r)
    PROVE  LoanInv'
  <1>0. /\ req[r].at = "balance.write" /\ Working(req[r]) /\ UNCHANGED <<run, edited>>
        /\ Goto(r, Idle)
    BY WorkingShape DEF BalanceWrite, Return, WorkOps
  <1>1. PICK g : /\ g = req[r] /\ g \in Request
                 /\ Covered(g, run, loan, edited) /\ Noted(g, run, loan)
                 /\ Sound(g, RunIds, Len(loan), ExecutedRuns)
    BY <1>0, Known
  <1>2. PICK k, b : k = g.loan /\ b = g.balance
    OBVIOUS
  <1>3. /\ run \in Seq(Run) /\ loan \in Seq(Loan) /\ loan' \in Seq(Loan)
        /\ edited \in [Employees -> Int]
    BY <1>0, Known, TablesAfter
  <1>4. k \in DOMAIN loan /\ b \in Nat /\ b <= loan[k].balance
    <2>1. g.at = "balance.write"
      BY <1>0, <1>1
    <2>2. k \in 1..Len(loan) /\ b \in Nat /\ b <= loan[k].balance
      BY <1>1, <1>2, <2>1, RequestShape DEF Sound, Noted
    <2> QED
      BY <1>3, <2>2, LenProperties
  <1>5. loan[k] \in Loan /\ loan[k].balance \in Int
    BY <1>3, <1>4, LoanRow
  <1> DEFINE row == WithBalance(loan[k], b)
  <1>6. loan' = [loan EXCEPT ![k] = row]
    BY <1>1, <1>2, <1>4 DEF BalanceWrite
  <1>7. /\ row.balance = b
        /\ row.employee = loan[k].employee /\ row.principal = loan[k].principal
    BY <1>5, WithBalanceRow
  <1> HIDE DEF row
  <1>8. /\ SameLoans(loan, loan')
        /\ \A j \in DOMAIN loan \ {k} : loan'[j].balance = loan[j].balance
        /\ loan'[k].balance = b
    BY <1>4, <1>6, <1>7 DEF SameLoans
  <1>9. ASSUME NEW e \in Employees
        PROVE  ChargedTo(run, e) + OwedBy(loan', e) - Uncollected(Idle, e)
                  <= LentTo(loan', e) + edited[e]
    <2>1. LentTo(loan', e) = LentTo(loan, e)
      BY <1>3, <1>8, LentStays
    <2>2. ChargedTo(run, e) + OwedBy(loan, e) - Uncollected(g, e) <= LentTo(loan, e) + edited[e]
      BY <1>1 DEF Covered
    <2>3. /\ ChargedTo(run, e) \in Int /\ OwedBy(loan, e) \in Int /\ LentTo(loan, e) \in Int
          /\ OwedBy(loan', e) \in Int /\ edited[e] \in Int
      BY <1>3, ChargedShape, LoansShape
    <2>4. Uncollected(g, e) = 0 /\ Uncollected(Idle, e) = 0
      BY <1>0, <1>1, IdleNotes DEF Uncollected
    <2>5. OwedBy(loan', e) <= OwedBy(loan, e)
      <3>1. CASE k \in OwnLoans(loan, e)
        <4>1. \A j \in OwnLoans(loan, e) \ {k} : loan'[j].balance = loan[j].balance
          BY <1>8 DEF OwnLoans
        <4>2. OwedBy(loan', e) = OwedBy(loan, e) + loan'[k].balance - loan[k].balance
          BY <1>3, <1>8, <3>1, <4>1, OwedChanges
        <4> QED
          BY <1>4, <1>5, <1>8, <2>3, <4>2
      <3>2. CASE k \notin OwnLoans(loan, e)
        <4>1. \A j \in OwnLoans(loan, e) : loan'[j].balance = loan[j].balance
          BY <1>8, <3>2 DEF OwnLoans
        <4>2. OwedBy(loan', e) = OwedBy(loan, e)
          BY <1>3, <1>8, <4>1, OwedStays
        <4> QED
          BY <2>3, <4>2
      <3> QED
        BY <3>1, <3>2
    <2> QED
      BY <2>1, <2>2, <2>3, <2>4, <2>5
  <1>10. Covered(Idle, run', loan', edited')
    BY <1>0, <1>9 DEF Covered
  <1> QED
    BY <1>0, <1>10, IdleNotes, LoanMove

\* A procedure of one statement, nobody being at work.
LEMMA LoanAtOnce ==
    ASSUME LoanInv, SerialInv', Quiet, UNCHANGED req,
           \A e \in Employees : 
              ChargedTo(run', e) + OwedBy(loan', e) <= LentTo(loan', e) + edited'[e]
    PROVE  LoanInv'
  <1>1. run' \in Seq(Run) /\ loan' \in Seq(Loan)
    BY TablesAfter
  <1>2. Covered(Idle, run', loan', edited')
    <2>1. \A e \in Employees : /\ ChargedTo(run', e) \in Int /\ OwedBy(loan', e) \in Int
                               /\ Uncollected(Idle, e) = 0
      BY <1>1, ChargedShape, LoansShape, IdleNotes
    <2>2. \A e \in Employees :
             ChargedTo(run', e) + OwedBy(loan', e) - Uncollected(Idle, e)
                <= LentTo(loan', e) + edited'[e]
      BY <2>1
    <2> QED
      BY <2>2 DEF Covered
  <1>3. \A q \in Requests : ~Working(req'[q])
    BY QuietMeans
  <1> QED
    BY <1>2, <1>3 DEF LoanInv

\* What holds before such a procedure.
LEMMA CoveredQuietly ==
    ASSUME LoanInv, Quiet, NEW e \in Employees
    PROVE  /\ run \in Seq(Run) /\ loan \in Seq(Loan)
           /\ ChargedTo(run, e) \in Int /\ OwedBy(loan, e) \in Int /\ LentTo(loan, e) \in Int
           /\ edited \in [Employees -> Int] /\ edited[e] \in Int
           /\ ChargedTo(run, e) + OwedBy(loan, e) <= LentTo(loan, e) + edited[e]
  <1>1. run \in Seq(Run) /\ loan \in Seq(Loan) /\ edited \in [Employees -> Int]
    BY DEF LoanInv, SerialInv, PayrollInv, TypeOK
  <1>2. /\ ChargedTo(run, e) \in Int /\ OwedBy(loan, e) \in Int /\ LentTo(loan, e) \in Int
        /\ Uncollected(Idle, e) = 0
    BY <1>1, ChargedShape, LoansShape, IdleNotes
  <1>3. ChargedTo(run, e) + OwedBy(loan, e) - Uncollected(Idle, e) <= LentTo(loan, e) + edited[e]
    BY DEF LoanInv, Covered
  <1> QED
    BY <1>1, <1>2, <1>3

\* createLoan
LEMMA LoanGrant ==
    ASSUME LoanInv, SerialInv', Quiet,
           NEW f \in Employees, NEW p \in Principals, NEW n \in Instalments, GrantLoan(f, p, n)
    PROVE  LoanInv'
  <1>1. PICK row : row = [employee |-> f, principal |-> p, monthly |-> n, balance |-> p,
                          status |-> "active"]
    OBVIOUS
  <1>2. row \in Loan /\ row.balance = row.principal
    BY <1>1, PayrollAssumption DEF Loan
  <1>3. loan' = Append(loan, row) /\ UNCHANGED <<run, req, edited>>
    BY <1>1 DEF GrantLoan
  <1>4. loan' \in Seq(Loan)
    BY TablesAfter
  <1>5. ASSUME NEW e \in Employees
        PROVE  ChargedTo(run', e) + OwedBy(loan', e) <= LentTo(loan', e) + edited'[e]
    <2>1. OwedBy(loan', e) - LentTo(loan', e) = OwedBy(loan, e) - LentTo(loan, e)
      BY <1>2, <1>3, CoveredQuietly, LoanGranted
    <2>2. OwedBy(loan', e) \in Int /\ LentTo(loan', e) \in Int
      BY <1>4, LoansShape
    <2>3. /\ OwedBy(loan, e) \in Int /\ LentTo(loan, e) \in Int /\ ChargedTo(run, e) \in Int
          /\ edited[e] \in Int
          /\ ChargedTo(run, e) + OwedBy(loan, e) <= LentTo(loan, e) + edited[e]
      BY CoveredQuietly
    <2> QED
      BY <1>3, <2>1, <2>2, <2>3
  <1> QED
    BY <1>3, <1>5, LoanAtOnce

\* cancelLoan leaves the balance.
LEMMA LoanCancel ==
    ASSUME LoanInv, SerialInv', Quiet, NEW k \in LoanIds, CancelLoan(k)
    PROVE  LoanInv'
  <1>1. loan \in Seq(Loan) /\ loan' \in Seq(Loan)
    BY TablesAfter DEF LoanInv, SerialInv, PayrollInv, TypeOK
  <1>2. UNCHANGED <<run, req, edited>> /\ loan' = [loan EXCEPT ![k].status = "cancelled"]
    BY DEF CancelLoan
  <1>3. SameLoans(loan, loan') /\ \A j \in DOMAIN loan : loan'[j].balance = loan[j].balance
    <2>1. PICK row : row = [loan[k] EXCEPT !.status = "cancelled"]
      OBVIOUS
    <2>2. loan[k] \in Loan
      BY <1>1, LoanRow DEF LoanIds
    <2>3. /\ row.employee = loan[k].employee /\ row.principal = loan[k].principal
          /\ row.balance = loan[k].balance
      BY <2>1, <2>2 DEF Loan
    <2>4. loan' = [loan EXCEPT ![k] = row]
      BY <1>2, <2>1
    <2> QED
      BY <2>3, <2>4 DEF SameLoans
  <1>4. ASSUME NEW e \in Employees
        PROVE  ChargedTo(run', e) + OwedBy(loan', e) <= LentTo(loan', e) + edited'[e]
    <2>1. \A j \in OwnLoans(loan, e) : loan'[j].balance = loan[j].balance
      BY <1>3 DEF OwnLoans
    <2>2. OwedBy(loan', e) = OwedBy(loan, e) /\ LentTo(loan', e) = LentTo(loan, e)
      BY <1>1, <1>3, <2>1, OwedStays, LentStays
    <2> QED
      BY <1>2, <2>2, CoveredQuietly
  <1> QED
    BY <1>2, <1>4, LoanAtOnce

\* updateLineItem: what the line takes changes, and the history says by how much.
LEMMA LoanEdit ==
    ASSUME LoanInv, SerialInv', Quiet,
           NEW i \in RunIds, NEW f \in Employees, NEW d \in Edits,
           NEW k \in DOMAIN run[i].lines[f], EditLine(i, f, k, d)
    PROVE  LoanInv'
  <1>1. /\ run \in Seq(Run) /\ run' \in Seq(Run) /\ i \in DOMAIN run /\ OneLine(run[i].lines)
        /\ loan' = loan /\ req' = req
    BY TablesAfter
    DEF LoanInv, SerialInv, PayrollInv, TypeOK, OneLineEach, RunIds, EditLine
  <1>2. run[i] \in Run /\ run[i].lines \in Lines
    <2>1. run[i] \in Run
      BY <1>1, LenProperties
    <2> QED
      BY <2>1 DEF Run
  <1>3. PICK line : line = run[i].lines[f]
    OBVIOUS
  <1>4. /\ line \in Seq(Int) /\ Len(line) = 1 /\ k = 1 /\ d \in Int
        /\ line # << >> /\ DOMAIN line = 1..1
    <2>1. line \in Seq(Int) /\ Len(line) <= 1 /\ DOMAIN line = 1..Len(line) /\ Len(line) \in Nat
      BY <1>1, <1>2, <1>3, LenProperties DEF Lines, OneLine
    <2>2. k \in 1..Len(line)
      BY <1>3, <2>1
    <2>3. Len(line) = 1
      BY <2>1, <2>2
    <2>4. d \in Int
      BY PayrollAssumption
    <2>5. k = 1 /\ line # << >>
      BY <2>1, <2>2, <2>3
    <2>6. DOMAIN line = 1..1
      BY <2>1, <2>3
    <2> QED
      BY <2>1, <2>3, <2>4, <2>5, <2>6
  <1>5. PICK new : new = [line EXCEPT ![k] = d]
    OBVIOUS
  <1>6. PICK more : more = Taking(d) - Taking(line[k])
    OBVIOUS
  <1>7. LineOf(new) - LineOf(line) = more /\ more \in Int
    <2>1. new # << >> /\ new[1] = d
      <3>1. DOMAIN new = 1..1 /\ new[1] = d
        BY <1>4, <1>5
      <3>2. DOMAIN << >> = {}
        OBVIOUS
      <3>3. 1 \in 1..1
        OBVIOUS
      <3> QED
        BY <3>1, <3>2, <3>3
    <2>2. LineOf(new) = Taking(d) /\ LineOf(line) = Taking(line[k])
      BY <1>4, <2>1 DEF LineOf
    <2>3. Taking(d) \in Int /\ Taking(line[k]) \in Int
      BY <1>4, <2>2, LineIsAmount DEF Taking
    <2> QED
      BY <1>6, <2>2, <2>3
  <1>8. PICK row : row = [run[i] EXCEPT !.lines = [run[i].lines EXCEPT ![f] = new]]
    OBVIOUS
  <1>9. /\ row.lines = [run[i].lines EXCEPT ![f] = new]
        /\ \A e \in Employees : row.lines[e] = IF e = f THEN new ELSE run[i].lines[e]
    BY <1>2, <1>8 DEF Run, Lines
  <1>10. RowWritten(run, run', i, row)
    BY <1>3, <1>5, <1>8 DEF EditLine, RowWritten
  <1>11. edited' = [edited EXCEPT ![f] = edited[f] + more]
    BY <1>3, <1>6 DEF EditLine
  <1>12. ASSUME NEW e \in Employees
         PROVE  ChargedTo(run', e) + OwedBy(loan', e) <= LentTo(loan', e) + edited'[e]
    <2>1. ChargedTo(run', e)
             = ChargedTo(run, e) + (LineOf(row.lines[e]) - LineOf(run[i].lines[e]))
      BY <1>1, <1>10, ChargedRow
    <2>2. LineOf(run[i].lines[e]) \in Nat
      <3>1. run[i].lines[e] \in Seq(Int)
        BY <1>2 DEF Lines
      <3> QED
        BY <3>1, LineIsAmount
    <2>3. edited'[e] = IF e = f THEN edited[e] + more ELSE edited[e]
      BY <1>11, CoveredQuietly
    <2>4. CASE e = f
      <3>1. LineOf(row.lines[e]) - LineOf(run[i].lines[e]) = more
        BY <1>3, <1>7, <1>9, <2>4
      <3> QED
        BY SMTT(30), <1>1, <1>7, <2>1, <2>3, <2>4, <3>1, CoveredQuietly
    <2>5. CASE e # f
      <3>1. LineOf(row.lines[e]) = LineOf(run[i].lines[e])
        BY <1>9, <2>5
      <3> QED
        BY SMTT(30), <1>1, <2>1, <2>2, <2>3, <2>5, <3>1, CoveredQuietly
    <2> QED
      BY <2>4, <2>5
  <1> QED
    BY <1>1, <1>12, LoanAtOnce

LEMMA LoanStepOK ==
    ASSUME LoanInv, [SerialNext]_vars
    PROVE  LoanInv'
  <1>1. SerialInv'
    BY SerialStepOK DEF LoanInv
  <1>2. CASE Quiet /\ AtOnce
    BY <1>1, <1>2, LoanGrant, LoanCancel, LoanEdit DEF AtOnce
  <1>3. ASSUME NEW r \in Requests, Quiet, BeginWork(r)
        PROVE  LoanInv'
    BY <1>1, <1>3, LoanRead
  <1>4. ASSUME NEW r \in Requests, BeginMove(r) \/ Continue(r)
        PROVE  LoanInv'
    BY <1>1, <1>4, LoanExecute, LoanInsert, LoanRead, LoanLine, LoanCollect, LoanRelease,
       LoanBalance
    DEF Continue
  <1>5. CASE UNCHANGED vars
    <2>1. UNCHANGED <<run, loan, req, edited>>
      BY <1>5 DEF vars
    <2> QED
      BY <1>1, <2>1 DEF LoanInv, Quiet
  <1> QED
    BY <1>2, <1>3, <1>4, <1>5 DEF SerialNext

\* The sums of NeverOvercharged, rewritten.
LEMMA LinesTotalIsTheLine ==
    ASSUME SerialInv, NEW i \in RunIds, NEW e \in Employees
    PROVE  LinesTotal(i, e) = LineOf(run[i].lines[e])
  <1>1. PICK line : line = run[i].lines[e]
    OBVIOUS
  <1>2. line \in Seq(Int) /\ Len(line) <= 1
    BY <1>1, TablesShape DEF RunIds, SerialInv, OneLineEach, OneLine, Run, Lines
  <1>3. Len(line) \in Nat /\ DOMAIN line = 1..Len(line)
    BY <1>2, LenProperties
  <1> DEFINE D == DOMAIN line
             g == [k \in D |-> Taking(line[k])]
             SumOf(iter, s) == IF s = {} THEN 0 ELSE Taking(line[Picked(s)]) + iter[Rest(s)]
             It(iter) == [s \in SUBSET D |-> SumOf(iter, s)]
  <1>4. LinesTotal(i, e) = (CHOOSE iter : iter = It(iter))[D]
    BY <1>1 DEF LinesTotal, MapThenSumSet, MapThenFoldSet, Picked, Rest
  <1>5. Total(g, D) = (CHOOSE iter : IsSums(g, D, iter))[D]
    BY DEF Total, MapThenSumSet, MapThenFoldSet, IsSums, SumStep, Picked, Rest
  <1>6. \A iter : IsSums(g, D, iter) <=> iter = It(iter)
    <2>1. \A s \in SUBSET D : s # {} => g[Picked(s)] = Taking(line[Picked(s)])
      BY DEF Picked
    <2> HIDE DEF g
    <2>2. \A iter : \A s \in SUBSET D : SumStep(g, iter, s) = SumOf(iter, s)
      BY <2>1 DEF SumStep
    <2> HIDE DEF SumOf
    <2>3. \A iter : [s \in SUBSET D |-> SumStep(g, iter, s)] = It(iter)
      BY <2>2
    <2> QED
      BY <2>3 DEF IsSums
  <1>7. LinesTotal(i, e) = Total(g, D)
    <2> HIDE DEF It, g, D
    <2> QED
      BY <1>4, <1>5, <1>6
  <1>8. \A k \in D : g[k] = Taking(line[k])
    OBVIOUS
  <1> HIDE DEF g
  <1>9. CASE Len(line) = 0
    <2>1. D = {} /\ line = << >>
      BY <1>2, <1>3, <1>9, EmptySeq
    <2>2. Total(g, {}) = 0
      BY TotalOfNone
    <2> QED
      BY <1>1, <1>7, <2>1, <2>2 DEF LineOf
  <1>10. CASE Len(line) = 1
    <2>1. D = {1} /\ line # << >> /\ line[1] \in Int
      <3>1. D = 1..1
        BY <1>3, <1>10
      <3>2. 1 \in DOMAIN line /\ line # << >>
        BY <1>2, <1>3, <1>10, EmptySeq
      <3>3. line[1] \in Int
        BY <1>2, <3>2, LenProperties
      <3> QED
        BY <3>1, <3>2, <3>3
    <2>2. g[1] = Taking(line[1]) /\ Taking(line[1]) \in Int
      BY <1>8, <2>1 DEF Taking
    <2>3. Total(g, {1}) = g[1] + Total(g, {1} \ {1})
      <3>1. IsFiniteSet({1})
        BY FS_Singleton
      <3> QED
        BY <2>2, <3>1, TotalWithout
    <2>4. PICK rest : rest = {1} \ {1}
      OBVIOUS
    <2>5. rest = {}
      BY <2>4
    <2>6. Total(g, rest) = 0
      BY <2>5, TotalOfNone
    <2>7. Total(g, {1}) = g[1]
      BY <2>2, <2>3, <2>4, <2>6
    <2> QED
      BY <1>1, <1>7, <2>1, <2>2, <2>7 DEF LineOf
  <1> QED
    BY <1>2, <1>3, <1>9, <1>10

LEMMA RunsTotalIsCharged ==
    ASSUME SerialInv, NEW e \in Employees
    PROVE  MapThenSumSet(LAMBDA i : LinesTotal(i, e), RunIds) = ChargedTo(run, e)
  <1> DEFINE SumOf(iter, s) == IF s = {} THEN 0
                               ELSE LinesTotal(Picked(s), e) + iter[Rest(s)]
             It(iter) == [s \in SUBSET RunIds |-> SumOf(iter, s)]
             T == MapThenSumSet(LAMBDA i : LinesTotal(i, e), RunIds)
             g == Charges(run, e)
  <1>1. T = (CHOOSE iter : iter = It(iter))[RunIds]
    BY DEF MapThenSumSet, MapThenFoldSet, Picked, Rest
  <1>2. \A i \in RunIds : g[i] = LinesTotal(i, e)
    BY LinesTotalIsTheLine DEF Charges, RunIds
  <1>3. \A iter : IsSums(g, RunIds, iter) <=> iter = It(iter)
    <2> HIDE DEF g
    <2>1. \A s \in SUBSET RunIds : s # {} => Picked(s) \in RunIds
      BY DEF Picked
    <2>2. \A iter : \A s \in SUBSET RunIds : SumStep(g, iter, s) = SumOf(iter, s)
      BY <1>2, <2>1 DEF SumStep
    <2> HIDE DEF SumOf
    <2>3. \A iter : [s \in SUBSET RunIds |-> SumStep(g, iter, s)] = It(iter)
      BY <2>2
    <2> QED
      BY <2>3 DEF IsSums
  <1>4. Total(g, RunIds) = (CHOOSE iter : IsSums(g, RunIds, iter))[RunIds]
    BY DEF Total, MapThenSumSet, MapThenFoldSet, IsSums, SumStep, Picked, Rest
  <1>5. ChargedTo(run, e) = Total(g, RunIds)
    BY DEF ChargedTo, RunIds
  <1> HIDE DEF It, T, g
  <1>6. T = Total(g, RunIds)
    BY <1>1, <1>3, <1>4
  <1> QED
    BY <1>5, <1>6 DEF T

LEMMA LoansTotal ==
    ASSUME NEW e
    PROVE  /\ MapThenSumSet(LAMBDA k : loan[k].balance, LoansOf(e)) = OwedBy(loan, e)
           /\ MapThenSumSet(LAMBDA k : loan[k].principal, LoansOf(e)) = LentTo(loan, e)
  <1> DEFINE T == LoansOf(e)
             BalanceSum(iter, s) == IF s = {} THEN 0
                                    ELSE loan[Picked(s)].balance + iter[Rest(s)]
             Owed(iter) == [s \in SUBSET T |-> BalanceSum(iter, s)]
             PrincipalSum(iter, s) == IF s = {} THEN 0
                                      ELSE loan[Picked(s)].principal + iter[Rest(s)]
             Lent(iter) == [s \in SUBSET T |-> PrincipalSum(iter, s)]
  <1>0. T = OwnLoans(loan, e) /\ T \subseteq DOMAIN loan
    BY DEF LoansOf, OwnLoans, LoanIds
  <1>1. MapThenSumSet(LAMBDA k : loan[k].balance, T) = (CHOOSE iter : iter = Owed(iter))[T]
    BY DEF MapThenSumSet, MapThenFoldSet, Picked, Rest
  <1>2. MapThenSumSet(LAMBDA k : loan[k].principal, T) = (CHOOSE iter : iter = Lent(iter))[T]
    BY DEF MapThenSumSet, MapThenFoldSet, Picked, Rest
  <1>3. \A g : Total(g, T) = (CHOOSE iter : IsSums(g, T, iter))[T]
    BY DEF Total, MapThenSumSet, MapThenFoldSet, IsSums, SumStep, Picked, Rest
  <1>4. OwedBy(loan, e) = Total(Balances(loan), T) /\ LentTo(loan, e) = Total(Granted(loan), T)
    BY <1>0 DEF OwedBy, LentTo
  <1> HIDE DEF T
  <1>5. \A s \in SUBSET T : s # {} => Picked(s) \in DOMAIN loan
    BY <1>0 DEF Picked
  <1>6. \A iter : IsSums(Balances(loan), T, iter) <=> iter = Owed(iter)
    BY <1>5 DEF IsSums, SumStep, Balances
  <1>7. \A iter : IsSums(Granted(loan), T, iter) <=> iter = Lent(iter)
    BY <1>5 DEF IsSums, SumStep, Granted
  <1> HIDE DEF Owed, Lent
  <1>8. MapThenSumSet(LAMBDA k : loan[k].balance, T) = OwedBy(loan, e)
    BY <1>1, <1>3, <1>4, <1>6
  <1>9. MapThenSumSet(LAMBDA k : loan[k].principal, T) = LentTo(loan, e)
    BY <1>2, <1>3, <1>4, <1>7
  <1> QED
    BY <1>8, <1>9 DEF T

\* What the lines of all months take and what the loans still ask for never exceeds what was
\* lent but by what HR's edits of the lines added, however often a month is executed again:
\* an execution gives back to the first active loan what the old line took, edited or not,
\* before it takes the new instalment from it, and the same loan pays for both
\* (payrollExecuteMonthly.ts:279-306, 428-436).
THEOREM NobodyIsOvercharged == SerialSpec => []NeverOvercharged
  <1>1. Init => LoanInv
    <2> SUFFICES ASSUME Init
                 PROVE  LoanInv
      OBVIOUS
    <2>1. /\ run = << >> /\ loan = << >>
          /\ \A r \in Requests : req[r] = Idle
          /\ \A e \in Employees : edited[e] = 0
      BY DEF Init
    <2>2. SerialInv
      BY SerialInitOK
    <2>3. ASSUME NEW e \in Employees
          PROVE  ChargedTo(run, e) + OwedBy(loan, e) - Uncollected(Idle, e)
                    <= LentTo(loan, e) + edited[e]
      <3>1. DOMAIN run = {} /\ OwnLoans(loan, e) = {}
        BY <2>1 DEF OwnLoans
      <3>2. ChargedTo(run, e) = 0 /\ OwedBy(loan, e) = 0 /\ LentTo(loan, e) = 0
        BY <3>1, TotalOfNone DEF ChargedTo, OwedBy, LentTo
      <3> QED
        BY <2>1, <3>2, IdleNotes
    <2>4. Covered(Idle, run, loan, edited)
      BY <2>3 DEF Covered
    <2> QED
      BY <2>1, <2>2, <2>4, WorkingShape DEF LoanInv
  <1>2. LoanInv /\ [SerialNext]_vars => LoanInv'
    BY LoanStepOK
  <1>3. LoanInv => NeverOvercharged
    <2> SUFFICES ASSUME LoanInv, NEW e \in Employees, Quiet
                 PROVE  MapThenSumSet(LAMBDA i : LinesTotal(i, e), RunIds)
                          + MapThenSumSet(LAMBDA k : loan[k].balance, LoansOf(e))
                        <= MapThenSumSet(LAMBDA k : loan[k].principal, LoansOf(e)) + edited[e]
      BY DEF NeverOvercharged
    <2>1. SerialInv /\ ChargedTo(run, e) + OwedBy(loan, e) <= LentTo(loan, e) + edited[e]
      BY CoveredQuietly DEF LoanInv
    <2> QED
      BY <2>1, RunsTotalIsCharged, LoansTotal
  <1> QED
    BY <1>1, <1>2, <1>3, PTL DEF SerialSpec
=============================================================================
