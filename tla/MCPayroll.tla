----------------------------- MODULE MCPayroll -----------------------------
(* Small instances of Payroll for TLC. *)
EXTENDS Payroll, TLC

CONSTANTS r1, r2, e1, e2, jan, feb

OneRequest   == {r1}
TwoRequests  == {r1, r2}
OneEmployee  == {e1}
TwoEmployees == {e1, e2}
OneMonth     == {jan}
TwoMonths    == {jan, feb}

\* Requests and months can be exchanged: no definition tells one from another.
Symmetric == Permutations(Requests) \cup Permutations(Months)

\* Bounds: e1 alone borrows, and HR edits e1's lines; the first run alone is approved,
\* exported and paid.
SmallCompany ==
    /\ \A k \in LoanIds : loan[k].employee = e1
    /\ \A e \in Employees \ {e1} : \A i \in RunIds : \A k \in DOMAIN run[i].lines[e] :
          run[i].lines[e][k] = 0
    /\ \A r \in Requests : req[r].at \in MoveOps => req[r].run = 1
=============================================================================
