---------------------------- MODULE InvoiceLedger ----------------------------
(***************************************************************************)
(* What attendance billing promises, one atomic step per operation: a      *)
(* candidate is reviewed, turned into at most one invoice, and the invoice *)
(* is issued, sent and paid, or withdrawn while no money is on it.         *)
(***************************************************************************)
EXTENDS Integers

CONSTANTS Candidates, Totals, Amounts

VARIABLES
    review,   \* review[c]: status of candidate c
    bill      \* bill[c]: the invoice of candidate c, or NoBill

vars == <<review, bill>>

\* A balance up to this much counts as settled, and may be overpaid by this much.
Slack == 1

NoBill == [status |-> "none", total |-> 0, paid |-> 0]

Init ==
    /\ review = [c \in Candidates |-> "draft"]
    /\ bill = [c \in Candidates |-> NoBill]

Open(c) == bill[c].status \notin {"none", "cancelled"}
Owed(c) == bill[c].status \in {"issued", "sent"}

SetStatus(c, s) == bill' = [bill EXCEPT ![c].status = s] /\ UNCHANGED review

Review(c) ==
    /\ review[c] = "draft"
    /\ review' = [review EXCEPT ![c] = "review_ready"]
    /\ UNCHANGED bill

Drop(c) ==
    /\ review[c] \in {"draft", "review_ready"}
    /\ ~Open(c)
    /\ review' = [review EXCEPT ![c] = "cancelled"]
    /\ UNCHANGED bill

Bill(c, total) ==
    /\ review[c] = "review_ready"
    /\ ~Open(c)
    /\ bill' = [bill EXCEPT ![c] = [status |-> "draft", total |-> total, paid |-> 0]]
    /\ UNCHANGED review

Issue(c)    == bill[c].status = "draft" /\ SetStatus(c, "issued")
Send(c)     == bill[c].status = "issued" /\ SetStatus(c, "sent")
Withdraw(c) ==
    /\ bill[c].status = "draft" \/ (Owed(c) /\ bill[c].paid = 0)
    /\ SetStatus(c, "cancelled")

Settle(c, amount) ==
    /\ Owed(c)
    /\ bill[c].paid + amount <= bill[c].total + Slack
    /\ bill' = [bill EXCEPT
           ![c].paid = @ + amount,
           ![c].status = IF bill[c].paid + amount >= bill[c].total - Slack THEN "paid" ELSE @]
    /\ UNCHANGED review

Next ==
    \E c \in Candidates :
        \/ Review(c) \/ Drop(c) \/ Issue(c) \/ Send(c) \/ Withdraw(c)
        \/ \E t \in Totals : Bill(c, t)
        \/ \E a \in Amounts : Settle(c, a)

Spec == Init /\ [][Next]_vars
=============================================================================
