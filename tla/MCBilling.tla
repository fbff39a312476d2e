----------------------------- MODULE MCBilling -----------------------------
(* Small instances of AttendanceBilling for TLC. *)
EXTENDS BillingRefinement

CONSTANTS r1, r2, c1, c2

OneRequest  == {r1}
TwoRequests == {r1, r2}
OneCandidate  == {c1}
TwoCandidates == {c1, c2}

=============================================================================
