------------------------- MODULE MCOnlinePayments -------------------------
(* Small instances of OnlinePayments for TLC. *)
EXTENDS OnlinePayments

CONSTANTS r1, r2, p1, p2

OneRequest  == {r1}
TwoRequests == {r1, r2}
OnePeriod   == {p1}
TwoPeriods  == {p1, p2}
=============================================================================
