-------------------------- MODULE MCClientApproval --------------------------
(* Small instances of ClientApproval for TLC. *)
EXTENDS ClientApproval

CONSTANTS r1, r2, o1, s1, s2, i1, i2, jan, feb

OneRequest  == {r1}
TwoRequests == {r1, r2}
OneOfficer  == {o1}
OneScope    == {s1}
TwoScopes   == {s1, s2}
OneItem     == {i1}
TwoItems    == {i1, i2}
OneMonth    == {jan}
TwoMonths   == {jan, feb}

\* Every scope starts in january, and lies in it ...
InJanuary    == [s \in Scopes |-> jan]
JanuaryOnly  == [s \in Scopes |-> {jan}]
\* ... or ends in february.
IntoFebruary == [s \in Scopes |-> {jan, feb}]
=============================================================================
