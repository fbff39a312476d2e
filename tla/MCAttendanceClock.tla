-------------------------- MODULE MCAttendanceClock --------------------------
(* Small instances of AttendanceClock for TLC. *)
EXTENDS AttendanceClock

CONSTANTS r1, r2, o1, early, late, jan, feb

OneRequest   == {r1}
TwoRequests  == {r1, r2}
NoOfficer    == {}
OneOfficer   == {o1}
OneShift     == {early}
TwoShifts    == {early, late}
OneMonth     == {jan}
TwoMonths    == {jan, feb}
OneDay       == {1}
TwoDays      == {1, 2}
InJanuary    == [d \in OneDay |-> jan]
BothJanuary  == [d \in TwoDays |-> jan]
MonthTurn    == [d \in TwoDays |-> IF d = 1 THEN jan ELSE feb]
=============================================================================
