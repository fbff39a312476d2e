---------------------------- MODULE AttendanceClock ----------------------------
(***************************************************************************)
(* The punches of one employee (server/routers/attendance.ts): the rows of *)
(* attendance_records and, for each, the row of attendance_sessions that   *)
(* payroll counts; check-in and check-out, forced check-out, manual        *)
(* check-in requests, corrections and the session repair; the period guard *)
(* that all of them consult, and the period requests themselves            *)
(* (PeriodLock).                                                           *)
(*                                                                         *)
(* Each procedure selects rows, consults the guard, and then writes in one *)
(* transaction.  The transaction is a single step: it works on what was    *)
(* selected before it, looks at nothing else again, and leaves nothing     *)
(* behind when a unique key refuses one of its rows.  A request that dies  *)
(* on the way is one that takes no further step.                           *)
(*                                                                         *)
(* Time is the day.  What the clock decides within a day (which shift is   *)
(* the current one, whether its window is open, which of two punches of a  *)
(* day is the newest) may go either way.                                   *)
(***************************************************************************)
EXTENDS PeriodLock, Sequences

CONSTANTS
    Requests,        \* requests in flight at the same time
    Schedules,       \* rows of employee_schedules
    Days,            \* calendar days, numbered from 1
    MonthOf,         \* the month of each day
    MaxPunches,      \* bound: rows ever inserted into attendance_records
    MaxAsked,        \* bound: manual check-in requests
    MaxCorrections   \* bound: correction requests

ASSUME ClockAssumption ==
    /\ Days \subseteq Nat
    /\ 1 \in Days
    /\ MonthOf \in [Days -> Months]
    /\ {MaxPunches, MaxAsked, MaxCorrections} \subseteq Nat

VARIABLES
    today,        \* the calendar day in Muscat
    punch,        \* attendance_records, the id being the index
    session,      \* session[i]: the row of attendance_sessions whose source_record_id is i
    asked,        \* manual_checkin_requests
    correction,   \* attendance_corrections
    req           \* what each request holds

tables == <<punch, session, asked, correction>>
vars == <<today, punch, session, asked, correction, req, lock, trail, officer>>

-----------------------------------------------------------------------------
Unscheduled == "unscheduled"
Shift == Schedules \cup {Unscheduled}
Nobody == 0

Punch == [schedule: Shift,
          day: Days,              \* of check_in
          open: BOOLEAN,          \* check_out is null
          manual: BOOLEAN,        \* method = 'manual'
          corrected: BOOLEAN,     \* notes like '%Correction%'
          asked: Nat,             \* the manual request its audit row names, or Nobody
          gone: BOOLEAN]          \* the row was deleted
Session == [schedule: Shift, day: Days, open: BOOLEAN]

Decision == {"pending", "approved", "rejected"}
Asked == [at: Days, day: Days, schedule: Shift, status: Decision, punch: Nat]
Correction == [day: Days, in: BOOLEAN, out: BOOLEAN, attached: Nat, status: Decision, punch: Nat]

Idle == [op |-> "idle", at |-> "idle"]
Row == Nat \ {0}
Stage == {"guard", "commit"}

\* day is the day whose period the guard is asked about.
Request ==
    {Idle}
    \cup [op: {"checkin"}, at: Stage, day: Days, schedule: Schedules]
    \cup [op: {"checkout", "force"}, at: Stage, day: Days, punch: Row]
    \cup [op: {"repair"}, at: Stage, day: Days, punch: Row, seen: Punch]
    \cup [op: {"approve", "reject"}, at: Stage, day: Days, asked: Row]
    \cup [op: {"correct", "refuse"}, at: Stage, day: Days, correction: Row]
    \cup [op: {"ask"}, at: {"commit"}, day: Days, schedule: Shift]
    \cup [op: {"submit"}, at: {"commit"}, correction: Correction]

Punches == {i \in DOMAIN punch : ~punch[i].gone}
OpenPunches == {i \in Punches : punch[i].open}

TypeOK ==
    /\ today \in Days
    /\ punch \in Seq(Punch)
    /\ session \in Seq(Session) /\ Len(session) = Len(punch)
    /\ asked \in Seq(Asked)
    /\ correction \in Seq(Correction)
    /\ req \in [Requests -> Request]
    /\ PeriodTypeOK

Init ==
    /\ today = 1
    /\ punch = << >> /\ session = << >>
    /\ asked = << >> /\ correction = << >>
    /\ req = [r \in Requests |-> Idle]
    /\ PeriodInit

Goto(r, held) == req' = [req EXCEPT ![r] = held]
Advance(r, at) == req' = [req EXCEPT ![r].at = at]
Return(r) == Goto(r, Idle)
Only(A) == A /\ UNCHANGED <<today, tables>>

\* loadAndAssertPeriodNotLocked, which every operation but a submission calls between its
\* selects and its transaction.
Guard(r) ==
    /\ req[r].at = "guard"
    /\ Only(\E s \in Seen(MonthOf[req[r].day]) :
               IF PeriodIsOpen(s) THEN Advance(r, "commit") ELSE Return(r))

Commits(r, op) == req[r].op = op /\ req[r].at = "commit"

-----------------------------------------------------------------------------
(* The transactions *)

\* open_session_key
PunchKey(ps) ==
    \A i, j \in DOMAIN ps :
        /\ ps[i].open /\ ~ps[i].gone /\ ps[j].open /\ ~ps[j].gone
        /\ ps[i].schedule # Unscheduled
        /\ ps[i].schedule = ps[j].schedule
        => i = j

\* open_key
SessionKey(ss) ==
    \A i, j \in DOMAIN ss :
        /\ ss[i].open /\ ss[j].open
        /\ ss[i].schedule # Unscheduled
        /\ ss[i].schedule = ss[j].schedule
        /\ ss[i].day = ss[j].day
        => i = j

\* The transaction of request r: all of its rows, or none.
Commit(r, ps, ss, as, cs) ==
    /\ IF PunchKey(ps) /\ SessionKey(ss)
       THEN punch' = ps /\ session' = ss /\ asked' = as /\ correction' = cs
       ELSE UNCHANGED tables
    /\ Return(r)
    /\ UNCHANGED today

\* Fault: a session that was repaired or corrected is closed.
SyncedClosed(row) == [schedule |-> row.schedule, day |-> row.day, open |-> FALSE]

\* syncAttendanceSessionsFromAttendanceRecordTx
Synced(row) == [schedule |-> row.schedule, day |-> row.day, open |-> row.open]

\* Fault: the punch is inserted alone.
PunchOnly(ss, row, day) == ss

\* insertAttendanceSessionSafe: the business date is not always the day of the punch.
NewSession(ss, row, day) == Append(ss, [Synced(row) EXCEPT !.day = day])

\* Fault: the session is left open.
CloseOnlyPunch(ss, i) == ss

\* closeAttendanceSessionSafe
ClosedSession(ss, i) == [ss EXCEPT ![i].open = FALSE]

-----------------------------------------------------------------------------
(* checkIn, checkOut, forceCheckout, repairSessionFromAttendanceRecord *)

\* Neither the shift nor the employee has an open punch.  The gate lets nobody in without
\* a current shift, so this punch has one.
CheckInRead(r, s) ==
    /\ req[r] = Idle
    /\ OpenPunches = {}
    /\ Len(punch) < MaxPunches
    /\ Only(Goto(r, [op |-> "checkin", at |-> "guard", day |-> today, schedule |-> s]))

\* The check-in instant is taken now, the business date was taken before.
CheckInCommit(r) ==
    /\ Commits(r, "checkin")
    /\ Len(punch) < MaxPunches
    /\ LET row == [schedule |-> req[r].schedule, day |-> today, open |-> TRUE, manual |-> FALSE,
                   corrected |-> FALSE, asked |-> Nobody, gone |-> FALSE]
       IN Commit(r, Append(punch, row), NewSession(session, row, req[r].day),
                 asked, correction)

\* The newest open punch.
CheckOutRead(r) ==
    /\ req[r] = Idle
    /\ \E i \in OpenPunches :
          /\ \A j \in OpenPunches : punch[j].day <= punch[i].day
          /\ Only(Goto(r, [op |-> "checkout", at |-> "guard", day |-> punch[i].day, punch |-> i]))

\* An update by id: a row that is closed is written again, one that is gone is not there.
ClosePunch(r, admin) ==
    LET i == req[r].punch
    IN Commit(r, [punch EXCEPT ![i].open = FALSE, ![i].manual = @ /\ ~admin],
              ClosedSession(session, i), asked, correction)

CheckOutCommit(r) == Commits(r, "checkout") /\ ClosePunch(r, FALSE)

ForceCheckoutRead(r, i) ==
    /\ req[r] = Idle
    /\ i \in OpenPunches
    /\ Only(Goto(r, [op |-> "force", at |-> "guard", day |-> punch[i].day, punch |-> i]))

ForceCheckoutCommit(r) == Commits(r, "force") /\ ClosePunch(r, TRUE)

RepairRead(r, i) ==
    /\ req[r] = Idle
    /\ i \in Punches
    /\ Only(Goto(r, [op |-> "repair", at |-> "guard", day |-> punch[i].day, punch |-> i,
                     seen |-> punch[i]]))

\* The session is made from the row that was read.
RepairCommit(r) ==
    /\ Commits(r, "repair")
    /\ Commit(r, punch, [session EXCEPT ![req[r].punch] = Synced(req[r].seen)], asked, correction)

-----------------------------------------------------------------------------
(* submitManualCheckIn, approveManualCheckIn, rejectManualCheckIn *)

\* At most one request of today is pending.  Shift and business date can be given.
AskRead(r, d, s) ==
    /\ req[r] = Idle
    /\ Len(asked) < MaxAsked
    /\ \A k \in DOMAIN asked : ~(asked[k].status = "pending" /\ asked[k].at = today)
    /\ d <= today
    /\ Only(Goto(r, [op |-> "ask", at |-> "commit", day |-> d, schedule |-> s]))

AskCommit(r) ==
    /\ Commits(r, "ask")
    /\ Len(asked) < MaxAsked
    /\ Commit(r, punch, session,
              Append(asked, [at |-> today, day |-> req[r].day, schedule |-> req[r].schedule,
                             status |-> "pending", punch |-> Nobody]),
              correction)

ApproveRead(r, k) ==
    /\ req[r] = Idle
    /\ asked[k].status = "pending"
    /\ Len(punch) < MaxPunches
    /\ Only(Goto(r, [op |-> "approve", at |-> "guard", day |-> asked[k].day, asked |-> k]))

\* An open punch and its session, and the request updated by id.  The punch is dated by
\* the request's arrival, the session by the date it asked for.
ApproveCommit(r) ==
    /\ Commits(r, "approve")
    /\ Len(punch) < MaxPunches
    /\ LET k == req[r].asked
           row == [schedule |-> asked[k].schedule, day |-> asked[k].at, open |-> TRUE,
                   manual |-> TRUE, corrected |-> FALSE, asked |-> k, gone |-> FALSE]
       IN Commit(r, Append(punch, row), NewSession(session, row, asked[k].day),
                 [asked EXCEPT ![k].status = "approved", ![k].punch = Len(punch) + 1], correction)

\* Fault: a request that was decided can be rejected.
RejectDecided(r, k) ==
    /\ req[r] = Idle
    /\ Only(Goto(r, [op |-> "reject", at |-> "guard", day |-> asked[k].day, asked |-> k]))

RejectRead(r, k) ==
    /\ req[r] = Idle
    /\ asked[k].status = "pending"
    /\ Only(Goto(r, [op |-> "reject", at |-> "guard", day |-> asked[k].day, asked |-> k]))

RejectCommit(r) ==
    /\ Commits(r, "reject")
    /\ Commit(r, punch, session, [asked EXCEPT ![req[r].asked].status = "rejected"], correction)

-----------------------------------------------------------------------------
(* submitCorrection, approveCorrection, rejectCorrection *)

\* The duplicate check and the insert share a transaction, but the check locks nothing.
\* A request that names a punch does not have to name its day.
SubmitRead(r, d, in, out, i) ==
    /\ req[r] = Idle
    /\ Len(correction) < MaxCorrections
    /\ \A c \in DOMAIN correction : ~(correction[c].status = "pending" /\ correction[c].day = d)
    /\ Only(Goto(r, [op |-> "submit", at |-> "commit",
                     correction |-> [day |-> d, in |-> in, out |-> out, attached |-> i,
                                     status |-> "pending", punch |-> i]]))

SubmitCommit(r) ==
    /\ Commits(r, "submit")
    /\ Len(correction) < MaxCorrections
    /\ Commit(r, punch, session, asked, Append(correction, req[r].correction))

CorrectRead(r, c) ==
    /\ req[r] = Idle
    /\ correction[c].status = "pending"
    /\ Only(Goto(r, [op |-> "correct", at |-> "guard", day |-> correction[c].day, correction |-> c]))

Decided(cs, c, i) == [cs EXCEPT ![c].status = "approved", ![c].punch = i]

\* The correction names punch i: whatever times it asks for are written into that row.
CorrectAttached(r, c, i) ==
    LET row == [punch[i] EXCEPT !.day = IF correction[c].in THEN correction[c].day ELSE @,
                                !.open = @ /\ ~correction[c].out]
    IN IF punch[i].gone
       THEN Commit(r, punch, session, asked, Decided(correction, c, i))
       ELSE Commit(r, [punch EXCEPT ![i] = row], [session EXCEPT ![i] = Synced(row)],
                   asked, Decided(correction, c, i))

OfDay(d) == {i \in Punches : punch[i].day = d}

\* Of the rows of day d, those that a correction left and that are not row i are deleted.
WithoutOtherCorrections(ps, d, i) ==
    [j \in DOMAIN ps |->
        [ps[j] EXCEPT !.gone = @ \/ (j # i /\ ps[j].day = d /\ ps[j].manual /\ ps[j].corrected)]]

\* It names none: the newest punch of its day is corrected ...
CorrectNewest(r, c, i) ==
    LET row == [punch[i] EXCEPT !.open = @ /\ ~correction[c].out, !.corrected = TRUE]
    IN Commit(r, WithoutOtherCorrections([punch EXCEPT ![i] = row], correction[c].day, i),
              [session EXCEPT ![i] = Synced(row)], asked, Decided(correction, c, i))

\* ... or, on a day that has none, a punch without a shift is inserted.
CorrectInsert(r, c) ==
    LET i == Len(punch) + 1
        row == [schedule |-> Unscheduled, day |-> correction[c].day, open |-> ~correction[c].out,
                manual |-> TRUE, corrected |-> TRUE, asked |-> Nobody, gone |-> FALSE]
    IN /\ i <= MaxPunches
       /\ Commit(r, Append(punch, row), NewSession(session, row, row.day), asked, Decided(correction, c, i))

CorrectCommit(r) ==
    LET c == req[r].correction
    IN /\ Commits(r, "correct")
       /\ \/ correction[c].attached # Nobody /\ CorrectAttached(r, c, correction[c].attached)
          \/ /\ correction[c].attached = Nobody /\ correction[c].in
             /\ \/ \E i \in OfDay(correction[c].day) : CorrectNewest(r, c, i)
                \/ OfDay(correction[c].day) = {} /\ CorrectInsert(r, c)
          \/ /\ correction[c].attached = Nobody /\ ~correction[c].in
             /\ Commit(r, punch, session, asked, Decided(correction, c, Nobody))

RefuseRead(r, c) ==
    /\ req[r] = Idle
    /\ correction[c].status = "pending"
    /\ Only(Goto(r, [op |-> "refuse", at |-> "guard", day |-> correction[c].day, correction |-> c]))

RefuseCommit(r) ==
    /\ Commits(r, "refuse")
    /\ Commit(r, punch, session, asked, [correction EXCEPT ![req[r].correction].status = "rejected"])

-----------------------------------------------------------------------------
NextDay ==
    /\ today + 1 \in Days
    /\ today' = today + 1
    /\ UNCHANGED <<tables, req>>

Arrive(r) ==
    \/ \E s \in Schedules : CheckInRead(r, s)
    \/ CheckOutRead(r)
    \/ \E i \in DOMAIN punch : ForceCheckoutRead(r, i) \/ RepairRead(r, i)
    \/ \E d \in Days, s \in Shift : AskRead(r, d, s)
    \/ \E k \in DOMAIN asked : ApproveRead(r, k) \/ RejectRead(r, k)
    \/ \E d \in Days, in, out \in BOOLEAN, i \in DOMAIN punch \cup {Nobody} :
          SubmitRead(r, d, in, out, i)
    \/ \E c \in DOMAIN correction : CorrectRead(r, c) \/ RefuseRead(r, c)

Continue(r) ==
    \/ Guard(r)
    \/ CheckInCommit(r)
    \/ CheckOutCommit(r)
    \/ ForceCheckoutCommit(r)
    \/ RepairCommit(r)
    \/ AskCommit(r)
    \/ ApproveCommit(r)
    \/ RejectCommit(r)
    \/ SubmitCommit(r)
    \/ CorrectCommit(r)
    \/ RefuseCommit(r)

\* What lockAttendancePeriod finds unresolved in month m.
Blockers(m) ==
    \/ \E i \in DOMAIN session : session[i].open /\ session[i].day < today /\ MonthOf[session[i].day] = m
    \/ \E c \in DOMAIN correction : correction[c].status = "pending" /\ MonthOf[correction[c].day] = m
    \/ \E k \in DOMAIN asked : asked[k].status = "pending" /\ MonthOf[asked[k].day] = m

\* A lock is refused while the month has blockers.
OfficerStep(o) ==
    /\ PeriodStep(o)
    /\ (officer'[o].at = "write" /\ officer'[o].to = "locked") => ~Blockers(officer'[o].month)
    /\ UNCHANGED <<today, tables, req>>

ClockStep == NextDay \/ \E r \in Requests : Arrive(r) \/ Continue(r)

Next ==
    \/ ClockStep /\ UNCHANGED periodVars
    \/ \E o \in Officers : OfficerStep(o)

Spec == Init /\ [][Next]_vars

\* Requests and officers take turns, and the day does not end under a request.
Quiet == (\A r \in Requests : req[r] = Idle) /\ (\A o \in Officers : officer[o] = AtDesk)
SerialNext ==
    \/ Quiet /\ ClockStep /\ UNCHANGED periodVars
    \/ \E r \in Requests : Continue(r) /\ UNCHANGED periodVars
    \/ \E o \in Officers : (Quiet \/ officer[o] # AtDesk) /\ OfficerStep(o)
SerialSpec == Init /\ [][SerialNext]_vars
-----------------------------------------------------------------------------
(* What holds whatever requests overlap. *)

\* Payroll counts the sessions that are closed (payrollExecuteMonthly.ts:220), although
\* check-outs, corrections and repairs write a session from a punch they read before their
\* transaction: no session is closed while its punch is still open.
ClosedSessionIsClosedPunch == \A i \in OpenPunches : session[i].open

-----------------------------------------------------------------------------
(* What holds when requests take turns. *)

\* "Payroll (attendance_sessions) must track HR-approved clock corrections"
\* (attendance.ts:2404), and every other change of a punch: an open punch has an open
\* session, a closed one a closed session, of the same shift.
SessionsFollowPunches ==
    \A i \in Punches : session[i].open = punch[i].open /\ session[i].schedule = punch[i].schedule

\* A manual request is decided once: the punches made from it are the one it names when it
\* was approved, and none otherwise.
OneDecisionOnePunch ==
    \A k \in DOMAIN asked :
        {i \in DOMAIN punch : punch[i].asked = k}
            = (IF asked[k].status = "approved" THEN {asked[k].punch} ELSE {})

-----------------------------------------------------------------------------
(* What the code says, and does not keep. *)

\* "Every write procedure that mutates attendance data for a specific company + calendar
\* month must call" the guard (attendancePeriodGuard.ts:4): the sessions of a closed month
\* stay as they are.
ClosedMonthKeepsItsSessions ==
    [][\A i \in DOMAIN session :
          lock[MonthOf[session[i].day]] \cap Frozen # {} => session'[i] = session[i]]_vars
=============================================================================
