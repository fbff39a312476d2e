------------------------------ MODULE PeriodLock ------------------------------
(***************************************************************************)
(* The attendance month of a company as a state machine: lock, reopen and  *)
(* export (server/routers/attendance.ts) over the table                    *)
(* attendance_period_locks, and the guard that the other attendance writes *)
(* call (server/lib/attendancePeriodGuard.ts).                             *)
(*                                                                         *)
(* A procedure reads the row of the month, validates the transition, then  *)
(* upserts the row, then inserts the audit row: three statements, and no   *)
(* transaction.  The readiness summary that a lock also needs is computed  *)
(* from tables outside this module; a month that is not ready is a request *)
(* that changes nothing.                                                   *)
(***************************************************************************)
EXTENDS Integers, FiniteSets

CONSTANTS
    Months,           \* (company, year, month) triples
    Officers,         \* lock, reopen and export requests in flight
    UniquePeriodKey   \* does the table carry uq_apl_company_period (created by 0081, not by 0070)

ASSUME PeriodAssumption == UniquePeriodKey \in BOOLEAN

VARIABLES
    lock,      \* the statuses held by the rows of a month, {} when it has no row
    trail,     \* the transitions of a month found in attendance_audit, by their target
    officer    \* what each officer's request holds

periodVars == <<lock, trail, officer>>

-----------------------------------------------------------------------------
PeriodStatus == {"open", "locked", "exported", "reopened"}
Frozen == {"locked", "exported"}

\* The state diagram at the head of attendancePeriodLock.ts.
Diagram == {<<"open", "locked">>, <<"locked", "exported">>, <<"locked", "reopened">>,
            <<"exported", "reopened">>, <<"reopened", "locked">>}

AtDesk == [at |-> "idle"]

Officer ==
    {AtDesk}
    \cup [at: {"write"}, month: Months, seen: PeriodStatus, to: PeriodStatus]
    \cup [at: {"audit"}, month: Months, to: PeriodStatus]

PeriodTypeOK ==
    /\ lock \in [Months -> SUBSET PeriodStatus]
    /\ trail \in [Months -> SUBSET PeriodStatus]
    /\ officer \in [Officers -> Officer]

\* What `select ... limit 1` can say of a month: the default state, or any row's status.
Seen(m) == IF lock[m] = {} THEN {"open"} ELSE lock[m]

\* Fault: the guard forgets that an exported month is closed too.
OpenUnlessLocked(s) == s # "locked"

\* validatePeriodIsOpen
PeriodIsOpen(s) == s \notin Frozen

PeriodInit ==
    /\ lock = [m \in Months |-> {}]
    /\ trail = [m \in Months |-> {}]
    /\ officer = [o \in Officers |-> AtDesk]

Hold(o, held) == officer' = [officer EXCEPT ![o] = held]

\* The select of the month's row, and the validation of the transition.
ReadPeriod(o, m, from, to) ==
    /\ officer[o] = AtDesk
    /\ \E s \in Seen(m) \cap from :
          Hold(o, [at |-> "write", month |-> m, seen |-> s, to |-> to])
    /\ UNCHANGED <<lock, trail>>

\* Fault: an exported month can be locked again.
RelockExported(o, m) == ReadPeriod(o, m, {"open", "reopened", "exported"}, "locked")

\* lockAttendancePeriod
LockPeriod(o, m) == ReadPeriod(o, m, {"open", "reopened"}, "locked")

\* reopenAttendancePeriod
ReopenPeriod(o, m) == ReadPeriod(o, m, {"locked", "exported"}, "reopened")

\* markAttendancePeriodExported
ExportPeriod(o, m) == ReadPeriod(o, m, {"locked"}, "exported")

\* insert ... on duplicate key update: without the key there is no duplicate.
Upsert(m, s) == lock' = [lock EXCEPT ![m] = IF UniquePeriodKey THEN {s} ELSE @ \cup {s}]

WritePeriod(o) ==
    /\ officer[o].at = "write"
    /\ Upsert(officer[o].month, officer[o].to)
    /\ Hold(o, [at |-> "audit", month |-> officer[o].month, to |-> officer[o].to])
    /\ UNCHANGED trail

\* insertAttendanceAuditRow
WriteAudit(o) ==
    /\ officer[o].at = "audit"
    /\ trail' = [trail EXCEPT ![officer[o].month] = @ \cup {officer[o].to}]
    /\ Hold(o, AtDesk)
    /\ UNCHANGED lock

\* The process dies or a statement fails between two of the three.
AbortPeriod(o) ==
    /\ officer[o] # AtDesk
    /\ Hold(o, AtDesk)
    /\ UNCHANGED <<lock, trail>>

PeriodStep(o) ==
    \/ \E m \in Months : LockPeriod(o, m) \/ ReopenPeriod(o, m) \/ ExportPeriod(o, m)
    \/ WritePeriod(o)
    \/ WriteAudit(o)

PeriodNext == \E o \in Officers : PeriodStep(o) \/ AbortPeriod(o)

PeriodSpec == PeriodInit /\ [][PeriodNext]_periodVars

\* No request is cut short.
PeriodCrashFreeSpec == PeriodInit /\ [][\E o \in Officers : PeriodStep(o)]_periodVars
-----------------------------------------------------------------------------
\* A transition whose read is still current when it is written follows the diagram:
\* the three validations together allow nothing else.
FreshTransitionsFollowTheDiagram ==
    [][\A o \in Officers : \A m \in Months :
          /\ officer'[o] # officer[o]
          /\ officer[o].at = "write"
          /\ officer[o].month = m
          /\ Seen(m) = {officer[o].seen}
          /\ lock'[m] # lock[m]
          => \A s \in lock'[m] : <<officer[o].seen, s>> \in Diagram]_periodVars

\* "Every state transition also writes a row to attendance_audit" (drizzle/schema.ts:1494):
\* once the request that made it has ended, the status of a month is in its audit trail.
TransitionsAreAudited ==
    \A m \in Months : \A s \in lock[m] :
        \/ s \in trail[m]
        \/ \E o \in Officers : officer[o].at = "audit" /\ officer[o].month = m /\ officer[o].to = s

\* A month is exported only after a lock of it was written: no interleaving exports a
\* month that was never locked.
ExportFollowsALock ==
    \A m \in Months : "exported" \in lock[m] =>
        \/ "locked" \in trail[m]
        \/ \E o \in Officers : officer[o].at = "audit" /\ officer[o].month = m /\ officer[o].to = "locked"

(***************************************************************************)
(* Promises of the documentation that the code does not keep: TLC refutes  *)
(* them.                                                                   *)
(***************************************************************************)
\* "One row per (company_id, year, month)" (drizzle/schema.ts:1492).
OneRowPerMonth == \A m \in Months : Cardinality(lock[m]) <= 1
=============================================================================
