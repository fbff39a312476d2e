-------------------------- MODULE PeriodLock_proofs --------------------------
(***************************************************************************)
(* Proofs about PeriodLock for every number of months and officers, and    *)
(* with or without the unique key of attendance_period_locks unless a      *)
(* theorem says otherwise.                                                 *)
(***************************************************************************)
EXTENDS PeriodLock, TLAPS

-----------------------------------------------------------------------------
\* A transition that a request is about to write was an arrow of the diagram when the
\* request read the month.
HeldIsAnArrow ==
    \A o \in Officers :
        officer[o].at = "write" => <<officer[o].seen, officer[o].to>> \in Diagram

PeriodInv == PeriodTypeOK /\ HeldIsAnArrow

\* What a request holds tells which statement it is about to run.
LEMMA OfficerShape ==
    ASSUME NEW h \in Officer
    PROVE  /\ h.at \in {"idle", "write", "audit"}
           /\ h.at = "write" =>
                 h.month \in Months /\ h.seen \in PeriodStatus /\ h.to \in PeriodStatus
           /\ h.at = "audit" => h.month \in Months /\ h.to \in PeriodStatus
  BY DEF Officer, AtDesk

\* Request o has read month m along an arrow of the diagram.
ReadsAnArrow(o, m) ==
    /\ officer[o] = AtDesk
    /\ UNCHANGED <<lock, trail>>
    /\ \E s \in Seen(m), t \in PeriodStatus :
          /\ s \in PeriodStatus
          /\ <<s, t>> \in Diagram
          /\ t = "exported" => s = "locked"
          /\ Hold(o, [at |-> "write", month |-> m, seen |-> s, to |-> t])

LEMMA ReadAlong ==
    ASSUME PeriodTypeOK, NEW o \in Officers, NEW m \in Months,
           NEW from \in SUBSET PeriodStatus, NEW to \in PeriodStatus, ReadPeriod(o, m, from, to),
           \A s \in from : <<s, to>> \in Diagram /\ (to = "exported" => s = "locked")
    PROVE  ReadsAnArrow(o, m)
  <1>1. PICK s \in Seen(m) \cap from :
           Hold(o, [at |-> "write", month |-> m, seen |-> s, to |-> to])
    BY DEF ReadPeriod
  <1>2. officer[o] = AtDesk /\ UNCHANGED <<lock, trail>>
    BY DEF ReadPeriod
  <1>3. s \in PeriodStatus /\ <<s, to>> \in Diagram /\ (to = "exported" => s = "locked")
    BY <1>1
  <1> QED
    BY <1>1, <1>2, <1>3 DEF ReadsAnArrow

\* The three procedures read a month only along the arrows of the diagram.
LEMMA ReadsFollowTheDiagram ==
    ASSUME PeriodTypeOK, NEW o \in Officers, NEW m \in Months,
           LockPeriod(o, m) \/ ReopenPeriod(o, m) \/ ExportPeriod(o, m)
    PROVE  ReadsAnArrow(o, m)
  <1> DEFINE opened == {"open", "reopened"}
             frozen == {"locked", "exported"}
             locked == {"locked"}
  <1>1. /\ opened \in SUBSET PeriodStatus /\ frozen \in SUBSET PeriodStatus
        /\ locked \in SUBSET PeriodStatus
        /\ {"locked", "reopened", "exported"} \subseteq PeriodStatus
    BY DEF PeriodStatus
  <1>2. /\ \A s \in opened : <<s, "locked">> \in Diagram
        /\ \A s \in frozen : <<s, "reopened">> \in Diagram
        /\ \A s \in locked : <<s, "exported">> \in Diagram /\ s = "locked"
    BY DEF Diagram
  <1>3. \/ ReadPeriod(o, m, opened, "locked")
        \/ ReadPeriod(o, m, frozen, "reopened")
        \/ ReadPeriod(o, m, locked, "exported")
    BY DEF LockPeriod, ReopenPeriod, ExportPeriod
  <1> HIDE DEF opened, frozen, locked
  <1>4. CASE ReadPeriod(o, m, opened, "locked")
    BY <1>1, <1>2, <1>4, ReadAlong
  <1>5. CASE ReadPeriod(o, m, frozen, "reopened")
    BY <1>1, <1>2, <1>5, ReadAlong
  <1>6. CASE ReadPeriod(o, m, locked, "exported")
    BY <1>1, <1>2, <1>6, ReadAlong
  <1> QED
    BY <1>3, <1>4, <1>5, <1>6

LEMMA PeriodInitOK == PeriodInit => PeriodInv
  BY DEF PeriodInit, PeriodInv, PeriodTypeOK, HeldIsAnArrow, Officer, AtDesk

\* Every statement of every request, and its failure, keeps the invariant.
LEMMA PeriodStepOK ==
    ASSUME PeriodInv, NEW o \in Officers, PeriodStep(o) \/ AbortPeriod(o)
    PROVE  PeriodInv'
  <1>0. PeriodTypeOK /\ HeldIsAnArrow
    BY DEF PeriodInv
  <1>1. ASSUME NEW h \in Officer, Hold(o, h),
               h.at = "write" => <<h.seen, h.to>> \in Diagram
        PROVE  officer' \in [Officers -> Officer] /\ HeldIsAnArrow'
    BY <1>0, <1>1 DEF Hold, PeriodTypeOK, HeldIsAnArrow
  <1>2. AtDesk \in Officer /\ AtDesk.at # "write"
    BY DEF Officer, AtDesk
  <1>3. officer[o] \in Officer
    BY <1>0 DEF PeriodTypeOK
  <1>4. ASSUME NEW m \in Months, LockPeriod(o, m) \/ ReopenPeriod(o, m) \/ ExportPeriod(o, m)
        PROVE  PeriodInv'
    <2>1. PICK s \in Seen(m), t \in PeriodStatus :
             /\ s \in PeriodStatus
             /\ <<s, t>> \in Diagram
             /\ Hold(o, [at |-> "write", month |-> m, seen |-> s, to |-> t])
      BY <1>0, <1>4, ReadsFollowTheDiagram DEF ReadsAnArrow
    <2>2. UNCHANGED <<lock, trail>>
      BY <1>0, <1>4, ReadsFollowTheDiagram DEF ReadsAnArrow
    <2> DEFINE h == [at |-> "write", month |-> m, seen |-> s, to |-> t]
    <2>3. h \in Officer /\ h.seen = s /\ h.to = t
      BY <2>1 DEF Officer
    <2> HIDE DEF h
    <2> QED
      BY <1>0, <1>1, <2>1, <2>2, <2>3 DEF h, PeriodInv, PeriodTypeOK
  <1>5. CASE WritePeriod(o)
    <2> DEFINE h == [at |-> "audit", month |-> officer[o].month, to |-> officer[o].to]
    <2>1. officer[o].month \in Months /\ officer[o].to \in PeriodStatus
      BY <1>3, <1>5, OfficerShape DEF WritePeriod
    <2>2. h \in Officer /\ h.at # "write"
      BY <2>1 DEF Officer
    <2>3. Hold(o, h) /\ UNCHANGED trail /\ Upsert(officer[o].month, officer[o].to)
      BY <1>5 DEF WritePeriod
    <2> HIDE DEF h
    <2>4. lock' \in [Months -> SUBSET PeriodStatus]
      BY <1>0, <2>1, <2>3 DEF Upsert, PeriodTypeOK
    <2> QED
      BY <1>0, <1>1, <2>2, <2>3, <2>4 DEF PeriodInv, PeriodTypeOK
  <1>6. CASE WriteAudit(o)
    <2>1. officer[o].month \in Months /\ officer[o].to \in PeriodStatus
      BY <1>3, <1>6, OfficerShape DEF WriteAudit
    <2>2. trail' \in [Months -> SUBSET PeriodStatus]
      BY <1>0, <1>6, <2>1 DEF WriteAudit, PeriodTypeOK
    <2> QED
      BY <1>0, <1>1, <1>2, <1>6, <2>2 DEF WriteAudit, PeriodInv, PeriodTypeOK
  <1>7. CASE AbortPeriod(o)
    BY <1>0, <1>1, <1>2, <1>7 DEF AbortPeriod, PeriodInv, PeriodTypeOK
  <1> QED
    BY <1>4, <1>5, <1>6, <1>7 DEF PeriodStep

LEMMA PeriodStutterOK == PeriodInv /\ UNCHANGED periodVars => PeriodInv'
  BY DEF PeriodInv, PeriodTypeOK, HeldIsAnArrow, periodVars

\* The invariant of the period lock, crashes included.
THEOREM PeriodInvariance == PeriodSpec => []PeriodInv
  <1>1. PeriodInv /\ [PeriodNext]_periodVars => PeriodInv'
    BY PeriodStepOK, PeriodStutterOK DEF PeriodNext
  <1> QED
    BY <1>1, PeriodInitOK, PTL DEF PeriodSpec

-----------------------------------------------------------------------------
(* The diagram *)

\* At most the request that moves changes what it holds.
LEMMA OneOfficerMoves ==
    ASSUME PeriodTypeOK, NEW o \in Officers, NEW p \in Officers, p # o,
           PeriodStep(o) \/ AbortPeriod(o)
    PROVE  officer'[p] = officer[p]
  <1>1. ASSUME NEW h, Hold(o, h) PROVE officer'[p] = officer[p]
    BY <1>1 DEF Hold, PeriodTypeOK
  <1>2. CASE AbortPeriod(o)
    BY <1>1, <1>2 DEF AbortPeriod
  <1>3. CASE WritePeriod(o)
    BY <1>1, <1>3 DEF WritePeriod
  <1>4. CASE WriteAudit(o)
    BY <1>1, <1>4 DEF WriteAudit
  <1>5. ASSUME NEW m \in Months, LockPeriod(o, m) \/ ReopenPeriod(o, m) \/ ExportPeriod(o, m)
        PROVE  officer'[p] = officer[p]
    BY <1>1, <1>5, ReadsFollowTheDiagram DEF ReadsAnArrow
  <1> QED
    BY <1>2, <1>3, <1>4, <1>5 DEF PeriodStep

LEMMA StepIsFreshTransition ==
    ASSUME UniquePeriodKey, PeriodInv, [PeriodNext]_periodVars,
           NEW o \in Officers, NEW m \in Months,
           officer'[o] # officer[o], officer[o].at = "write", officer[o].month = m,
           lock'[m] # lock[m]
    PROVE  \A s \in lock'[m] : <<officer[o].seen, s>> \in Diagram
  <1>0. PeriodTypeOK /\ HeldIsAnArrow
    BY DEF PeriodInv
  <1>1. PeriodStep(o) \/ AbortPeriod(o)
    <2>1. PICK p \in Officers : PeriodStep(p) \/ AbortPeriod(p)
      BY DEF PeriodNext, periodVars
    <2>2. p = o
      BY <1>0, <2>1, OneOfficerMoves
    <2> QED
      BY <2>1, <2>2
  <1>2. WritePeriod(o)
    <2>1. ~AbortPeriod(o)
      BY DEF AbortPeriod
    <2>2. ~WriteAudit(o)
      BY DEF WriteAudit
    <2>3. ASSUME NEW n \in Months PROVE ~(LockPeriod(o, n) \/ ReopenPeriod(o, n) \/ ExportPeriod(o, n))
      BY DEF LockPeriod, ReopenPeriod, ExportPeriod, ReadPeriod, AtDesk
    <2> QED
      BY <1>1, <2>1, <2>2, <2>3 DEF PeriodStep
  <1>3. lock'[m] = {officer[o].to}
    BY <1>0, <1>2 DEF WritePeriod, Upsert, PeriodTypeOK
  <1> QED
    BY <1>0, <1>3 DEF HeldIsAnArrow

\* Where the table has its unique key, a transition whose read is still current is an
\* arrow of the diagram, with any number of requests under way.
THEOREM TransitionsAgree ==
    ASSUME UniquePeriodKey PROVE PeriodSpec => FreshTransitionsFollowTheDiagram
  <1>1. PeriodInv /\ [PeriodNext]_periodVars =>
          [\A o \in Officers : \A m \in Months :
              /\ officer'[o] # officer[o]
              /\ officer[o].at = "write"
              /\ officer[o].month = m
              /\ Seen(m) = {officer[o].seen}
              /\ lock'[m] # lock[m]
              => \A s \in lock'[m] : <<officer[o].seen, s>> \in Diagram]_periodVars
    BY StepIsFreshTransition
  <1> QED
    BY <1>1, PeriodInvariance, PTL DEF PeriodSpec, FreshTransitionsFollowTheDiagram

-----------------------------------------------------------------------------
(* The audit trail, when no request is cut short *)

\* Status s of month m is in the trail, or a request is about to write it there.
Audited(m, s) ==
    \/ s \in trail[m]
    \/ \E o \in Officers : officer[o].at = "audit" /\ officer[o].month = m /\ officer[o].to = s

\* A request that is about to write an export has read a lock.
HeldExportIsLocked(o) ==
    officer[o].at = "write" /\ officer[o].to = "exported" => Audited(officer[o].month, "locked")

\* The trail also covers what requests have read, since a later upsert overwrites the row.
TrailInv ==
    /\ \A m \in Months : \A s \in lock[m] : Audited(m, s)
    /\ \A m \in Months : "exported" \in lock[m] => Audited(m, "locked")
    /\ \A o \in Officers : HeldExportIsLocked(o)

\* Nothing leaves the trail but into it.
LEMMA AuditedStays ==
    ASSUME PeriodInv, NEW o \in Officers, PeriodStep(o), NEW m \in Months, NEW s, Audited(m, s)
    PROVE  Audited(m, s)'
  <1>0. PeriodTypeOK
    BY DEF PeriodInv
  <1>1. CASE WriteAudit(o)
    <2>1. CASE s \in trail[m]
      BY <1>0, <1>1, <2>1 DEF WriteAudit, PeriodTypeOK, Audited
    <2>2. CASE officer[o].at = "audit" /\ officer[o].month = m /\ officer[o].to = s
      BY <1>0, <1>1, <2>2 DEF WriteAudit, PeriodTypeOK, Audited
    <2>3. ASSUME NEW p \in Officers, p # o,
                 officer[p].at = "audit", officer[p].month = m, officer[p].to = s
          PROVE  Audited(m, s)'
      BY <1>0, <2>3, OneOfficerMoves DEF Audited
    <2> QED
      BY <2>1, <2>2, <2>3 DEF Audited
  <1>2. CASE ~WriteAudit(o)
    <2>1. UNCHANGED trail /\ officer[o].at # "audit"
      <3>1. ASSUME NEW n \in Months, LockPeriod(o, n) \/ ReopenPeriod(o, n) \/ ExportPeriod(o, n)
            PROVE  UNCHANGED trail /\ officer[o].at # "audit"
        BY <1>0, <3>1, ReadsFollowTheDiagram DEF ReadsAnArrow, AtDesk
      <3> QED
        BY <1>2, <3>1 DEF PeriodStep, WritePeriod
    <2>2. ASSUME NEW p \in Officers, officer[p].at = "audit" PROVE officer'[p] = officer[p]
      BY <1>0, <2>1, <2>2, OneOfficerMoves
    <2> QED
      BY <2>1, <2>2 DEF Audited
  <1> QED
    BY <1>1, <1>2

LEMMA TrailInitOK == PeriodInit => TrailInv
  BY DEF PeriodInit, TrailInv, HeldExportIsLocked, AtDesk

LEMMA HeldExportStays ==
    ASSUME PeriodInv, NEW o \in Officers, PeriodStep(o),
           NEW p \in Officers, p # o, HeldExportIsLocked(p)
    PROVE  HeldExportIsLocked(p)'
  <1>1. officer'[p] = officer[p] /\ officer[p] \in Officer
    BY OneOfficerMoves DEF PeriodInv, PeriodTypeOK
  <1>2. CASE officer[p].at = "write" /\ officer[p].to = "exported"
    <2>1. PICK m \in Months : m = officer[p].month
      BY <1>1, <1>2, OfficerShape
    <2>2. Audited(m, "locked")
      BY <1>2, <2>1 DEF HeldExportIsLocked
    <2>3. Audited(m, "locked")'
      BY <2>2, AuditedStays
    <2>4. m = officer'[p].month
      BY <1>1, <2>1
    <2> QED
      BY <2>3, <2>4 DEF HeldExportIsLocked, Audited
  <1>3. CASE ~(officer[p].at = "write" /\ officer[p].to = "exported")
    BY <1>1, <1>3 DEF HeldExportIsLocked
  <1> QED
    BY <1>2, <1>3

LEMMA TrailStepOK ==
    ASSUME PeriodInv, TrailInv, NEW o \in Officers, PeriodStep(o)
    PROVE  TrailInv'
  <1>0. PeriodTypeOK /\ HeldIsAnArrow /\ officer[o] \in Officer
    BY DEF PeriodInv, PeriodTypeOK
  <1>s. ASSUME NEW m \in Months, NEW s, Audited(m, s) PROVE Audited(m, s)'
    BY <1>s, AuditedStays
  <1>l. ASSUME lock' = lock, HeldExportIsLocked(o)' PROVE TrailInv'
    BY <1>s, <1>l, HeldExportStays DEF TrailInv
  <1>1. CASE WritePeriod(o)
    <2>1. PICK n \in Months, t \in PeriodStatus : n = officer[o].month /\ t = officer[o].to
      BY <1>0, <1>1, OfficerShape DEF WritePeriod
    <2>2. officer'[o] = [at |-> "audit", month |-> n, to |-> t]
      BY <1>0, <1>1, <2>1 DEF WritePeriod, Hold, PeriodTypeOK
    <2>3. Audited(n, t)'
      BY <2>2 DEF Audited
    <2>4. ASSUME t = "exported" PROVE Audited(n, "locked")'
      <3>1. Audited(n, "locked")
        BY <1>1, <2>1, <2>4 DEF TrailInv, HeldExportIsLocked, WritePeriod
      <3> QED
        BY <3>1, <1>s
    <2>5. \A m \in Months : \A s \in lock'[m] : s \in lock[m] \/ (m = n /\ s = t)
      BY <1>0, <1>1, <2>1 DEF WritePeriod, Upsert, PeriodTypeOK
    <2>6. HeldExportIsLocked(o)'
      BY <2>2 DEF HeldExportIsLocked
    <2>7. ASSUME NEW m \in Months, NEW s \in lock'[m] PROVE Audited(m, s)'
      BY <1>s, <2>3, <2>5, <2>7 DEF TrailInv
    <2>8. ASSUME NEW m \in Months, "exported" \in lock'[m] PROVE Audited(m, "locked")'
      BY <1>s, <2>4, <2>5, <2>8 DEF TrailInv
    <2> QED
      BY <2>6, <2>7, <2>8, HeldExportStays DEF TrailInv
  <1>2. CASE WriteAudit(o)
    <2>1. UNCHANGED lock /\ officer'[o].at # "write"
      BY <1>0, <1>2 DEF WriteAudit, Hold, AtDesk, PeriodTypeOK
    <2> QED
      BY <1>l, <2>1 DEF HeldExportIsLocked
  <1>3. ASSUME NEW m \in Months, LockPeriod(o, m) \/ ReopenPeriod(o, m) \/ ExportPeriod(o, m)
        PROVE  TrailInv'
    <2>1. PICK s \in Seen(m), t \in PeriodStatus :
             /\ t = "exported" => s = "locked"
             /\ Hold(o, [at |-> "write", month |-> m, seen |-> s, to |-> t])
      BY <1>0, <1>3, ReadsFollowTheDiagram DEF ReadsAnArrow
    <2>2. UNCHANGED lock
      BY <1>0, <1>3, ReadsFollowTheDiagram DEF ReadsAnArrow
    <2>3. officer'[o] = [at |-> "write", month |-> m, seen |-> s, to |-> t]
      BY <1>0, <2>1 DEF Hold, PeriodTypeOK
    <2>4. t = "exported" => Audited(m, "locked")
      BY <2>1 DEF TrailInv, Seen
    <2>5. t = "exported" => Audited(m, "locked")'
      BY <1>s, <2>4
    <2>6. HeldExportIsLocked(o)'
      BY <2>3, <2>5 DEF HeldExportIsLocked, Audited
    <2> QED
      BY <1>l, <2>2, <2>6
  <1> QED
    BY <1>1, <1>2, <1>3 DEF PeriodStep

LEMMA TrailStutterOK == TrailInv /\ UNCHANGED periodVars => TrailInv'
  BY DEF TrailInv, HeldExportIsLocked, Audited, periodVars

LEMMA TrailInvariance == PeriodCrashFreeSpec => []TrailInv
  <1>1. PeriodInv /\ [\E o \in Officers : PeriodStep(o)]_periodVars => PeriodInv'
    BY PeriodStepOK, PeriodStutterOK
  <1>2. PeriodInv /\ TrailInv /\ [\E o \in Officers : PeriodStep(o)]_periodVars => TrailInv'
    BY TrailStepOK, TrailStutterOK
  <1> QED
    BY <1>1, <1>2, PeriodInitOK, TrailInitOK, PTL DEF PeriodCrashFreeSpec

\* When no request is cut short, the status of a month is in its trail or about to be
\* written there, however transitions of the month overlap.
THEOREM TrailIsComplete == PeriodCrashFreeSpec => []TransitionsAreAudited
  <1>1. TrailInv => TransitionsAreAudited
    BY DEF TrailInv, Audited, TransitionsAreAudited
  <1> QED
    BY <1>1, TrailInvariance, PTL

\* A month is never exported that was not locked first.
THEOREM LockedFirst == PeriodCrashFreeSpec => []ExportFollowsALock
  <1>1. TrailInv => ExportFollowsALock
    BY DEF TrailInv, Audited, ExportFollowsALock
  <1> QED
    BY <1>1, TrailInvariance, PTL
=============================================================================
