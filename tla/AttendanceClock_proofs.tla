----------------------- MODULE AttendanceClock_proofs -----------------------
(***************************************************************************)
(* Proofs about AttendanceClock for every number of overlapping requests,  *)
(* officers, shifts, days, punches, manual requests and corrections.       *)
(***************************************************************************)
EXTENDS AttendanceClock, PeriodLock_proofs, SequenceTheorems

-----------------------------------------------------------------------------
(* The inductive invariant *)

\* What a transaction has to show of the rows ps, ss, as and cs that it leaves: no session
\* is closed under an open punch, and what rows refer to exists.
RowsOK(ps, ss, as, cs) ==
    /\ ps \in Seq(Punch)
    /\ ss \in Seq(Session)
    /\ Len(ss) = Len(ps)
    /\ as \in Seq(Asked)
    /\ cs \in Seq(Correction)
    /\ \A i \in DOMAIN ps : ps[i].open /\ ~ps[i].gone => ss[i].open
    /\ \A i \in DOMAIN ps : ps[i].asked \in {Nobody} \cup DOMAIN as
    /\ \A c \in DOMAIN cs : cs[c].attached \in {Nobody} \cup DOMAIN ps

\* Rows are not taken away, and a closed punch is not opened again.
RowsStay(ps, as, cs) ==
    /\ \A i \in DOMAIN punch : i \in DOMAIN ps /\ (ps[i].open => punch[i].open)
    /\ DOMAIN asked \subseteq DOMAIN as
    /\ DOMAIN correction \subseteq DOMAIN cs

\* What a request may hold: its rows exist, and the punch that a repair saw closed is
\* closed still.
Sound(h, ps, as, cs) ==
    /\ h \in Request
    /\ h.op \in {"checkout", "force", "repair"} => h.punch \in DOMAIN ps
    /\ h.op = "repair" => (ps[h.punch].open => h.seen.open)
    /\ h.op \in {"approve", "reject"} => h.asked \in DOMAIN as
    /\ h.op \in {"correct", "refuse"} => h.correction \in DOMAIN cs
    /\ h.op = "submit" => h.correction.attached \in {Nobody} \cup DOMAIN ps

HeldIsSound == \A r \in Requests : Sound(req[r], punch, asked, correction)

ClockInv ==
    /\ today \in Days
    /\ RowsOK(punch, session, asked, correction)
    /\ req \in [Requests -> Request]
    /\ HeldIsSound
    /\ PeriodInv

LEMMA RequestShape ==
    ASSUME NEW h \in Request
    PROVE  /\ h.op = "checkin" => h.day \in Days /\ h.schedule \in Schedules
           /\ h.op \in {"checkout", "force"} => h.punch \in Nat \ {0}
           /\ h.op = "repair" => h.punch \in Nat \ {0} /\ h.seen \in Punch
           /\ h.op \in {"approve", "reject"} => h.asked \in Nat \ {0}
           /\ h.op = "ask" => h.day \in Days /\ h.schedule \in Shift
           /\ h.op = "submit" => h.correction \in Correction
  BY DEF Request, Idle, Row

\* The guard lets a request go on with what it holds.
LEMMA Advanced ==
    ASSUME NEW h \in Request, h.at = "guard"
    PROVE  LET n == [h EXCEPT !.at = "commit"]
           IN /\ n \in Request /\ n.op = h.op
              /\ h.op \in {"checkout", "force", "repair"} => n.punch = h.punch
              /\ h.op = "repair" => n.seen = h.seen
              /\ h.op \in {"approve", "reject"} => n.asked = h.asked
              /\ h.op \in {"correct", "refuse"} => n.correction = h.correction
              /\ h.op # "submit"
  <1> DEFINE n == [h EXCEPT !.at = "commit"]
  <1>1. CASE h \in [op: {"checkin"}, at: Stage, day: Days, schedule: Schedules]
    BY <1>1 DEF Request, Stage
  <1>2. CASE h \in [op: {"checkout", "force"}, at: Stage, day: Days, punch: Row]
    BY <1>2 DEF Request, Stage
  <1>3. CASE h \in [op: {"repair"}, at: Stage, day: Days, punch: Row, seen: Punch]
    BY <1>3 DEF Request, Stage
  <1>4. CASE h \in [op: {"approve", "reject"}, at: Stage, day: Days, asked: Row]
    BY <1>4 DEF Request, Stage
  <1>5. CASE h \in [op: {"correct", "refuse"}, at: Stage, day: Days, correction: Row]
    BY <1>5 DEF Request, Stage
  <1> QED
    BY <1>1, <1>2, <1>3, <1>4, <1>5 DEF Request, Idle

LEMMA IdleIsSound == \A ps, as, cs : Sound(Idle, ps, as, cs)
  BY DEF Request, Idle, Sound

LEMMA RowsShape ==
    ASSUME ClockInv
    PROVE  /\ punch \in Seq(Punch) /\ Len(punch) \in Nat /\ DOMAIN punch = 1..Len(punch)
           /\ \A i \in DOMAIN punch : punch[i] \in Punch
           /\ session \in Seq(Session) /\ Len(session) = Len(punch) /\ DOMAIN session = DOMAIN punch
           /\ \A i \in DOMAIN punch : session[i] \in Session
           /\ asked \in Seq(Asked) /\ Len(asked) \in Nat /\ DOMAIN asked = 1..Len(asked)
           /\ \A k \in DOMAIN asked : asked[k] \in Asked
           /\ correction \in Seq(Correction) /\ Len(correction) \in Nat
           /\ DOMAIN correction = 1..Len(correction)
           /\ \A c \in DOMAIN correction : correction[c] \in Correction
           /\ \A r \in Requests : req[r] \in Request /\ Sound(req[r], punch, asked, correction)
           /\ today \in Days
           /\ RowsOK(punch, session, asked, correction)
  <1>1. /\ punch \in Seq(Punch) /\ session \in Seq(Session) /\ Len(session) = Len(punch)
        /\ asked \in Seq(Asked) /\ correction \in Seq(Correction)
    BY DEF ClockInv, RowsOK
  <1> QED
    BY <1>1, LenProperties DEF ClockInv, HeldIsSound

\* What a request holds stays sound as the rows stay.
LEMMA SoundLasts ==
    ASSUME ClockInv, NEW h, Sound(h, punch, asked, correction),
           NEW ps, NEW as, NEW cs, RowsStay(ps, as, cs)
    PROVE  Sound(h, ps, as, cs)
  BY DEF Sound, RowsStay

\* One request moves, and the others may go on with what they hold.
LEMMA OneMoves ==
    ASSUME ClockInv, NEW r \in Requests, NEW h, Goto(r, h), UNCHANGED <<today, periodVars>>,
           RowsOK(punch', session', asked', correction'), RowsStay(punch', asked', correction'),
           Sound(h, punch', asked', correction')
    PROVE  ClockInv'
  <1>1. req \in [Requests -> Request] /\ req' = [req EXCEPT ![r] = h] /\ h \in Request
    BY DEF ClockInv, Goto, Sound
  <1>2. ASSUME NEW q \in Requests
        PROVE  Sound(req'[q], punch', asked', correction')
    <2>1. CASE q = r
      BY <1>1, <2>1
    <2>2. CASE q # r
      <3>1. req'[q] = req[q] /\ Sound(req[q], punch, asked, correction)
        BY <1>1, <2>2 DEF ClockInv, HeldIsSound
      <3> QED
        BY <3>1, SoundLasts
    <2> QED
      BY <2>1, <2>2
  <1>3. PeriodInv'
    BY PeriodStutterOK DEF ClockInv
  <1>4. req' \in [Requests -> Request]
    BY <1>1
  <1> QED
    BY <1>2, <1>3, <1>4 DEF ClockInv, HeldIsSound

LEMMA TablesStay ==
    ASSUME ClockInv
    PROVE  RowsStay(punch, asked, correction)
  BY DEF RowsStay

\* Reads take no more than a note.
LEMMA ReadIsSafe ==
    ASSUME ClockInv, NEW r \in Requests, NEW h, Only(Goto(r, h)), UNCHANGED periodVars,
           Sound(h, punch, asked, correction)
    PROVE  ClockInv'
  <1>1. Goto(r, h) /\ UNCHANGED <<today, punch, session, asked, correction>>
    BY DEF Only, tables
  <1> QED
    BY <1>1, TablesStay, RowsShape, OneMoves

\* A transaction leaves its rows, or those it found.
LEMMA CommitOutcome ==
    ASSUME NEW r, NEW ps, NEW ss, NEW as, NEW cs, Commit(r, ps, ss, as, cs)
    PROVE  /\ Goto(r, Idle) /\ UNCHANGED today
           /\ \/ punch' = ps /\ session' = ss /\ asked' = as /\ correction' = cs
              \/ UNCHANGED <<punch, session, asked, correction>>
  BY DEF Commit, Return, tables

LEMMA CommitIsSafe ==
    ASSUME ClockInv, NEW r \in Requests, NEW ps, NEW ss, NEW as, NEW cs,
           Commit(r, ps, ss, as, cs), UNCHANGED periodVars,
           RowsOK(ps, ss, as, cs), RowsStay(ps, as, cs)
    PROVE  ClockInv'
  <1>1. /\ Goto(r, Idle) /\ UNCHANGED today
        /\ \/ punch' = ps /\ session' = ss /\ asked' = as /\ correction' = cs
           \/ UNCHANGED <<punch, session, asked, correction>>
    BY CommitOutcome
  <1>2. RowsOK(punch', session', asked', correction') /\ RowsStay(punch', asked', correction')
    <2>1. CASE punch' = ps /\ session' = ss /\ asked' = as /\ correction' = cs
      BY <2>1
    <2>2. CASE UNCHANGED <<punch, session, asked, correction>>
      BY <2>2, RowsShape, TablesStay
    <2> QED
      BY <1>1, <2>1, <2>2
  <1> QED
    BY <1>1, <1>2, IdleIsSound, OneMoves

-----------------------------------------------------------------------------
(* What the statements of a transaction do to the rows *)

\* Every punch has a session that agrees with it.
Follow(ps, ss) ==
    \A i \in DOMAIN ps :
        ~ps[i].gone => ss[i].open = ps[i].open /\ ss[i].schedule = ps[i].schedule

\* A manual request has the punch it names when it is approved, and none otherwise.
Decisions(ps, as) ==
    \A k \in DOMAIN as :
        {i \in DOMAIN ps : ps[i].asked = k} = (IF as[k].status = "approved" THEN {as[k].punch} ELSE {})

Agreed(ps, ss, as) == Follow(ps, ss) /\ Decisions(ps, as)

\* What a request read is what the rows still say.
Fresh(h) ==
    /\ h.op = "repair" =>
          h.seen.open = punch[h.punch].open /\ h.seen.schedule = punch[h.punch].schedule
    /\ h.op \in {"approve", "reject"} => asked[h.asked].status = "pending"

\* The transaction of request r ends well: its rows are sound, and they agree when those
\* it found did and it worked on what is still there.
Transacts(r) ==
    /\ Goto(r, Idle)
    /\ UNCHANGED today
    /\ RowsOK(punch', session', asked', correction')
    /\ RowsStay(punch', asked', correction')
    /\ Agreed(punch, session, asked) /\ Fresh(req[r]) => Agreed(punch', session', asked')

LEMMA CommitTransacts ==
    ASSUME ClockInv, NEW r \in Requests, NEW ps, NEW ss, NEW as, NEW cs,
           Commit(r, ps, ss, as, cs),
           RowsOK(ps, ss, as, cs), RowsStay(ps, as, cs),
           Agreed(punch, session, asked) /\ Fresh(req[r]) => Agreed(ps, ss, as)
    PROVE  Transacts(r)
  <1>1. /\ Goto(r, Idle) /\ UNCHANGED today
        /\ \/ punch' = ps /\ session' = ss /\ asked' = as /\ correction' = cs
           \/ UNCHANGED <<punch, session, asked, correction>>
    BY CommitOutcome
  <1>2. CASE punch' = ps /\ session' = ss /\ asked' = as /\ correction' = cs
    BY <1>1, <1>2 DEF Transacts
  <1>3. CASE UNCHANGED <<punch, session, asked, correction>>
    BY <1>1, <1>3, RowsShape, TablesStay DEF Transacts
  <1> QED
    BY <1>1, <1>2, <1>3

\* A punch and its session are inserted.
LEMMA PunchAdded ==
    ASSUME ClockInv, NEW row \in Punch, NEW d \in Days
    PROVE  LET ps == Append(punch, row)
               ss == NewSession(session, row, d)
               n  == Len(punch) + 1
           IN /\ ps \in Seq(Punch) /\ ss \in Seq(Session) /\ Len(ss) = Len(ps)
              /\ \A i \in DOMAIN punch : i \in DOMAIN ps /\ ps[i] = punch[i] /\ ss[i] = session[i]
              /\ \A i \in DOMAIN ps : i \in DOMAIN punch \/ i = n
              /\ n \in DOMAIN ps /\ n \notin DOMAIN punch /\ ps[n] = row
              /\ ss[n].open = row.open /\ ss[n].schedule = row.schedule
  <1> DEFINE ps == Append(punch, row)
             new == [schedule |-> row.schedule, day |-> d, open |-> row.open]
             ss == Append(session, new)
             n  == Len(punch) + 1
  <1>1. new \in Session /\ new.open = row.open /\ new.schedule = row.schedule
    BY DEF Punch, Session
  <1>2. NewSession(session, row, d) = ss
    BY DEF NewSession, Synced
  <1> HIDE DEF new
  <1>3. /\ ps \in Seq(Punch) /\ Len(ps) = n
        /\ \A i \in 1..Len(punch) : ps[i] = punch[i]
        /\ ps[n] = row
    BY RowsShape, AppendProperties
  <1>4. /\ ss \in Seq(Session) /\ Len(ss) = n
        /\ \A i \in 1..Len(punch) : ss[i] = session[i]
        /\ ss[n] = new
    BY <1>1, RowsShape, AppendProperties
  <1>5. DOMAIN ps = 1..n
    BY <1>3, LenProperties
  <1>6. /\ \A i \in 1..n : i \in 1..Len(punch) \/ i = n
        /\ 1..Len(punch) \subseteq 1..n /\ n \in 1..n /\ n \notin 1..Len(punch)
    BY RowsShape
  <1> HIDE DEF ps, ss, n
  <1>7. /\ ps \in Seq(Punch) /\ ss \in Seq(Session) /\ Len(ss) = Len(ps)
        /\ \A i \in DOMAIN punch : i \in DOMAIN ps /\ ps[i] = punch[i] /\ ss[i] = session[i]
        /\ \A i \in DOMAIN ps : i \in DOMAIN punch \/ i = n
        /\ n \in DOMAIN ps /\ n \notin DOMAIN punch /\ ps[n] = row
        /\ ss[n].open = row.open /\ ss[n].schedule = row.schedule
    BY <1>1, <1>3, <1>4, <1>5, <1>6, RowsShape
  <1> QED
    BY <1>2, <1>7 DEF ps, ss, n

\* The rows of the other tables that a transaction leaves.
OthersOK(as, cs) ==
    /\ as \in Seq(Asked) /\ DOMAIN asked \subseteq DOMAIN as
    /\ cs \in Seq(Correction) /\ DOMAIN correction \subseteq DOMAIN cs
    /\ \A c \in DOMAIN cs : cs[c].attached \in {Nobody} \cup DOMAIN punch

LEMMA InsertIsOK ==
    ASSUME ClockInv, NEW row \in Punch, NEW d \in Days, NEW as, NEW cs, OthersOK(as, cs),
           row.asked \in {Nobody} \cup DOMAIN as
    PROVE  /\ RowsOK(Append(punch, row), NewSession(session, row, d), as, cs)
           /\ RowsStay(Append(punch, row), as, cs)
           /\ Follow(punch, session) => Follow(Append(punch, row), NewSession(session, row, d))
  <1> DEFINE ps == Append(punch, row)
             ss == NewSession(session, row, d)
             n  == Len(punch) + 1
  <1>1. /\ ps \in Seq(Punch) /\ ss \in Seq(Session) /\ Len(ss) = Len(ps)
        /\ \A i \in DOMAIN punch : i \in DOMAIN ps /\ ps[i] = punch[i] /\ ss[i] = session[i]
        /\ \A i \in DOMAIN ps : i \in DOMAIN punch \/ i = n
        /\ n \in DOMAIN ps /\ n \notin DOMAIN punch /\ ps[n] = row
        /\ ss[n].open = row.open /\ ss[n].schedule = row.schedule
    BY PunchAdded
  <1> HIDE DEF ps, ss, n
  <1>2. RowsOK(ps, ss, as, cs)
    BY <1>1, RowsShape DEF RowsOK, OthersOK
  <1>3. RowsStay(ps, as, cs)
    BY <1>1 DEF RowsStay, OthersOK
  <1>4. Follow(punch, session) => Follow(ps, ss)
    BY <1>1 DEF Follow
  <1> QED
    BY <1>2, <1>3, <1>4 DEF ps, ss

\* Punches and sessions are updated.
LEMMA UpdateIsOK ==
    ASSUME ClockInv, NEW ps \in Seq(Punch), NEW ss \in Seq(Session),
           Len(ps) = Len(punch), Len(ss) = Len(punch),
           NEW as, NEW cs, OthersOK(as, cs),
           \A i \in DOMAIN punch :
              /\ ps[i].open => punch[i].open
              /\ ps[i].asked = punch[i].asked
              /\ ps[i].open /\ ~ps[i].gone => ss[i].open
    PROVE  /\ RowsOK(ps, ss, as, cs) /\ RowsStay(ps, as, cs)
           /\ DOMAIN ps = DOMAIN punch
           /\ \A k : {i \in DOMAIN ps : ps[i].asked = k} = {i \in DOMAIN punch : punch[i].asked = k}
  <1>1. DOMAIN ps = DOMAIN punch
    BY RowsShape, LenProperties
  <1>2. RowsOK(ps, ss, as, cs)
    BY <1>1, RowsShape DEF RowsOK, OthersOK
  <1>3. RowsStay(ps, as, cs)
    BY <1>1 DEF RowsStay, OthersOK
  <1> QED
    BY <1>1, <1>2, <1>3

\* Punches and sessions stay.
LEMMA OthersAreOK ==
    ASSUME ClockInv, NEW as, NEW cs, OthersOK(as, cs)
    PROVE  RowsOK(punch, session, as, cs) /\ RowsStay(punch, as, cs)
  BY RowsShape DEF RowsOK, RowsStay, OthersOK

LEMMA OthersStay ==
    ASSUME ClockInv
    PROVE  OthersOK(asked, correction)
  BY RowsShape DEF OthersOK, RowsOK

\* No decision changes.
LEMMA DecisionsStay ==
    ASSUME Decisions(punch, asked), NEW ps,
           \A k : {i \in DOMAIN ps : ps[i].asked = k} = {i \in DOMAIN punch : punch[i].asked = k}
    PROVE  Decisions(ps, asked)
  BY DEF Decisions

\* A punch that no manual request made.
LEMMA UnaskedAdded ==
    ASSUME ClockInv, NEW row \in Punch, NEW d \in Days, row.asked = Nobody,
           Decisions(punch, asked)
    PROVE  Decisions(Append(punch, row), asked)
  <1> DEFINE ps == Append(punch, row)
  <1>1. /\ \A i \in DOMAIN punch : i \in DOMAIN ps /\ ps[i] = punch[i]
        /\ \A i \in DOMAIN ps : i \in DOMAIN punch \/ i = Len(punch) + 1
        /\ ps[Len(punch) + 1] = row
    BY PunchAdded
  <1> HIDE DEF ps
  <1>2. ASSUME NEW k \in DOMAIN asked
        PROVE  {i \in DOMAIN ps : ps[i].asked = k} = {i \in DOMAIN punch : punch[i].asked = k}
    <2>1. k # Nobody
      BY RowsShape DEF Nobody
    <2> QED
      BY <1>1, <2>1
  <1>3. Decisions(ps, asked)
    BY <1>2 DEF Decisions
  <1> QED
    BY <1>3 DEF ps

-----------------------------------------------------------------------------
(* One lemma per transaction *)

LEMMA PunchFields ==
    ASSUME NEW row \in Punch
    PROVE  /\ row = [schedule |-> row.schedule, day |-> row.day, open |-> row.open,
                     manual |-> row.manual, corrected |-> row.corrected, asked |-> row.asked,
                     gone |-> row.gone]
           /\ row.schedule \in Shift /\ row.day \in Days /\ row.open \in BOOLEAN
           /\ row.manual \in BOOLEAN /\ row.corrected \in BOOLEAN /\ row.asked \in Nat
           /\ row.gone \in BOOLEAN
  BY DEF Punch

\* A punch is deleted, or stays.
LEMMA PunchDeleted ==
    ASSUME NEW row \in Punch, NEW b \in BOOLEAN,
           NEW new, new = [row EXCEPT !.gone = b]
    PROVE  /\ new \in Punch /\ new.open = row.open /\ new.schedule = row.schedule
           /\ new.asked = row.asked /\ new.gone = b
  BY PunchFields DEF Punch

LEMMA SyncedIsASession ==
    ASSUME NEW row \in Punch
    PROVE  /\ Synced(row) \in Session
           /\ Synced(row).open = row.open /\ Synced(row).schedule = row.schedule
  BY DEF Synced, Session, Punch

\* checkIn
LEMMA CheckInTransacts ==
    ASSUME ClockInv, NEW r \in Requests, CheckInCommit(r)
    PROVE  Transacts(r)
  <1> DEFINE row == [schedule |-> req[r].schedule, day |-> today, open |-> TRUE, manual |-> FALSE,
                     corrected |-> FALSE, asked |-> Nobody, gone |-> FALSE]
  <1>1. req[r].schedule \in Schedules /\ req[r].day \in Days
    BY RowsShape, RequestShape DEF CheckInCommit, Commits
  <1>2. row \in Punch /\ row.asked = Nobody
    BY <1>1, RowsShape DEF Punch, Shift, Nobody
  <1>3. Commit(r, Append(punch, row), NewSession(session, row, req[r].day), asked, correction)
    BY DEF CheckInCommit
  <1> HIDE DEF row
  <1>4. /\ RowsOK(Append(punch, row), NewSession(session, row, req[r].day), asked, correction)
        /\ RowsStay(Append(punch, row), asked, correction)
        /\ Follow(punch, session)
              => Follow(Append(punch, row), NewSession(session, row, req[r].day))
    BY <1>1, <1>2, OthersStay, InsertIsOK
  <1>5. Decisions(punch, asked) => Decisions(Append(punch, row), asked)
    BY <1>1, <1>2, UnaskedAdded
  <1>6. Agreed(punch, session, asked)
           => Agreed(Append(punch, row), NewSession(session, row, req[r].day), asked)
    BY <1>4, <1>5 DEF Agreed
  <1> QED
    BY <1>3, <1>4, <1>6, CommitTransacts

\* Punch i and its session are written.
LEMMA OneRowTransacts ==
    ASSUME ClockInv, NEW r \in Requests, NEW i \in DOMAIN punch, NEW row \in Punch,
           NEW new \in Session, NEW cs, OthersOK(asked, cs),
           Commit(r, [punch EXCEPT ![i] = row], [session EXCEPT ![i] = new], asked, cs),
           row.open => punch[i].open /\ new.open,
           row.asked = punch[i].asked,
           row.gone = punch[i].gone,
           Agreed(punch, session, asked) /\ Fresh(req[r]) =>
              (~row.gone => new.open = row.open /\ new.schedule = row.schedule)
    PROVE  Transacts(r)
  <1> DEFINE ps == [punch EXCEPT ![i] = row]
             ss == [session EXCEPT ![i] = new]
  <1>1. /\ ps \in Seq(Punch) /\ Len(ps) = Len(punch)
        /\ \A j \in DOMAIN punch : ps[j] = IF j = i THEN row ELSE punch[j]
    BY RowsShape, ExceptSeq
  <1>2. /\ ss \in Seq(Session) /\ Len(ss) = Len(punch)
        /\ \A j \in DOMAIN punch : ss[j] = IF j = i THEN new ELSE session[j]
    BY RowsShape, ExceptSeq
  <1> HIDE DEF ps, ss
  <1>3. \A j \in DOMAIN punch :
           /\ ps[j].open => punch[j].open
           /\ ps[j].asked = punch[j].asked
           /\ ps[j].open /\ ~ps[j].gone => ss[j].open
    BY <1>1, <1>2, RowsShape DEF RowsOK
  <1>4. /\ RowsOK(ps, ss, asked, cs) /\ RowsStay(ps, asked, cs)
        /\ DOMAIN ps = DOMAIN punch
        /\ \A k : {j \in DOMAIN ps : ps[j].asked = k} = {j \in DOMAIN punch : punch[j].asked = k}
    BY <1>1, <1>2, <1>3, UpdateIsOK
  <1>5. ASSUME Agreed(punch, session, asked), Fresh(req[r])
        PROVE  Agreed(ps, ss, asked)
    <2>1. Follow(ps, ss)
      BY <1>1, <1>2, <1>4, <1>5 DEF Agreed, Follow
    <2>2. Decisions(ps, asked)
      BY <1>4, <1>5, DecisionsStay DEF Agreed
    <2> QED
      BY <2>1, <2>2 DEF Agreed
  <1>6. Commit(r, ps, ss, asked, cs)
    BY DEF ps, ss
  <1> QED
    BY <1>4, <1>5, <1>6, CommitTransacts

\* checkOut, forceCheckout
LEMMA CloseTransacts ==
    ASSUME ClockInv, NEW r \in Requests, CheckOutCommit(r) \/ ForceCheckoutCommit(r)
    PROVE  Transacts(r)
  <1>1. PICK admin \in BOOLEAN : ClosePunch(r, admin)
    BY DEF CheckOutCommit, ForceCheckoutCommit
  <1> DEFINE i == req[r].punch
             row == [punch[i] EXCEPT !.open = FALSE, !.manual = punch[i].manual /\ ~admin]
             new == [session[i] EXCEPT !.open = FALSE]
  <1>2. i \in DOMAIN punch /\ punch[i] \in Punch /\ session[i] \in Session
    BY RowsShape DEF CheckOutCommit, ForceCheckoutCommit, Commits, Sound
  <1>3. /\ [punch EXCEPT ![i].open = FALSE, ![i].manual = @ /\ ~admin] = [punch EXCEPT ![i] = row]
        /\ ClosedSession(session, i) = [session EXCEPT ![i] = new]
    BY <1>2, RowsShape DEF ClosedSession
  <1>4. Commit(r, [punch EXCEPT ![i] = row], [session EXCEPT ![i] = new], asked, correction)
    BY <1>1, <1>3 DEF ClosePunch
  <1>5. /\ row \in Punch /\ row.open = FALSE /\ row.asked = punch[i].asked
        /\ row.gone = punch[i].gone /\ row.schedule = punch[i].schedule
    <2>1. (punch[i].manual /\ ~admin) \in BOOLEAN
      OBVIOUS
    <2> DEFINE manual == punch[i].manual /\ ~admin
    <2> HIDE DEF manual, i
    <2>2. [punch[i] EXCEPT !.open = FALSE, !.manual = manual] \in Punch
      BY <1>2, <2>1 DEF Punch, manual
    <2> QED
      BY <1>2, <2>2 DEF Punch, manual
  <1>6. new \in Session /\ new.open = FALSE /\ new.schedule = session[i].schedule
    BY <1>2 DEF Session
  <1>7. Agreed(punch, session, asked) =>
           (~row.gone => new.open = row.open /\ new.schedule = row.schedule)
    BY <1>2, <1>5, <1>6 DEF Agreed, Follow
  <1> HIDE DEF row, new, i
  <1> QED
    BY <1>2, <1>4, <1>5, <1>6, <1>7, OthersStay, OneRowTransacts

\* repairSessionFromAttendanceRecord
LEMMA RepairTransacts ==
    ASSUME ClockInv, NEW r \in Requests, RepairCommit(r)
    PROVE  Transacts(r)
  <1> DEFINE i == req[r].punch
             new == Synced(req[r].seen)
  <1>1. /\ i \in DOMAIN punch /\ punch[i] \in Punch /\ req[r].seen \in Punch
        /\ req[r].op = "repair"
        /\ punch[i].open => req[r].seen.open
    BY RowsShape, RequestShape DEF RepairCommit, Commits, Sound
  <1>2. /\ new \in Session /\ new.open = req[r].seen.open
        /\ new.schedule = req[r].seen.schedule
    BY <1>1, SyncedIsASession
  <1>3. [punch EXCEPT ![i] = punch[i]] = punch
    BY <1>1, RowsShape
  <1>4. Commit(r, [punch EXCEPT ![i] = punch[i]], [session EXCEPT ![i] = new], asked, correction)
    BY <1>3 DEF RepairCommit
  <1>5. Fresh(req[r]) => new.open = punch[i].open /\ new.schedule = punch[i].schedule
    BY <1>1, <1>2 DEF Fresh
  <1>6. punch[i].open => punch[i].open /\ new.open
    BY <1>1, <1>2
  <1> HIDE DEF i, new
  <1> QED
    BY <1>1, <1>2, <1>4, <1>5, <1>6, OthersStay, OneRowTransacts

\* A request is asked or decided; the punches stay.
LEMMA OthersTransact ==
    ASSUME ClockInv, NEW r \in Requests, NEW as, NEW cs, OthersOK(as, cs),
           Commit(r, punch, session, as, cs),
           Decisions(punch, asked) /\ Fresh(req[r]) => Decisions(punch, as)
    PROVE  Transacts(r)
  <1>1. Agreed(punch, session, asked) /\ Fresh(req[r]) => Agreed(punch, session, as)
    BY DEF Agreed
  <1> QED
    BY <1>1, OthersAreOK, CommitTransacts

\* submitManualCheckIn
LEMMA AskTransacts ==
    ASSUME ClockInv, NEW r \in Requests, AskCommit(r)
    PROVE  Transacts(r)
  <1> DEFINE row == [at |-> today, day |-> req[r].day, schedule |-> req[r].schedule,
                     status |-> "pending", punch |-> Nobody]
             as == Append(asked, row)
             n == Len(asked) + 1
  <1>1. row \in Asked /\ row.status = "pending"
    BY RowsShape, RequestShape DEF AskCommit, Commits, Asked, Decision, Nobody
  <1>2. Commit(r, punch, session, as, correction)
    BY DEF AskCommit
  <1> HIDE DEF row
  <1>3. /\ as \in Seq(Asked) /\ Len(as) = n
        /\ \A k \in 1..Len(asked) : as[k] = asked[k]
        /\ as[n] = row
    BY <1>1, RowsShape, AppendProperties
  <1>4. /\ \A k \in DOMAIN as : k \in DOMAIN asked \/ k = n
        /\ DOMAIN asked \subseteq DOMAIN as /\ n # Nobody /\ n \notin DOMAIN asked
    BY <1>3, RowsShape, LenProperties DEF Nobody
  <1>5. OthersOK(as, correction)
    BY <1>3, <1>4, OthersStay DEF OthersOK
  <1>6. {i \in DOMAIN punch : punch[i].asked = n} = {}
    BY <1>4, RowsShape DEF RowsOK
  <1>7. Decisions(punch, asked) => Decisions(punch, as)
    BY <1>1, <1>3, <1>4, <1>6, RowsShape DEF Decisions
  <1> HIDE DEF as
  <1> QED
    BY <1>2, <1>5, <1>7, OthersTransact

LEMMA AskedUpdates ==
    ASSUME NEW row \in Asked, NEW n \in Nat
    PROVE  LET approved == [row EXCEPT !.status = "approved", !.punch = n]
               rejected == [row EXCEPT !.status = "rejected"]
           IN /\ approved \in Asked /\ approved.status = "approved" /\ approved.punch = n
              /\ rejected \in Asked /\ rejected.status = "rejected"
  BY DEF Asked, Decision

\* approveManualCheckIn
LEMMA ApproveTransacts ==
    ASSUME ClockInv, NEW r \in Requests, ApproveCommit(r)
    PROVE  Transacts(r)
  <1> DEFINE k == req[r].asked
             n == Len(punch) + 1
             row == [schedule |-> asked[k].schedule, day |-> asked[k].at, open |-> TRUE,
                     manual |-> TRUE, corrected |-> FALSE, asked |-> k, gone |-> FALSE]
             decision == [asked[k] EXCEPT !.status = "approved", !.punch = n]
             as == [asked EXCEPT ![k] = decision]
             d == asked[k].day
             ps == Append(punch, row)
  <1>1. k \in DOMAIN asked /\ k \in Nat /\ k # Nobody /\ asked[k] \in Asked /\ n \in Nat
        /\ req[r].op = "approve"
    BY RowsShape, RequestShape DEF ApproveCommit, Commits, Sound, Nobody
  <1>2. row \in Punch /\ row.asked = k
    BY <1>1 DEF Punch, Asked
  <1>3. decision \in Asked /\ decision.status = "approved" /\ decision.punch = n
    BY <1>1, AskedUpdates
  <1>4. d \in Days
    BY <1>1 DEF Asked
  <1>5. [asked EXCEPT ![k].status = "approved", ![k].punch = n] = as
    BY <1>1, RowsShape
  <1>6. Commit(r, ps, NewSession(session, row, d), as, correction)
    BY <1>5 DEF ApproveCommit
  <1>7. Fresh(req[r]) => asked[k].status = "pending"
    BY <1>1 DEF Fresh
  <1> HIDE DEF k, row, decision, d
  <1>8. /\ as \in Seq(Asked) /\ Len(as) = Len(asked)
        /\ \A j \in DOMAIN asked : as[j] = IF j = k THEN decision ELSE asked[j]
    BY <1>1, <1>3, RowsShape, ExceptSeq
  <1>9. DOMAIN as = DOMAIN asked
    BY <1>8, RowsShape, LenProperties
  <1>10. OthersOK(as, correction)
    BY <1>8, <1>9, OthersStay DEF OthersOK
  <1>11. /\ \A i \in DOMAIN punch : i \in DOMAIN ps /\ ps[i] = punch[i]
         /\ \A i \in DOMAIN ps : i \in DOMAIN punch \/ i = n
         /\ n \in DOMAIN ps /\ n \notin DOMAIN punch /\ ps[n] = row
    BY <1>2, <1>4, PunchAdded
  <1> HIDE DEF n, as
  <1>12. /\ RowsOK(ps, NewSession(session, row, d), as, correction)
         /\ RowsStay(ps, as, correction)
         /\ Follow(punch, session) => Follow(ps, NewSession(session, row, d))
    BY <1>1, <1>2, <1>4, <1>9, <1>10, InsertIsOK
  <1> HIDE DEF ps
  <1>13. ASSUME Decisions(punch, asked), Fresh(req[r])
         PROVE  Decisions(ps, as)
    <2> SUFFICES ASSUME NEW j \in DOMAIN asked
                 PROVE  {i \in DOMAIN ps : ps[i].asked = j}
                           = (IF as[j].status = "approved" THEN {as[j].punch} ELSE {})
      BY <1>9 DEF Decisions
    <2>1. {i \in DOMAIN punch : punch[i].asked = j}
             = (IF asked[j].status = "approved" THEN {asked[j].punch} ELSE {})
      BY <1>13 DEF Decisions
    <2>2. CASE j = k
      <3>1. {i \in DOMAIN punch : punch[i].asked = k} = {}
        BY <1>7, <1>13, <2>1, <2>2
      <3>2. {i \in DOMAIN ps : ps[i].asked = k} = {n}
        BY <1>2, <1>11, <3>1
      <3> QED
        BY <1>3, <1>8, <2>2, <3>2
    <2>3. CASE j # k
      <3>1. {i \in DOMAIN ps : ps[i].asked = j} = {i \in DOMAIN punch : punch[i].asked = j}
        BY <1>2, <1>11, <2>3
      <3> QED
        BY <1>8, <2>1, <2>3, <3>1
    <2> QED
      BY <2>2, <2>3
  <1>14. Agreed(punch, session, asked) /\ Fresh(req[r])
            => Agreed(ps, NewSession(session, row, d), as)
    BY <1>12, <1>13 DEF Agreed
  <1> QED
    BY <1>6, <1>12, <1>14, CommitTransacts

\* rejectManualCheckIn
LEMMA RejectTransacts ==
    ASSUME ClockInv, NEW r \in Requests, RejectCommit(r)
    PROVE  Transacts(r)
  <1> DEFINE k == req[r].asked
             decision == [asked[k] EXCEPT !.status = "rejected"]
             as == [asked EXCEPT ![k] = decision]
  <1>1. k \in DOMAIN asked /\ asked[k] \in Asked /\ req[r].op = "reject"
    BY RowsShape DEF RejectCommit, Commits, Sound
  <1>2. decision \in Asked /\ decision.status = "rejected"
    BY <1>1, AskedUpdates
  <1>3. Commit(r, punch, session, as, correction)
    BY DEF RejectCommit
  <1>4. Fresh(req[r]) => asked[k].status = "pending"
    BY <1>1 DEF Fresh
  <1> HIDE DEF k, decision
  <1>5. /\ as \in Seq(Asked) /\ Len(as) = Len(asked)
        /\ \A j \in DOMAIN asked : as[j] = IF j = k THEN decision ELSE asked[j]
    BY <1>1, <1>2, RowsShape, ExceptSeq
  <1>6. DOMAIN as = DOMAIN asked
    BY <1>5, RowsShape, LenProperties
  <1>7. OthersOK(as, correction)
    BY <1>5, <1>6, OthersStay DEF OthersOK
  <1>8. Decisions(punch, asked) /\ Fresh(req[r]) => Decisions(punch, as)
    BY <1>2, <1>4, <1>5, <1>6 DEF Decisions
  <1> HIDE DEF as
  <1> QED
    BY <1>3, <1>7, <1>8, OthersTransact

LEMMA CorrectionFields ==
    ASSUME NEW row \in Correction
    PROVE  /\ row.day \in Days /\ row.in \in BOOLEAN /\ row.out \in BOOLEAN
           /\ row.attached \in Nat /\ row.status \in Decision /\ row.punch \in Nat
           /\ row = [day |-> row.day, in |-> row.in, out |-> row.out, attached |-> row.attached,
                     status |-> row.status, punch |-> row.punch]
  BY DEF Correction

\* A correction is decided.
LEMMA DecidedIsOK ==
    ASSUME ClockInv, NEW c \in DOMAIN correction, NEW i \in Nat
    PROVE  /\ OthersOK(asked, Decided(correction, c, i))
           /\ OthersOK(asked, [correction EXCEPT ![c].status = "rejected"])
  <1>1. ASSUME NEW row \in Correction, row.attached = correction[c].attached
        PROVE  OthersOK(asked, [correction EXCEPT ![c] = row])
    <2> DEFINE cs == [correction EXCEPT ![c] = row]
    <2>1. /\ cs \in Seq(Correction) /\ Len(cs) = Len(correction)
          /\ \A j \in DOMAIN correction : cs[j] = IF j = c THEN row ELSE correction[j]
      BY RowsShape, ExceptSeq
    <2>2. DOMAIN cs = DOMAIN correction
      BY <2>1, RowsShape, LenProperties
    <2> HIDE DEF cs
    <2>3. OthersOK(asked, cs)
      BY <1>1, <2>1, <2>2, OthersStay DEF OthersOK
    <2> QED
      BY <2>3 DEF cs
  <1>2. correction[c] \in Correction
    BY RowsShape
  <1> DEFINE approved == [correction[c] EXCEPT !.status = "approved", !.punch = i]
             rejected == [correction[c] EXCEPT !.status = "rejected"]
  <1>3. /\ approved \in Correction /\ approved.attached = correction[c].attached
        /\ rejected \in Correction /\ rejected.attached = correction[c].attached
    BY <1>2, CorrectionFields DEF Correction, Decision
  <1>4. /\ Decided(correction, c, i) = [correction EXCEPT ![c] = approved]
        /\ [correction EXCEPT ![c].status = "rejected"] = [correction EXCEPT ![c] = rejected]
    BY RowsShape DEF Decided
  <1> HIDE DEF approved, rejected
  <1> QED
    BY <1>1, <1>3, <1>4

\* submitCorrection
LEMMA SubmitTransacts ==
    ASSUME ClockInv, NEW r \in Requests, SubmitCommit(r)
    PROVE  Transacts(r)
  <1> DEFINE row == req[r].correction
             cs == Append(correction, row)
             n == Len(correction) + 1
  <1>1. row \in Correction /\ row.attached \in {Nobody} \cup DOMAIN punch
    BY RowsShape, RequestShape DEF SubmitCommit, Commits, Sound
  <1>2. Commit(r, punch, session, asked, cs)
    BY DEF SubmitCommit
  <1> HIDE DEF row
  <1>3. /\ cs \in Seq(Correction) /\ Len(cs) = n
        /\ \A j \in 1..Len(correction) : cs[j] = correction[j]
        /\ cs[n] = row
    BY <1>1, RowsShape, AppendProperties
  <1>4. /\ \A j \in DOMAIN cs : j \in DOMAIN correction \/ j = n
        /\ DOMAIN correction \subseteq DOMAIN cs
    BY <1>3, RowsShape, LenProperties
  <1>5. OthersOK(asked, cs)
    BY <1>1, <1>3, <1>4, OthersStay, RowsShape DEF OthersOK
  <1> HIDE DEF cs
  <1> QED
    BY <1>2, <1>5, OthersTransact

\* rejectCorrection
LEMMA RefuseTransacts ==
    ASSUME ClockInv, NEW r \in Requests, RefuseCommit(r)
    PROVE  Transacts(r)
  <1> DEFINE cs == [correction EXCEPT ![req[r].correction].status = "rejected"]
  <1>1. req[r].correction \in DOMAIN correction
    BY RowsShape DEF RefuseCommit, Commits, Sound
  <1>2. OthersOK(asked, cs)
    BY <1>1, DecidedIsOK, 0 \in Nat
  <1>3. Commit(r, punch, session, asked, cs)
    BY DEF RefuseCommit
  <1> HIDE DEF cs
  <1> QED
    BY <1>2, <1>3, OthersTransact

\* approveCorrection, on the punch that the correction names
LEMMA CorrectAttachedTransacts ==
    ASSUME ClockInv, NEW r \in Requests, NEW c \in DOMAIN correction, NEW i \in DOMAIN punch,
           CorrectAttached(r, c, i)
    PROVE  Transacts(r)
  <1>1. correction[c] \in Correction /\ punch[i] \in Punch /\ i \in Nat
    BY RowsShape
  <1>2. OthersOK(asked, Decided(correction, c, i))
    BY <1>1, DecidedIsOK
  <1>3. CASE punch[i].gone
    BY <1>2, <1>3, OthersTransact DEF CorrectAttached
  <1>4. CASE ~punch[i].gone
    <2>1. PICK d \in Days : d = IF correction[c].in THEN correction[c].day ELSE punch[i].day
      BY <1>1, CorrectionFields, PunchFields
    <2>2. PICK b \in BOOLEAN : b = (punch[i].open /\ ~correction[c].out)
      OBVIOUS
    <2>5. PICK old \in Punch : old = punch[i]
      BY <1>1
    <2>6. PICK row : row = [old EXCEPT !.day = d, !.open = b]
      OBVIOUS
    <2>3. Commit(r, [punch EXCEPT ![i] = row], [session EXCEPT ![i] = Synced(row)],
                 asked, Decided(correction, c, i))
      BY <1>4, <2>1, <2>2, <2>5, <2>6 DEF CorrectAttached
    <2>8. /\ row \in Punch /\ row.open = b /\ row.schedule = old.schedule
          /\ row.asked = old.asked /\ row.gone = old.gone
      BY <2>6, PunchFields DEF Punch
    <2>4. /\ row \in Punch /\ row.open = b /\ row.asked = punch[i].asked
          /\ row.gone = punch[i].gone
      BY <2>5, <2>8
    <2>7. /\ Synced(row) \in Session /\ Synced(row).open = row.open
          /\ Synced(row).schedule = row.schedule
      BY <2>4, SyncedIsASession
    <2> QED
      BY <1>2, <2>2, <2>3, <2>4, <2>7, OneRowTransacts
  <1> QED
    BY <1>3, <1>4

\* approveCorrection, on the newest punch of its day
LEMMA CorrectNewestTransacts ==
    ASSUME ClockInv, NEW r \in Requests, NEW c \in DOMAIN correction, NEW i \in DOMAIN punch,
           CorrectNewest(r, c, i)
    PROVE  Transacts(r)
  <1>1. correction[c] \in Correction /\ punch[i] \in Punch /\ i \in Nat
    BY RowsShape
  <1>0. PICK b \in BOOLEAN : b = (punch[i].open /\ ~correction[c].out)
    OBVIOUS
  <1>p. PICK old \in Punch : old = punch[i]
    BY <1>1
  <1>r. PICK row : row = [old EXCEPT !.open = b, !.corrected = TRUE]
    OBVIOUS
  <1> DEFINE d == correction[c].day
             qs == [punch EXCEPT ![i] = row]
             ps == WithoutOtherCorrections(qs, d, i)
             ss == [session EXCEPT ![i] = Synced(row)]
             cs == Decided(correction, c, i)
  <1>2. OthersOK(asked, cs)
    BY <1>1, DecidedIsOK
  <1>3. Commit(r, ps, ss, asked, cs)
    BY <1>0, <1>p, <1>r DEF CorrectNewest
  <1>4. d \in Days /\ (b => punch[i].open)
    BY <1>0, <1>1, CorrectionFields
  <1> HIDE DEF d
  <1>s. /\ row \in Punch /\ row.open = b /\ row.schedule = old.schedule
        /\ row.asked = old.asked /\ row.gone = old.gone
    BY <1>r, PunchFields DEF Punch
  <1>5. /\ row \in Punch /\ row.open = b /\ row.asked = punch[i].asked
        /\ row.schedule = punch[i].schedule /\ row.gone = punch[i].gone
    BY <1>p, <1>s
  <1>6. /\ Synced(row) \in Session /\ Synced(row).open = row.open
        /\ Synced(row).schedule = row.schedule
    BY <1>5, SyncedIsASession
  <1>7. /\ qs \in Seq(Punch) /\ Len(qs) = Len(punch) /\ DOMAIN qs = 1..Len(punch)
        /\ \A j \in DOMAIN punch : qs[j] \in Punch
        /\ \A j \in DOMAIN punch : qs[j] = IF j = i THEN row ELSE punch[j]
    BY <1>5, RowsShape, ExceptSeq, LenProperties
  <1>8. /\ ss \in Seq(Session) /\ Len(ss) = Len(punch)
        /\ \A j \in DOMAIN punch : ss[j] = IF j = i THEN Synced(row) ELSE session[j]
    BY <1>6, RowsShape, ExceptSeq
  <1> HIDE DEF qs, ss, cs
  <1>9. ASSUME NEW j \in DOMAIN punch
        PROVE  /\ ps[j] \in Punch /\ ps[j].open = qs[j].open /\ ps[j].schedule = qs[j].schedule
               /\ ps[j].asked = qs[j].asked
               /\ qs[j].gone => ps[j].gone
    <2>1. PICK g \in BOOLEAN :
             g = (qs[j].gone \/ (j # i /\ qs[j].day = d /\ qs[j].manual /\ qs[j].corrected))
      OBVIOUS
    <2>2. PICK row2 : row2 = qs[j]
      OBVIOUS
    <2>3. ps[j] = [row2 EXCEPT !.gone = g]
      BY <1>7, <2>1, <2>2, RowsShape DEF WithoutOtherCorrections
    <2>4. row2 \in Punch
      BY <1>7, <2>2
    <2> HIDE DEF ps
    <2>5. /\ ps[j] \in Punch /\ ps[j].open = row2.open /\ ps[j].schedule = row2.schedule
          /\ ps[j].asked = row2.asked /\ ps[j].gone = g
      BY <2>3, <2>4, PunchDeleted
    <2> QED
      BY <2>1, <2>2, <2>5
  <1>10. ps \in Seq(Punch) /\ Len(ps) = Len(punch)
    <2>1. DOMAIN ps = 1..Len(punch)
      BY <1>7 DEF WithoutOtherCorrections
    <2>2. ps = [j \in 1..Len(punch) |-> ps[j]]
      BY <1>7 DEF WithoutOtherCorrections
    <2> HIDE DEF ps
    <2>3. PICK n \in Nat : n = Len(punch)
      BY RowsShape
    <2>4. ps \in [1..n -> Punch]
      BY <1>9, <2>2, <2>3, RowsShape
    <2> QED
      BY <2>3, <2>4
  <1> HIDE DEF ps
  <1>11. \A j \in DOMAIN punch :
            /\ ps[j].open => punch[j].open
            /\ ps[j].asked = punch[j].asked
            /\ ps[j].open /\ ~ps[j].gone => ss[j].open
    BY ZenonT(60), <1>4, <1>5, <1>6, <1>7, <1>8, <1>9, RowsShape DEF RowsOK
  <1>12. /\ RowsOK(ps, ss, asked, cs) /\ RowsStay(ps, asked, cs)
         /\ DOMAIN ps = DOMAIN punch
         /\ \A k : {j \in DOMAIN ps : ps[j].asked = k} = {j \in DOMAIN punch : punch[j].asked = k}
    BY <1>2, <1>8, <1>10, <1>11, UpdateIsOK
  <1>13. Agreed(punch, session, asked) => Agreed(ps, ss, asked)
    <2>1. Follow(punch, session) => Follow(ps, ss)
      BY <1>5, <1>6, <1>7, <1>8, <1>9, <1>12 DEF Follow
    <2>2. Decisions(punch, asked) => Decisions(ps, asked)
      BY <1>12, DecisionsStay
    <2> QED
      BY <2>1, <2>2 DEF Agreed
  <1> QED
    BY <1>3, <1>12, <1>13, CommitTransacts

\* approveCorrection, on a day without a punch
LEMMA CorrectInsertTransacts ==
    ASSUME ClockInv, NEW r \in Requests, NEW c \in DOMAIN correction, CorrectInsert(r, c)
    PROVE  Transacts(r)
  <1> DEFINE n == Len(punch) + 1
             b == ~correction[c].out
             d == correction[c].day
             row == [schedule |-> Unscheduled, day |-> d, open |-> b, manual |-> TRUE,
                     corrected |-> TRUE, asked |-> Nobody, gone |-> FALSE]
             cs == Decided(correction, c, n)
  <1>1. correction[c] \in Correction /\ n \in Nat
    BY RowsShape
  <1>2. OthersOK(asked, cs)
    BY <1>1, DecidedIsOK
  <1>3. d \in Days /\ b \in BOOLEAN
    BY <1>1, CorrectionFields
  <1>4. Commit(r, Append(punch, row), NewSession(session, row, row.day), asked, cs)
    BY DEF CorrectInsert
  <1> HIDE DEF b, d, n, cs
  <1>5. row \in Punch /\ row.asked = Nobody /\ row.day = d
    BY <1>3 DEF Punch, Shift, Nobody
  <1> HIDE DEF row
  <1>6. /\ RowsOK(Append(punch, row), NewSession(session, row, d), asked, cs)
        /\ RowsStay(Append(punch, row), asked, cs)
        /\ Follow(punch, session) => Follow(Append(punch, row), NewSession(session, row, d))
    BY <1>2, <1>3, <1>5, InsertIsOK
  <1>7. Decisions(punch, asked) => Decisions(Append(punch, row), asked)
    BY <1>3, <1>5, UnaskedAdded
  <1>8. Agreed(punch, session, asked)
           => Agreed(Append(punch, row), NewSession(session, row, d), asked)
    BY <1>6, <1>7 DEF Agreed
  <1>9. Commit(r, Append(punch, row), NewSession(session, row, d), asked, cs)
    BY <1>4, <1>5
  <1> QED
    BY <1>6, <1>8, <1>9, CommitTransacts

\* approveCorrection
LEMMA CorrectTransacts ==
    ASSUME ClockInv, NEW r \in Requests, CorrectCommit(r)
    PROVE  Transacts(r)
  <1>0. PICK c : c = req[r].correction
    OBVIOUS
  <1>1. c \in DOMAIN correction /\ correction[c].attached \in {Nobody} \cup DOMAIN punch
    BY <1>0, RowsShape DEF CorrectCommit, Commits, Sound, RowsOK
  <1>2. CASE correction[c].attached # Nobody /\ CorrectAttached(r, c, correction[c].attached)
    <2>1. PICK i \in DOMAIN punch : i = correction[c].attached
      BY <1>1, <1>2
    <2> QED
      BY <1>1, <1>2, <2>1, CorrectAttachedTransacts
  <1>3. ASSUME NEW i \in OfDay(correction[c].day), CorrectNewest(r, c, i)
        PROVE  Transacts(r)
    BY <1>1, <1>3, CorrectNewestTransacts DEF OfDay, Punches
  <1>4. CASE CorrectInsert(r, c)
    BY <1>1, <1>4, CorrectInsertTransacts
  <1>5. CASE Commit(r, punch, session, asked, Decided(correction, c, Nobody))
    <2>1. OthersOK(asked, Decided(correction, c, Nobody))
      BY <1>1, DecidedIsOK DEF Nobody
    <2> QED
      BY <1>5, <2>1, OthersTransact
  <1> QED
    BY <1>0, <1>2, <1>3, <1>4, <1>5 DEF CorrectCommit

-----------------------------------------------------------------------------
(* The invariant *)

LEMMA InitOK == Init => ClockInv
  <1> SUFFICES ASSUME Init PROVE ClockInv
    OBVIOUS
  <1>1. today \in Days
    BY ClockAssumption DEF Init
  <1>2. RowsOK(punch, session, asked, correction)
    BY EmptySeq DEF Init, RowsOK
  <1>3. req \in [Requests -> Request] /\ HeldIsSound
    BY IdleIsSound DEF Init, HeldIsSound, Sound
  <1>4. PeriodInv
    BY PeriodInitOK DEF Init
  <1> QED
    BY <1>1, <1>2, <1>3, <1>4 DEF ClockInv

\* The transactions, whichever request they are of.
LEMMA EveryCommitTransacts ==
    ASSUME ClockInv, NEW r \in Requests, Continue(r)
    PROVE  Guard(r) \/ Transacts(r)
  BY CheckInTransacts, CloseTransacts, RepairTransacts, AskTransacts, ApproveTransacts,
     RejectTransacts, SubmitTransacts, CorrectTransacts, RefuseTransacts DEF Continue

LEMMA TransactsOK ==
    ASSUME ClockInv, NEW r \in Requests, Transacts(r), UNCHANGED periodVars
    PROVE  ClockInv'
  BY IdleIsSound, OneMoves DEF Transacts

\* loadAndAssertPeriodNotLocked
LEMMA GuardOutcome ==
    ASSUME ClockInv, NEW r \in Requests, Guard(r)
    PROVE  \E h : /\ Only(Goto(r, h)) /\ Sound(h, punch, asked, correction)
                  /\ h = Idle \/ (Fresh(req[r]) => Fresh(h))
  <1>1. req[r].at = "guard" /\ req[r] \in Request /\ Sound(req[r], punch, asked, correction)
    BY RowsShape DEF Guard
  <1>2. PICK n : n = [req[r] EXCEPT !.at = "commit"]
    OBVIOUS
  <1>3. /\ n \in Request /\ n.op = req[r].op
        /\ req[r].op \in {"checkout", "force", "repair"} => n.punch = req[r].punch
        /\ req[r].op = "repair" => n.seen = req[r].seen
        /\ req[r].op \in {"approve", "reject"} => n.asked = req[r].asked
        /\ req[r].op \in {"correct", "refuse"} => n.correction = req[r].correction
        /\ req[r].op # "submit"
    BY <1>1, <1>2, Advanced
  <1>4. Sound(n, punch, asked, correction) /\ (Fresh(req[r]) => Fresh(n))
    BY <1>1, <1>3 DEF Sound, Fresh
  <1>5. CASE Only(Return(r))
    BY <1>5, IdleIsSound DEF Return
  <1>6. CASE Only(Advance(r, "commit"))
    <2>1. [req EXCEPT ![r].at = "commit"] = [req EXCEPT ![r] = n]
      BY <1>2 DEF ClockInv
    <2>2. Only(Goto(r, n))
      BY <1>6, <2>1 DEF Only, Advance, Goto
    <2> QED
      BY <1>4, <2>2
  <1> QED
    BY <1>5, <1>6 DEF Guard, Only

\* What a request that arrives takes with it is sound, and fresh.
LEMMA ArriveOutcome ==
    ASSUME ClockInv, NEW r \in Requests, Arrive(r)
    PROVE  \E h : /\ Only(Goto(r, h)) /\ Sound(h, punch, asked, correction)
                  /\ Fresh(h) /\ req[r] = Idle
  <1> DEFINE Taken(h) == /\ Only(Goto(r, h)) /\ Sound(h, punch, asked, correction)
                         /\ Fresh(h) /\ req[r] = Idle
  <1>0. 0 \notin DOMAIN punch /\ 0 \notin DOMAIN asked /\ 0 \notin DOMAIN correction
    BY RowsShape
  <1>1. ASSUME NEW s \in Schedules, CheckInRead(r, s)
        PROVE  \E h : Taken(h)
    <2> DEFINE h == [op |-> "checkin", at |-> "guard", day |-> today, schedule |-> s]
    <2>1. h \in Request
      BY RowsShape DEF Request, Stage
    <2>2. Taken(h)
      BY <1>1, <2>1 DEF CheckInRead, Sound, Fresh
    <2> QED
      BY <2>2
  <1>2. ASSUME NEW op \in {"checkout", "force"}, NEW i \in DOMAIN punch, req[r] = Idle,
               Only(Goto(r, [op |-> op, at |-> "guard", day |-> punch[i].day, punch |-> i]))
        PROVE  \E h : Taken(h)
    <2> DEFINE h == [op |-> op, at |-> "guard", day |-> punch[i].day, punch |-> i]
    <2>1. punch[i] \in Punch /\ i \in Row
      BY <1>0, RowsShape DEF Row
    <2>2. h \in Request
      BY <2>1, PunchFields DEF Request, Stage
    <2>3. Taken(h)
      BY <1>2, <2>2 DEF Sound, Fresh
    <2> QED
      BY <2>3
  <1>3. ASSUME CheckOutRead(r)
        PROVE  \E h : Taken(h)
    BY <1>2, <1>3 DEF CheckOutRead, OpenPunches, Punches
  <1>4. ASSUME NEW i \in DOMAIN punch, ForceCheckoutRead(r, i)
        PROVE  \E h : Taken(h)
    BY <1>2, <1>4 DEF ForceCheckoutRead
  <1>5. ASSUME NEW i \in DOMAIN punch, RepairRead(r, i)
        PROVE  \E h : Taken(h)
    <2> DEFINE h == [op |-> "repair", at |-> "guard", day |-> punch[i].day, punch |-> i,
                     seen |-> punch[i]]
    <2>1. punch[i] \in Punch /\ i \in Row
      BY <1>0, RowsShape DEF Row
    <2>2. h \in Request
      BY <2>1, PunchFields DEF Request, Stage
    <2>3. Taken(h)
      BY <1>5, <2>2 DEF RepairRead, Sound, Fresh
    <2> QED
      BY <2>3
  <1>6. ASSUME NEW d \in Days, NEW s \in Shift, AskRead(r, d, s)
        PROVE  \E h : Taken(h)
    <2> DEFINE h == [op |-> "ask", at |-> "commit", day |-> d, schedule |-> s]
    <2>1. h \in Request
      BY DEF Request
    <2>2. Taken(h)
      BY <1>6, <2>1 DEF AskRead, Sound, Fresh
    <2> QED
      BY <2>2
  <1>7. ASSUME NEW k \in DOMAIN asked, ApproveRead(r, k) \/ RejectRead(r, k)
        PROVE  \E h : Taken(h)
    <2>1. PICK op \in {"approve", "reject"} :
             /\ req[r] = Idle /\ asked[k].status = "pending"
             /\ Only(Goto(r, [op |-> op, at |-> "guard", day |-> asked[k].day, asked |-> k]))
      BY <1>7 DEF ApproveRead, RejectRead
    <2> DEFINE h == [op |-> op, at |-> "guard", day |-> asked[k].day, asked |-> k]
    <2>2. asked[k].day \in Days /\ k \in Row
      BY <1>0, RowsShape DEF Row, Asked
    <2>3. h \in Request
      BY <2>2 DEF Request, Stage
    <2>4. Taken(h)
      BY <2>1, <2>3 DEF Sound, Fresh
    <2> QED
      BY <2>4
  <1>8. ASSUME NEW d \in Days, NEW in \in BOOLEAN, NEW out \in BOOLEAN,
               NEW i \in DOMAIN punch \cup {Nobody}, SubmitRead(r, d, in, out, i)
        PROVE  \E h : Taken(h)
    <2> DEFINE row == [day |-> d, in |-> in, out |-> out, attached |-> i,
                       status |-> "pending", punch |-> i]
               h == [op |-> "submit", at |-> "commit", correction |-> row]
    <2>1. i \in Nat
      BY RowsShape DEF Nobody
    <2>2. row \in Correction /\ row.attached = i
      BY <2>1 DEF Correction, Decision
    <2>3. Only(Goto(r, h)) /\ req[r] = Idle
      BY <1>8 DEF SubmitRead
    <2> HIDE DEF row
    <2>4. h \in Request
      BY <2>2 DEF Request
    <2>5. Taken(h)
      BY <2>2, <2>3, <2>4 DEF Sound, Fresh
    <2> QED
      BY <2>5
  <1>9. ASSUME NEW c \in DOMAIN correction, CorrectRead(r, c) \/ RefuseRead(r, c)
        PROVE  \E h : Taken(h)
    <2>1. PICK op \in {"correct", "refuse"} :
             /\ req[r] = Idle
             /\ Only(Goto(r, [op |-> op, at |-> "guard", day |-> correction[c].day,
                              correction |-> c]))
      BY <1>9 DEF CorrectRead, RefuseRead
    <2> DEFINE h == [op |-> op, at |-> "guard", day |-> correction[c].day, correction |-> c]
    <2>2. correction[c].day \in Days /\ c \in Row
      BY <1>0, RowsShape DEF Row, Correction
    <2>3. h \in Request
      BY <2>2 DEF Request, Stage
    <2>4. Taken(h)
      BY <2>1, <2>3 DEF Sound, Fresh
    <2> QED
      BY <2>4
  <1> HIDE DEF Taken
  <1>10. \E h : Taken(h)
    BY <1>1, <1>3, <1>4, <1>5, <1>6, <1>7, <1>8, <1>9 DEF Arrive
  <1> QED
    BY <1>10 DEF Taken

LEMMA ClockStepOK ==
    ASSUME ClockInv, ClockStep, UNCHANGED periodVars
    PROVE  ClockInv'
  <1>1. ASSUME NextDay
        PROVE  ClockInv'
    <2>1. today' \in Days /\ UNCHANGED <<punch, session, asked, correction, req>>
      BY <1>1 DEF NextDay, tables
    <2>2. PeriodInv'
      BY PeriodStutterOK DEF ClockInv
    <2> QED
      BY <2>1, <2>2 DEF ClockInv, HeldIsSound
  <1>2. ASSUME NEW r \in Requests, Arrive(r)
        PROVE  ClockInv'
    <2>1. PICK h : Only(Goto(r, h)) /\ Sound(h, punch, asked, correction)
      BY <1>2, ArriveOutcome
    <2> QED
      BY <2>1, ReadIsSafe
  <1>3. ASSUME NEW r \in Requests, Guard(r)
        PROVE  ClockInv'
    <2>1. PICK h : Only(Goto(r, h)) /\ Sound(h, punch, asked, correction)
      BY <1>3, GuardOutcome
    <2> QED
      BY <2>1, ReadIsSafe
  <1>4. ASSUME NEW r \in Requests, Continue(r)
        PROVE  ClockInv'
    BY <1>3, <1>4, EveryCommitTransacts, TransactsOK
  <1> QED
    BY <1>1, <1>2, <1>4 DEF ClockStep

LEMMA OfficerStepOK ==
    ASSUME ClockInv, NEW o \in Officers, OfficerStep(o)
    PROVE  ClockInv'
  <1>1. UNCHANGED <<today, punch, session, asked, correction, req>> /\ PeriodStep(o)
    BY DEF OfficerStep, tables
  <1>2. PeriodInv'
    BY <1>1, PeriodStepOK DEF ClockInv
  <1> QED
    BY <1>1, <1>2 DEF ClockInv, HeldIsSound

LEMMA StepOK == ClockInv /\ [Next]_vars => ClockInv'
  <1>1. ASSUME ClockInv, UNCHANGED vars
        PROVE  ClockInv'
    <2>1. UNCHANGED <<today, punch, session, asked, correction, req>> /\ UNCHANGED periodVars
      BY <1>1 DEF vars, periodVars
    <2>2. PeriodInv'
      BY <1>1, <2>1, PeriodStutterOK DEF ClockInv
    <2> QED
      BY <1>1, <2>1, <2>2 DEF ClockInv, HeldIsSound
  <1> QED
    BY <1>1, ClockStepOK, OfficerStepOK DEF Next

-----------------------------------------------------------------------------
(* What holds whatever requests overlap *)

\* Whatever requests, officers and days interleave: what a request carries between its
\* select and its transaction names rows that exist, a repair carries no closed row for a
\* punch that is open, and no session is closed under an open punch.
THEOREM ClockInvariance == Spec => []ClockInv
  BY InitOK, StepOK, PTL DEF Spec

\* The tables, the requests and the period rows stay in their types.
THEOREM ClockTypeCorrect == Spec => []TypeOK
  <1>1. ClockInv => TypeOK
    BY DEF ClockInv, RowsOK, PeriodInv, TypeOK
  <1> QED
    BY <1>1, ClockInvariance, PTL

\* Payroll counts closed sessions (payrollExecuteMonthly.ts:220): none of them is closed
\* while its punch is open, although check-outs, corrections and repairs write a session
\* from a punch they read before their transaction.
THEOREM NoOpenPunchIsCounted == Spec => []ClosedSessionIsClosedPunch
  <1>1. ClockInv => ClosedSessionIsClosedPunch
    BY DEF ClockInv, RowsOK, ClosedSessionIsClosedPunch, OpenPunches, Punches
  <1> QED
    BY <1>1, ClockInvariance, PTL

-----------------------------------------------------------------------------
(* What holds when requests take turns *)

\* One request at a time is on its way, it works on what the rows still say, and the
\* rows agree with one another.
SerialInv ==
    /\ ClockInv
    /\ \A q, r \in Requests : req[q] # Idle /\ req[r] # Idle => q = r
    /\ \A r \in Requests : Fresh(req[r])
    /\ Agreed(punch, session, asked)

LEMMA IdleIsFresh == Fresh(Idle) /\ Fresh(Idle)'
  BY DEF Fresh, Idle

LEMMA SerialInitOK == Init => SerialInv
  <1> SUFFICES ASSUME Init PROVE SerialInv
    OBVIOUS
  <1>1. Agreed(punch, session, asked)
    BY DEF Init, Agreed, Follow, Decisions
  <1>2. \A r \in Requests : req[r] = Idle
    BY DEF Init
  <1> QED
    BY <1>1, <1>2, InitOK, IdleIsFresh DEF SerialInv

\* A request that goes on is the one that is on its way.
LEMMA ContinuesAlone ==
    ASSUME SerialInv, NEW r \in Requests, Continue(r)
    PROVE  \A q \in Requests : q # r => req[q] = Idle
  <1>1. req[r].at \in {"guard", "commit"}
    <2>1. CASE Guard(r)
      BY <2>1 DEF Guard
    <2>2. ASSUME NEW op, Commits(r, op) PROVE req[r].at = "commit"
      BY <2>2 DEF Commits
    <2>3. CASE CheckInCommit(r) \/ CheckOutCommit(r) \/ ForceCheckoutCommit(r) \/ RepairCommit(r)
      BY <2>2, <2>3 DEF CheckInCommit, CheckOutCommit, ForceCheckoutCommit, RepairCommit
    <2>4. CASE AskCommit(r) \/ ApproveCommit(r) \/ RejectCommit(r)
      BY <2>2, <2>4 DEF AskCommit, ApproveCommit, RejectCommit
    <2>5. CASE SubmitCommit(r) \/ CorrectCommit(r) \/ RefuseCommit(r)
      BY <2>2, <2>5 DEF SubmitCommit, CorrectCommit, RefuseCommit
    <2> QED
      BY <2>1, <2>3, <2>4, <2>5 DEF Continue
  <1>2. Idle.at = "idle"
    BY DEF Idle
  <1>3. req[r] # Idle
    BY <1>1, <1>2
  <1> QED
    BY <1>3 DEF SerialInv

\* The only request on its way takes h with it, and the rows agree.
LEMMA AloneOK ==
    ASSUME SerialInv, ClockInv', NEW r \in Requests, NEW h, Goto(r, h),
           \A q \in Requests : q # r => req[q] = Idle,
           Fresh(h)', Agreed(punch, session, asked)'
    PROVE  SerialInv'
  <1>1. req' = [req EXCEPT ![r] = h] /\ req \in [Requests -> Request]
    BY DEF Goto, SerialInv, ClockInv
  <1>2. req'[r] = h /\ \A q \in Requests : q # r => req'[q] = Idle
    BY <1>1
  <1>3. \A q \in Requests : Fresh(req[q])'
    BY <1>2, IdleIsFresh
  <1> QED
    BY <1>2, <1>3 DEF SerialInv

LEMMA SerialStepOK == SerialInv /\ [SerialNext]_vars => SerialInv'
  <1> SUFFICES ASSUME SerialInv, [SerialNext]_vars PROVE SerialInv'
    OBVIOUS
  <1>c. ClockInv /\ ClockInv'
    <2>1. [Next]_vars
      BY DEF SerialNext, Next, ClockStep
    <2> QED
      BY <2>1, StepOK DEF SerialInv
  <1>s. ASSUME UNCHANGED <<punch, session, asked, req>>
        PROVE  SerialInv'
    BY <1>c, <1>s DEF SerialInv, Fresh
  <1>1. ASSUME NEW r \in Requests, NEW h, Only(Goto(r, h)), Fresh(h),
               \A q \in Requests : q # r => req[q] = Idle
        PROVE  SerialInv'
    <2>1. Goto(r, h) /\ UNCHANGED <<punch, session, asked>>
      BY <1>1 DEF Only, tables
    <2>2. Fresh(h)' /\ Agreed(punch, session, asked)'
      BY <1>1, <2>1 DEF Fresh, SerialInv
    <2> QED
      BY <1>1, <1>c, <2>1, <2>2, AloneOK
  <1>2. ASSUME Quiet, NEW r \in Requests, Arrive(r)
        PROVE  SerialInv'
    <2>1. PICK h : Only(Goto(r, h)) /\ Fresh(h)
      BY <1>2, <1>c, ArriveOutcome
    <2> QED
      BY <1>1, <1>2, <2>1 DEF Quiet
  <1>3. ASSUME NEW r \in Requests, Continue(r)
        PROVE  SerialInv'
    <2>0. \A q \in Requests : q # r => req[q] = Idle
      BY <1>3, ContinuesAlone
    <2>1. CASE Guard(r)
      <3>1. PICK h : Only(Goto(r, h)) /\ (h = Idle \/ (Fresh(req[r]) => Fresh(h)))
        BY <1>c, <2>1, GuardOutcome
      <3>2. Fresh(h)
        BY <3>1, IdleIsFresh DEF SerialInv
      <3> QED
        BY <1>1, <2>0, <3>1, <3>2
    <2>2. CASE Transacts(r)
      <3>1. Goto(r, Idle) /\ Agreed(punch, session, asked)'
        BY <2>2 DEF Transacts, SerialInv
      <3> QED
        BY <1>c, <2>0, <3>1, IdleIsFresh, AloneOK
    <2> QED
      BY <1>3, <1>c, <2>1, <2>2, EveryCommitTransacts
  <1>4. ASSUME NextDay
        PROVE  SerialInv'
    BY <1>4, <1>s DEF NextDay, tables
  <1>5. ASSUME NEW o \in Officers, OfficerStep(o)
        PROVE  SerialInv'
    BY <1>5, <1>s DEF OfficerStep, tables
  <1>6. ASSUME UNCHANGED vars
        PROVE  SerialInv'
    BY <1>6, <1>s DEF vars
  <1> QED
    BY <1>2, <1>3, <1>4, <1>5, <1>6 DEF SerialNext, ClockStep

\* "Payroll (attendance_sessions) must track HR-approved clock corrections"
\* (attendance.ts:2404): while requests take turns, the session of a punch is open when
\* the punch is, and of the same shift, after any sequence of check-ins, check-outs,
\* forced check-outs, repairs, manual requests and corrections.
THEOREM SessionsTrackPunches == SerialSpec => []SessionsFollowPunches
  <1>1. SerialInv => SessionsFollowPunches
    BY DEF SerialInv, Agreed, Follow, SessionsFollowPunches, Punches
  <1> QED
    BY <1>1, SerialInitOK, SerialStepOK, PTL DEF SerialSpec

\* While requests take turns, a manual check-in request that is approved has made one
\* punch, the one it names, and a request that is pending or rejected has made none.
THEOREM RequestsAreDecidedOnce == SerialSpec => []OneDecisionOnePunch
  <1>1. SerialInv => OneDecisionOnePunch
    BY DEF SerialInv, Agreed, Decisions, OneDecisionOnePunch
  <1> QED
    BY <1>1, SerialInitOK, SerialStepOK, PTL DEF SerialSpec
=============================================================================
