---------------------- MODULE ContractLifecycle_proofs ----------------------
(***************************************************************************)
(* Proofs about ContractLifecycle for every number of overlapping calls,   *)
(* contracts and days, with the daily job and with restarts.               *)
(***************************************************************************)
EXTENDS ContractLifecycle, SequenceTheorems, FiniteSetTheorems, TLAPS

-----------------------------------------------------------------------------
(* The inductive invariant *)

\* d is a whole contract that renews c.
Succeeds(d, c, cs) == cs[d].renewalOf = c /\ cs[d].complete

HasSuccessor(c, cs) == \E d \in DOMAIN cs : Succeeds(d, c, cs)

\* What a call may hold when cs are the contracts: the rows it writes to have
\* existed; a renewal that is about to mark its original has a successor; a move
\* about to be written was allowed, and from "draft" if the contract still is one.
Sound(h, cs) ==
    /\ h \in Process
    /\ h.left \subseteq DOMAIN cs
    /\ h.at = "dup" => h.op = "amend"
    /\ h.at \in {"dup", "header", "status", "write", "event", "fields"} => h.id \in DOMAIN cs
    /\ h.at = "header" => h.op \in {"renew", "amend"}
    /\ h.at \in {"parts", "created"} =>
          /\ h.child \in DOMAIN cs
          /\ h.to \in ContractStatuses
          /\ h.op = "renew" => h.id \in DOMAIN cs /\ cs[h.child].renewalOf = h.id
    /\ h.at = "created" => cs[h.child].complete
    /\ h.at \in {"status", "write"} /\ h.to = "renewed" => HasSuccessor(h.id, cs)
    /\ h.at = "write" =>
          /\ <<h.from, h.to>> \in AllowedTransitions
          /\ cs[h.id].status = "draft" => h.from = "draft"
    /\ h.at = "event" => h.from \in ContractStatuses /\ h.to \in ContractStatuses

HeldIsSound == \A p \in Procs : Sound(procs[p], contracts)

ContractInv == TypeOK /\ SupersededHasSuccessor /\ HeldIsSound

\* The contracts move on: rows stay, with their links, and none is a draft again.
\* A draft is decided, and a contract newly superseded has its successor.
MovesOn(cs, ds) ==
    /\ DOMAIN cs \subseteq DOMAIN ds
    /\ \A c \in DOMAIN cs :
          /\ ds[c].renewalOf = cs[c].renewalOf
          /\ cs[c].complete => ds[c].complete
          /\ ds[c].status = "draft" => cs[c].status = "draft"
          /\ cs[c].status = "draft" => ds[c].status \in {"draft", "active", "terminated", "deleted"}
    /\ \A c \in DOMAIN ds : ds[c].status = "renewed" =>
          c \in DOMAIN cs /\ (cs[c].status = "renewed" \/ HasSuccessor(c, cs))

\* A step that keeps the invariant, and moves on.
Kept == ContractInv' /\ MovesOn(contracts, contracts')

LEMMA RowShape ==
    ASSUME NEW cs \in Seq(Contract)
    PROVE  /\ Len(cs) \in Nat /\ DOMAIN cs = 1 .. Len(cs) /\ DOMAIN cs \subseteq Nat
           /\ \A c \in DOMAIN cs : cs[c] \in Contract
  BY LenProperties

LEMMA SuccessorStays ==
    ASSUME NEW cs, NEW ds, MovesOn(cs, ds), NEW c, HasSuccessor(c, cs)
    PROVE  HasSuccessor(c, ds)
  BY DEF MovesOn, HasSuccessor, Succeeds

LEMMA IdleIsSound == \A cs : Sound(Idle, cs)
  BY DEF Idle, Process, Sound

\* What a call holds stays sound as the contracts move on.
LEMMA SoundLasts ==
    ASSUME NEW cs, NEW ds, MovesOn(cs, ds), NEW h, Sound(h, cs)
    PROVE  Sound(h, ds)
  <1>1. h.at \in {"status", "write"} /\ h.to = "renewed" => HasSuccessor(h.id, ds)
    BY SuccessorStays DEF Sound
  <1> QED
    BY <1>1 DEF Sound, MovesOn

LEMMA StateShape ==
    ASSUME ContractInv
    PROVE  /\ contracts \in Seq(Contract) /\ day \in Days
           /\ Len(contracts) \in Nat /\ Ids = 1 .. Len(contracts) /\ Ids \subseteq Nat
           /\ \A c \in Ids : contracts[c] \in Contract
           /\ procs \in [Procs -> Process]
           /\ \A p \in Procs : procs[p] \in Process /\ Sound(procs[p], contracts)
  BY RowShape DEF ContractInv, TypeOK, HeldIsSound, Ids

\* One call moves, and the others may go on with what they hold.
LEMMA OneMoves ==
    ASSUME ContractInv, NEW p \in Procs, NEW h, Goto(p, h), day' \in Days,
           contracts' \in Seq(Contract), MovesOn(contracts, contracts'),
           Sound(h, contracts')
    PROVE  Kept
  <1>1. procs' \in [Procs -> Process] /\ procs' = [procs EXCEPT ![p] = h]
    BY StateShape DEF Goto, Sound
  <1>2. \A q \in Procs : Sound(procs[q], contracts')
    BY StateShape, SoundLasts
  <1>3. \A q \in Procs : procs'[q] = IF q = p THEN h ELSE procs[q]
    BY <1>1, StateShape
  <1>4. HeldIsSound'
    BY <1>2, <1>3 DEF HeldIsSound
  <1>5. \A c \in Ids : HasSuccessor(c, contracts) => HasSuccessor(c, contracts')
    BY SuccessorStays
  <1>6. \A c \in Ids' : contracts'[c].status = "renewed" => HasSuccessor(c, contracts')
    BY <1>5 DEF ContractInv, SupersededHasSuccessor, MovesOn, HasSuccessor, Succeeds, Ids
  <1>7. SupersededHasSuccessor'
    BY <1>6 DEF SupersededHasSuccessor, HasSuccessor, Succeeds, Ids
  <1> QED
    BY <1>1, <1>4, <1>7 DEF ContractInv, TypeOK, Kept

LEMMA NothingChanges ==
    ASSUME ContractInv, UNCHANGED contracts
    PROVE  contracts' \in Seq(Contract) /\ MovesOn(contracts, contracts')
  BY StateShape DEF MovesOn, ContractInv, SupersededHasSuccessor, Ids

\* A read takes no more than a note.
LEMMA ReadIsSafe ==
    ASSUME ContractInv, NEW p \in Procs, NEW h, Goto(p, h), UNCHANGED <<day, contracts>>,
           Sound(h, contracts)
    PROVE  Kept
  BY NothingChanges, OneMoves, StateShape

\* A write to one row.
LEMMA RowChanges ==
    ASSUME ContractInv, NEW c \in Ids, NEW row \in Contract, Set(c, row),
           row.renewalOf = contracts[c].renewalOf,
           contracts[c].complete => row.complete,
           row.status = "draft" => contracts[c].status = "draft",
           contracts[c].status = "draft" =>
               row.status \in {"draft", "active", "terminated", "deleted"},
           row.status = "renewed" =>
               contracts[c].status = "renewed" \/ HasSuccessor(c, contracts)
    PROVE  /\ contracts' \in Seq(Contract) /\ MovesOn(contracts, contracts')
           /\ DOMAIN contracts' = DOMAIN contracts
           /\ \A d \in Ids : contracts'[d] = IF d = c THEN row ELSE contracts[d]
  <1>1. /\ contracts' \in Seq(Contract) /\ Len(contracts') = Len(contracts)
        /\ \A d \in Ids : contracts'[d] = IF d = c THEN row ELSE contracts[d]
    BY StateShape, ExceptSeq DEF Set
  <1>2. DOMAIN contracts' = DOMAIN contracts
    BY <1>1, StateShape, RowShape DEF Ids
  <1> QED
    BY <1>1, <1>2 DEF MovesOn, Ids

-----------------------------------------------------------------------------
(* One lemma per statement *)

LEMMA InitOK == Init => ContractInv
  <1> SUFFICES ASSUME Init
               PROVE  ContractInv
    OBVIOUS
  <1>1. contracts \in Seq(Contract) /\ Ids = {}
    BY EmptySeq DEF Init, Ids
  <1>2. procs \in [Procs -> Process] /\ \A p \in Procs : procs[p] = Idle
    BY DEF Init, Idle, Process
  <1>3. day \in Days
    BY ConstantsAssumption DEF Init, Days
  <1> QED
    BY <1>1, <1>2, <1>3, IdleIsSound DEF ContractInv, TypeOK, SupersededHasSuccessor, HeldIsSound

LEMMA InsertHeaderOK ==
    ASSUME ContractInv, NEW p \in Procs, NEW op \in {"create", "renew", "amend"}, NEW id \in Nat,
           NEW s \in ContractStatuses \ TerminalStatuses, NEW e \in Days,
           NEW original \in Nat, NEW base \in Nat,
           op = "renew" => id \in Ids /\ original = id,
           InsertHeader(p, op, id, NewContract(s, e, original, base))
    PROVE  Kept
  <1> DEFINE row == NewContract(s, e, original, base)
             n   == Len(contracts) + 1
             h   == [Idle EXCEPT !.at = "parts", !.op = op, !.id = id, !.child = n, !.to = row.status]
  <1>1. row \in Contract /\ row.status = s /\ row.renewalOf = original
    <2>1. << >> \in Seq([from : ContractStatuses \cup {"none"}, to : ContractStatuses])
      BY EmptySeq
    <2> QED
      BY <2>1 DEF NewContract, Contract
  <1>2. contracts' = Append(contracts, row) /\ Goto(p, h) /\ day' = day
    BY DEF InsertHeader
  <1>3. h \in Process /\ h.at = "parts" /\ h.op = op /\ h.id = id /\ h.child = n /\ h.to = s
        /\ h.left = {}
    <2>1. n \in Nat /\ s \in ContractStatuses
      BY StateShape
    <2> HIDE DEF row, n
    <2>2. row.status = s
      BY <1>1
    <2>3. h.at = "parts" /\ h.op = op /\ h.id = id /\ h.child = n /\ h.to = s /\ h.left = {}
      BY <2>2 DEF Idle
    <2>4. h \in Process
      BY <2>1, <2>2 DEF Idle, Process
    <2> QED
      BY <2>3, <2>4
  <1> HIDE DEF row, h
  <1>4. /\ contracts' \in Seq(Contract) /\ Len(contracts') = n
        /\ \A c \in Ids : contracts'[c] = contracts[c]
        /\ contracts'[n] = row
    BY <1>1, <1>2, StateShape, AppendProperties
  <1>5. DOMAIN contracts' = Ids \cup {n} /\ n \notin Ids
    BY <1>4, StateShape, RowShape
  <1>6. MovesOn(contracts, contracts')
    <2>1. row.status # "renewed"
      BY <1>1 DEF TerminalStatuses
    <2> QED
      BY <1>4, <1>5, <2>1 DEF MovesOn, Ids
  <1>7. Sound(h, contracts')
    BY <1>1, <1>3, <1>4, <1>5 DEF Sound
  <1> QED
    BY <1>2, <1>4, <1>6, <1>7, StateShape, OneMoves

LEMMA CreateOK ==
    ASSUME ContractInv, NEW p \in Procs, NEW s \in FirstStatuses, NEW e \in Expiries,
           CreateContract(p, s, e)
    PROVE  Kept
  <1>1. s \in ContractStatuses \ TerminalStatuses /\ e \in Days
    BY ConstantsAssumption DEF CreateContract, ContractStatuses, Days
  <1> QED
    BY <1>1, InsertHeaderOK DEF CreateContract

LEMMA SuccessorHeaderOK ==
    ASSUME ContractInv, NEW p \in Procs, NEW e \in Expiries, SuccessorHeader(p, e)
    PROVE  Kept
  <1> DEFINE r == procs[p]
  <1>1. r.id \in Ids /\ r.id \in Nat /\ r.op \in {"renew", "amend"}
    BY StateShape DEF SuccessorHeader, At, Sound, Ids
  <1>2. e \in Days /\ "draft" \in ContractStatuses \ TerminalStatuses
    BY ConstantsAssumption DEF ContractStatuses, TerminalStatuses, Days
  <1>3. CASE r.op = "renew"
    <2>1. InsertHeader(p, "renew", r.id, NewContract("draft", e, r.id, 0))
      BY <1>3 DEF SuccessorHeader
    <2> HIDE DEF r
    <2> QED
      BY <1>1, <1>2, <2>1, InsertHeaderOK
  <1>4. CASE r.op = "amend"
    <2>1. InsertHeader(p, "amend", r.id, NewContract("draft", e, 0, r.id))
      BY <1>4 DEF SuccessorHeader
    <2> HIDE DEF r
    <2> QED
      BY <1>1, <1>2, <2>1, InsertHeaderOK
  <1> QED
    BY <1>1, <1>3, <1>4

LEMMA InsertPartsOK ==
    ASSUME ContractInv, NEW p \in Procs, InsertParts(p)
    PROVE  Kept
  <1> DEFINE r == procs[p]
             c == r.child
             h == [r EXCEPT !.at = "created"]
  <1>1. r \in Process /\ Sound(r, contracts) /\ r.at = "parts" /\ c \in Ids
    BY StateShape DEF InsertParts, At, Sound, Ids
  <1>2. CASE Exists(c)
    <2> DEFINE row == [contracts[c] EXCEPT !.complete = TRUE]
    <2>1. Set(c, row) /\ Goto(p, h) /\ day' = day
      BY <1>2 DEF InsertParts
    <2>2. /\ row \in Contract /\ row.complete
          /\ row.renewalOf = contracts[c].renewalOf /\ row.status = contracts[c].status
      <3>1. PICK old \in Contract : old = contracts[c]
        BY <1>1, StateShape
      <3>2. PICK new : new = [old EXCEPT !.complete = TRUE]
        OBVIOUS
      <3>3. /\ new \in Contract /\ new.complete
            /\ new.renewalOf = old.renewalOf /\ new.status = old.status
        BY <3>2 DEF Contract
      <3> QED
        BY <3>1, <3>2, <3>3
    <2>3. /\ h \in Process /\ h.at = "created" /\ h.op = r.op /\ h.id = r.id
          /\ h.child = c /\ h.to = r.to /\ h.left = r.left
      BY <1>1 DEF Process
    <2> HIDE DEF row, h, c, r
    <2>4. \/ row.status # "renewed"
          \/ contracts[c].status = "renewed"
      BY <2>2
    <2>5. row.status = "draft" => row.status \in {"draft", "active", "terminated", "deleted"}
      OBVIOUS
    <2>6. /\ contracts' \in Seq(Contract) /\ MovesOn(contracts, contracts')
          /\ DOMAIN contracts' = DOMAIN contracts
          /\ contracts'[c] = row
      BY <1>1, <2>1, <2>2, <2>4, <2>5, RowChanges
    <2>7. Sound(h, contracts')
      BY <1>1, <2>2, <2>3, <2>6 DEF Sound, Ids, c
    <2> QED
      BY <2>1, <2>6, <2>7, StateShape, OneMoves
  <1>3. CASE ~Exists(c)
    <2>1. Goto(p, Idle) /\ UNCHANGED <<day, contracts>>
      BY <1>3 DEF InsertParts
    <2> QED
      BY <2>1, IdleIsSound, ReadIsSafe
  <1> QED
    BY <1>2, <1>3

\* A contract with one more event.
LEMMA EventIsAdded ==
    ASSUME ContractInv, NEW c \in Ids,
           NEW from \in ContractStatuses \cup {"none"}, NEW to \in ContractStatuses,
           Set(c, [contracts[c] EXCEPT !.trail = Append(@, [from |-> from, to |-> to])])
    PROVE  /\ contracts' \in Seq(Contract) /\ MovesOn(contracts, contracts')
           /\ DOMAIN contracts' = DOMAIN contracts
           /\ \A d \in Ids : contracts'[d].renewalOf = contracts[d].renewalOf
                            /\ contracts'[d].complete = contracts[d].complete
  <1> DEFINE Event == [from : ContractStatuses \cup {"none"}, to : ContractStatuses]
             t   == Append(contracts[c].trail, [from |-> from, to |-> to])
             row == [contracts[c] EXCEPT !.trail = t]
  <1>1. contracts[c] \in Contract /\ contracts[c].trail \in Seq(Event)
    BY StateShape DEF Contract
  <1>2. [from |-> from, to |-> to] \in Event
    OBVIOUS
  <1>3. t \in Seq(Event)
    <2> HIDE DEF Event
    <2> QED
      BY <1>1, <1>2, AppendProperties
  <1>4. Set(c, row)
    OBVIOUS
  <1> HIDE DEF t
  <1>5. /\ row \in Contract /\ row.complete = contracts[c].complete
        /\ row.renewalOf = contracts[c].renewalOf /\ row.status = contracts[c].status
    BY <1>1, <1>3 DEF Contract
  <1> HIDE DEF row
  <1>6. row.status = "draft" => row.status \in {"draft", "active", "terminated", "deleted"}
    OBVIOUS
  <1> QED
    BY <1>4, <1>5, <1>6, RowChanges

LEMMA CreatedEventOK ==
    ASSUME ContractInv, NEW p \in Procs, CreatedEvent(p)
    PROVE  Kept
  <1> DEFINE r == procs[p]
             c == r.child
             h == IF r.op = "renew" THEN [r EXCEPT !.at = "status", !.to = "renewed"] ELSE Idle
  <1>1. /\ r \in Process /\ Sound(r, contracts) /\ r.at = "created"
        /\ c \in Ids /\ r.to \in ContractStatuses
    BY StateShape DEF CreatedEvent, At, Sound, Ids
  <1>2. CASE Exists(c)
    <2>1. /\ Set(c, [contracts[c] EXCEPT !.trail = Append(@, [from |-> "none", to |-> r.to])])
          /\ Goto(p, h) /\ day' = day
      BY <1>2 DEF CreatedEvent
    <2>2. /\ contracts' \in Seq(Contract) /\ MovesOn(contracts, contracts')
          /\ DOMAIN contracts' = DOMAIN contracts
          /\ \A d \in Ids : contracts'[d].renewalOf = contracts[d].renewalOf
                           /\ contracts'[d].complete = contracts[d].complete
      <3> HIDE DEF c, r
      <3> QED
        BY <1>1, <2>1, EventIsAdded
    <2>3. CASE r.op = "renew"
      <3>1. /\ h \in Process /\ h.at = "status" /\ h.id = r.id /\ h.left = r.left
        BY <1>1, <2>3 DEF Process, ContractStatuses
      <3> HIDE DEF h
      <3>2. r.id \in Ids /\ contracts[c].renewalOf = r.id /\ contracts[c].complete
        BY <1>1, <2>3 DEF Sound, Ids
      <3>3. HasSuccessor(r.id, contracts')
        BY <1>1, <2>2, <3>2 DEF HasSuccessor, Succeeds, Ids
      <3>4. Sound(h, contracts')
        BY <1>1, <2>2, <3>1, <3>2, <3>3 DEF Sound, Ids
      <3> QED
        BY <2>1, <2>2, <3>4, StateShape, OneMoves
    <2>4. CASE r.op # "renew"
      BY <2>1, <2>2, <2>4, IdleIsSound, StateShape, OneMoves
    <2> QED
      BY <2>3, <2>4
  <1>3. CASE ~Exists(c)
    <2>1. Goto(p, Idle) /\ UNCHANGED <<day, contracts>>
      BY <1>3 DEF CreatedEvent
    <2> QED
      BY <2>1, IdleIsSound, ReadIsSafe
  <1> QED
    BY <1>2, <1>3

\* Whatever follows a transition holds nothing unsound.
LEMMA AfterIsSound ==
    ASSUME NEW cs, NEW r, Sound(r, cs), r.id \in DOMAIN cs, NEW ok
    PROVE  Sound(After(r, ok), cs)
  <1>1. CASE r.op = "expire" /\ r.left # {}
    <2> DEFINE h == [Idle EXCEPT !.at = "pick", !.op = "expire", !.left = r.left]
    <2>1. h \in Process /\ h.at = "pick" /\ h.left = r.left
      BY DEF Idle, Process, Sound
    <2>2. After(r, ok) = h
      BY <1>1 DEF After
    <2> HIDE DEF h
    <2> QED
      BY <2>1, <2>2 DEF Sound
  <1>2. CASE ~(r.op = "expire" /\ r.left # {}) /\ r.op = "update" /\ ok
    <2> DEFINE h == [Idle EXCEPT !.at = "fields", !.op = "update", !.id = r.id]
    <2>1. h \in Process /\ h.at = "fields" /\ h.id = r.id /\ h.left = {}
      BY DEF Idle, Process, Sound
    <2>2. After(r, ok) = h
      BY <1>2 DEF After
    <2> HIDE DEF h
    <2> QED
      BY <2>1, <2>2 DEF Sound
  <1>3. CASE ~(r.op = "expire" /\ r.left # {}) /\ ~(r.op = "update" /\ ok)
    BY <1>3, IdleIsSound DEF After
  <1> QED
    BY <1>1, <1>2, <1>3

LEMMA ReadStatusOK ==
    ASSUME ContractInv, NEW p \in Procs, ReadStatus(p)
    PROVE  Kept
  <1> DEFINE r == procs[p]
             s == contracts[r.id].status
             h == [r EXCEPT !.at = "write", !.from = s]
  <1>1. r \in Process /\ Sound(r, contracts) /\ r.at = "status" /\ r.id \in Ids
    BY StateShape DEF ReadStatus, At, Sound, Ids
  <1>2. UNCHANGED <<day, contracts>>
    BY DEF ReadStatus
  <1>3. CASE <<s, r.to>> \in AllowedTransitions
    <2>1. s \in ContractStatuses
      BY <1>3 DEF AllowedTransitions, ContractStatuses
    <2>2. /\ h \in Process /\ h.at = "write" /\ h.from = s /\ h.to = r.to
          /\ h.id = r.id /\ h.left = r.left
      BY <1>1, <2>1 DEF Process
    <2>3. Goto(p, h)
      BY <1>3 DEF ReadStatus
    <2> HIDE DEF h
    <2>4. Sound(h, contracts)
      BY <1>1, <1>3, <2>2 DEF Sound, Ids
    <2> QED
      BY <1>2, <2>3, <2>4, ReadIsSafe
  <1>4. CASE <<s, r.to>> \notin AllowedTransitions
    <2>1. Goto(p, After(r, s = r.to))
      BY <1>4 DEF ReadStatus
    <2>2. Sound(After(r, s = r.to), contracts)
      BY <1>1, AfterIsSound DEF Ids
    <2> QED
      BY <1>2, <2>1, <2>2, ReadIsSafe
  <1> QED
    BY <1>3, <1>4

LEMMA WriteStatusOK ==
    ASSUME ContractInv, NEW p \in Procs, WriteStatus(p)
    PROVE  Kept
  <1> DEFINE r == procs[p]
             h == [r EXCEPT !.at = "event"]
             row == [contracts[r.id] EXCEPT !.status = r.to]
  <1>1. /\ r \in Process /\ Sound(r, contracts) /\ r.at = "write" /\ r.id \in Ids
        /\ <<r.from, r.to>> \in AllowedTransitions
    BY StateShape DEF WriteStatus, At, Sound, Ids
  <1>2. r.from \in ContractStatuses /\ r.to \in ContractStatuses /\ r.to # "draft"
        /\ (r.from = "draft" => r.to \in {"active", "terminated"})
    BY <1>1 DEF AllowedTransitions, ContractStatuses
  <1>3. /\ h \in Process /\ h.at = "event" /\ h.from = r.from /\ h.to = r.to
        /\ h.id = r.id /\ h.left = r.left
    BY <1>1 DEF Process
  <1>4. Goto(p, h) /\ day' = day
    BY DEF WriteStatus
  <1>5. \A cs : DOMAIN cs = DOMAIN contracts => Sound(h, cs)
    <2> HIDE DEF h
    <2> QED
      BY <1>1, <1>2, <1>3 DEF Sound, Ids
  <1>6. CASE Exists(r.id)
    <2>1. Set(r.id, row)
      BY <1>6 DEF WriteStatus
    <2>2. /\ row \in Contract /\ row.complete = contracts[r.id].complete
          /\ row.renewalOf = contracts[r.id].renewalOf /\ row.status = r.to
      BY <1>1, <1>2, StateShape DEF Contract
    <2>3. r.to = "renewed" => HasSuccessor(r.id, contracts)
      BY <1>1 DEF Sound
    <2>4. contracts[r.id].status = "draft" => r.to \in {"active", "terminated"}
      BY <1>1, <1>2 DEF Sound
    <2> HIDE DEF row
    <2>5. /\ contracts' \in Seq(Contract) /\ MovesOn(contracts, contracts')
          /\ DOMAIN contracts' = DOMAIN contracts
      BY <1>1, <1>2, <2>1, <2>2, <2>3, <2>4, RowChanges
    <2> QED
      BY <1>4, <1>5, <2>5, StateShape, OneMoves
  <1>7. CASE ~Exists(r.id)
    <2>1. UNCHANGED contracts
      BY <1>7 DEF WriteStatus
    <2> QED
      BY <1>4, <1>5, <2>1, ReadIsSafe
  <1> QED
    BY <1>6, <1>7

LEMMA StatusEventOK ==
    ASSUME ContractInv, NEW p \in Procs, StatusEvent(p)
    PROVE  Kept
  <1> DEFINE r == procs[p]
             h == After(r, Exists(r.id))
  <1>1. /\ r \in Process /\ Sound(r, contracts) /\ r.at = "event" /\ r.id \in Ids
        /\ r.from \in ContractStatuses /\ r.to \in ContractStatuses
    BY StateShape, Zenon DEF StatusEvent, At, Sound, Process, Ids
  <1>2. Goto(p, h) /\ day' = day
    BY DEF StatusEvent
  <1>3. CASE Exists(r.id)
    <2>1. Set(r.id, [contracts[r.id] EXCEPT !.trail = Append(@, [from |-> r.from, to |-> r.to])])
      BY <1>3 DEF StatusEvent
    <2>2. /\ contracts' \in Seq(Contract) /\ MovesOn(contracts, contracts')
          /\ DOMAIN contracts' = DOMAIN contracts
      <3> HIDE DEF r
      <3> QED
        BY <1>1, <2>1, EventIsAdded
    <2>3. Sound(r, contracts')
      BY <1>1, <2>2, SoundLasts
    <2>4. Sound(h, contracts')
      BY <1>1, <2>2, <2>3, AfterIsSound DEF Ids
    <2> HIDE DEF h
    <2> QED
      BY <1>2, <2>2, <2>4, StateShape, OneMoves
  <1>4. CASE ~Exists(r.id)
    <2>1. UNCHANGED contracts
      BY <1>4 DEF StatusEvent
    <2>2. Sound(h, contracts)
      BY <1>1, AfterIsSound DEF Ids
    <2> HIDE DEF h
    <2> QED
      BY <1>2, <2>1, <2>2, ReadIsSafe
  <1> QED
    BY <1>3, <1>4

LEMMA FindDraftOK ==
    ASSUME ContractInv, NEW p \in Procs, FindDraftAmendment(p)
    PROVE  Kept
  <1> DEFINE r == procs[p]
             h == [r EXCEPT !.at = "header"]
  <1>1. r \in Process /\ Sound(r, contracts) /\ r.at = "dup" /\ r.id \in Ids /\ r.op = "amend"
    BY StateShape DEF FindDraftAmendment, At, Sound, Ids
  <1>2. h \in Process /\ h.at = "header" /\ h.op = "amend" /\ h.id = r.id /\ h.left = r.left
    BY <1>1 DEF Process
  <1>3. (Goto(p, h) \/ Goto(p, Idle)) /\ UNCHANGED <<day, contracts>>
    BY DEF FindDraftAmendment
  <1> HIDE DEF h
  <1>4. Sound(h, contracts)
    BY <1>1, <1>2 DEF Sound, Ids
  <1> QED
    BY <1>3, <1>4, IdleIsSound, ReadIsSafe

LEMMA UpdateFieldsOK ==
    ASSUME ContractInv, NEW p \in Procs, NEW e \in Expiries, UpdateFields(p, e)
    PROVE  Kept
  <1> DEFINE c   == procs[p].id
             row == [contracts[c] EXCEPT !.expiry = e]
  <1>1. c \in Ids /\ e \in Days
    BY StateShape, ConstantsAssumption DEF UpdateFields, At, Sound, Ids, Days
  <1>2. Goto(p, Idle) /\ day' = day
    BY DEF UpdateFields
  <1>3. CASE Exists(c)
    <2>1. Set(c, row)
      BY <1>3 DEF UpdateFields
    <2>2. /\ row \in Contract /\ row.complete = contracts[c].complete
          /\ row.renewalOf = contracts[c].renewalOf /\ row.status = contracts[c].status
      BY <1>1, StateShape DEF Contract
    <2> HIDE DEF row, c
    <2>3. row.status = "draft" => row.status \in {"draft", "active", "terminated", "deleted"}
      OBVIOUS
    <2>4. contracts' \in Seq(Contract) /\ MovesOn(contracts, contracts')
      BY <1>1, <2>1, <2>2, <2>3, RowChanges
    <2> QED
      BY <1>2, <2>4, IdleIsSound, StateShape, OneMoves
  <1>4. CASE ~Exists(c)
    <2>1. UNCHANGED contracts
      BY <1>4 DEF UpdateFields
    <2> QED
      BY <1>2, <2>1, IdleIsSound, ReadIsSafe
  <1> QED
    BY <1>3, <1>4

LEMMA DeleteOK ==
    ASSUME ContractInv, NEW c \in Ids, NEW p, DeleteContract(p, c)
    PROVE  /\ UNCHANGED <<day, procs>>
           /\ contracts' \in Seq(Contract) /\ MovesOn(contracts, contracts')
  <1> DEFINE row == [contracts[c] EXCEPT !.status = "deleted", !.expiry = 0, !.trail = << >>]
  <1>1. Set(c, row) /\ UNCHANGED <<day, procs>>
    BY DEF DeleteContract
  <1>2. /\ row \in Contract /\ row.complete = contracts[c].complete
        /\ row.renewalOf = contracts[c].renewalOf /\ row.status = "deleted"
    <2>1. << >> \in Seq([from : ContractStatuses \cup {"none"}, to : ContractStatuses])
      BY EmptySeq
    <2>2. 0 \in Days
      BY ConstantsAssumption DEF Days
    <2>3. contracts[c] \in Contract
      BY StateShape
    <2> QED
      BY <2>1, <2>2, <2>3 DEF Contract
  <1> HIDE DEF row
  <1> QED
    BY <1>1, <1>2, RowChanges

\* The calls that only read before they wait.
LEMMA StartOK ==
    ASSUME ContractInv, NEW p \in Procs, NEW c \in Ids,
           \/ ViewContract(p, c) \/ Activate(p, c) \/ Terminate(p, c)
           \/ Update(p, c) \/ Renew(p, c) \/ CreateAmendmentDraft(p, c)
    PROVE  Kept
  <1> USE StateShape
  <1>1. ASSUME NEW op \in {"view", "activate", "terminate", "update"},
               NEW to \in ContractStatuses \ {"renewed"},
               StartTransition(p, op, c, to), UNCHANGED <<day, contracts>>
        PROVE  Kept
    <2> DEFINE h == [Idle EXCEPT !.at = "status", !.op = op, !.id = c, !.to = to]
    <2>1. h \in Process /\ h.at = "status" /\ h.id = c /\ h.to = to /\ h.left = {}
      BY DEF Idle, Process
    <2>2. Goto(p, h)
      BY <1>1 DEF StartTransition
    <2> HIDE DEF h
    <2>3. Sound(h, contracts)
      BY <2>1 DEF Sound, Ids
    <2> QED
      BY <1>1, <2>2, <2>3, ReadIsSafe
  <1>2. ASSUME NEW at \in {"fields", "header", "dup"}, NEW op \in {"update", "renew", "amend"},
               at = "header" => op = "renew", at = "dup" => op = "amend",
               Goto(p, [Idle EXCEPT !.at = at, !.op = op, !.id = c]), UNCHANGED <<day, contracts>>
        PROVE  Kept
    <2> DEFINE h == [Idle EXCEPT !.at = at, !.op = op, !.id = c]
    <2>1. h \in Process /\ h.at = at /\ h.op = op /\ h.id = c /\ h.left = {}
      BY DEF Idle, Process
    <2>2. Goto(p, h)
      BY <1>2
    <2> HIDE DEF h
    <2>3. Sound(h, contracts)
      BY <1>2, <2>1 DEF Sound, Ids
    <2> QED
      BY <1>2, <2>2, <2>3, ReadIsSafe
  <1>3. CASE ViewContract(p, c)
    BY <1>1, <1>3 DEF ViewContract, ContractStatuses
  <1>4. CASE Activate(p, c)
    BY <1>1, <1>4 DEF Activate, ContractStatuses
  <1>5. CASE Terminate(p, c)
    BY <1>1, <1>5 DEF Terminate, ContractStatuses
  <1>6. CASE Update(p, c)
    <2>1. CASE \E to \in ContractStatuses \ (SystemOnlyStatuses \cup {contracts[c].status}) :
                  StartTransition(p, "update", c, to)
      BY <1>1, <1>6, <2>1 DEF Update, SystemOnlyStatuses
    <2>2. CASE Goto(p, [Idle EXCEPT !.at = "fields", !.op = "update", !.id = c])
      BY <1>2, <1>6, <2>2 DEF Update
    <2> QED
      BY <1>6, <2>1, <2>2 DEF Update
  <1>7. CASE Renew(p, c)
    BY <1>2, <1>7 DEF Renew
  <1>8. CASE CreateAmendmentDraft(p, c)
    BY <1>2, <1>8 DEF CreateAmendmentDraft
  <1> QED
    BY <1>3, <1>4, <1>5, <1>6, <1>7, <1>8

LEMMA JobOK ==
    ASSUME ContractInv, JobRead \/ JobPick
    PROVE  Kept
  <1>1. Job \in Procs
    BY DEF Procs
  <1>2. CASE JobRead
    <2> DEFINE found == {c \in Ids : Overdue(c)}
               h == [Idle EXCEPT !.at = "pick", !.op = "expire", !.left = found]
    <2>1. Goto(Job, h) /\ UNCHANGED <<day, contracts>> /\ found \subseteq Ids /\ found \subseteq Nat
      BY <1>2, StateShape DEF JobRead
    <2> HIDE DEF found
    <2>2. h \in Process /\ h.at = "pick" /\ h.left = found
      BY <2>1 DEF Idle, Process
    <2> HIDE DEF h
    <2>3. Sound(h, contracts)
      BY <2>1, <2>2 DEF Sound, Ids
    <2> QED
      BY <1>1, <2>1, <2>3, ReadIsSafe
  <1>3. CASE JobPick
    <2>1. PICK c \in procs[Job].left :
              Goto(Job, [Idle EXCEPT !.at = "status", !.op = "expire", !.id = c,
                                     !.to = "expired", !.left = procs[Job].left \ {c}])
      BY <1>3 DEF JobPick
    <2> DEFINE rest == procs[Job].left \ {c}
               h == [Idle EXCEPT !.at = "status", !.op = "expire", !.id = c,
                                 !.to = "expired", !.left = rest]
    <2>2. c \in Ids /\ c \in Nat /\ rest \subseteq Ids /\ rest \subseteq Nat
      BY <1>1, StateShape DEF Sound, Ids
    <2>3. Goto(Job, h) /\ UNCHANGED <<day, contracts>>
      BY <1>3, <2>1 DEF JobPick
    <2> HIDE DEF rest
    <2>4. h \in Process /\ h.at = "status" /\ h.id = c /\ h.to = "expired" /\ h.left = rest
      BY <2>2 DEF Idle, Process, ContractStatuses
    <2> HIDE DEF h
    <2>5. Sound(h, contracts)
      BY <2>2, <2>4 DEF Sound, Ids
    <2> QED
      BY <1>1, <2>3, <2>5, ReadIsSafe
  <1> QED
    BY <1>2, <1>3

LEMMA TickOK ==
    ASSUME ContractInv, Tick
    PROVE  Kept
  <1>1. day' \in Days /\ UNCHANGED <<contracts, procs>>
    BY StateShape, ConstantsAssumption DEF Tick, Days
  <1> QED
    BY <1>1, NothingChanges DEF Kept, ContractInv, TypeOK, SupersededHasSuccessor, HeldIsSound, Ids

LEMMA CrashOK ==
    ASSUME ContractInv, Crash
    PROVE  Kept
  <1>1. procs' \in [Procs -> Process] /\ \A p \in Procs : procs'[p] = Idle
    BY DEF Crash, Idle, Process
  <1>2. UNCHANGED <<day, contracts>>
    BY DEF Crash
  <1> QED
    BY <1>1, <1>2, IdleIsSound, NothingChanges
    DEF Kept, ContractInv, TypeOK, SupersededHasSuccessor, HeldIsSound, Ids

\* A deletion leaves what every call holds sound.
LEMMA DeleteKeepsInv ==
    ASSUME ContractInv, NEW c \in Ids, NEW p \in Procs, DeleteContract(p, c)
    PROVE  Kept
  <1> DEFINE h == procs[p]
  <1>1. Goto(p, h)
    BY DeleteOK, StateShape DEF Goto
  <1>2. Sound(h, contracts')
    BY DeleteOK, StateShape, SoundLasts
  <1> HIDE DEF h
  <1> QED
    BY <1>1, <1>2, DeleteOK, StateShape, OneMoves

-----------------------------------------------------------------------------
(* The theorems *)

\* Every statement of every call, the job, the calendar and a restart keep the
\* invariant.
LEMMA StepOK ==
    ASSUME ContractInv, [Next]_vars
    PROVE  Kept
  <1>1. Requests \subseteq Procs
    BY DEF Procs
  <1>2. ASSUME NEW p \in Procs, Start(p)
        PROVE  Kept
    BY <1>2, CreateOK, StartOK, DeleteKeepsInv DEF Start
  <1>3. ASSUME NEW p \in Procs, Step(p)
        PROVE  Kept
    BY <1>3, SuccessorHeaderOK, UpdateFieldsOK, InsertPartsOK, CreatedEventOK, FindDraftOK,
       ReadStatusOK, WriteStatusOK, StatusEventOK DEF Step
  <1>4. CASE UNCHANGED vars
    BY <1>4, NothingChanges
    DEF Kept, vars, ContractInv, TypeOK, SupersededHasSuccessor, HeldIsSound, Ids
  <1> QED
    BY <1>1, <1>2, <1>3, <1>4, JobOK, TickOK, CrashOK DEF Next

\* Whatever calls overlap, and wherever the server stops, the invariant holds.
THEOREM ContractInvariance == Spec => []ContractInv
  <1>1. ContractInv /\ [Next]_vars => ContractInv'
    BY StepOK DEF Kept
  <1> QED
    BY InitOK, <1>1, PTL DEF Spec

\* Contracts and calls keep their types; in particular every event of a contract
\* leads to a status of the diagram, though it was noted before the write.
THEOREM ContractTypeCorrect == Spec => []TypeOK
  <1>1. ContractInv => TypeOK
    BY DEF ContractInv
  <1> QED
    BY ContractInvariance, <1>1, PTL

\* A contract reads "renewed" only when its successor stands with all its rows:
\* neither two renewals nor a restart between the two writes of one breaks this.
THEOREM SupersededWasSucceeded == Spec => []SupersededHasSuccessor
  <1>1. ContractInv => SupersededHasSuccessor
    BY DEF ContractInv
  <1> QED
    BY ContractInvariance, <1>1, PTL

\* A draft is left by activation, termination or deletion only, though every
\* move is validated against a status read before the write.
THEOREM DraftWasDecided == Spec => DraftIsDecided
  <1> DEFINE Decided == \A c \in Ids : contracts[c].status = "draft" =>
                           contracts'[c].status \in {"draft", "active", "terminated", "deleted"}
  <1>1. ContractInv /\ [Next]_vars => [Decided]_vars
    BY StepOK DEF Kept, MovesOn, Ids
  <1>2. Spec => [][Decided]_vars
    BY ContractInvariance, <1>1, PTL DEF Spec
  <1> QED
    BY <1>2 DEF DraftIsDecided

-----------------------------------------------------------------------------
(* Calls that do not overlap *)

\* The events t tell a history that reached status s.
Tells(t, s) ==
    /\ t # << >>
    /\ t[1].from = "none"
    /\ \A i \in 2 .. Len(t) : t[i].from = t[i - 1].to
    /\ t[Len(t)].to = s

Renewable(c, cs) == <<cs[c].status, "renewed">> \in AllowedTransitions

\* The call that holds h has yet to write an event of contract c.
OwesEvent(h, c) ==
    \/ h.at \in {"parts", "created"} /\ h.child = c
    \/ h.at = "event" /\ h.id = c

\* The call that holds h has written the successor of c, and has yet to mark c.
OwesMark(h, c) ==
    /\ h.id = c
    /\ \/ h.at \in {"parts", "created"} /\ h.op = "renew"
       \/ h.at \in {"status", "write"} /\ h.to = "renewed"

\* What a call that goes on alone has read, or written, still stands.
StillStands(h, cs) ==
    /\ h.at \in {"parts", "created"} =>
          cs[h.child].trail = << >> /\ cs[h.child].status = h.to
    /\ h.at \in {"header", "parts", "created"} /\ h.op = "renew" => Renewable(h.id, cs)
    /\ h.at = "status" /\ h.to = "renewed" => Renewable(h.id, cs)
    /\ h.at = "header" /\ h.op = "amend" =>
          \A d \in DOMAIN cs : ~(cs[d].amends = h.id /\ cs[d].status = "draft")
    /\ h.at = "write" => cs[h.id].status = h.from
    /\ h.at = "event" => Tells(cs[h.id].trail, h.from) /\ cs[h.id].status = h.to

\* The events of each contract tell its history.
Told(h, cs) ==
    \A c \in DOMAIN cs :
        cs[c].status # "deleted" => Tells(cs[c].trail, cs[c].status) \/ OwesEvent(h, c)

\* A contract has one successor, and is not renewed again.
Succession(h, cs) ==
    \A d \in DOMAIN cs : LET c == cs[d].renewalOf IN
        c # 0 => /\ c \in DOMAIN cs
                 /\ cs[c].status \in {"renewed", "deleted"} \/ OwesMark(h, c)
                 /\ \A o \in DOMAIN cs : cs[o].renewalOf = c => o = d

\* A contract has one draft amendment.
OneDraft(cs) ==
    \A d, o \in DOMAIN cs :
        /\ cs[d].amends # 0 /\ cs[d].amends = cs[o].amends
        /\ cs[d].status = "draft" /\ cs[o].status = "draft"
        => d = o

\* The contracts cs, with one call on its way, which holds h.
Alone(h, cs) == StillStands(h, cs) /\ Told(h, cs) /\ Succession(h, cs) /\ OneDraft(cs)

Still(p) == \A q \in Procs \ {p} : At(q, "idle")

SerialInv == ContractInv /\ \E p \in Procs : Still(p) /\ Alone(procs[p], contracts)

\* A step of the call p, which goes on alone.
GoesOnAlone(p) == \E h : Goto(p, h) /\ Alone(h, contracts')

\* A call that is idle owes nothing.
LEMMA IdleOwesNothing ==
    ASSUME NEW h, NEW g, NEW cs, h.at = "idle", g.at = "idle", Alone(h, cs)
    PROVE  Alone(g, cs)
  BY DEF Alone, StillStands, Told, Succession, OwesEvent, OwesMark

LEMMA AloneInit == Init => SerialInv
  <1> SUFFICES ASSUME Init
               PROVE  SerialInv
    OBVIOUS
  <1>1. Job \in Procs /\ \A p \in Procs : procs[p] = Idle /\ procs[p].at = "idle"
    BY DEF Init, Idle, Procs
  <1>2. Alone(procs[Job], contracts)
    BY <1>1 DEF Init, Alone, StillStands, Told, Succession, OneDraft
  <1> QED
    BY <1>1, <1>2, InitOK DEF SerialInv, Still, At

LEMMA RowIsSet ==
    ASSUME ContractInv, NEW c \in Ids, NEW row, Set(c, row)
    PROVE  /\ DOMAIN contracts' = DOMAIN contracts
           /\ \A d \in Ids : contracts'[d] = IF d = c THEN row ELSE contracts[d]
  <1>1. contracts = [d \in Ids |-> contracts[d]]
    BY StateShape DEF Ids
  <1> QED
    BY <1>1 DEF Set, Ids

\* A call that has read, and took h along.
LEMMA ReadsAlone ==
    ASSUME NEW p \in Procs, Alone(procs[p], contracts), NEW h, Goto(p, h), UNCHANGED contracts,
           StillStands(h, contracts),
           \A c \in Ids : OwesEvent(procs[p], c) => OwesEvent(h, c),
           \A c \in Ids : OwesMark(procs[p], c) => OwesMark(h, c)
    PROVE  GoesOnAlone(p)
  BY DEF GoesOnAlone, Alone, Told, Succession, Ids

-----------------------------------------------------------------------------
(* One lemma per statement, for the call that goes on alone *)

\* Call p has added row n and holds h.
HeaderAdded(p, h, n, op, id, row) ==
    /\ Goto(p, h)
    /\ h.at = "parts" /\ h.op = op /\ h.id = id /\ h.child = n /\ h.to = row.status
    /\ n \in Nat \ {0} /\ n \notin Ids /\ DOMAIN contracts' = Ids \cup {n}
    /\ \A c \in Ids : contracts'[c] = contracts[c]
    /\ contracts'[n] = row

LEMMA HeaderIsInserted ==
    ASSUME ContractInv, NEW p \in Procs, NEW op, NEW id, NEW row, InsertHeader(p, op, id, row)
    PROVE  \E h, n : HeaderAdded(p, h, n, op, id, row)
  <1> DEFINE n   == Len(contracts) + 1
             h   == [Idle EXCEPT !.at = "parts", !.op = op, !.id = id, !.child = n, !.to = row.status]
  <1>1. contracts' = Append(contracts, row) /\ Goto(p, h)
    BY DEF InsertHeader
  <1> HIDE DEF n
  <1>2. h.at = "parts" /\ h.op = op /\ h.id = id /\ h.child = n /\ h.to = row.status
    BY DEF Idle
  <1>3. contracts \in Seq(Contract) /\ n \in Nat \ {0} /\ n \notin Ids
    BY StateShape DEF n
  <1>4. /\ DOMAIN contracts' = Ids \cup {n}
        /\ \A c \in Ids : contracts'[c] = contracts[c]
        /\ contracts'[n] = row
    <2>1. Ids = 1 .. Len(contracts) /\ Len(contracts) \in Nat
      BY StateShape
    <2> QED
      BY <1>1, <1>3, <2>1 DEF n
  <1> HIDE DEF h
  <1> QED
    BY <1>1, <1>2, <1>3, <1>4 DEF HeaderAdded

LEMMA HeaderAlone ==
    ASSUME ContractInv, NEW p \in Procs, Alone(procs[p], contracts),
           procs[p].at \in {"idle", "header"},
           NEW op, NEW id, NEW s, NEW e, NEW original, NEW base,
           InsertHeader(p, op, id, NewContract(s, e, original, base)),
           op = "renew" => id \in Ids /\ original = id /\ Renewable(id, contracts),
           op # "renew" => original = 0,
           base # 0 => \A d \in Ids : ~(contracts[d].amends = base /\ contracts[d].status = "draft")
    PROVE  GoesOnAlone(p)
  <1>0. PICK h, n : HeaderAdded(p, h, n, op, id, NewContract(s, e, original, base))
    BY HeaderIsInserted
  <1>1. /\ Goto(p, h)
        /\ h.at = "parts" /\ h.op = op /\ h.id = id /\ h.child = n /\ h.to = s
        /\ n \in Nat \ {0} /\ n \notin Ids /\ DOMAIN contracts' = Ids \cup {n}
        /\ \A c \in Ids : contracts'[c] = contracts[c]
        /\ contracts'[n] = NewContract(s, e, original, base)
    BY <1>0 DEF HeaderAdded, NewContract
  <1>2. /\ contracts'[n].status = s /\ contracts'[n].renewalOf = original
        /\ contracts'[n].amends = base /\ contracts'[n].trail = << >>
    BY <1>1 DEF NewContract
  <1>3. \A c : ~OwesEvent(procs[p], c) /\ ~OwesMark(procs[p], c)
    BY DEF OwesEvent, OwesMark
  <1>4. StillStands(h, contracts')
    BY <1>1, <1>2 DEF StillStands, Renewable
  <1>5. Told(h, contracts')
    BY <1>1, <1>2, <1>3 DEF Alone, Told, OwesEvent, Ids
  <1>6. \A d \in Ids : contracts[d].renewalOf # 0 =>
              /\ contracts[d].renewalOf \in Ids
              /\ contracts[contracts[d].renewalOf].status \in {"renewed", "deleted"}
              /\ \A o \in Ids : contracts[o].renewalOf = contracts[d].renewalOf => o = d
    BY <1>3 DEF Alone, Succession, Ids
  <1>7. \A c : Renewable(c, contracts) => contracts[c].status \notin {"renewed", "deleted"}
    BY DEF Renewable, AllowedTransitions
  <1>8. original # 0 => original \in Ids /\ OwesMark(h, original)
                        /\ \A d \in Ids : contracts[d].renewalOf # original
    BY <1>1, <1>6, <1>7 DEF OwesMark
  <1>9. Succession(h, contracts')
    <2> SUFFICES ASSUME NEW d \in Ids \cup {n}, contracts'[d].renewalOf # 0
                 PROVE  /\ contracts'[d].renewalOf \in Ids \cup {n}
                        /\ \/ contracts'[contracts'[d].renewalOf].status \in {"renewed", "deleted"}
                           \/ OwesMark(h, contracts'[d].renewalOf)
                        /\ \A o \in Ids \cup {n} :
                              contracts'[o].renewalOf = contracts'[d].renewalOf => o = d
      BY <1>1 DEF Succession
    <2>1. CASE d = n
      BY <1>1, <1>2, <1>8, <2>1
    <2>2. CASE d \in Ids
      BY <1>1, <1>2, <1>6, <1>8, <2>2
    <2> QED
      BY <2>1, <2>2
  <1>10. OneDraft(contracts')
    BY <1>1, <1>2 DEF Alone, OneDraft, Ids
  <1> QED
    BY <1>1, <1>4, <1>5, <1>9, <1>10 DEF GoesOnAlone, Alone

LEMMA CreateAlone ==
    ASSUME ContractInv, NEW p \in Procs, Alone(procs[p], contracts), NEW s, NEW e,
           CreateContract(p, s, e)
    PROVE  GoesOnAlone(p)
  BY HeaderAlone DEF CreateContract, At

LEMMA SuccessorHeaderAlone ==
    ASSUME ContractInv, NEW p \in Procs, Alone(procs[p], contracts), NEW e, SuccessorHeader(p, e)
    PROVE  GoesOnAlone(p)
  <1> DEFINE r == procs[p]
  <1>1. r.at = "header" /\ r.id \in Ids /\ r.id # 0 /\ r.op \in {"renew", "amend"}
    <2>1. r.at = "header" /\ Sound(r, contracts)
      BY StateShape DEF SuccessorHeader, At
    <2>2. r.id \in Ids /\ r.op \in {"renew", "amend"}
      BY <2>1 DEF Sound, Ids
    <2> QED
      BY <2>1, <2>2, StateShape
  <1>2. CASE r.op = "renew"
    <2>1. InsertHeader(p, "renew", r.id, NewContract("draft", e, r.id, 0))
      BY <1>2 DEF SuccessorHeader
    <2>2. Renewable(r.id, contracts)
      BY <1>1, <1>2 DEF Alone, StillStands
    <2> HIDE DEF r
    <2> QED
      BY <1>1, <2>1, <2>2, HeaderAlone DEF r
  <1>3. CASE r.op = "amend"
    <2>1. InsertHeader(p, "amend", r.id, NewContract("draft", e, 0, r.id))
      BY <1>3 DEF SuccessorHeader
    <2>2. \A d \in Ids : ~(contracts[d].amends = r.id /\ contracts[d].status = "draft")
      BY <1>1, <1>3 DEF Alone, StillStands, Ids
    <2> QED
      BY <1>1, <2>1, <2>2, HeaderAlone
  <1> QED
    BY <1>1, <1>2, <1>3

\* A call has written to one row.
LEMMA WritesAlone ==
    ASSUME ContractInv, NEW p \in Procs, Alone(procs[p], contracts), NEW h, Goto(p, h),
           NEW c \in Ids, NEW row, Set(c, row), StillStands(h, contracts'),
           row.renewalOf = contracts[c].renewalOf, row.amends = contracts[c].amends,
           row.status = "draft" => contracts[c].status = "draft",
           contracts[c].status \in {"renewed", "deleted"} => row.status \in {"renewed", "deleted"},
           row.status # "deleted" => Tells(row.trail, row.status) \/ OwesEvent(h, c),
           \A d \in Ids : OwesEvent(procs[p], d) => d = c \/ OwesEvent(h, d),
           \A d \in Ids : OwesMark(procs[p], d) =>
               (d = c /\ row.status \in {"renewed", "deleted"}) \/ OwesMark(h, d)
    PROVE  GoesOnAlone(p)
  <1>1. /\ DOMAIN contracts' = Ids
        /\ \A d \in Ids : contracts'[d] = IF d = c THEN row ELSE contracts[d]
    BY RowIsSet DEF Ids
  <1>2. \A d \in Ids : /\ contracts'[d].renewalOf = contracts[d].renewalOf
                       /\ contracts'[d].amends = contracts[d].amends
                       /\ contracts'[d].status = "draft" => contracts[d].status = "draft"
    BY <1>1
  <1>3. Told(h, contracts')
    BY <1>1 DEF Alone, Told, Ids
  <1>4. Succession(h, contracts')
    BY <1>1, <1>2 DEF Alone, Succession, Ids
  <1>5. OneDraft(contracts')
    BY <1>1, <1>2 DEF Alone, OneDraft, Ids
  <1> QED
    BY <1>3, <1>4, <1>5 DEF GoesOnAlone, Alone

\* A status of the diagram is not the mark of a deleted row.
LEMMA DeletedIsNoStatus == "deleted" \notin ContractStatuses
  BY DEF ContractStatuses

LEMMA InsertPartsAlone ==
    ASSUME ContractInv, NEW p \in Procs, Alone(procs[p], contracts), InsertParts(p)
    PROVE  GoesOnAlone(p)
  <1> DEFINE r == procs[p]
             c == r.child
             h == [r EXCEPT !.at = "created"]
             row == [contracts[c] EXCEPT !.complete = TRUE]
  <1>1. /\ r \in Process /\ r.at = "parts" /\ c \in Ids /\ contracts[c] \in Contract
        /\ r.to \in ContractStatuses /\ (r.op = "renew" => r.id \in Ids)
    BY StateShape DEF InsertParts, At, Sound, Ids
  <1>2. contracts[c].trail = << >> /\ contracts[c].status = r.to
        /\ (r.op = "renew" => Renewable(r.id, contracts))
    BY <1>1 DEF Alone, StillStands
  <1>3. Exists(c)
    BY <1>1, <1>2, DeletedIsNoStatus DEF Exists
  <1>4. Set(c, row) /\ Goto(p, h)
    BY <1>3 DEF InsertParts
  <1>5. /\ row.renewalOf = contracts[c].renewalOf /\ row.amends = contracts[c].amends
        /\ row.status = contracts[c].status /\ row.trail = contracts[c].trail
    BY <1>1 DEF Contract
  <1>6. h.at = "created" /\ h.op = r.op /\ h.id = r.id /\ h.child = c /\ h.to = r.to
    BY <1>1 DEF Process
  <1> HIDE DEF row, h
  <1>7. \A d \in Ids : contracts'[d] = IF d = c THEN row ELSE contracts[d]
    BY <1>1, <1>4, RowIsSet
  <1>8. StillStands(h, contracts')
    BY <1>1, <1>2, <1>5, <1>6, <1>7 DEF StillStands, Renewable
  <1>9. \A d : (OwesEvent(r, d) => OwesEvent(h, d)) /\ (OwesMark(r, d) => OwesMark(h, d))
    BY <1>1, <1>6 DEF OwesEvent, OwesMark
  <1>10. OwesEvent(h, c)
    BY <1>6 DEF OwesEvent
  <1> HIDE DEF c
  <1> QED
    BY <1>1, <1>4, <1>5, <1>8, <1>9, <1>10, WritesAlone

LEMMA FirstEvent ==
    ASSUME NEW s
    PROVE  Tells(Append(<< >>, [from |-> "none", to |-> s]), s)
  BY DEF Tells

\* The history goes on from where it was.
LEMMA NextEvent ==
    ASSUME NEW E, NEW t \in Seq(E), NEW s, Tells(t, s), NEW to
    PROVE  Tells(Append(t, [from |-> s, to |-> to]), to)
  <1> DEFINE n == Len(t)
             e == [from |-> s, to |-> to]
             u == Append(t, e)
  <1>1. n \in Nat /\ DOMAIN t = 1 .. n /\ n # 0
    BY LenProperties, EmptySeq DEF Tells
  <1>2. e.from = s /\ e.to = to
    OBVIOUS
  <1> HIDE DEF e
  <1>3. Len(u) = n + 1 /\ u[n + 1] = e /\ \A i \in 1 .. n : u[i] = t[i]
    BY <1>1
  <1>4. u # << >>
    BY <1>1, <1>3
  <1>5. t[1].from = "none" /\ t[n].to = s /\ \A i \in 2 .. n : t[i].from = t[i - 1].to
    BY DEF Tells
  <1> HIDE DEF n, u
  <1>6. u[1].from = "none" /\ u[n].to = s
    BY <1>1, <1>3, <1>5
  <1>7. ASSUME NEW i \in 2 .. n + 1
        PROVE  u[i].from = u[i - 1].to
    <2>1. CASE i = n + 1
      BY <1>1, <1>2, <1>3, <1>6, <2>1
    <2>2. CASE i \in 2 .. n
      <3>1. i \in 1 .. n /\ i - 1 \in 1 .. n
        BY <1>1, <2>2
      <3> QED
        BY <1>3, <1>5, <2>2, <3>1
    <2> QED
      BY <1>1, <2>1, <2>2
  <1>8. Tells(u, to)
    BY <1>2, <1>3, <1>4, <1>6, <1>7 DEF Tells
  <1> QED
    BY <1>8 DEF u, e

LEMMA CreatedEventAlone ==
    ASSUME ContractInv, NEW p \in Procs, Alone(procs[p], contracts), CreatedEvent(p)
    PROVE  GoesOnAlone(p)
  <1> DEFINE r == procs[p]
             c == r.child
             h == IF r.op = "renew" THEN [r EXCEPT !.at = "status", !.to = "renewed"] ELSE Idle
             t == Append(<< >>, [from |-> "none", to |-> r.to])
             row == [contracts[c] EXCEPT !.trail = t]
  <1>1. /\ r \in Process /\ r.at = "created" /\ c \in Ids /\ contracts[c] \in Contract
        /\ r.to \in ContractStatuses /\ (r.op = "renew" => r.id \in Ids)
    BY StateShape DEF CreatedEvent, At, Sound, Ids
  <1>2. contracts[c].trail = << >> /\ contracts[c].status = r.to
        /\ (r.op = "renew" => Renewable(r.id, contracts))
    BY <1>1 DEF Alone, StillStands
  <1>3. Exists(c)
    BY <1>1, <1>2, DeletedIsNoStatus DEF Exists
  <1>4. Set(c, row) /\ Goto(p, h)
    BY <1>2, <1>3 DEF CreatedEvent
  <1>5. Tells(t, r.to)
    BY FirstEvent
  <1> HIDE DEF t
  <1>6. /\ row.renewalOf = contracts[c].renewalOf /\ row.amends = contracts[c].amends
        /\ row.status = r.to /\ row.trail = t
    BY <1>1, <1>2 DEF Contract
  <1>7. r.op = "renew" => h.at = "status" /\ h.to = "renewed" /\ h.id = r.id
    BY <1>1 DEF Process
  <1>8. r.op # "renew" => h.at = "idle"
    BY DEF Idle
  <1> HIDE DEF row, h
  <1>9. \A d \in Ids : contracts'[d] = IF d = c THEN row ELSE contracts[d]
    BY <1>1, <1>4, RowIsSet
  <1>10. StillStands(h, contracts')
    BY <1>1, <1>2, <1>6, <1>7, <1>8, <1>9 DEF StillStands, Renewable
  <1>11. \A d : (OwesEvent(r, d) => d = c) /\ (OwesMark(r, d) => OwesMark(h, d))
    BY <1>1, <1>7 DEF OwesEvent, OwesMark
  <1> HIDE DEF c
  <1> QED
    BY <1>1, <1>2, <1>4, <1>5, <1>6, <1>10, <1>11, WritesAlone

\* What a call holds after a transition owes nothing.
LEMMA AfterOwesNothing ==
    ASSUME NEW r, NEW ok
    PROVE  After(r, ok).at \in {"idle", "pick", "fields"}
  BY DEF After, Idle

LEMMA OwesNothing ==
    ASSUME NEW h, h.at \in {"idle", "pick", "fields", "dup"}
    PROVE  /\ \A cs : StillStands(h, cs)
           /\ \A c : ~OwesEvent(h, c) /\ ~OwesMark(h, c)
  BY DEF StillStands, OwesEvent, OwesMark

LEMMA ReadStatusAlone ==
    ASSUME ContractInv, NEW p \in Procs, Alone(procs[p], contracts), ReadStatus(p)
    PROVE  GoesOnAlone(p)
  <1> DEFINE r == procs[p]
             s == contracts[r.id].status
             h == [r EXCEPT !.at = "write", !.from = s]
  <1>1. r \in Process /\ r.at = "status" /\ r.id \in Ids /\ UNCHANGED contracts
    BY StateShape DEF ReadStatus, At, Sound, Ids
  <1>2. CASE <<s, r.to>> \in AllowedTransitions
    <2>1. Goto(p, h)
      BY <1>2 DEF ReadStatus
    <2>2. h.at = "write" /\ h.from = s /\ h.to = r.to /\ h.id = r.id
      BY <1>1 DEF Process
    <2> HIDE DEF h
    <2>3. StillStands(h, contracts)
      BY <2>2 DEF StillStands
    <2>4. \A c : ~OwesEvent(r, c) /\ (OwesMark(r, c) => OwesMark(h, c))
      BY <1>1, <2>2 DEF OwesEvent, OwesMark
    <2> QED
      BY <1>1, <2>1, <2>3, <2>4, ReadsAlone
  <1>3. CASE <<s, r.to>> \notin AllowedTransitions
    <2>1. PICK g : g = After(r, s = r.to)
      OBVIOUS
    <2>2. Goto(p, g) /\ g.at \in {"idle", "pick", "fields"}
      BY <1>3, <2>1, AfterOwesNothing DEF ReadStatus
    <2>3. r.to # "renewed"
      BY <1>1, <1>3 DEF Alone, StillStands, Renewable
    <2>4. \A c : ~OwesEvent(r, c) /\ ~OwesMark(r, c)
      BY <1>1, <2>3 DEF OwesEvent, OwesMark
    <2> QED
      BY <1>1, <2>2, <2>4, OwesNothing, ReadsAlone
  <1> QED
    BY <1>2, <1>3

LEMMA WriteStatusAlone ==
    ASSUME ContractInv, NEW p \in Procs, Alone(procs[p], contracts), WriteStatus(p)
    PROVE  GoesOnAlone(p)
  <1> DEFINE r == procs[p]
             c == r.id
             h == [r EXCEPT !.at = "event"]
             row == [contracts[c] EXCEPT !.status = r.to]
  <1>1. /\ r \in Process /\ r.at = "write" /\ c \in Ids /\ contracts[c] \in Contract
        /\ <<r.from, r.to>> \in AllowedTransitions
    BY StateShape DEF WriteStatus, At, Sound, Ids
  <1>2. /\ r.from \notin {"renewed", "deleted"} /\ r.to \notin {"draft", "deleted"}
    BY <1>1 DEF AllowedTransitions
  <1>3. contracts[c].status = r.from /\ Tells(contracts[c].trail, r.from)
    BY <1>1, <1>2 DEF Alone, StillStands, Told, OwesEvent, Ids
  <1>4. Set(c, row) /\ Goto(p, h)
    BY <1>1, <1>2, <1>3 DEF WriteStatus, Exists
  <1>5. /\ row.renewalOf = contracts[c].renewalOf /\ row.amends = contracts[c].amends
        /\ row.status = r.to /\ row.trail = contracts[c].trail
    BY <1>1 DEF Contract
  <1>6. h.at = "event" /\ h.from = r.from /\ h.to = r.to /\ h.id = c
    BY <1>1 DEF Process
  <1> HIDE DEF row, h
  <1>7. \A d \in Ids : contracts'[d] = IF d = c THEN row ELSE contracts[d]
    BY <1>1, <1>4, RowIsSet
  <1>8. StillStands(h, contracts')
    BY <1>1, <1>3, <1>5, <1>6, <1>7 DEF StillStands
  <1>9. \A d : ~OwesEvent(r, d) /\ (OwesMark(r, d) => d = c /\ row.status \in {"renewed", "deleted"})
    BY <1>1, <1>5 DEF OwesEvent, OwesMark
  <1>10. OwesEvent(h, c)
    BY <1>6 DEF OwesEvent
  <1> HIDE DEF c
  <1> QED
    BY <1>1, <1>2, <1>3, <1>4, <1>5, <1>8, <1>9, <1>10, WritesAlone

LEMMA StatusEventAlone ==
    ASSUME ContractInv, NEW p \in Procs, Alone(procs[p], contracts), StatusEvent(p)
    PROVE  GoesOnAlone(p)
  <1> DEFINE r == procs[p]
             c == r.id
             t == Append(contracts[c].trail, [from |-> r.from, to |-> r.to])
             row == [contracts[c] EXCEPT !.trail = t]
             E == [from : ContractStatuses \cup {"none"}, to : ContractStatuses]
  <1>1. /\ r \in Process /\ r.at = "event" /\ c \in Ids /\ contracts[c] \in Contract
        /\ r.to \in ContractStatuses
    BY StateShape DEF StatusEvent, At, Sound, Ids
  <1>2. contracts[c].status = r.to /\ Tells(contracts[c].trail, r.from)
    BY <1>1 DEF Alone, StillStands
  <1>3. Exists(c)
    BY <1>1, <1>2, DeletedIsNoStatus DEF Exists
  <1>4. PICK h : h = After(r, Exists(c))
    OBVIOUS
  <1>5. Set(c, row) /\ Goto(p, h) /\ h.at \in {"idle", "pick", "fields"}
    BY <1>3, <1>4, AfterOwesNothing DEF StatusEvent
  <1>6. contracts[c].trail \in Seq(E)
    BY <1>1 DEF Contract
  <1>7. Tells(t, r.to)
    <2> HIDE DEF E
    <2> QED
      BY <1>2, <1>6, NextEvent
  <1> HIDE DEF t
  <1>8. /\ row.renewalOf = contracts[c].renewalOf /\ row.amends = contracts[c].amends
        /\ row.status = r.to /\ row.trail = t
    BY <1>1, <1>2 DEF Contract
  <1> HIDE DEF row
  <1>9. \A d : (OwesEvent(r, d) => d = c) /\ ~OwesMark(r, d)
    BY <1>1 DEF OwesEvent, OwesMark
  <1> HIDE DEF c
  <1> QED
    BY <1>1, <1>2, <1>5, <1>7, <1>8, <1>9, OwesNothing, WritesAlone

LEMMA UpdateFieldsAlone ==
    ASSUME ContractInv, NEW p \in Procs, Alone(procs[p], contracts), NEW e, UpdateFields(p, e)
    PROVE  GoesOnAlone(p)
  <1> DEFINE r == procs[p]
             c == r.id
             row == [contracts[c] EXCEPT !.expiry = e]
  <1>1. r.at = "fields" /\ c \in Ids /\ contracts[c] \in Contract
    BY StateShape DEF UpdateFields, At, Sound, Ids
  <1>2. Goto(p, Idle) /\ Idle.at = "idle"
    BY DEF UpdateFields, Idle
  <1>3. CASE Exists(c)
    <2>1. Set(c, row)
      BY <1>3 DEF UpdateFields
    <2>2. /\ row.renewalOf = contracts[c].renewalOf /\ row.amends = contracts[c].amends
          /\ row.status = contracts[c].status /\ row.trail = contracts[c].trail
      BY <1>1 DEF Contract
    <2>3. Tells(contracts[c].trail, contracts[c].status)
      BY <1>1, <1>3 DEF Alone, Told, OwesEvent, Exists, Ids
    <2> HIDE DEF row, c
    <2> QED
      BY <1>1, <1>2, <2>1, <2>2, <2>3, OwesNothing, WritesAlone
  <1>4. CASE ~Exists(c)
    <2>1. UNCHANGED contracts
      BY <1>4 DEF UpdateFields
    <2> QED
      BY <1>1, <1>2, <2>1, OwesNothing, ReadsAlone
  <1> QED
    BY <1>3, <1>4

LEMMA FindDraftAlone ==
    ASSUME ContractInv, NEW p \in Procs, Alone(procs[p], contracts), FindDraftAmendment(p)
    PROVE  GoesOnAlone(p)
  <1> DEFINE r == procs[p]
             h == [r EXCEPT !.at = "header"]
  <1>1. r \in Process /\ r.at = "dup" /\ r.op = "amend" /\ UNCHANGED contracts
    BY StateShape DEF FindDraftAmendment, At, Sound
  <1>2. CASE DraftAmendments(r.id) = {}
    <2>1. Goto(p, h)
      BY <1>2 DEF FindDraftAmendment
    <2>2. h.at = "header" /\ h.op = "amend" /\ h.id = r.id
      BY <1>1 DEF Process
    <2> HIDE DEF h
    <2>3. StillStands(h, contracts)
      BY <1>2, <2>2 DEF StillStands, DraftAmendments, Ids
    <2> QED
      BY <1>1, <2>1, <2>3, OwesNothing, ReadsAlone
  <1>3. CASE DraftAmendments(r.id) # {}
    <2>1. Goto(p, Idle) /\ Idle.at = "idle"
      BY <1>3 DEF FindDraftAmendment, Idle
    <2> QED
      BY <1>1, <2>1, OwesNothing, ReadsAlone
  <1> QED
    BY <1>2, <1>3

LEMMA StepAlone ==
    ASSUME ContractInv, NEW p \in Procs, Alone(procs[p], contracts), Step(p)
    PROVE  GoesOnAlone(p)
  BY SuccessorHeaderAlone, UpdateFieldsAlone, InsertPartsAlone, CreatedEventAlone,
     FindDraftAlone, ReadStatusAlone, WriteStatusAlone, StatusEventAlone DEF Step

LEMMA DeleteAlone ==
    ASSUME ContractInv, NEW p \in Procs, Alone(procs[p], contracts), NEW c \in Ids,
           DeleteContract(p, c)
    PROVE  GoesOnAlone(p)
  <1> DEFINE row == [contracts[c] EXCEPT !.status = "deleted", !.expiry = 0, !.trail = << >>]
  <1>1. PICK h : h = procs[p]
    OBVIOUS
  <1>2. Set(c, row) /\ Goto(p, h) /\ h.at = "idle" /\ contracts[c] \in Contract
    BY <1>1, StateShape DEF DeleteContract, Goto, At
  <1>3. /\ row.renewalOf = contracts[c].renewalOf /\ row.amends = contracts[c].amends
        /\ row.status = "deleted"
    BY <1>2 DEF Contract
  <1> HIDE DEF row
  <1> QED
    BY <1>1, <1>2, <1>3, OwesNothing, WritesAlone

\* The calls that only read before they wait, and the job.
LEMMA StartsAlone ==
    ASSUME ContractInv, NEW p \in Procs, Alone(procs[p], contracts), NEW c \in Ids,
           \/ ViewContract(p, c) \/ Activate(p, c) \/ Terminate(p, c)
           \/ Update(p, c) \/ Renew(p, c) \/ CreateAmendmentDraft(p, c)
    PROVE  GoesOnAlone(p)
  <1>0. procs[p].at = "idle" /\ UNCHANGED contracts
    BY DEF ViewContract, Activate, Terminate, Update, Renew, CreateAmendmentDraft, UserChanges, At
  <1>1. ASSUME NEW h, Goto(p, h), StillStands(h, contracts)
        PROVE  GoesOnAlone(p)
    BY <1>0, <1>1, OwesNothing, ReadsAlone
  <1>2. ASSUME NEW op, NEW to, to # "renewed", StartTransition(p, op, c, to)
        PROVE  GoesOnAlone(p)
    <2> DEFINE h == [Idle EXCEPT !.at = "status", !.op = op, !.id = c, !.to = to]
    <2>1. h.at = "status" /\ h.to = to /\ Goto(p, h)
      BY <1>2 DEF Idle, StartTransition
    <2> HIDE DEF h
    <2> QED
      BY <1>1, <1>2, <2>1 DEF StillStands
  <1>3. ASSUME NEW at \in {"fields", "header", "dup"}, NEW op, op # "amend" \/ at # "header",
               at = "header" => Renewable(c, contracts),
               Goto(p, [Idle EXCEPT !.at = at, !.op = op, !.id = c])
        PROVE  GoesOnAlone(p)
    <2> DEFINE h == [Idle EXCEPT !.at = at, !.op = op, !.id = c]
    <2>1. h.at = at /\ h.op = op /\ h.id = c /\ Goto(p, h)
      BY <1>3 DEF Idle
    <2> HIDE DEF h
    <2> QED
      BY <1>1, <1>3, <2>1 DEF StillStands
  <1>4. CASE ViewContract(p, c)
    BY <1>2, <1>4 DEF ViewContract
  <1>5. CASE Activate(p, c)
    BY <1>2, <1>5 DEF Activate
  <1>6. CASE Terminate(p, c)
    BY <1>2, <1>6 DEF Terminate
  <1>7. CASE Update(p, c)
    BY <1>2, <1>3, <1>7 DEF Update, SystemOnlyStatuses
  <1>8. CASE Renew(p, c)
    BY <1>3, <1>8 DEF Renew, Renewable
  <1>9. CASE CreateAmendmentDraft(p, c)
    BY <1>3, <1>9 DEF CreateAmendmentDraft
  <1> QED
    BY <1>4, <1>5, <1>6, <1>7, <1>8, <1>9

LEMMA JobAlone ==
    ASSUME ContractInv, Alone(procs[Job], contracts), JobRead \/ JobPick
    PROVE  GoesOnAlone(Job)
  <1>1. Job \in Procs
    BY DEF Procs
  <1>2. CASE JobRead
    <2> DEFINE h == [Idle EXCEPT !.at = "pick", !.op = "expire", !.left = {c \in Ids : Overdue(c)}]
    <2>1. Goto(Job, h) /\ UNCHANGED contracts /\ procs[Job].at = "idle" /\ h.at = "pick"
      BY <1>2 DEF JobRead, At, Idle
    <2> HIDE DEF h
    <2> QED
      BY <1>1, <2>1, OwesNothing, ReadsAlone
  <1>3. CASE JobPick
    <2>1. PICK c \in procs[Job].left :
              Goto(Job, [Idle EXCEPT !.at = "status", !.op = "expire", !.id = c,
                                     !.to = "expired", !.left = procs[Job].left \ {c}])
      BY <1>3 DEF JobPick
    <2> DEFINE h == [Idle EXCEPT !.at = "status", !.op = "expire", !.id = c,
                                 !.to = "expired", !.left = procs[Job].left \ {c}]
    <2>2. Goto(Job, h) /\ UNCHANGED contracts /\ procs[Job].at = "pick"
      BY <1>3, <2>1 DEF JobPick, At
    <2>3. h.at = "status" /\ h.to = "expired"
      BY DEF Idle
    <2> HIDE DEF h
    <2>4. StillStands(h, contracts)
      BY <2>3 DEF StillStands
    <2> QED
      BY <1>1, <2>2, <2>4, OwesNothing, ReadsAlone
  <1> QED
    BY <1>2, <1>3

-----------------------------------------------------------------------------
(* The theorems about calls that do not overlap *)

LEMMA SerialStepIsAStep == SerialNext => Next
  BY DEF SerialNext, Next

\* The call that steps is the one that is on its way.
LEMMA BusyIsAlone ==
    ASSUME SerialInv, NEW p \in Procs, ~At(p, "idle")
    PROVE  Still(p) /\ Alone(procs[p], contracts)
  BY DEF SerialInv, Still

LEMMA EachIsAlone ==
    ASSUME SerialInv, AllIdle, NEW p \in Procs
    PROVE  Still(p) /\ Alone(procs[p], contracts)
  BY IdleOwesNothing DEF SerialInv, Still, AllIdle, At

LEMMA StepIsBusy ==
    ASSUME NEW p, Step(p)
    PROVE  ~At(p, "idle")
  BY DEF Step, At, SuccessorHeader, UpdateFields, InsertParts, CreatedEvent, FindDraftAmendment,
         ReadStatus, WriteStatus, StatusEvent

LEMMA SerialStepOK == SerialInv /\ [SerialNext]_vars => SerialInv'
  <1> SUFFICES ASSUME SerialInv, [SerialNext]_vars
               PROVE  SerialInv'
    OBVIOUS
  <1>0. ContractInv /\ ContractInv'
    BY SerialStepIsAStep, StepOK DEF SerialInv, Kept
  <1>1. ASSUME NEW p \in Procs, Still(p), GoesOnAlone(p)
        PROVE  SerialInv'
    <2>1. PICK h : Goto(p, h) /\ Alone(h, contracts')
      BY <1>1 DEF GoesOnAlone
    <2>2. procs'[p] = h /\ \A q \in Procs \ {p} : procs'[q] = procs[q]
      BY <1>0, <2>1, StateShape DEF Goto
    <2>3. Still(p)'
      BY <1>1, <2>2 DEF Still, At
    <2>4. Alone(procs[p], contracts)'
      BY <2>1, <2>2
    <2> QED
      BY <1>0, <2>3, <2>4 DEF SerialInv
  <1>2. ASSUME UNCHANGED <<contracts, procs>>
        PROVE  SerialInv'
    <2>1. PICK p \in Procs : Still(p) /\ Alone(procs[p], contracts)
      BY DEF SerialInv
    <2>2. Still(p)'
      BY <1>2, <2>1 DEF Still, At
    <2>3. Alone(procs[p], contracts)'
      BY <1>2, <2>1
    <2> QED
      BY <1>0, <2>2, <2>3 DEF SerialInv
  <1>3. ASSUME AllIdle, NEW p \in Requests, Start(p)
        PROVE  SerialInv'
    <2>1. p \in Procs /\ Still(p) /\ Alone(procs[p], contracts)
      BY <1>3, EachIsAlone DEF Procs
    <2>2. GoesOnAlone(p)
      BY <1>0, <1>3, <2>1, CreateAlone, StartsAlone, DeleteAlone DEF Start
    <2> QED
      BY <1>1, <2>1, <2>2
  <1>4. Job \in Procs
    BY DEF Procs
  <1>5. ASSUME AllIdle, JobRead
        PROVE  SerialInv'
    BY <1>0, <1>1, <1>4, <1>5, EachIsAlone, JobAlone
  <1>6. ASSUME JobPick
        PROVE  SerialInv'
    <2>1. ~At(Job, "idle")
      BY <1>6 DEF JobPick, At
    <2> QED
      BY <1>0, <1>1, <1>4, <1>6, <2>1, BusyIsAlone, JobAlone
  <1>7. ASSUME NEW p \in Procs, Step(p)
        PROVE  SerialInv'
    BY <1>0, <1>1, <1>7, StepIsBusy, BusyIsAlone, StepAlone
  <1> QED
    BY <1>2, <1>3, <1>5, <1>6, <1>7 DEF SerialNext, Tick, vars

LEMMA SerialInvariance == Init /\ [][SerialNext]_vars => []SerialInv
  BY AloneInit, SerialStepOK, PTL

\* Calls that do not overlap: whatever sequence of creations, changes, renewals, views,
\* job runs and deletions went before, the events of a contract tell its history, from
\* its creation to its present status, whenever no call is on its way.
THEOREM TrailIsTheHistory == Init /\ [][SerialNext]_vars => []TrailTellsStatus
  <1>1. SerialInv => TrailTellsStatus
    <2> SUFFICES ASSUME SerialInv, AllIdle
                 PROVE  \A c \in Ids : Exists(c) => Tells(contracts[c].trail, contracts[c].status)
      BY DEF TrailTellsStatus, Tells
    <2>1. PICK p \in Procs : Alone(procs[p], contracts)
      BY DEF SerialInv
    <2> QED
      BY <2>1 DEF Alone, Told, OwesEvent, AllIdle, At, Exists, Ids
  <1> QED
    BY <1>1, SerialInvariance, PTL

\* At most one element.
LEMMA AtMostOne ==
    ASSUME NEW S, \A a, b \in S : a = b
    PROVE  Cardinality(S) <= 1
  <1>1. CASE S = {}
    BY <1>1, FS_EmptySet
  <1>2. ASSUME NEW a \in S
        PROVE  Cardinality(S) <= 1
    <2>1. S = {a}
      OBVIOUS
    <2> QED
      BY <2>1, FS_Singleton
  <1> QED
    BY <1>1, <1>2

\* Calls that do not overlap: a contract is renewed once, though renew writes the
\* successor long before the mark that keeps the next renewal away.
THEOREM RenewedOnce == Init /\ [][SerialNext]_vars => []OneSuccessor
  <1>1. SerialInv => OneSuccessor
    <2> SUFFICES ASSUME SerialInv, NEW c \in Ids
                 PROVE  Cardinality({d \in Ids : contracts[d].renewalOf = c}) <= 1
      BY DEF OneSuccessor
    <2>1. PICK p \in Procs : Succession(procs[p], contracts)
      BY DEF SerialInv, Alone
    <2>2. c # 0
      BY StateShape DEF SerialInv
    <2>3. \A a, b \in {d \in Ids : contracts[d].renewalOf = c} : a = b
      BY <2>1, <2>2 DEF Succession, Ids
    <2> QED
      BY <2>3, AtMostOne
  <1> QED
    BY <1>1, SerialInvariance, PTL

\* Calls that do not overlap: a base contract has one draft amendment at a time.
THEOREM AmendedOnceAtATime == Init /\ [][SerialNext]_vars => []OneDraftAmendmentPerBase
  <1>1. SerialInv => OneDraftAmendmentPerBase
    <2> SUFFICES ASSUME SerialInv, NEW c \in Ids
                 PROVE  Cardinality(DraftAmendments(c)) <= 1
      BY DEF OneDraftAmendmentPerBase
    <2>1. OneDraft(contracts) /\ c # 0
      BY StateShape DEF SerialInv, Alone
    <2>2. \A a, b \in DraftAmendments(c) : a = b
      BY <2>1 DEF OneDraft, DraftAmendments, Ids
    <2> QED
      BY <2>2, AtMostOne
  <1> QED
    BY <1>1, SerialInvariance, PTL
=============================================================================
