------------------------- MODULE ContractLifecycle -------------------------
(***************************************************************************)
(* The outsourcing contracts: creation, status changes, renewal, amendment *)
(* drafts, deletion, and the two ways a contract expires (when it is       *)
(* viewed, and in the daily job).                                          *)
(*                                                                         *)
(* No handler opens a transaction: every statement is a step of its own,   *)
(* and a server that stops leaves what was written so far.  The parties,   *)
(* the location and the promoter of a contract are one flag, "complete".   *)
(* A contract keeps the events that carry a status; events that carry none *)
(* (edited, amendment_branched, notes, documents) are left out.            *)
(***************************************************************************)
EXTENDS Integers, Sequences, FiniteSets

CONSTANTS
    Requests,       \* the API calls that may be in flight
    Job,            \* the daily expiry job
    LastDay,        \* bound: the last day of the calendar
    MaxRoots,       \* bound: contracts when one is still created from nothing
    MaxContracts,   \* bound: contracts when one is still renewed or amended
    MaxTrail,       \* bound: events of a contract that users still change
    Expiries,       \* the expiry dates contracts are given
    FirstStatuses   \* the statuses contracts are created with

ASSUME ConstantsAssumption ==
    /\ LastDay \in Nat /\ MaxRoots \in Nat /\ MaxContracts \in Nat /\ MaxTrail \in Nat
    /\ Job \notin Requests
    /\ Expiries \subseteq 0 .. LastDay
    /\ FirstStatuses \subseteq {"draft", "active", "expired", "suspended"}

VARIABLES
    day,         \* today
    contracts,   \* outsourcing_contracts with their events; the index is the id
    procs        \* what each call, and the job, holds between two statements

vars == <<day, contracts, procs>>

Procs == Requests \cup {Job}
Days  == 0 .. LastDay

ContractStatuses ==
    {"draft", "active", "expired", "terminated", "renewed", "suspended"}

TerminalStatuses == {"terminated", "renewed"}

SystemOnlyStatuses == {"expired", "renewed"}

\* The rows of ALLOWED_TRANSITIONS.
AllowedTransitions ==
    {<<"draft", "active">>, <<"draft", "terminated">>,
     <<"active", "expired">>, <<"active", "terminated">>,
     <<"active", "renewed">>, <<"active", "suspended">>,
     <<"expired", "renewed">>,
     <<"suspended", "active">>, <<"suspended", "terminated">>}

\* A deleted row keeps its place here with the status "deleted", and with what
\* it was the successor of.
Contract ==
    [status : ContractStatuses \cup {"deleted"}, expiry : Days,
     renewalOf : Nat, amends : Nat, complete : BOOLEAN,
     trail : Seq([from : ContractStatuses \cup {"none"}, to : ContractStatuses])]

Ids       == DOMAIN contracts
Exists(c) == c \in Ids /\ contracts[c].status # "deleted"

Idle == [at |-> "idle", op |-> "none", id |-> 0, child |-> 0,
         from |-> "none", to |-> "none", left |-> {}]

Process ==
    [at    : {"idle", "dup", "header", "parts", "created",
              "status", "write", "event", "fields", "pick"},
     op    : {"none", "create", "view", "update", "activate", "terminate",
              "renew", "amend", "expire"},
     id    : Nat, child : Nat,
     from  : ContractStatuses \cup {"none"},
     to    : ContractStatuses \cup {"none"},
     left  : SUBSET Nat]

TypeOK ==
    /\ day \in Days
    /\ contracts \in Seq(Contract)
    /\ procs \in [Procs -> Process]

Init ==
    /\ day = 0
    /\ contracts = <<>>
    /\ procs = [p \in Procs |-> Idle]

Goto(p, r)  == procs' = [procs EXCEPT ![p] = r]
At(p, s)    == procs[p].at = s
Set(c, row) == contracts' = [contracts EXCEPT ![c] = row]

(***************************************************************************)
(* Creating a contract: the header row, then the rows it is made of, then  *)
(* its "created" event.  Only a platform admin chooses the first status.   *)
(***************************************************************************)
NewContract(s, e, original, base) ==
    [status |-> s, expiry |-> e, renewalOf |-> original, amends |-> base,
     complete |-> FALSE, trail |-> <<>>]

InsertHeader(p, op, id, row) ==
    /\ contracts' = Append(contracts, row)
    /\ Goto(p, [Idle EXCEPT !.at = "parts", !.op = op, !.id = id,
                            !.child = Len(contracts) + 1, !.to = row.status])
    /\ UNCHANGED day

CreateContract(p, s, e) ==
    /\ At(p, "idle") /\ Len(contracts) < MaxRoots
    /\ s \notin TerminalStatuses
    /\ InsertHeader(p, "create", 0, NewContract(s, e, 0, 0))

\* Fault: the successor does not name the contract it renews.
SuccessorUnlinked(p, e) ==
    /\ At(p, "header")
    /\ InsertHeader(p, procs[p].op, procs[p].id, NewContract("draft", e, 0, procs[p].id))

\* The header of a successor, or of an amendment draft.
SuccessorHeader(p, e) ==
    LET r == procs[p] IN
    /\ At(p, "header")
    /\ InsertHeader(p, r.op, r.id,
           NewContract("draft", e, IF r.op = "renew" THEN r.id ELSE 0,
                                   IF r.op = "amend" THEN r.id ELSE 0))

\* A foreign key refuses the rows of a contract that was deleted meanwhile.
InsertParts(p) ==
    LET c == procs[p].child IN
    /\ At(p, "parts")
    /\ IF Exists(c)
       THEN /\ Set(c, [contracts[c] EXCEPT !.complete = TRUE])
            /\ Goto(p, [procs[p] EXCEPT !.at = "created"])
       ELSE /\ Goto(p, Idle)
            /\ UNCHANGED contracts
    /\ UNCHANGED day

\* Then a renewal marks its original; the others are done.
CreatedEvent(p) ==
    LET r == procs[p]
        c == r.child
    IN
    /\ At(p, "created")
    /\ IF Exists(c)
       THEN /\ Set(c, [contracts[c] EXCEPT !.trail =
                           Append(@, [from |-> "none", to |-> r.to])])
            /\ Goto(p, IF r.op = "renew"
                       THEN [r EXCEPT !.at = "status", !.to = "renewed"] ELSE Idle)
       ELSE /\ Goto(p, Idle)
            /\ UNCHANGED contracts
    /\ UNCHANGED day

(***************************************************************************)
(* transitionContractStatus: read the status and validate the move, write  *)
(* the row by its id alone, append the event.                              *)
(***************************************************************************)
\* What follows a transition: the next row of the job, the fields of an update.
After(r, ok) ==
    CASE r.op = "expire" /\ r.left # {} -> [Idle EXCEPT !.at = "pick", !.op = "expire", !.left = r.left]
      [] r.op = "update" /\ ok -> [Idle EXCEPT !.at = "fields", !.op = "update", !.id = r.id]
      [] OTHER -> Idle

\* Fault: the move is not validated.
ReadStatusOnly(p) ==
    LET r == procs[p]
        s == contracts[r.id].status
    IN
    /\ At(p, "status")
    /\ Goto(p, IF Exists(r.id) /\ s # r.to
               THEN [r EXCEPT !.at = "write", !.from = s] ELSE After(r, s = r.to))
    /\ UNCHANGED <<day, contracts>>

ReadStatus(p) ==
    LET r == procs[p]
        s == contracts[r.id].status
    IN
    /\ At(p, "status")
    /\ Goto(p, IF <<s, r.to>> \in AllowedTransitions
               THEN [r EXCEPT !.at = "write", !.from = s]
               ELSE After(r, s = r.to))
    /\ UNCHANGED <<day, contracts>>

WriteStatus(p) ==
    LET r == procs[p] IN
    /\ At(p, "write")
    /\ IF Exists(r.id) THEN Set(r.id, [contracts[r.id] EXCEPT !.status = r.to])
                       ELSE UNCHANGED contracts
    /\ Goto(p, [r EXCEPT !.at = "event"])
    /\ UNCHANGED day

\* Fault: the event is written for some statuses only.
StatusEventSometimes(p) ==
    LET r == procs[p] IN
    /\ At(p, "event")
    /\ IF Exists(r.id) /\ r.to # "suspended"
       THEN Set(r.id, [contracts[r.id] EXCEPT !.trail =
                           Append(@, [from |-> r.from, to |-> r.to])])
       ELSE UNCHANGED contracts
    /\ Goto(p, After(r, Exists(r.id)))
    /\ UNCHANGED day

StatusEvent(p) ==
    LET r == procs[p] IN
    /\ At(p, "event")
    /\ IF Exists(r.id)
       THEN Set(r.id, [contracts[r.id] EXCEPT !.trail =
                           Append(@, [from |-> r.from, to |-> r.to])])
       ELSE UNCHANGED contracts
    /\ Goto(p, After(r, Exists(r.id)))
    /\ UNCHANGED day

(***************************************************************************)
(* The calls on one contract.  Each reads the row first.                   *)
(***************************************************************************)
StartTransition(p, op, c, to) ==
    Goto(p, [Idle EXCEPT !.at = "status", !.op = op, !.id = c, !.to = to])

UserChanges(p, c) ==
    At(p, "idle") /\ Exists(c) /\ Len(contracts[c].trail) < MaxTrail

\* getById: a contract that reads active is expired on its last day already.
ViewContract(p, c) ==
    /\ At(p, "idle") /\ Exists(c)
    /\ contracts[c].status = "active" /\ contracts[c].expiry <= day
    /\ StartTransition(p, "view", c, "expired")
    /\ UNCHANGED <<day, contracts>>

Activate(p, c) ==
    /\ UserChanges(p, c)
    /\ StartTransition(p, "activate", c, "active")
    /\ UNCHANGED <<day, contracts>>

Terminate(p, c) ==
    /\ UserChanges(p, c)
    /\ StartTransition(p, "terminate", c, "terminated")
    /\ UNCHANGED <<day, contracts>>

\* update: the status first, when another one is asked for, then the fields.
Update(p, c) ==
    /\ UserChanges(p, c)
    /\ contracts[c].status \notin TerminalStatuses
    /\ \/ \E to \in ContractStatuses \ (SystemOnlyStatuses \cup {contracts[c].status}) :
              StartTransition(p, "update", c, to)
       \/ Goto(p, [Idle EXCEPT !.at = "fields", !.op = "update", !.id = c])
    /\ UNCHANGED <<day, contracts>>

\* Fault: the new date is taken for the first day without a contract.
UpdateFieldsOffByOne(p, e) ==
    /\ At(p, "fields")
    /\ IF Exists(procs[p].id)
       THEN Set(procs[p].id, [contracts[procs[p].id] EXCEPT !.expiry = e + 1])
       ELSE UNCHANGED contracts
    /\ Goto(p, Idle)
    /\ UNCHANGED day

\* The fields are written without another look at the status.
UpdateFields(p, e) ==
    LET c == procs[p].id IN
    /\ At(p, "fields")
    /\ IF Exists(c) THEN Set(c, [contracts[c] EXCEPT !.expiry = e]) ELSE UNCHANGED contracts
    /\ Goto(p, Idle)
    /\ UNCHANGED day

\* Fault: whether the contract can be renewed is left to the transition.
RenewAny(p, c) ==
    /\ At(p, "idle") /\ Exists(c) /\ Len(contracts) < MaxContracts
    /\ contracts[c].complete
    /\ Goto(p, [Idle EXCEPT !.at = "header", !.op = "renew", !.id = c])
    /\ UNCHANGED <<day, contracts>>

Renew(p, c) ==
    /\ At(p, "idle") /\ Exists(c) /\ Len(contracts) < MaxContracts
    /\ <<contracts[c].status, "renewed">> \in AllowedTransitions
    /\ contracts[c].complete
    /\ Goto(p, [Idle EXCEPT !.at = "header", !.op = "renew", !.id = c])
    /\ UNCHANGED <<day, contracts>>

CreateAmendmentDraft(p, c) ==
    /\ At(p, "idle") /\ Exists(c) /\ Len(contracts) < MaxContracts
    /\ contracts[c].status \in {"active", "expired"}
    /\ contracts[c].complete
    /\ Goto(p, [Idle EXCEPT !.at = "dup", !.op = "amend", !.id = c])
    /\ UNCHANGED <<day, contracts>>

DraftAmendments(c) ==
    {d \in Ids : contracts[d].amends = c /\ contracts[d].status = "draft"}

\* Fault: the question is asked of active amendments.
FindActiveAmendment(p) ==
    /\ At(p, "dup")
    /\ Goto(p, IF \E d \in Ids : contracts[d].amends = procs[p].id /\ contracts[d].status = "active"
               THEN Idle ELSE [procs[p] EXCEPT !.at = "header"])
    /\ UNCHANGED <<day, contracts>>

FindDraftAmendment(p) ==
    /\ At(p, "dup")
    /\ Goto(p, IF DraftAmendments(procs[p].id) # {}
               THEN Idle ELSE [procs[p] EXCEPT !.at = "header"])
    /\ UNCHANGED <<day, contracts>>

\* The rows of the contract go with it, its events too; contracts that name it
\* stay.
DeleteContract(p, c) ==
    /\ At(p, "idle") /\ Exists(c)
    /\ Set(c, [contracts[c] EXCEPT !.status = "deleted", !.expiry = 0, !.trail = <<>>])
    /\ UNCHANGED <<day, procs>>

(***************************************************************************)
(* The daily job: the overdue contracts of one select, one at a time.      *)
(***************************************************************************)
Overdue(c) == c \in Ids /\ contracts[c].status = "active" /\ contracts[c].expiry < day

\* Fault: the job looks at yesterday only.
JobReadYesterday ==
    LET found == {c \in Ids : Overdue(c) /\ contracts[c].expiry = day - 1} IN
    /\ At(Job, "idle") /\ found # {}
    /\ Goto(Job, [Idle EXCEPT !.at = "pick", !.op = "expire", !.left = found])
    /\ UNCHANGED <<day, contracts>>

JobRead ==
    LET found == {c \in Ids : Overdue(c)} IN
    /\ At(Job, "idle") /\ found # {}
    /\ Goto(Job, [Idle EXCEPT !.at = "pick", !.op = "expire", !.left = found])
    /\ UNCHANGED <<day, contracts>>

JobPick ==
    /\ At(Job, "pick")
    /\ \E c \in procs[Job].left :
           Goto(Job, [Idle EXCEPT !.at = "status", !.op = "expire", !.id = c,
                                  !.to = "expired", !.left = procs[Job].left \ {c}])
    /\ UNCHANGED <<day, contracts>>

Tick ==
    /\ day < LastDay
    /\ day' = day + 1
    /\ UNCHANGED <<contracts, procs>>

\* The server restarts: nothing in flight survives.
Crash ==
    /\ procs' = [p \in Procs |-> Idle]
    /\ UNCHANGED <<day, contracts>>

Start(p) ==
    \/ \E s \in FirstStatuses, e \in Expiries : CreateContract(p, s, e)
    \/ \E c \in Ids :
           \/ ViewContract(p, c) \/ Activate(p, c) \/ Terminate(p, c)
           \/ Update(p, c) \/ Renew(p, c) \/ CreateAmendmentDraft(p, c)
           \/ DeleteContract(p, c)

Step(p) ==
    \/ \E e \in Expiries : SuccessorHeader(p, e) \/ UpdateFields(p, e)
    \/ InsertParts(p) \/ CreatedEvent(p) \/ FindDraftAmendment(p)
    \/ ReadStatus(p) \/ WriteStatus(p) \/ StatusEvent(p)

Next ==
    \/ \E p \in Requests : Start(p)
    \/ \E p \in Procs : Step(p)
    \/ JobRead \/ JobPick
    \/ Tick \/ Crash

Spec == Init /\ [][Next]_vars

(***************************************************************************)
(* One call at a time and no restart.  A call in flight goes on, and the   *)
(* timer of the job does not wait for the calls: its turn always comes.    *)
(***************************************************************************)
AllIdle == \A p \in Procs : At(p, "idle")

SerialNext ==
    \/ AllIdle /\ ((\E p \in Requests : Start(p)) \/ JobRead)
    \/ \E p \in Procs : Step(p)
    \/ JobPick
    \/ Tick

FairSerialSpec ==
    /\ Init /\ [][SerialNext]_vars
    /\ \A p \in Procs : WF_vars(Step(p))
    /\ WF_vars(JobPick)
    /\ SF_vars(AllIdle /\ JobRead)

(***************************************************************************)
(* Properties                                                              *)
(***************************************************************************)
\* A contract is marked renewed only when its successor has been written with
\* all of its rows, whatever else is in flight and wherever the server stops:
\* renew writes the successor first and the mark last.
SupersededHasSuccessor ==
    \A c \in Ids : contracts[c].status = "renewed" =>
        \E d \in Ids : contracts[d].renewalOf = c /\ contracts[d].complete

\* A draft becomes active or terminated, or is deleted, and nothing else:
\* neither the job nor a view nor a renewal that read another status before
\* can expire, suspend or supersede a contract that nobody activated.
DraftIsDecided ==
    [][\A c \in Ids : contracts[c].status = "draft" =>
           contracts'[c].status \in {"draft", "active", "terminated", "deleted"}]_vars

\* Calls that do not overlap: between two calls the events of a contract tell
\* its history, each from the status the one before it reached, up to its
\* present status.
TrailTellsStatus ==
    AllIdle => \A c \in Ids : LET t == contracts[c].trail IN
        Exists(c) => /\ t # <<>>
                     /\ t[1].from = "none"
                     /\ \A i \in 2 .. Len(t) : t[i].from = t[i - 1].to
                     /\ t[Len(t)].to = contracts[c].status

\* Calls that do not overlap: a contract is renewed once.
OneSuccessor ==
    \A c \in Ids : Cardinality({d \in Ids : contracts[d].renewalOf = c}) <= 1

\* Calls that do not overlap: one draft amendment per base contract at a time.
OneDraftAmendmentPerBase ==
    \A c \in Ids : Cardinality(DraftAmendments(c)) <= 1

\* With the daily job, an active contract past its date does not stay active.
OverdueIsExpired == \A c \in 1 .. MaxContracts : Overdue(c) ~> ~Overdue(c)
=============================================================================
