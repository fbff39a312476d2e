---------------------------- MODULE ClientApproval ----------------------------
(***************************************************************************)
(* The client's approval of a period of attendance, from the batch HR      *)
(* creates to the billing candidate finance finds: the mutations of        *)
(* server/routers/attendance/clientApproval.router.ts, the hook            *)
(* onClientApprovalComplete they start and forget                          *)
(* (server/lib/attendanceClientApprovalHooks.ts), and the period lock they *)
(* consult, whose own requests (PeriodLock) interleave with them.          *)
(*                                                                         *)
(* No mutation opens a transaction: an action is one statement, and req[r] *)
(* is what request r holds between two of them.  A request whose first     *)
(* read fails a guard throws and has no action.  The hook runs after its   *)
(* request has answered; it keeps the request's slot until it ends.        *)
(***************************************************************************)
EXTENDS PeriodLock, Sequences

CONSTANTS
    Requests,      \* requests in flight at the same time
    Scopes,        \* (company, site, periodStart, periodEnd) of a batch
    Items,         \* employee x date pairs a scope enumerates
    StartMonth,    \* the calendar month of a scope's periodStart
    MonthsOf,      \* the calendar months a scope's dates fall in
    MaxBatches     \* bound: batches ever created

ASSUME ApprovalAssumption ==
    /\ Items # {}
    /\ StartMonth \in [Scopes -> Months]
    /\ MonthsOf \in [Scopes -> SUBSET Months]
    /\ \A s \in Scopes : StartMonth[s] \in MonthsOf[s]
    /\ MaxBatches \in Nat

VARIABLES
    batch,       \* attendance_client_approval_batches, with the items of each row
    candidate,   \* attendance_billing_candidates
    token,       \* the batches for which a portal token was signed
    req          \* what each request holds

approvalVars == <<batch, candidate, token, req>>
vars == <<batch, candidate, token, req, lock, trail, officer>>

-----------------------------------------------------------------------------
BatchStatus == {"draft", "submitted", "approved", "rejected", "cancelled"}
ItemStatus  == {"pending", "approved", "rejected", "disputed"}
Source == {"internal", "client_portal_token"}

\* Items has one value per employee x date; "none" is an item that has no row yet.
Batch == [scope: Scopes,
          status: BatchStatus,
          approved: BOOLEAN,      \* approved_at is set
          items: [Items -> ItemStatus \cup {"none"}]]
Candidate == [batch: Nat \ {0}, source: Source, lines: SUBSET Items]

Idle == [at |-> "idle"]

CreateOps == {"create.insert"}
BatchOps  == {"create.items", "submit.write", "reject.guard", "reject.write"}
ApproveOps == {"approve.guard", "approve.write", "approve.items",
               "hook.batch", "hook.existing", "hook.items"}

Request ==
    {Idle}
    \cup [at: CreateOps, scope: Scopes]
    \cup [at: BatchOps, batch: Nat \ {0}]
    \cup [at: ApproveOps, batch: Nat \ {0}, source: Source]
    \cup [at: {"hook.insert"}, batch: Nat \ {0}, source: Source, lines: SUBSET Items]
    \cup [at: {"dispute.item", "dispute.write"}, batch: Nat \ {0}, item: Items]

BatchIds == DOMAIN batch

TypeOK ==
    /\ batch \in Seq(Batch)
    /\ candidate \in Seq(Candidate)
    /\ token \subseteq BatchIds
    /\ req \in [Requests -> Request]
    /\ PeriodTypeOK

BatchesOf(s) == {b \in BatchIds : batch[b].scope = s}
CandidatesOf(b) == {c \in DOMAIN candidate : candidate[c].batch = b}

\* Fault: every item of the batch is billed.
BillEverything(b) == {i \in Items : batch[b].items[i] # "none"}

\* getBillableApprovalItems
Billable(b) == {i \in Items : batch[b].items[i] = "approved"}

Init ==
    /\ batch = << >>
    /\ candidate = << >>
    /\ token = {}
    /\ req = [r \in Requests |-> Idle]
    /\ PeriodInit

Goto(r, held) == req' = [req EXCEPT ![r] = held]
Advance(r, at) == req' = [req EXCEPT ![r].at = at]
Return(r) == Goto(r, Idle)

\* The batch row request r works on, and the update of that row.
Row(r) == batch[req[r].batch]
Store(r, row) == batch' = [batch EXCEPT ![req[r].batch] = row] /\ UNCHANGED <<candidate, token>>
Only(A) == A /\ UNCHANGED <<batch, candidate, token>>

\* The select that opens every mutation of a batch, and its status gate.
BatchRead(r, b, status, held) ==
    /\ req[r] = Idle
    /\ batch[b].status = status
    /\ Only(Goto(r, held))

-----------------------------------------------------------------------------
(* createClientApprovalBatch *)

\* What the duplicate check of a scope says: no row, or one that is cancelled.
NoBatchFound(s) ==
    \/ BatchesOf(s) = {}
    \/ \E b \in BatchesOf(s) : batch[b].status = "cancelled"

\* Fault: the duplicate check is missing.
CreateUnchecked(r, s) ==
    /\ req[r] = Idle
    /\ Only(Goto(r, [at |-> "create.insert", scope |-> s]))

CreateRead(r, s) ==
    /\ req[r] = Idle
    /\ NoBatchFound(s)
    /\ Only(Goto(r, [at |-> "create.insert", scope |-> s]))

\* Fault: the items are given the id of the batch before.
CreateStaleId(r) ==
    /\ req[r].at = "create.insert"
    /\ Len(batch) < MaxBatches
    /\ batch' = Append(batch, [scope |-> req[r].scope, status |-> "draft", approved |-> FALSE,
                               items |-> [i \in Items |-> "none"]])
    /\ Goto(r, [at |-> "create.items", batch |-> Len(batch)])
    /\ UNCHANGED <<candidate, token>>

CreateInsert(r) ==
    /\ req[r].at = "create.insert"
    /\ Len(batch) < MaxBatches
    /\ batch' = Append(batch, [scope |-> req[r].scope, status |-> "draft", approved |-> FALSE,
                               items |-> [i \in Items |-> "none"]])
    /\ Goto(r, [at |-> "create.items", batch |-> Len(batch) + 1])
    /\ UNCHANGED <<candidate, token>>

CreateItems(r) ==
    /\ req[r].at = "create.items"
    /\ Store(r, [Row(r) EXCEPT !.items = [i \in Items |-> "pending"]])
    /\ Return(r)

-----------------------------------------------------------------------------
(* submitClientApprovalBatch, generateClientApprovalToken *)

SubmitRead(r, b) == BatchRead(r, b, "draft", [at |-> "submit.write", batch |-> b])

SubmitWrite(r) ==
    /\ req[r].at = "submit.write"
    /\ Store(r, [Row(r) EXCEPT !.status = "submitted"])
    /\ Return(r)

\* One statement and a signature: the token is stored nowhere, and outlives its batch's status.
GenerateToken(r, b) ==
    /\ req[r] = Idle
    /\ batch[b].status = "submitted"
    /\ token' = token \cup {b}
    /\ UNCHANGED <<batch, candidate, req>>

-----------------------------------------------------------------------------
(* Approval, by HR or through the portal *)

ApproveRead(r, b, source) ==
    BatchRead(r, b, "submitted", [at |-> "approve.guard", batch |-> b, source |-> source])

\* approveClientApprovalBatch
InternalApprove(r, b) == ApproveRead(r, b, "internal")

\* clientApproveByToken
ClientApproveByToken(r, b) == b \in token /\ ApproveRead(r, b, "client_portal_token")

\* loadAndAssertPeriodNotLocked, for the month of periodStart.
PeriodGuard(r, here, next) ==
    /\ req[r].at = here
    /\ \E s \in Seen(StartMonth[Row(r).scope]) :
          Only(IF PeriodIsOpen(s) THEN Advance(r, next) ELSE Return(r))

ApproveGuard(r) == PeriodGuard(r, "approve.guard", "approve.write")

ApproveWrite(r) ==
    /\ req[r].at = "approve.write"
    /\ Store(r, [Row(r) EXCEPT !.status = "approved", !.approved = TRUE])
    /\ Advance(r, "approve.items")

Stamp(items, old, new) == [i \in Items |-> IF items[i] \in old THEN new ELSE items[i]]

\* Fault: the update of the items lacks its second condition.
ApproveAllItems(r) ==
    /\ req[r].at = "approve.items"
    /\ Store(r, [Row(r) EXCEPT !.items = Stamp(@, {"pending", "disputed"}, "approved")])
    /\ Advance(r, "hook.batch")

\* Fault: the hook is not started.
ApproveWithoutHook(r) ==
    /\ req[r].at = "approve.items"
    /\ Store(r, [Row(r) EXCEPT !.items = Stamp(@, {"pending"}, "approved")])
    /\ Return(r)

\* Fault: the items are approved one by one, and the hook starts with the first.
ApproveFirstItem(r) ==
    /\ req[r].at = "approve.items"
    /\ \E i \in Items :
          /\ Row(r).items[i] = "pending"
          /\ Store(r, [Row(r) EXCEPT !.items[i] = "approved"])
    /\ Advance(r, "hook.batch")

\* The pending items are approved in one update, and the hook starts.
ApproveItems(r) ==
    /\ req[r].at = "approve.items"
    /\ Store(r, [Row(r) EXCEPT !.items = Stamp(@, {"pending"}, "approved")])
    /\ Advance(r, "hook.batch")

-----------------------------------------------------------------------------
(* onClientApprovalComplete *)

HookBatch(r) ==
    /\ req[r].at = "hook.batch"
    /\ Only(IF Row(r).status = "approved" THEN Advance(r, "hook.existing") ELSE Return(r))

HookExisting(r) ==
    /\ req[r].at = "hook.existing"
    /\ Only(IF CandidatesOf(req[r].batch) = {} THEN Advance(r, "hook.items") ELSE Return(r))

HookItems(r) ==
    /\ req[r].at = "hook.items"
    /\ Only(IF Billable(req[r].batch) = {}
            THEN Return(r)
            ELSE Goto(r, [at |-> "hook.insert", batch |-> req[r].batch, source |-> req[r].source,
                          lines |-> Billable(req[r].batch)]))

\* uq_abc_batch_id; the error is swallowed by the `.catch` at the call.
BatchKeyCollision(b) == CandidatesOf(b) # {}

HookInsert(r) ==
    /\ req[r].at = "hook.insert"
    /\ candidate' = IF BatchKeyCollision(req[r].batch)
                    THEN candidate
                    ELSE Append(candidate, [batch |-> req[r].batch, source |-> req[r].source,
                                            lines |-> req[r].lines])
    /\ Return(r)
    /\ UNCHANGED <<batch, token>>

-----------------------------------------------------------------------------
(* Rejection and dispute *)

\* Fault: an approved batch can be rejected.
RejectApproved(r, b) ==
    /\ req[r] = Idle
    /\ batch[b].status \in {"submitted", "approved"}
    /\ Only(Goto(r, [at |-> "reject.write", batch |-> b]))

\* rejectClientApprovalBatch: HR's path does not consult the period lock.
InternalReject(r, b) == BatchRead(r, b, "submitted", [at |-> "reject.write", batch |-> b])

\* clientRejectByToken
ClientRejectByToken(r, b) ==
    b \in token /\ BatchRead(r, b, "submitted", [at |-> "reject.guard", batch |-> b])

RejectGuard(r) == PeriodGuard(r, "reject.guard", "reject.write")

RejectWrite(r) ==
    /\ req[r].at = "reject.write"
    /\ Store(r, [Row(r) EXCEPT !.status = "rejected"])
    /\ Return(r)

\* clientDisputeItemByToken
DisputeRead(r, b, i) ==
    b \in token /\ BatchRead(r, b, "submitted", [at |-> "dispute.item", batch |-> b, item |-> i])

DisputeItem(r) ==
    /\ req[r].at = "dispute.item"
    /\ Only(IF Row(r).items[req[r].item] = "pending" THEN Advance(r, "dispute.write") ELSE Return(r))

DisputeWrite(r) ==
    /\ req[r].at = "dispute.write"
    /\ Store(r, [Row(r) EXCEPT !.items[req[r].item] = "disputed"])
    /\ Return(r)

-----------------------------------------------------------------------------
\* The process dies, or a statement of request r fails: nothing it wrote is undone.
Abort(r) ==
    /\ req[r] # Idle
    /\ Only(Return(r))

Arrive(r) ==
    \/ \E s \in Scopes : CreateRead(r, s)
    \/ \E b \in BatchIds :
          \/ SubmitRead(r, b)
          \/ GenerateToken(r, b)
          \/ InternalApprove(r, b)
          \/ ClientApproveByToken(r, b)
          \/ InternalReject(r, b)
          \/ ClientRejectByToken(r, b)
          \/ \E i \in Items : DisputeRead(r, b, i)

Continue(r) ==
    \/ CreateInsert(r)
    \/ CreateItems(r)
    \/ SubmitWrite(r)
    \/ ApproveGuard(r)
    \/ ApproveWrite(r)
    \/ ApproveItems(r)
    \/ HookBatch(r)
    \/ HookExisting(r)
    \/ HookItems(r)
    \/ HookInsert(r)
    \/ RejectGuard(r)
    \/ RejectWrite(r)
    \/ DisputeItem(r)
    \/ DisputeWrite(r)

Step     == (\E r \in Requests : Arrive(r) \/ Continue(r)) /\ UNCHANGED periodVars
LockStep == (\E o \in Officers : PeriodStep(o)) /\ UNCHANGED approvalVars
Crash ==
    \/ (\E r \in Requests : Abort(r)) /\ UNCHANGED periodVars
    \/ (\E o \in Officers : AbortPeriod(o)) /\ UNCHANGED approvalVars

Next == Step \/ LockStep \/ Crash

Spec == Init /\ [][Next]_vars

\* No request is cut short.
CrashFreeSpec == Init /\ [][Step \/ LockStep]_vars

\* Requests, including the hooks they start, do not overlap.
Alone ==
    \A r, q \in Requests : req[r] # Idle =>
        /\ req[q] # Idle => r = q
        /\ \A o \in Officers : officer[o] = AtDesk
SerialSpec == Init /\ [][Next /\ Alone']_vars

\* The database answers every statement, so a request that has begun goes on; nothing
\* makes a user begin one.
Fairness == \A r \in Requests : WF_vars(Continue(r) /\ UNCHANGED periodVars)
FairCrashFreeSpec == CrashFreeSpec /\ Fairness
FairSpec == Spec /\ Fairness
-----------------------------------------------------------------------------
(* What holds whatever requests overlap, and whatever request is cut short. *)

\* A candidate comes from a batch that was approved, has lines, and every line is an
\* item that the approval had reached: a hook that reads the items while a late insert
\* or a dispute is under way never bills a pending one.
CandidateWasApproved ==
    \A c \in DOMAIN candidate :
        /\ batch[candidate[c].batch].approved
        /\ candidate[c].lines # {}
        /\ \A i \in candidate[c].lines : batch[candidate[c].batch].items[i] \in {"approved", "disputed"}

\* The draft covers the batch (attendanceClientApprovalHooks.ts:99, clientApproval.router.ts:468):
\* every item of a batch that stands approved is on the batch's candidate.  Of the hooks
\* that HR's and the client's approval start together one alone gets its candidate in, and
\* no hook runs later, so whichever wins must have read everything that any approval ever
\* approves.
NothingApprovedIsLeftOut ==
    \A c \in DOMAIN candidate : Billable(candidate[c].batch) \subseteq candidate[c].lines

\* "Items with status "disputed" remain disputed after batch approval"
\* (attendanceClientApprovalHooks.ts:179): the filter is in the update itself, so no
\* approval that was under way overrides a dispute.
DisputesStand ==
    [][\A b \in BatchIds, i \in Items :
          batch[b].items[i] = "disputed" => batch'[b].items[i] = "disputed"]_vars

\* "Cannot create an empty batch" (clientApproval.router.ts:225): a batch whose creation
\* is over has items.
NoEmptyBatch ==
    \A b \in BatchIds :
        \/ \E i \in Items : batch[b].items[i] # "none"
        \/ \E r \in Requests : req[r].at = "create.items" /\ req[r].batch = b

\* Batch b is approved, has billable items, and no candidate.
Unbilled(b) ==
    /\ b \in BatchIds
    /\ batch[b].status = "approved"
    /\ Billable(b) # {}
    /\ CandidatesOf(b) = {}

\* "Creates one draft AttendanceBillingCandidate per approved batch"
\* (attendanceClientApprovalHooks.ts:7): a batch does not stay approved, billable and
\* without a candidate; some hook finds it, however approvals overlap with each other
\* and with stale writes of other requests.
ApprovedIsBilled == \A b \in 1 .. MaxBatches : Unbilled(b) ~> ~Unbilled(b)

-----------------------------------------------------------------------------
(* What holds when requests do not overlap, and is lost when they do. *)

\* "Duplicate batch prevention: rejects if an existing non-cancelled batch already
\* covers the exact same (company, site, periodStart, periodEnd)"
\* (clientApproval.router.ts:136).
OneBatchPerScope ==
    \A b, d \in BatchIds :
        /\ batch[b].scope = batch[d].scope
        /\ batch[b].status # "cancelled" /\ batch[d].status # "cancelled"
        => b = d

\* The hook "verifies it is still approved (guard against race conditions)"
\* (attendanceClientApprovalHooks.ts:36): a batch that the client rejected is not billed.
RejectedIsNotBilled ==
    \A c \in DOMAIN candidate : batch[candidate[c].batch].status # "rejected"

\* "ensure disputed items never silently appear on an invoice"
\* (attendanceClientApprovalHooks.ts:185).
DisputedIsNotBilled ==
    \A c \in DOMAIN candidate : \A i \in candidate[c].lines :
        batch[candidate[c].batch].items[i] # "disputed"

\* Some month of a batch is closed.
ClosedIn(months) == \E m \in months : lock[m] \cap Frozen # {}
BecomesApproved(b) == batch[b].status # "approved" /\ batch'[b].status = "approved"

\* "Period lock guard: block approval if the batch period is locked/exported"
\* (clientApproval.router.ts:836), for the month the batch starts in.
NoApprovalInClosedMonth ==
    [][\A b \in BatchIds : BecomesApproved(b) => ~ClosedIn({StartMonth[batch[b].scope]})]_vars

(***************************************************************************)
(* Promises of the documentation that the code does not keep: TLC refutes  *)
(* them.                                                                   *)
(***************************************************************************)
\* The same sentence, for every month the batch period has days in.
NoApprovalInClosedPeriod ==
    [][\A b \in BatchIds : BecomesApproved(b) => ~ClosedIn(MonthsOf[batch[b].scope])]_vars

\* "Every write procedure that mutates attendance data for a specific company + calendar
\* month must call loadAndAssertPeriodNotLocked" (attendancePeriodGuard.ts:4): the
\* decision on a batch does not change in a closed month.
ClosedMonthKeepsItsDecisions ==
    [][\A b \in BatchIds :
          ClosedIn({StartMonth[batch[b].scope]}) =>
              batch'[b].status = batch[b].status \/ batch'[b].status \notin {"approved", "rejected"}]_vars
=============================================================================
