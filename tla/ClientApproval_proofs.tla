------------------------ MODULE ClientApproval_proofs ------------------------
(***************************************************************************)
(* Proofs about ClientApproval for every number of requests, officers,     *)
(* scopes, items and batches, crashes included.                            *)
(***************************************************************************)
EXTENDS ClientApproval, PeriodLock_proofs, SequenceTheorems

-----------------------------------------------------------------------------
(* The inductive invariant *)

ItemsReached(b, lines) == \A i \in lines : batch[b].items[i] \in {"approved", "disputed"}
NoItems(b) == \A i \in Items : batch[b].items[i] = "none"

AfterApproval == {"approve.items", "hook.batch", "hook.existing", "hook.items", "hook.insert"}
DisputeOps == {"dispute.item", "dispute.write"}
OnBatch == BatchOps \cup ApproveOps \cup {"hook.insert"} \cup DisputeOps

\* What a request that holds h has learnt from the tables is still true of them.
Sound(h) ==
    /\ h.at \in OnBatch => h.batch \in BatchIds
    /\ h.at \in AfterApproval => batch[h.batch].approved
    /\ h.at = "hook.insert" => h.lines # {} /\ ItemsReached(h.batch, h.lines)
    /\ h.at = "dispute.write" => batch[h.batch].items[h.item] # "none"

\* The items of a batch are inserted by one request, and until then there are none.
CreatorsAreAlone ==
    \A r \in Requests : req[r].at = "create.items" =>
        /\ NoItems(req[r].batch)
        /\ \A q \in Requests : req[q].at = "create.items" /\ req[q].batch = req[r].batch => q = r

\* CandidateWasApproved, and the batch of a candidate exists.
CandidatesAreSound ==
    \A c \in DOMAIN candidate :
        /\ candidate[c].batch \in BatchIds
        /\ batch[candidate[c].batch].approved
        /\ candidate[c].lines # {}
        /\ ItemsReached(candidate[c].batch, candidate[c].lines)

ApprovalTypeOK ==
    /\ batch \in Seq(Batch)
    /\ candidate \in Seq(Candidate)
    /\ token \subseteq BatchIds
    /\ req \in [Requests -> Request]

IInv ==
    /\ ApprovalTypeOK
    /\ PeriodInv
    /\ \A r \in Requests : Sound(req[r])
    /\ CreatorsAreAlone
    /\ CandidatesAreSound

-----------------------------------------------------------------------------
(* Shapes *)

LEMMA RequestShape ==
    ASSUME NEW h \in Request
    PROVE  /\ h.at \in OnBatch => h.batch \in Nat \ {0}
           /\ h.at \in ApproveOps \cup {"hook.insert"} => h.source \in Source
           /\ h.at = "hook.insert" => h.lines \in SUBSET Items
           /\ h.at \in DisputeOps => h.item \in Items
           /\ h.at = "create.insert" => h.scope \in Scopes
  BY DEF Request, Idle, OnBatch, CreateOps, BatchOps, ApproveOps, DisputeOps

\* Moving to the next statement keeps what the request holds.
LEMMA AdvanceShape ==
    ASSUME NEW h \in Request, NEW at
    PROVE  /\ h.at \in BatchOps /\ at \in BatchOps => [h EXCEPT !.at = at] \in Request
           /\ h.at \in ApproveOps /\ at \in ApproveOps => [h EXCEPT !.at = at] \in Request
           /\ h.at \in DisputeOps /\ at \in DisputeOps => [h EXCEPT !.at = at] \in Request
           /\ h.at \in OnBatch =>
                 /\ [h EXCEPT !.at = at].at = at
                 /\ [h EXCEPT !.at = at].batch = h.batch
           /\ h.at \in DisputeOps => [h EXCEPT !.at = at].item = h.item
  <1>1. h.at \in BatchOps /\ at \in BatchOps => [h EXCEPT !.at = at] \in Request
    BY DEF Request, Idle, CreateOps, BatchOps, ApproveOps
  <1>2. h.at \in ApproveOps /\ at \in ApproveOps => [h EXCEPT !.at = at] \in Request
    BY DEF Request, Idle, CreateOps, BatchOps, ApproveOps
  <1>3. h.at \in DisputeOps /\ at \in DisputeOps => [h EXCEPT !.at = at] \in Request
    BY DEF Request, Idle, CreateOps, BatchOps, ApproveOps, DisputeOps
  <1>4. h.at \in OnBatch =>
          /\ [h EXCEPT !.at = at].at = at
          /\ [h EXCEPT !.at = at].batch = h.batch
    BY DEF Request, Idle, OnBatch, CreateOps, BatchOps, ApproveOps, DisputeOps
  <1>5. h.at \in DisputeOps => [h EXCEPT !.at = at].item = h.item
    BY DEF Request, Idle, CreateOps, BatchOps, ApproveOps, DisputeOps
  <1> QED
    BY <1>1, <1>2, <1>3, <1>4, <1>5

LEMMA BatchShape ==
    ASSUME ApprovalTypeOK
    PROVE  /\ BatchIds = 1 .. Len(batch)
           /\ Len(batch) \in Nat
           /\ \A b \in BatchIds : batch[b] \in Batch
  BY ElementOfSeq, LenProperties DEF ApprovalTypeOK, BatchIds

\* An update by id changes that row and no other.
LEMMA StoreRow ==
    ASSUME ApprovalTypeOK, NEW r \in Requests, req[r].batch \in BatchIds,
           NEW row \in Batch, Store(r, row)
    PROVE  /\ batch' \in Seq(Batch)
           /\ BatchIds' = BatchIds
           /\ \A b \in BatchIds : batch'[b] = IF b = req[r].batch THEN row ELSE batch[b]
           /\ UNCHANGED <<candidate, token>>
  <1>1. batch \in Seq(Batch) /\ BatchIds = 1..Len(batch)
    BY LenProperties DEF ApprovalTypeOK, BatchIds
  <1>2. batch' = [batch EXCEPT ![req[r].batch] = row] /\ UNCHANGED <<candidate, token>>
    BY DEF Store
  <1>3. /\ batch' \in Seq(Batch)
        /\ Len(batch') = Len(batch)
        /\ \A b \in 1..Len(batch) : batch'[b] = IF b = req[r].batch THEN row ELSE batch[b]
    BY <1>1, <1>2, ExceptSeq
  <1>4. BatchIds' = 1..Len(batch')
    BY <1>3, LenProperties DEF BatchIds
  <1> QED
    BY <1>1, <1>2, <1>3, <1>4

-----------------------------------------------------------------------------
(* What the statements that write a batch store *)

\* A batch row never loses its approval, an item that was reached, or a dispute.
RowGrows(v, w) ==
    /\ v.approved => w.approved
    /\ \A i \in Items :
          /\ v.items[i] \in {"approved", "disputed"} => w.items[i] \in {"approved", "disputed"}
          /\ v.items[i] = "disputed" => w.items[i] = "disputed"
          /\ v.items[i] # "none" => w.items[i] # "none"

\* A row that had no items still has none.
StaysBare(v, w) ==
    (\A i \in Items : v.items[i] = "none") => (\A i \in Items : w.items[i] = "none")

LEMMA RowUpdates ==
    ASSUME NEW v \in Batch, NEW s \in BatchStatus
    PROVE  /\ [v EXCEPT !.status = s] \in Batch
           /\ [v EXCEPT !.status = s, !.approved = TRUE] \in Batch
           /\ RowGrows(v, [v EXCEPT !.status = s]) /\ StaysBare(v, [v EXCEPT !.status = s])
           /\ RowGrows(v, [v EXCEPT !.status = s, !.approved = TRUE])
           /\ StaysBare(v, [v EXCEPT !.status = s, !.approved = TRUE])
           /\ [v EXCEPT !.status = s, !.approved = TRUE].approved
  BY DEF Batch, RowGrows, StaysBare

LEMMA ItemUpdates ==
    ASSUME NEW v \in Batch, NEW f \in [Items -> ItemStatus \cup {"none"}]
    PROVE  /\ [v EXCEPT !.items = f] \in Batch
           /\ [v EXCEPT !.items = f].items = f
           /\ [v EXCEPT !.items = f].approved = v.approved
  BY DEF Batch

\* The six statements that update a batch row, by what becomes of the row.
LEMMA StoredRow ==
    ASSUME IInv, NEW r \in Requests,
           \/ CreateItems(r) \/ SubmitWrite(r) \/ ApproveWrite(r)
           \/ ApproveItems(r) \/ RejectWrite(r) \/ DisputeWrite(r)
    PROVE  /\ req[r].batch \in BatchIds
           /\ \E row \in Batch :
                 /\ Store(r, row)
                 /\ RowGrows(Row(r), row)
                 /\ CreateItems(r) \/ StaysBare(Row(r), row)
                 /\ ApproveWrite(r) => row.approved
  <1>0. ApprovalTypeOK /\ Sound(req[r]) /\ req[r] \in Request
    BY DEF IInv, ApprovalTypeOK
  <1>1. req[r].batch \in BatchIds
    BY <1>0 DEF Sound, OnBatch, BatchOps, ApproveOps, DisputeOps,
       CreateItems, SubmitWrite, ApproveWrite, ApproveItems, RejectWrite, DisputeWrite
  <1>2. Row(r) \in Batch
    BY <1>0, <1>1, BatchShape DEF Row
  <1>f. Row(r).items \in [Items -> ItemStatus \cup {"none"}] /\ Row(r).approved \in BOOLEAN
    BY <1>2 DEF Batch
  <1>s. {"submitted", "rejected", "approved"} \subseteq BatchStatus
    BY DEF BatchStatus
  <1>3. CASE CreateItems(r)
    <2> DEFINE f == [i \in Items |-> "pending"]
    <2>1. f \in [Items -> ItemStatus \cup {"none"}]
      BY DEF ItemStatus
    <2>2. Store(r, [Row(r) EXCEPT !.items = f])
      BY <1>3 DEF CreateItems
    <2>3. \A i \in Items : Row(r).items[i] = "none"
      BY <1>3 DEF IInv, CreatorsAreAlone, NoItems, CreateItems, Row
    <2> HIDE DEF f
    <2>4. RowGrows(Row(r), [Row(r) EXCEPT !.items = f])
      BY <1>2, <2>1, <2>3, ItemUpdates DEF RowGrows
    <2>5. ~ApproveWrite(r)
      BY <1>3 DEF CreateItems, ApproveWrite
    <2> QED
      BY <1>1, <1>2, <1>3, <2>1, <2>2, <2>4, <2>5, ItemUpdates
  <1>4. CASE SubmitWrite(r)
    <2>1. Store(r, [Row(r) EXCEPT !.status = "submitted"]) /\ ~ApproveWrite(r)
      BY <1>4 DEF SubmitWrite, ApproveWrite
    <2> QED
      BY <1>1, <1>2, <1>s, <2>1, RowUpdates
  <1>5. CASE RejectWrite(r)
    <2>1. Store(r, [Row(r) EXCEPT !.status = "rejected"]) /\ ~ApproveWrite(r)
      BY <1>5 DEF RejectWrite, ApproveWrite
    <2> QED
      BY <1>1, <1>2, <1>s, <2>1, RowUpdates
  <1>6. CASE ApproveWrite(r)
    <2>1. Store(r, [Row(r) EXCEPT !.status = "approved", !.approved = TRUE])
      BY <1>6 DEF ApproveWrite
    <2> QED
      BY <1>1, <1>2, <1>s, <2>1, RowUpdates
  <1>7. CASE ApproveItems(r)
    <2> DEFINE f == Stamp(Row(r).items, {"pending"}, "approved")
    <2>1. f \in [Items -> ItemStatus \cup {"none"}]
      BY <1>f DEF Stamp, ItemStatus
    <2>2. \A i \in Items : f[i] = IF Row(r).items[i] = "pending" THEN "approved" ELSE Row(r).items[i]
      BY DEF Stamp
    <2>3. Store(r, [Row(r) EXCEPT !.items = f])
      BY <1>2, <1>7 DEF ApproveItems, Batch
    <2> HIDE DEF f
    <2>4. RowGrows(Row(r), [Row(r) EXCEPT !.items = f])
      BY <1>2, <2>1, <2>2, ItemUpdates DEF RowGrows
    <2>5. StaysBare(Row(r), [Row(r) EXCEPT !.items = f])
      BY <1>2, <2>1, <2>2, ItemUpdates DEF StaysBare
    <2>6. ~ApproveWrite(r)
      BY <1>7 DEF ApproveItems, ApproveWrite
    <2> QED
      BY <1>1, <1>2, <2>1, <2>3, <2>4, <2>5, <2>6, ItemUpdates
  <1>8. CASE DisputeWrite(r)
    <2>0. req[r].item \in Items /\ Row(r).items[req[r].item] # "none"
      BY <1>0, <1>8, RequestShape DEF DisputeWrite, DisputeOps, Sound, Row
    <2> DEFINE f == [Row(r).items EXCEPT ![req[r].item] = "disputed"]
    <2>1. f \in [Items -> ItemStatus \cup {"none"}]
      BY <1>f DEF ItemStatus
    <2>2. \A i \in Items : f[i] = IF i = req[r].item THEN "disputed" ELSE Row(r).items[i]
      BY <1>f
    <2>3. Store(r, [Row(r) EXCEPT !.items = f])
      BY <1>2, <1>8 DEF DisputeWrite, Batch
    <2> HIDE DEF f
    <2>4. RowGrows(Row(r), [Row(r) EXCEPT !.items = f])
      BY <1>2, <2>1, <2>2, ItemUpdates DEF RowGrows
    <2>5. StaysBare(Row(r), [Row(r) EXCEPT !.items = f])
      BY <2>0 DEF StaysBare
    <2>6. ~ApproveWrite(r)
      BY <1>8 DEF DisputeWrite, ApproveWrite
    <2> QED
      BY <1>1, <1>2, <2>1, <2>3, <2>4, <2>5, <2>6, ItemUpdates
  <1> QED
    BY <1>3, <1>4, <1>5, <1>6, <1>7, <1>8

-----------------------------------------------------------------------------
(* What every step of a request does to the batches *)

Moves(r) == Arrive(r) \/ Continue(r) \/ Abort(r)

Grows ==
    /\ batch' \in Seq(Batch)
    /\ BatchIds \subseteq BatchIds'
    /\ \A b \in BatchIds : RowGrows(batch[b], batch'[b])

\* The row that create.insert appends is bare, and its id was never used.
LEMMA InsertedRow ==
    ASSUME IInv, NEW r \in Requests, CreateInsert(r)
    PROVE  /\ Grows
           /\ BatchIds' = BatchIds \cup {Len(batch) + 1}
           /\ Len(batch) + 1 \notin BatchIds
           /\ \A b \in BatchIds : batch'[b] = batch[b]
           /\ \A i \in Items : batch'[Len(batch) + 1].items[i] = "none"
           /\ batch'[Len(batch) + 1].scope = req[r].scope
           /\ batch'[Len(batch) + 1].status = "draft"
           /\ UNCHANGED <<candidate, token>>
  <1> DEFINE row == [scope |-> req[r].scope, status |-> "draft", approved |-> FALSE,
                     items |-> [i \in Items |-> "none"]]
             n == Len(batch) + 1
  <1>0. ApprovalTypeOK /\ req[r].scope \in Scopes
    BY RequestShape DEF IInv, ApprovalTypeOK, CreateInsert
  <1>1. /\ row \in Batch /\ \A i \in Items : row.items[i] = "none"
        /\ row.scope = req[r].scope /\ row.status = "draft"
    BY <1>0 DEF Batch, BatchStatus, ItemStatus
  <1>2. batch' = Append(batch, row) /\ UNCHANGED <<candidate, token>>
    BY DEF CreateInsert
  <1> HIDE DEF row
  <1>3. /\ batch' \in Seq(Batch)
        /\ Len(batch') = n
        /\ \A b \in 1..Len(batch) : batch'[b] = batch[b]
        /\ batch'[n] = row
    BY <1>0, <1>1, <1>2, AppendProperties DEF ApprovalTypeOK
  <1>4. BatchIds = 1..Len(batch) /\ BatchIds' = 1..Len(batch') /\ Len(batch) \in Nat
    BY <1>0, <1>3, LenProperties DEF ApprovalTypeOK, BatchIds
  <1>5. \A b \in BatchIds : RowGrows(batch[b], batch'[b])
    BY <1>3, <1>4 DEF RowGrows
  <1> QED
    BY <1>1, <1>2, <1>3, <1>4, <1>5 DEF Grows

\* A step updates one row, inserts one, or leaves the batches alone.
LEMMA BatchSteps ==
    ASSUME IInv, NEW r \in Requests, Moves(r)
    PROVE  \/ CreateItems(r) \/ SubmitWrite(r) \/ ApproveWrite(r)
           \/ ApproveItems(r) \/ RejectWrite(r) \/ DisputeWrite(r)
           \/ CreateInsert(r)
           \/ batch' = batch
  BY DEF Moves, Arrive, Continue, Abort, CreateRead, SubmitRead, GenerateToken, InternalApprove,
     ClientApproveByToken, ApproveRead, InternalReject, ClientRejectByToken, DisputeRead, BatchRead,
     ApproveGuard, RejectGuard, PeriodGuard, HookBatch, HookExisting, HookItems, HookInsert,
     DisputeItem, Only

LEMMA UpdateGrows ==
    ASSUME IInv, NEW r \in Requests,
           \/ CreateItems(r) \/ SubmitWrite(r) \/ ApproveWrite(r)
           \/ ApproveItems(r) \/ RejectWrite(r) \/ DisputeWrite(r)
    PROVE  /\ Grows
           /\ BatchIds' = BatchIds
           /\ UNCHANGED <<candidate, token>>
           /\ \A b \in BatchIds :
                 (CreateItems(r) /\ b = req[r].batch) \/ StaysBare(batch[b], batch'[b])
           /\ ApproveWrite(r) => batch'[req[r].batch].approved
  <1>0. ApprovalTypeOK /\ req[r].batch \in BatchIds
    BY StoredRow DEF IInv
  <1>1. PICK row \in Batch :
           /\ Store(r, row)
           /\ RowGrows(Row(r), row)
           /\ CreateItems(r) \/ StaysBare(Row(r), row)
           /\ ApproveWrite(r) => row.approved
    BY StoredRow
  <1>2. /\ batch' \in Seq(Batch)
        /\ BatchIds' = BatchIds
        /\ \A b \in BatchIds : batch'[b] = IF b = req[r].batch THEN row ELSE batch[b]
        /\ UNCHANGED <<candidate, token>>
    BY <1>0, <1>1, StoreRow
  <1>3. \A b \in BatchIds : RowGrows(batch[b], batch[b]) /\ StaysBare(batch[b], batch[b])
    BY DEF RowGrows, StaysBare
  <1>4. \A b \in BatchIds : RowGrows(batch[b], batch'[b])
    BY <1>1, <1>2, <1>3 DEF Row
  <1>5. \A b \in BatchIds :
           (CreateItems(r) /\ b = req[r].batch) \/ StaysBare(batch[b], batch'[b])
    BY <1>1, <1>2, <1>3 DEF Row
  <1> QED
    BY <1>0, <1>1, <1>2, <1>4, <1>5 DEF Grows

LEMMA StepGrows ==
    ASSUME IInv, NEW r \in Requests, Moves(r)
    PROVE  /\ Grows
           /\ \A b \in BatchIds :
                 (CreateItems(r) /\ b = req[r].batch) \/ StaysBare(batch[b], batch'[b])
  <1>1. CASE batch' = batch
    BY <1>1 DEF Grows, RowGrows, StaysBare, IInv, ApprovalTypeOK, BatchIds
  <1>2. CASE CreateInsert(r)
    BY <1>2, InsertedRow DEF StaysBare
  <1> QED
    BY <1>1, <1>2, BatchSteps, UpdateGrows

\* What a request has learnt stays true while others, or itself, write.
LEMMA SoundStays ==
    ASSUME IInv, Grows, NEW h \in Request, Sound(h)
    PROVE  Sound(h)'
  <1>1. h.at \in OnBatch => h.batch \in BatchIds /\ h.batch \in BatchIds'
    BY DEF Sound, Grows
  <1>2. h.at \in AfterApproval \cup {"hook.insert", "dispute.write"} => h.at \in OnBatch
    BY DEF AfterApproval, OnBatch, BatchOps, ApproveOps, DisputeOps
  <1>3. h.at \in AfterApproval => batch'[h.batch].approved
    BY <1>1, <1>2 DEF Sound, Grows, RowGrows
  <1>4. ASSUME h.at = "hook.insert", NEW i \in h.lines
        PROVE  batch'[h.batch].items[i] \in {"approved", "disputed"}
    <2>1. i \in Items
      BY <1>4, RequestShape
    <2> QED
      BY <1>1, <1>2, <1>4, <2>1 DEF Sound, ItemsReached, Grows, RowGrows
  <1>5. h.at = "dispute.write" => batch'[h.batch].items[h.item] # "none"
    BY <1>1, <1>2, RequestShape DEF Sound, Grows, RowGrows, DisputeOps
  <1> QED
    BY <1>1, <1>3, <1>4, <1>5 DEF Sound, ItemsReached

-----------------------------------------------------------------------------
(* What the request that moves holds afterwards *)

\* Request r goes on to hold h, which is sound in the new state.
HoldsSoundly(r, h) ==
    /\ req' = [req EXCEPT ![r] = h]
    /\ Sound(h)'
    /\ h.at = "create.items" => CreateInsert(r) /\ h.batch = Len(batch) + 1
    /\ h.at = "hook.insert" =>
          HookItems(r) /\ h.batch = req[r].batch /\ h.lines = Billable(req[r].batch)

LEMMA ReturnOK ==
    ASSUME NEW r \in Requests, Return(r)
    PROVE  \E h \in Request : HoldsSoundly(r, h)
  <1>1. Idle \in Request /\ Idle.at = "idle"
    BY DEF Request, Idle
  <1>2. PICK h \in Request : h = Idle /\ h.at = "idle"
    BY <1>1
  <1>3. Sound(h)'
    BY <1>2 DEF Sound, OnBatch, BatchOps, ApproveOps, DisputeOps, AfterApproval
  <1> QED
    BY <1>2, <1>3 DEF Return, Goto, HoldsSoundly

\* The first statement of a mutation holds the id of a batch it has just read.
LEMMA ReadOK ==
    ASSUME IInv, NEW r \in Requests, NEW b \in BatchIds, NEW status, NEW h \in Request,
           h.batch = b,
           h.at \in {"submit.write", "approve.guard", "reject.guard", "reject.write", "dispute.item"},
           BatchRead(r, b, status, h)
    PROVE  HoldsSoundly(r, h)
  <1>1. req' = [req EXCEPT ![r] = h] /\ batch' = batch
    BY DEF BatchRead, Only, Goto
  <1>2. Sound(h)'
    BY <1>1 DEF Sound, BatchIds, AfterApproval
  <1> QED
    BY <1>1, <1>2 DEF HoldsSoundly

LEMMA ArriveOK ==
    ASSUME IInv, NEW r \in Requests, Arrive(r)
    PROVE  \E h \in Request : HoldsSoundly(r, h)
  <1>0. \A b \in BatchIds : b \in Nat \ {0}
    BY BatchShape DEF IInv
  <1>1. ASSUME NEW s \in Scopes, CreateRead(r, s)
        PROVE  \E h \in Request : HoldsSoundly(r, h)
    <2>1. PICK h : h = [at |-> "create.insert", scope |-> s]
      OBVIOUS
    <2>2. h \in Request /\ h.at = "create.insert"
      BY <2>1 DEF Request, CreateOps
    <2>3. Sound(h)'
      BY <2>2 DEF Sound, OnBatch, BatchOps, ApproveOps, DisputeOps, AfterApproval
    <2> QED
      BY <1>1, <2>1, <2>2, <2>3 DEF CreateRead, Only, Goto, HoldsSoundly
  <1>2. ASSUME NEW b \in BatchIds, SubmitRead(r, b)
        PROVE  \E h \in Request : HoldsSoundly(r, h)
    <2>1. PICK h : h = [at |-> "submit.write", batch |-> b]
      OBVIOUS
    <2>2. h \in Request /\ h.batch = b /\ h.at = "submit.write"
      BY <1>0, <2>1 DEF Request, BatchOps
    <2>3. BatchRead(r, b, "draft", h)
      BY <1>2, <2>1 DEF SubmitRead
    <2> QED
      BY <2>2, <2>3, ReadOK
  <1>3. ASSUME NEW b \in BatchIds, GenerateToken(r, b)
        PROVE  \E h \in Request : HoldsSoundly(r, h)
    <2>1. Return(r)
      BY <1>3 DEF GenerateToken, Return, Goto, IInv, ApprovalTypeOK
    <2> QED
      BY <2>1, ReturnOK
  <1>4. ASSUME NEW b \in BatchIds, NEW source \in Source, ApproveRead(r, b, source)
        PROVE  \E h \in Request : HoldsSoundly(r, h)
    <2>1. PICK h : h = [at |-> "approve.guard", batch |-> b, source |-> source]
      OBVIOUS
    <2>2. h \in Request /\ h.batch = b /\ h.at = "approve.guard"
      BY <1>0, <2>1 DEF Request, ApproveOps
    <2>3. BatchRead(r, b, "submitted", h)
      BY <1>4, <2>1 DEF ApproveRead
    <2> QED
      BY <2>2, <2>3, ReadOK
  <1>5. ASSUME NEW b \in BatchIds, InternalReject(r, b)
        PROVE  \E h \in Request : HoldsSoundly(r, h)
    <2>1. PICK h : h = [at |-> "reject.write", batch |-> b]
      OBVIOUS
    <2>2. h \in Request /\ h.batch = b /\ h.at = "reject.write"
      BY <1>0, <2>1 DEF Request, BatchOps
    <2>3. BatchRead(r, b, "submitted", h)
      BY <1>5, <2>1 DEF InternalReject
    <2> QED
      BY <2>2, <2>3, ReadOK
  <1>6. ASSUME NEW b \in BatchIds, ClientRejectByToken(r, b)
        PROVE  \E h \in Request : HoldsSoundly(r, h)
    <2>1. PICK h : h = [at |-> "reject.guard", batch |-> b]
      OBVIOUS
    <2>2. h \in Request /\ h.batch = b /\ h.at = "reject.guard"
      BY <1>0, <2>1 DEF Request, BatchOps
    <2>3. BatchRead(r, b, "submitted", h)
      BY <1>6, <2>1 DEF ClientRejectByToken
    <2> QED
      BY <2>2, <2>3, ReadOK
  <1>7. ASSUME NEW b \in BatchIds, NEW i \in Items, DisputeRead(r, b, i)
        PROVE  \E h \in Request : HoldsSoundly(r, h)
    <2>1. PICK h : h = [at |-> "dispute.item", batch |-> b, item |-> i]
      OBVIOUS
    <2>2. h \in Request /\ h.batch = b /\ h.at = "dispute.item"
      BY <1>0, <2>1 DEF Request
    <2>3. BatchRead(r, b, "submitted", h)
      BY <1>7, <2>1 DEF DisputeRead
    <2> QED
      BY <2>2, <2>3, ReadOK
  <1> QED
    BY <1>1, <1>2, <1>3, <1>4, <1>5, <1>6, <1>7
    DEF Arrive, InternalApprove, ClientApproveByToken, Source

\* A request that goes on with the batch it holds, if what it has just learnt or done
\* is what its next statement relies on.
LEMMA AdvanceOK ==
    ASSUME IInv, NEW r \in Requests, Moves(r), NEW at, Advance(r, at),
           \/ req[r].at \in BatchOps /\ at \in BatchOps
           \/ req[r].at \in ApproveOps /\ at \in ApproveOps
           \/ req[r].at \in DisputeOps /\ at \in DisputeOps,
           at # "create.items",
           at \in AfterApproval => req[r].at \in AfterApproval \/ batch'[req[r].batch].approved,
           at = "dispute.write" => Row(r).items[req[r].item] # "none"
    PROVE  \E h \in Request : HoldsSoundly(r, h)
  <1> DEFINE new == [req[r] EXCEPT !.at = at]
  <1>0. req[r] \in Request /\ Sound(req[r]) /\ Grows /\ ApprovalTypeOK
    BY StepGrows DEF IInv, ApprovalTypeOK
  <1>1. /\ new \in Request
        /\ new.at = at
        /\ new.batch = req[r].batch
        /\ req[r].at \in DisputeOps => new.item = req[r].item
    <2>1. req[r].at \in OnBatch
      BY DEF OnBatch
    <2> QED
      BY <1>0, <2>1, AdvanceShape
  <1>2. req' = [req EXCEPT ![r] = new]
    BY <1>0 DEF Advance, ApprovalTypeOK
  <1>3. req[r].at \in OnBatch /\ req[r].batch \in BatchIds /\ req[r].batch \in BatchIds'
    BY <1>0 DEF OnBatch, Sound, Grows
  <1>4. at \in AfterApproval => batch'[req[r].batch].approved
    BY <1>0, <1>3 DEF Sound, Grows, RowGrows
  <1>5. at = "dispute.write" => batch'[req[r].batch].items[req[r].item] # "none"
    <2>1. at = "dispute.write" => req[r].item \in Items
      BY <1>0, RequestShape DEF BatchOps, ApproveOps, DisputeOps
    <2> QED
      BY <1>0, <1>3, <2>1 DEF Grows, RowGrows, Row
  <1>6. at # "hook.insert" /\ (at = "dispute.write" => req[r].at \in DisputeOps)
    BY DEF BatchOps, ApproveOps, DisputeOps
  <1> HIDE DEF new
  <1>7. PICK h \in Request : h = new
    BY <1>1
  <1>8. PICK b, i : b = req[r].batch /\ i = req[r].item
    OBVIOUS
  <1>9. h.at = at /\ h.batch = b /\ (at = "dispute.write" => h.item = i)
    BY <1>1, <1>6, <1>7, <1>8
  <1>10. Sound(h)'
    BY <1>3, <1>4, <1>5, <1>6, <1>8, <1>9 DEF Sound
  <1> QED
    BY <1>2, <1>6, <1>7, <1>9, <1>10 DEF HoldsSoundly

LEMMA ContinueOK ==
    ASSUME IInv, NEW r \in Requests, Continue(r)
    PROVE  \E h \in Request : HoldsSoundly(r, h)
  <1>0. ApprovalTypeOK /\ Moves(r) /\ req[r] \in Request /\ Sound(req[r])
    BY DEF IInv, ApprovalTypeOK, Moves
  <1>1. CASE Return(r)
    BY <1>1, ReturnOK
  <1>2. CASE CreateInsert(r)
    <2>1. PICK n : n = Len(batch) + 1
      OBVIOUS
    <2>2. PICK h : h = [at |-> "create.items", batch |-> n]
      OBVIOUS
    <2>3. n \in Nat \ {0} /\ n \in BatchIds'
      BY <1>0, <1>2, <2>1, BatchShape, InsertedRow
    <2>4. h \in Request /\ h.at = "create.items" /\ h.batch = n
      BY <2>2, <2>3 DEF Request, BatchOps
    <2>5. Sound(h)'
      BY <2>3, <2>4 DEF Sound, AfterApproval
    <2>6. req' = [req EXCEPT ![r] = h]
      BY <1>2, <2>1, <2>2 DEF CreateInsert, Goto
    <2> QED
      BY <1>2, <2>1, <2>4, <2>5, <2>6 DEF HoldsSoundly
  <1>3. CASE ApproveGuard(r)
    <2>1. Return(r) \/ (Advance(r, "approve.write") /\ req[r].at = "approve.guard")
      BY <1>3 DEF ApproveGuard, PeriodGuard, Only
    <2> QED
      BY <1>0, <1>1, <2>1, AdvanceOK DEF ApproveOps, AfterApproval
  <1>4. CASE RejectGuard(r)
    <2>1. Return(r) \/ (Advance(r, "reject.write") /\ req[r].at = "reject.guard")
      BY <1>4 DEF RejectGuard, PeriodGuard, Only
    <2> QED
      BY <1>0, <1>1, <2>1, AdvanceOK DEF BatchOps, AfterApproval
  <1>5. CASE ApproveWrite(r)
    <2>1. Advance(r, "approve.items") /\ req[r].at = "approve.write"
      BY <1>5 DEF ApproveWrite
    <2>2. batch'[req[r].batch].approved
      BY <1>5, UpdateGrows
    <2> QED
      BY <1>0, <2>1, <2>2, AdvanceOK DEF ApproveOps
  <1>6. CASE ApproveItems(r)
    <2>1. Advance(r, "hook.batch") /\ req[r].at = "approve.items"
      BY <1>6 DEF ApproveItems
    <2> QED
      BY <1>0, <2>1, AdvanceOK DEF ApproveOps, AfterApproval
  <1>7. CASE HookBatch(r)
    <2>1. Return(r) \/ (Advance(r, "hook.existing") /\ req[r].at = "hook.batch")
      BY <1>7 DEF HookBatch, Only
    <2> QED
      BY <1>0, <1>1, <2>1, AdvanceOK DEF ApproveOps, AfterApproval
  <1>8. CASE HookExisting(r)
    <2>1. Return(r) \/ (Advance(r, "hook.items") /\ req[r].at = "hook.existing")
      BY <1>8 DEF HookExisting, Only
    <2> QED
      BY <1>0, <1>1, <2>1, AdvanceOK DEF ApproveOps, AfterApproval
  <1>9. CASE HookItems(r) /\ ~Return(r)
    <2>0. req[r].at = "hook.items" /\ req[r].at \in OnBatch /\ req[r].at \in AfterApproval
      BY <1>9 DEF HookItems, OnBatch, ApproveOps, AfterApproval
    <2>1. PICK b, source, lines :
             b = req[r].batch /\ source = req[r].source /\ lines = Billable(req[r].batch)
      OBVIOUS
    <2>2. PICK h : h = [at |-> "hook.insert", batch |-> b, source |-> source, lines |-> lines]
      OBVIOUS
    <2>3. /\ b \in Nat \ {0} /\ source \in Source /\ lines \in SUBSET Items
          /\ b \in BatchIds /\ batch[b].approved
      BY <1>0, <2>0, <2>1, RequestShape DEF Billable, Sound, OnBatch, ApproveOps
    <2>4. h \in Request /\ h.at = "hook.insert" /\ h.batch = b /\ h.lines = lines
      BY <2>2, <2>3 DEF Request
    <2>5. req' = [req EXCEPT ![r] = h] /\ batch' = batch /\ lines # {}
      BY <1>9, <2>1, <2>2 DEF HookItems, Only, Goto
    <2>6. \A i \in lines : batch[b].items[i] = "approved"
      BY <2>1 DEF Billable
    <2>7. Sound(h)'
      BY <2>3, <2>4, <2>5, <2>6 DEF Sound, ItemsReached, BatchIds
    <2> QED
      BY <1>9, <2>1, <2>4, <2>5, <2>7 DEF HoldsSoundly
  <1>10. CASE DisputeItem(r)
    <2>1. Return(r) \/ (/\ Advance(r, "dispute.write") /\ req[r].at = "dispute.item"
                        /\ Row(r).items[req[r].item] = "pending")
      BY <1>10 DEF DisputeItem, Only
    <2> QED
      BY <1>0, <1>1, <2>1, AdvanceOK DEF DisputeOps, AfterApproval
  <1> QED
    BY <1>1, <1>2, <1>3, <1>4, <1>5, <1>6, <1>7, <1>8, <1>9, <1>10
    DEF Continue, CreateItems, SubmitWrite, HookInsert, RejectWrite, DisputeWrite

LEMMA MoverOK ==
    ASSUME IInv, NEW r \in Requests, Moves(r)
    PROVE  \E h \in Request : HoldsSoundly(r, h)
  <1>1. CASE Abort(r)
    BY <1>1, ReturnOK DEF Abort, Only
  <1> QED
    BY <1>1, ArriveOK, ContinueOK DEF Moves

-----------------------------------------------------------------------------
(* Every step keeps the invariant *)

LEMMA MoveKeepsRequests ==
    ASSUME IInv, NEW r \in Requests, Moves(r)
    PROVE  /\ req' \in [Requests -> Request]
           /\ \A q \in Requests : Sound(req[q])'
           /\ CreatorsAreAlone'
  <1>0. ApprovalTypeOK /\ CreatorsAreAlone /\ Grows
    BY StepGrows DEF IInv
  <1>1. PICK h \in Request : HoldsSoundly(r, h)
    BY MoverOK
  <1>2. /\ req' \in [Requests -> Request]
        /\ req'[r] = h
        /\ \A q \in Requests : q # r => req'[q] = req[q]
    BY <1>0, <1>1 DEF HoldsSoundly, ApprovalTypeOK
  <1>3. ASSUME NEW q \in Requests PROVE Sound(req[q])'
    <2>1. CASE q = r
      BY <1>1, <1>2, <2>1 DEF HoldsSoundly, Sound, ItemsReached
    <2>2. CASE q # r
      <3>1. PICK g \in Request : g = req[q]
        BY <1>0 DEF ApprovalTypeOK
      <3>2. Sound(g)
        BY <3>1 DEF IInv
      <3>3. Sound(g)'
        BY <1>0, <3>2, SoundStays
      <3> QED
        BY <1>2, <2>2, <3>1, <3>3 DEF Sound, ItemsReached
    <2> QED
      BY <2>1, <2>2
  \* A creator of the next state is an old one that did not move, or has just inserted its batch.
  <1>4. ASSUME NEW q \in Requests, req'[q].at = "create.items"
        PROVE  \/ q # r /\ req'[q] = req[q] /\ req[q].batch \in BatchIds
               \/ q = r /\ CreateInsert(r) /\ req'[q].batch = Len(batch) + 1
    <2>1. CASE q = r
      BY <1>1, <1>2, <1>4, <2>1 DEF HoldsSoundly
    <2>2. CASE q # r
      BY <1>2, <1>4, <2>2 DEF IInv, Sound, OnBatch, BatchOps
    <2> QED
      BY <2>1, <2>2
  <1>5. ASSUME NEW q \in Requests, req'[q].at = "create.items"
        PROVE  \A i \in Items : batch'[req'[q].batch].items[i] = "none"
    <2>1. CASE q = r
      BY <1>4, <1>5, <2>1, InsertedRow
    <2>2. CASE q # r
      <3>1. /\ req'[q] = req[q] /\ req[q].batch \in BatchIds
            /\ \A i \in Items : batch[req[q].batch].items[i] = "none"
        BY <1>0, <1>4, <1>5, <2>2 DEF CreatorsAreAlone, NoItems
      <3>2. ~(CreateItems(r) /\ req[q].batch = req[r].batch)
        BY <1>0, <1>5, <2>2, <3>1 DEF CreatorsAreAlone, CreateItems
      <3> QED
        BY <3>1, <3>2, StepGrows DEF StaysBare
    <2> QED
      BY <2>1, <2>2
  <1>6. ASSUME NEW q \in Requests, req'[q].at = "create.items",
               NEW p \in Requests, req'[p].at = "create.items", req'[p].batch = req'[q].batch
        PROVE  p = q
    <2>1. CASE p # r /\ q # r
      BY <1>0, <1>4, <1>6, <2>1 DEF CreatorsAreAlone
    <2>2. CASE p = r \/ q = r
      BY <1>4, <1>6, <2>2, InsertedRow
    <2> QED
      BY <2>1, <2>2
  <1> QED
    BY <1>2, <1>3, <1>5, <1>6 DEF CreatorsAreAlone, NoItems

LEMMA MoveKeepsCandidates ==
    ASSUME IInv, NEW r \in Requests, Moves(r)
    PROVE  /\ candidate' \in Seq(Candidate)
           /\ CandidatesAreSound'
           /\ \A c \in DOMAIN candidate' :
                 \/ c \in DOMAIN candidate /\ candidate'[c] = candidate[c]
                 \/ /\ HookInsert(r) /\ CandidatesOf(req[r].batch) = {}
                    /\ c = Len(candidate) + 1 /\ candidate'[c].batch = req[r].batch
                    /\ candidate'[c].lines = req[r].lines
  <1>0. ApprovalTypeOK /\ CandidatesAreSound /\ Grows
    BY StepGrows DEF IInv
  <1>1. candidate \in Seq(Candidate) /\ DOMAIN candidate = 1..Len(candidate) /\ Len(candidate) \in Nat
    BY <1>0, LenProperties DEF ApprovalTypeOK
  <1>c. \A c \in DOMAIN candidate : candidate[c].lines \in SUBSET Items
    <2>1. \A c \in DOMAIN candidate : candidate[c] \in Candidate
      BY <1>1, ElementOfSeq
    <2> QED
      BY <2>1 DEF Candidate
  \* The candidates that were there keep what is said of them.
  <1>2. ASSUME NEW c \in DOMAIN candidate
        PROVE  /\ candidate[c].batch \in BatchIds'
               /\ batch'[candidate[c].batch].approved
               /\ candidate[c].lines # {}
               /\ \A i \in candidate[c].lines :
                     batch'[candidate[c].batch].items[i] \in {"approved", "disputed"}
    BY <1>0, <1>c DEF CandidatesAreSound, ItemsReached, Grows, RowGrows
  <1>3. CASE candidate' = candidate
    BY <1>1, <1>2, <1>3 DEF CandidatesAreSound, ItemsReached
  <1>4. CASE HookInsert(r) /\ candidate' # candidate
    <2> DEFINE row == [batch |-> req[r].batch, source |-> req[r].source, lines |-> req[r].lines]
    <2>0. req[r] \in Request /\ Sound(req[r]) /\ req[r].at = "hook.insert"
      BY <1>0, <1>4 DEF IInv, ApprovalTypeOK, HookInsert
    <2>1. row \in Candidate
      BY <2>0, RequestShape DEF Candidate, OnBatch
    <2>2. row.batch = req[r].batch /\ row.lines = req[r].lines
      OBVIOUS
    <2>3. candidate' = Append(candidate, row) /\ CandidatesOf(req[r].batch) = {} /\ batch' = batch
      BY <1>4 DEF HookInsert, BatchKeyCollision
    <2> HIDE DEF row
    <2>4. /\ candidate' \in Seq(Candidate)
          /\ DOMAIN candidate' = 1..(Len(candidate) + 1)
          /\ \A c \in 1..Len(candidate) : candidate'[c] = candidate[c]
          /\ candidate'[Len(candidate) + 1] = row
      BY <1>1, <2>1, <2>3, AppendProperties, LenProperties
    <2>5. \A c \in DOMAIN candidate' :
             \/ c \in DOMAIN candidate /\ candidate'[c] = candidate[c]
             \/ c = Len(candidate) + 1 /\ candidate'[c] = row
      BY <1>1, <2>4
    <2>6. /\ row.batch \in BatchIds
          /\ batch[row.batch].approved
          /\ row.lines # {}
          /\ \A i \in row.lines : batch[row.batch].items[i] \in {"approved", "disputed"}
      BY <2>0, <2>2 DEF Sound, ItemsReached, OnBatch, AfterApproval
    <2>7. CandidatesAreSound'
      BY <1>2, <2>3, <2>5, <2>6 DEF CandidatesAreSound, ItemsReached, BatchIds
    <2> QED
      BY <1>4, <2>2, <2>3, <2>4, <2>5, <2>7
  <1>5. candidate' = candidate \/ HookInsert(r)
    <2>1. CASE \/ CreateItems(r) \/ SubmitWrite(r) \/ ApproveWrite(r)
               \/ ApproveItems(r) \/ RejectWrite(r) \/ DisputeWrite(r)
      BY <2>1, UpdateGrows
    <2>2. CASE CreateInsert(r)
      BY <2>2, InsertedRow
    <2> QED
      BY <2>1, <2>2
      DEF Moves, Arrive, Continue, Abort, CreateRead, SubmitRead, GenerateToken, InternalApprove,
          ClientApproveByToken, ApproveRead, InternalReject, ClientRejectByToken, DisputeRead,
          BatchRead, ApproveGuard, RejectGuard, PeriodGuard, HookBatch, HookExisting, HookItems,
          DisputeItem, Only
  <1> QED
    BY <1>3, <1>4, <1>5

LEMMA MoveOK ==
    ASSUME IInv, NEW r \in Requests, Moves(r), UNCHANGED periodVars
    PROVE  IInv'
  <1>1. Grows /\ ApprovalTypeOK /\ PeriodInv
    BY StepGrows DEF IInv
  <1>2. token' \subseteq BatchIds'
    <2>1. CASE \/ CreateItems(r) \/ SubmitWrite(r) \/ ApproveWrite(r)
               \/ ApproveItems(r) \/ RejectWrite(r) \/ DisputeWrite(r)
      BY <1>1, <2>1, UpdateGrows DEF ApprovalTypeOK
    <2>2. CASE CreateInsert(r)
      BY <1>1, <2>2, InsertedRow DEF ApprovalTypeOK
    <2>3. CASE UNCHANGED token
      BY <1>1, <2>3 DEF ApprovalTypeOK, Grows
    <2>4. ASSUME NEW b \in BatchIds, GenerateToken(r, b) PROVE token' \subseteq BatchIds'
      BY <1>1, <2>4 DEF GenerateToken, ApprovalTypeOK, Grows
    <2> QED
      BY <2>1, <2>2, <2>3, <2>4
      DEF Moves, Arrive, Continue, Abort, CreateRead, SubmitRead, InternalApprove,
          ClientApproveByToken, ApproveRead, InternalReject, ClientRejectByToken, DisputeRead,
          BatchRead, ApproveGuard, RejectGuard, PeriodGuard, HookBatch, HookExisting, HookItems,
          HookInsert, DisputeItem, Only
  <1>3. ApprovalTypeOK'
    BY <1>1, <1>2, MoveKeepsRequests, MoveKeepsCandidates DEF ApprovalTypeOK, Grows
  <1>4. PeriodInv'
    BY <1>1, PeriodStutterOK
  <1> QED
    BY <1>3, <1>4, MoveKeepsRequests, MoveKeepsCandidates DEF IInv

LEMMA ApprovalUnchangedOK ==
    ASSUME IInv, UNCHANGED approvalVars, PeriodInv'
    PROVE  IInv'
  BY DEF IInv, ApprovalTypeOK, Sound, CreatorsAreAlone, CandidatesAreSound, ItemsReached, NoItems,
         BatchIds, approvalVars

LEMMA InitOK == Init => IInv
  <1> SUFFICES ASSUME Init PROVE IInv
    OBVIOUS
  <1>1. PeriodInv
    BY PeriodInitOK DEF Init
  <1>2. /\ batch = << >> /\ candidate = << >>
        /\ DOMAIN batch = {} /\ DOMAIN candidate = {}
        /\ token = {} /\ req = [r \in Requests |-> Idle]
    BY DEF Init
  <1>3. Idle \in Request /\ Idle.at = "idle"
    BY DEF Request, Idle
  <1>4. ApprovalTypeOK
    BY <1>2, <1>3, EmptySeq DEF ApprovalTypeOK
  <1>5. \A r \in Requests : Sound(req[r])
    BY <1>2, <1>3 DEF Sound, OnBatch, BatchOps, ApproveOps, DisputeOps, AfterApproval
  <1>6. CreatorsAreAlone
    BY <1>2, <1>3 DEF CreatorsAreAlone
  <1>7. CandidatesAreSound
    BY <1>2 DEF CandidatesAreSound
  <1> QED
    BY <1>1, <1>4, <1>5, <1>6, <1>7 DEF IInv

\* A step is a statement of a request, one of the period lock's, or nothing.
LEMMA NextSteps ==
    ASSUME [Next]_vars
    PROVE  \/ \E r \in Requests : Moves(r) /\ UNCHANGED periodVars
           \/ UNCHANGED approvalVars /\ \E o \in Officers : PeriodStep(o) \/ AbortPeriod(o)
           \/ UNCHANGED approvalVars /\ UNCHANGED periodVars
  BY DEF Next, Step, LockStep, Crash, Moves, vars, approvalVars, periodVars

LEMMA StepOK == IInv /\ [Next]_vars => IInv'
  <1> SUFFICES ASSUME IInv, [Next]_vars PROVE IInv'
    OBVIOUS
  <1>1. ASSUME NEW r \in Requests, Moves(r), UNCHANGED periodVars PROVE IInv'
    BY <1>1, MoveOK
  <1>2. ASSUME UNCHANGED approvalVars, NEW o \in Officers, PeriodStep(o) \/ AbortPeriod(o)
        PROVE  IInv'
    BY <1>2, PeriodStepOK, ApprovalUnchangedOK DEF IInv
  <1>3. ASSUME UNCHANGED approvalVars, UNCHANGED periodVars PROVE IInv'
    BY <1>3, PeriodStutterOK, ApprovalUnchangedOK DEF IInv
  <1> QED
    BY <1>1, <1>2, <1>3, NextSteps

-----------------------------------------------------------------------------
(* The theorems *)

\* The inductive invariant holds in every behaviour, with crashes and period changes.
THEOREM ApprovalInvariance == Spec => []IInv
  BY InitOK, StepOK, PTL DEF Spec

\* Every table and every request stay within their types.
THEOREM ApprovalTypeCorrect == Spec => []TypeOK
  <1>1. IInv => TypeOK
    BY DEF IInv, ApprovalTypeOK, PeriodInv, TypeOK
  <1> QED
    BY <1>1, ApprovalInvariance, PTL

\* Nothing is billed but items that an approval reached, of a batch that was approved.
THEOREM BilledWasApproved == Spec => []CandidateWasApproved
  <1>1. IInv => CandidateWasApproved
    BY DEF IInv, CandidatesAreSound, ItemsReached, CandidateWasApproved
  <1> QED
    BY <1>1, ApprovalInvariance, PTL

-----------------------------------------------------------------------------
(* Nothing that is approved is left out of the candidate *)

\* The items of a batch are all inserted before any is approved, and are approved together.
Stamped(v) ==
    (\E i \in Items : v.items[i] = "approved") => \A i \in Items : v.items[i] # "pending"

\* Lines that nothing can be added to: no item waits any more, and all that is approved is there.
Complete(b, lines) ==
    /\ \A i \in Items : batch[b].items[i] # "pending"
    /\ \A i \in Items : batch[b].items[i] = "approved" => i \in lines

CompleteInv ==
    /\ \A b \in BatchIds : Stamped(batch[b])
    /\ \A r \in Requests : req[r].at = "hook.insert" => Complete(req[r].batch, req[r].lines)
    /\ \A c \in DOMAIN candidate : Complete(candidate[c].batch, candidate[c].lines)

\* An update keeps a row stamped, and approves nothing in a row that has items and none pending.
RowSettles(v, w) ==
    /\ Stamped(v) => Stamped(w)
    /\ (\A i \in Items : v.items[i] # "pending") /\ (\E i \in Items : v.items[i] # "none") =>
          /\ \A i \in Items : w.items[i] # "pending"
          /\ \A i \in Items : w.items[i] = "approved" => v.items[i] = "approved"

LEMMA SettledRow ==
    ASSUME IInv, NEW r \in Requests,
           \/ CreateItems(r) \/ SubmitWrite(r) \/ ApproveWrite(r)
           \/ ApproveItems(r) \/ RejectWrite(r) \/ DisputeWrite(r)
    PROVE  \E row \in Batch : Store(r, row) /\ RowSettles(Row(r), row)
  <1>0. ApprovalTypeOK /\ Sound(req[r]) /\ req[r] \in Request /\ req[r].batch \in BatchIds
    BY StoredRow DEF IInv, ApprovalTypeOK
  <1>2. Row(r) \in Batch
    BY <1>0, BatchShape DEF Row
  <1>f. Row(r).items \in [Items -> ItemStatus \cup {"none"}]
    BY <1>2 DEF Batch
  <1>3. CASE CreateItems(r)
    <2> DEFINE f == [i \in Items |-> "pending"]
    <2>1. f \in [Items -> ItemStatus \cup {"none"}] /\ \A i \in Items : f[i] = "pending"
      BY DEF ItemStatus
    <2>2. Store(r, [Row(r) EXCEPT !.items = f])
      BY <1>3 DEF CreateItems
    <2>3. \A i \in Items : Row(r).items[i] = "none"
      BY <1>3 DEF IInv, CreatorsAreAlone, NoItems, CreateItems, Row
    <2> HIDE DEF f
    <2>4. RowSettles(Row(r), [Row(r) EXCEPT !.items = f])
      BY <1>2, <2>1, <2>3, ItemUpdates DEF RowSettles, Stamped
    <2> QED
      BY <1>2, <2>1, <2>2, <2>4, ItemUpdates
  <1>4. CASE SubmitWrite(r) \/ RejectWrite(r)
    <2>1. PICK s \in BatchStatus : Store(r, [Row(r) EXCEPT !.status = s])
      BY <1>4 DEF SubmitWrite, RejectWrite, BatchStatus
    <2>2. [Row(r) EXCEPT !.status = s] \in Batch /\ [Row(r) EXCEPT !.status = s].items = Row(r).items
      BY <1>2 DEF Batch
    <2> QED
      BY <2>1, <2>2 DEF RowSettles, Stamped
  <1>5. CASE ApproveWrite(r)
    <2> DEFINE row == [Row(r) EXCEPT !.status = "approved", !.approved = TRUE]
    <2>1. Store(r, row) /\ row \in Batch /\ row.items = Row(r).items
      BY <1>2, <1>5 DEF ApproveWrite, Batch, BatchStatus
    <2> HIDE DEF row
    <2> QED
      BY <2>1 DEF RowSettles, Stamped
  <1>6. CASE ApproveItems(r)
    <2> DEFINE f == Stamp(Row(r).items, {"pending"}, "approved")
    <2>1. f \in [Items -> ItemStatus \cup {"none"}]
      BY <1>f DEF Stamp, ItemStatus
    <2>2. \A i \in Items : f[i] = IF Row(r).items[i] = "pending" THEN "approved" ELSE Row(r).items[i]
      BY DEF Stamp
    <2>3. Store(r, [Row(r) EXCEPT !.items = f])
      BY <1>2, <1>6 DEF ApproveItems, Batch
    <2> HIDE DEF f
    <2>4. RowSettles(Row(r), [Row(r) EXCEPT !.items = f])
      BY <1>2, <2>1, <2>2, ItemUpdates DEF RowSettles, Stamped
    <2> QED
      BY <1>2, <2>1, <2>3, <2>4, ItemUpdates
  <1>7. CASE DisputeWrite(r)
    <2>0. req[r].item \in Items
      BY <1>0, <1>7, RequestShape DEF DisputeWrite, DisputeOps
    <2> DEFINE f == [Row(r).items EXCEPT ![req[r].item] = "disputed"]
    <2>1. f \in [Items -> ItemStatus \cup {"none"}]
      BY <1>f DEF ItemStatus
    <2>2. \A i \in Items : f[i] = IF i = req[r].item THEN "disputed" ELSE Row(r).items[i]
      BY <1>f
    <2>3. Store(r, [Row(r) EXCEPT !.items = f])
      BY <1>2, <1>7 DEF DisputeWrite, Batch
    <2> HIDE DEF f
    <2>4. RowSettles(Row(r), [Row(r) EXCEPT !.items = f])
      BY <1>2, <2>1, <2>2, ItemUpdates DEF RowSettles, Stamped
    <2> QED
      BY <1>2, <2>1, <2>3, <2>4, ItemUpdates
  <1> QED
    BY <1>3, <1>4, <1>5, <1>6, <1>7

LEMMA StepSettles ==
    ASSUME IInv, NEW r \in Requests, Moves(r)
    PROVE  /\ BatchIds \subseteq BatchIds'
           /\ \A b \in BatchIds : RowSettles(batch[b], batch'[b])
           /\ \A b \in BatchIds' \ BatchIds : Stamped(batch'[b])
  <1>0. ApprovalTypeOK /\ \A b \in BatchIds : RowSettles(batch[b], batch[b])
    BY DEF IInv, RowSettles
  <1>1. CASE \/ CreateItems(r) \/ SubmitWrite(r) \/ ApproveWrite(r)
             \/ ApproveItems(r) \/ RejectWrite(r) \/ DisputeWrite(r)
    <2>1. PICK row \in Batch : Store(r, row) /\ RowSettles(Row(r), row)
      BY <1>1, SettledRow
    <2>2. req[r].batch \in BatchIds
      BY <1>1, StoredRow
    <2> QED
      BY <1>0, <2>1, <2>2, StoreRow DEF Row
  <1>2. CASE CreateInsert(r)
    BY <1>0, <1>2, InsertedRow DEF Stamped
  <1>3. CASE batch' = batch
    BY <1>0, <1>3 DEF BatchIds
  <1> QED
    BY <1>1, <1>2, <1>3, BatchSteps

\* Lines that an approval has reached stay complete.
LEMMA CompleteStays ==
    ASSUME IInv, NEW r \in Requests, Moves(r), NEW b \in BatchIds, NEW lines \in SUBSET Items,
           lines # {}, ItemsReached(b, lines), Complete(b, lines)
    PROVE  Complete(b, lines)'
  <1>1. \E i \in Items : batch[b].items[i] # "none"
    BY DEF ItemsReached
  <1> QED
    BY <1>1, StepSettles DEF RowSettles, Complete

\* What a hook is about to insert is what it held before, or what it has just read.
LEMMA HookIsComplete ==
    ASSUME IInv, CompleteInv, NEW r \in Requests, Moves(r),
           NEW q \in Requests, req'[q].at = "hook.insert"
    PROVE  Complete(req[q].batch, req[q].lines)'
  <1>0. ApprovalTypeOK
    BY DEF IInv
  <1>1. PICK h \in Request : HoldsSoundly(r, h)
    BY MoverOK
  <1>2. /\ req'[r] = h
        /\ \A p \in Requests : p # r => req'[p] = req[p]
    BY <1>0, <1>1 DEF HoldsSoundly, ApprovalTypeOK
  <1>3. CASE q # r
    <2>1. req'[q] = req[q] /\ req[q].at = "hook.insert" /\ req[q] \in Request /\ Sound(req[q])
      BY <1>0, <1>2, <1>3 DEF IInv, ApprovalTypeOK
    <2>2. PICK b, lines : b = req[q].batch /\ lines = req[q].lines
      OBVIOUS
    <2>3. /\ b \in BatchIds /\ lines \in SUBSET Items /\ lines # {}
          /\ ItemsReached(b, lines) /\ Complete(b, lines)
      BY <2>1, <2>2, RequestShape DEF Sound, OnBatch, CompleteInv
    <2>4. Complete(b, lines)'
      BY <2>3, CompleteStays
    <2> QED
      BY <2>1, <2>2, <2>4 DEF Complete
  <1>4. CASE q = r
    <2>1. HookItems(r) /\ h.batch = req[r].batch /\ h.lines = Billable(req[r].batch)
      BY <1>1, <1>2, <1>4 DEF HoldsSoundly
    <2>2. /\ batch' = batch /\ Billable(req[r].batch) # {} /\ req[r].batch \in BatchIds
      <3>1. req[r].at = "hook.items" /\ ~Return(r) /\ batch' = batch
        <4>1. Return(r) => req'[r].at = "idle"
          BY <1>0 DEF Return, Goto, Idle, ApprovalTypeOK
        <4> QED
          BY <1>4, <2>1, <4>1 DEF HookItems, Only
      <3>2. Sound(req[r])
        BY DEF IInv
      <3> QED
        BY <2>1, <3>1, <3>2 DEF HookItems, Only, Sound, OnBatch, ApproveOps
    <2>3. Complete(req[r].batch, Billable(req[r].batch))
      BY <2>2 DEF CompleteInv, Stamped, Billable, Complete
    <2> QED
      BY <1>2, <1>4, <2>1, <2>2, <2>3 DEF Complete
  <1> QED
    BY <1>3, <1>4

LEMMA StepKeepsComplete ==
    ASSUME IInv, CompleteInv, [Next]_vars
    PROVE  CompleteInv'
  <1>1. ASSUME NEW r \in Requests, Moves(r) PROVE CompleteInv'
    <2>1. \A b \in BatchIds' : Stamped(batch'[b])
      BY <1>1, StepSettles DEF CompleteInv, RowSettles
    <2>2. \A q \in Requests : req'[q].at = "hook.insert" => Complete(req[q].batch, req[q].lines)'
      BY <1>1, HookIsComplete
    <2>3. ASSUME NEW c \in DOMAIN candidate'
          PROVE  Complete(candidate[c].batch, candidate[c].lines)'
      <3>1. CASE c \in DOMAIN candidate /\ candidate'[c] = candidate[c]
        <4>1. PICK b, lines : b = candidate[c].batch /\ lines = candidate[c].lines
          OBVIOUS
        <4>2. candidate[c] \in Candidate
          BY <3>1, ElementOfSeq, LenProperties DEF IInv, ApprovalTypeOK
        <4>3. /\ b \in BatchIds /\ lines \in SUBSET Items /\ lines # {}
              /\ ItemsReached(b, lines) /\ Complete(b, lines)
          BY <3>1, <4>1, <4>2 DEF IInv, CandidatesAreSound, CompleteInv, Candidate
        <4>4. Complete(b, lines)'
          BY <1>1, <4>3, CompleteStays
        <4> QED
          BY <3>1, <4>1, <4>4 DEF Complete
      <3>2. CASE /\ HookInsert(r)
                 /\ candidate'[c].batch = req[r].batch /\ candidate'[c].lines = req[r].lines
        <4>1. Complete(req[r].batch, req[r].lines) /\ batch' = batch
          BY <3>2 DEF CompleteInv, HookInsert
        <4> QED
          BY <3>2, <4>1 DEF Complete
      <3> QED
        BY <1>1, <3>1, <3>2, MoveKeepsCandidates
    <2> QED
      BY <2>1, <2>2, <2>3 DEF CompleteInv
  <1>2. ASSUME UNCHANGED approvalVars PROVE CompleteInv'
    BY <1>2 DEF CompleteInv, Complete, Stamped, BatchIds, approvalVars
  <1> QED
    BY <1>1, <1>2, NextSteps

\* Whichever hook's insert wins, its candidate has all that was ever approved.
THEOREM DraftCoversTheBatch == Spec => []NothingApprovedIsLeftOut
  <1>1. Init => CompleteInv
    BY DEF Init, CompleteInv, BatchIds, Idle
  <1>2. IInv /\ [Next]_vars /\ CompleteInv => CompleteInv'
    BY StepKeepsComplete
  <1>3. CompleteInv => NothingApprovedIsLeftOut
    BY DEF CompleteInv, Complete, NothingApprovedIsLeftOut, Billable
  <1> QED
    BY <1>1, <1>2, <1>3, ApprovalInvariance, PTL DEF Spec

-----------------------------------------------------------------------------
(* Disputes, and empty batches *)

LEMMA StepKeepsDisputes ==
    ASSUME IInv, [Next]_vars, NEW b \in BatchIds, NEW i \in Items, batch[b].items[i] = "disputed"
    PROVE  batch'[b].items[i] = "disputed"
  <1>1. ASSUME NEW r \in Requests, Moves(r) PROVE batch'[b].items[i] = "disputed"
    BY <1>1, StepGrows DEF Grows, RowGrows
  <1> QED
    BY <1>1, NextSteps DEF approvalVars

\* No approval, however early it read the batch, takes a dispute back.
THEOREM DisputesAreKept == Spec => DisputesStand
  <1>1. IInv /\ [Next]_vars =>
          [\A b \in BatchIds, i \in Items :
              batch[b].items[i] = "disputed" => batch'[b].items[i] = "disputed"]_vars
    BY StepKeepsDisputes
  <1> QED
    BY <1>1, ApprovalInvariance, PTL DEF Spec, DisputesStand

LEMMA StepKeepsItems ==
    ASSUME IInv, [Step \/ LockStep]_vars, NoEmptyBatch
    PROVE  NoEmptyBatch'
  <1>1. ASSUME NEW r \in Requests, Arrive(r) \/ Continue(r) PROVE NoEmptyBatch'
    <2>0. Moves(r) /\ Grows /\ ApprovalTypeOK
      BY <1>1, StepGrows DEF Moves, IInv
    <2>1. PICK h \in Request : HoldsSoundly(r, h)
      BY <2>0, MoverOK
    <2>2. /\ req'[r] = h
          /\ \A q \in Requests : q # r => req'[q] = req[q]
      BY <2>0, <2>1 DEF HoldsSoundly, ApprovalTypeOK
    <2>3. ASSUME NEW b \in BatchIds, NEW i \in Items, batch[b].items[i] # "none"
          PROVE  batch'[b].items[i] # "none"
      BY <2>0, <2>3 DEF Grows, RowGrows
    <2>4. ASSUME NEW q \in Requests, req[q].at = "create.items", req[q].batch \in BatchIds
          PROVE  \/ \E i \in Items : batch'[req[q].batch].items[i] # "none"
                 \/ req'[q] = req[q]
      <3>1. CASE q # r
        BY <2>2, <3>1
      <3>2. CASE q = r
        <4>1. CreateItems(r)
          <5>1. ~Arrive(r)
            <6>1. Arrive(r) => req[r] = Idle
              BY DEF Arrive, CreateRead, SubmitRead, GenerateToken, InternalApprove,
                     ClientApproveByToken, ApproveRead, InternalReject, ClientRejectByToken,
                     DisputeRead, BatchRead
            <6>2. req[r] # Idle
              BY <2>4, <3>2 DEF Idle
            <6> QED
              BY <6>1, <6>2
          <5>2. req[r].at = "create.items"
            BY <2>4, <3>2
          <5> QED
            BY <1>1, <5>1, <5>2
            DEF Continue, CreateInsert, SubmitWrite, ApproveGuard, RejectGuard, PeriodGuard,
                ApproveWrite, ApproveItems, HookBatch, HookExisting, HookItems, HookInsert,
                RejectWrite, DisputeItem, DisputeWrite
        <4> DEFINE f == [i \in Items |-> "pending"]
        <4>2. Row(r) \in Batch /\ f \in [Items -> ItemStatus \cup {"none"}]
          BY <2>0, <2>4, <3>2, BatchShape DEF Row, ItemStatus
        <4>3. Store(r, [Row(r) EXCEPT !.items = f]) /\ \A i \in Items : f[i] = "pending"
          BY <4>1 DEF CreateItems
        <4> HIDE DEF f
        <4>4. [Row(r) EXCEPT !.items = f] \in Batch /\ [Row(r) EXCEPT !.items = f].items = f
          BY <4>2, ItemUpdates
        <4>5. batch'[req[r].batch].items = f
          BY <2>0, <2>4, <3>2, <4>3, <4>4, StoreRow
        <4> QED
          BY <3>2, <4>3, <4>5, ApprovalAssumption
      <3> QED
        BY <3>1, <3>2
    <2>5. ASSUME NEW b \in BatchIds
          PROVE  \/ \E i \in Items : batch'[b].items[i] # "none"
                 \/ \E q \in Requests : req'[q].at = "create.items" /\ req'[q].batch = b
      BY <2>3, <2>4 DEF NoEmptyBatch
    <2>6. CASE BatchIds' = BatchIds
      BY <2>5, <2>6 DEF NoEmptyBatch
    <2>7. CASE CreateInsert(r)
      <3>1. req'[r].at = "create.items" /\ req'[r].batch = Len(batch) + 1
        BY <2>0, <2>7 DEF CreateInsert, Goto, ApprovalTypeOK
      <3> QED
        BY <2>5, <2>7, <3>1, InsertedRow DEF NoEmptyBatch
    <2> QED
      BY <2>0, <2>6, <2>7, BatchSteps, UpdateGrows DEF BatchIds
  <1>2. ASSUME UNCHANGED approvalVars PROVE NoEmptyBatch'
    BY <1>2 DEF NoEmptyBatch, BatchIds, approvalVars
  <1> QED
    BY <1>1, <1>2 DEF Step, LockStep, vars, approvalVars

\* When no request is cut short, a batch has its items or is about to get them.
THEOREM NeverEmpty == CrashFreeSpec => []NoEmptyBatch
  <1>1. Init => NoEmptyBatch
    BY DEF Init, NoEmptyBatch, BatchIds
  <1>2. [Step \/ LockStep]_vars => [Next]_vars
    BY DEF Next
  <1>3. IInv /\ [Step \/ LockStep]_vars /\ NoEmptyBatch => NoEmptyBatch'
    BY StepKeepsItems
  <1> QED
    BY <1>1, <1>2, <1>3, InitOK, StepOK, PTL DEF CrashFreeSpec

-----------------------------------------------------------------------------
(* When requests do not overlap *)

BeforeDecision == {"approve.guard", "approve.write", "reject.guard", "reject.write",
                   "dispute.item", "dispute.write"}

\* What a request that holds h has read still stands: nobody else wrote in between.
Knows(h) ==
    /\ h.at = "create.insert" => BatchesOf(h.scope) = {}
    /\ h.at \in {"create.items", "submit.write"} => batch[h.batch].status = "draft"
    /\ h.at \in BeforeDecision => batch[h.batch].status = "submitted"
    /\ h.at \in AfterApproval => batch[h.batch].status = "approved"
    /\ h.at = "hook.insert" => \A i \in h.lines : batch[h.batch].items[i] = "approved"

\* A scope has one batch, no statement cancels it, and what is billed is approved.
Tables ==
    /\ \A b, d \in BatchIds : batch[b].scope = batch[d].scope => b = d
    /\ \A b \in BatchIds : batch[b].status # "cancelled"
    /\ \A c \in DOMAIN candidate :
          /\ batch[candidate[c].batch].status = "approved"
          /\ \A i \in candidate[c].lines : batch[candidate[c].batch].items[i] = "approved"

SerialInv ==
    /\ IInv
    /\ Alone
    /\ \A r \in Requests : Knows(req[r])
    /\ Tables

-----------------------------------------------------------------------------
(* What a statement does to a row, when the row is still what the request read *)

\* The row stays in its scope, and an approval of it or of an item is not taken back.
Decided(v, w) ==
    /\ w.scope = v.scope
    /\ w.status # "cancelled"
    /\ v.status = "approved" =>
          /\ w.status = "approved"
          /\ \A i \in Items : v.items[i] = "approved" => w.items[i] = "approved"

LEMMA StatusDecides ==
    ASSUME NEW v \in Batch, NEW s \in BatchStatus, s # "cancelled", v.status # "approved"
    PROVE  /\ Decided(v, [v EXCEPT !.status = s])
           /\ Decided(v, [v EXCEPT !.status = s, !.approved = TRUE])
           /\ [v EXCEPT !.status = s].status = s
           /\ [v EXCEPT !.status = s, !.approved = TRUE].status = s
  BY DEF Batch, Decided

LEMMA ItemsDecide ==
    ASSUME NEW v \in Batch, NEW f \in [Items -> ItemStatus \cup {"none"}],
           v.status # "cancelled",
           v.status = "approved" => \A i \in Items : v.items[i] = "approved" => f[i] = "approved"
    PROVE  /\ Decided(v, [v EXCEPT !.items = f])
           /\ [v EXCEPT !.items = f].status = v.status
  BY DEF Batch, Decided

LEMMA StoredDecision ==
    ASSUME IInv, NEW r \in Requests, Knows(req[r]),
           \/ CreateItems(r) \/ SubmitWrite(r) \/ ApproveWrite(r)
           \/ ApproveItems(r) \/ RejectWrite(r) \/ DisputeWrite(r)
    PROVE  \E row \in Batch :
              /\ Store(r, row)
              /\ Decided(Row(r), row)
              /\ ApproveWrite(r) \/ ApproveItems(r) => row.status = "approved"
              /\ row.status = "approved" => Row(r).status = "approved" \/ ApproveWrite(r)
  <1>0. ApprovalTypeOK /\ req[r] \in Request /\ req[r].batch \in BatchIds
    BY StoredRow DEF IInv, ApprovalTypeOK
  <1>1. PICK v \in Batch : v = Row(r)
    BY <1>0, BatchShape DEF Row
  <1>f. v.items \in [Items -> ItemStatus \cup {"none"}]
    BY <1>1 DEF Batch
  <1>s. {"submitted", "rejected", "approved"} \subseteq BatchStatus
    BY DEF BatchStatus
  <1>2. CASE CreateItems(r)
    <2>1. PICK f : f = [i \in Items |-> "pending"]
      OBVIOUS
    <2>2. f \in [Items -> ItemStatus \cup {"none"}]
      BY <2>1 DEF ItemStatus
    <2>3. PICK row : row = [v EXCEPT !.items = f]
      OBVIOUS
    <2>4. Store(r, row) /\ v.status = "draft" /\ ~ApproveWrite(r) /\ ~ApproveItems(r)
      BY <1>1, <1>2, <2>1, <2>3 DEF CreateItems, Knows, Row, ApproveWrite, ApproveItems
    <2>5. row \in Batch /\ Decided(v, row) /\ row.status = v.status
      BY <2>2, <2>3, <2>4, ItemUpdates, ItemsDecide
    <2> QED
      BY <1>1, <2>4, <2>5
  <1>3. CASE SubmitWrite(r)
    <2>1. PICK row : row = [v EXCEPT !.status = "submitted"]
      OBVIOUS
    <2>2. Store(r, row) /\ v.status = "draft" /\ ~ApproveWrite(r) /\ ~ApproveItems(r)
      BY <1>1, <1>3, <2>1 DEF SubmitWrite, Knows, Row, ApproveWrite, ApproveItems
    <2>3. row \in Batch /\ Decided(v, row) /\ row.status # "approved"
      BY <1>s, <2>1, <2>2, RowUpdates, StatusDecides
    <2> QED
      BY <1>1, <2>2, <2>3
  <1>4. CASE RejectWrite(r)
    <2>1. PICK row : row = [v EXCEPT !.status = "rejected"]
      OBVIOUS
    <2>2. Store(r, row) /\ v.status = "submitted" /\ ~ApproveWrite(r) /\ ~ApproveItems(r)
      BY <1>1, <1>4, <2>1
      DEF RejectWrite, Knows, BeforeDecision, Row, ApproveWrite, ApproveItems
    <2>3. row \in Batch /\ Decided(v, row) /\ row.status # "approved"
      BY <1>s, <2>1, <2>2, RowUpdates, StatusDecides
    <2> QED
      BY <1>1, <2>2, <2>3
  <1>5. CASE ApproveWrite(r)
    <2>1. PICK row : row = [v EXCEPT !.status = "approved", !.approved = TRUE]
      OBVIOUS
    <2>2. Store(r, row) /\ v.status = "submitted"
      BY <1>1, <1>5, <2>1 DEF ApproveWrite, Knows, BeforeDecision, Row
    <2>3. row \in Batch /\ Decided(v, row) /\ row.status = "approved"
      BY <1>s, <2>1, <2>2, RowUpdates, StatusDecides
    <2> QED
      BY <1>1, <1>5, <2>2, <2>3
  <1>6. CASE ApproveItems(r)
    <2>1. PICK f : f = Stamp(v.items, {"pending"}, "approved")
      OBVIOUS
    <2>2. /\ f \in [Items -> ItemStatus \cup {"none"}]
          /\ \A i \in Items : v.items[i] = "approved" => f[i] = "approved"
      BY <1>f, <2>1 DEF Stamp, ItemStatus
    <2>3. PICK row : row = [v EXCEPT !.items = f]
      OBVIOUS
    <2>4. Store(r, row)
      BY <1>1, <1>6, <2>1, <2>3 DEF ApproveItems, Batch
    <2>5. v.status = "approved"
      BY <1>1, <1>6 DEF ApproveItems, Knows, AfterApproval, Row
    <2>6. row \in Batch /\ Decided(v, row) /\ row.status = "approved"
      BY <2>2, <2>3, <2>5, ItemUpdates, ItemsDecide
    <2> QED
      BY <1>1, <2>4, <2>5, <2>6
  <1>7. CASE DisputeWrite(r)
    <2>1. PICK f : f = [v.items EXCEPT ![req[r].item] = "disputed"]
      OBVIOUS
    <2>2. f \in [Items -> ItemStatus \cup {"none"}]
      BY <1>f, <2>1 DEF ItemStatus
    <2>3. PICK row : row = [v EXCEPT !.items = f]
      OBVIOUS
    <2>4. Store(r, row)
      BY <1>1, <1>7, <2>1, <2>3 DEF DisputeWrite, Batch
    <2>5. v.status = "submitted" /\ ~ApproveWrite(r) /\ ~ApproveItems(r)
      BY <1>1, <1>7 DEF DisputeWrite, Knows, BeforeDecision, Row, ApproveWrite, ApproveItems
    <2>6. row \in Batch /\ Decided(v, row) /\ row.status = v.status
      BY <2>2, <2>3, <2>5, ItemUpdates, ItemsDecide
    <2> QED
      BY <1>1, <2>4, <2>5, <2>6
  <1> QED
    BY <1>2, <1>3, <1>4, <1>5, <1>6, <1>7

\* Row by row, the tables are kept by a step that adds no row.
LEMMA DecidedKeepsTables ==
    ASSUME IInv, Tables, BatchIds' = BatchIds, candidate' = candidate,
           \A b \in BatchIds : Decided(batch[b], batch'[b])
    PROVE  Tables'
  <1>1. \A c \in DOMAIN candidate : candidate[c].batch \in BatchIds /\ candidate[c].lines \subseteq Items
    <2>1. \A c \in DOMAIN candidate : candidate[c] \in Candidate
      BY ElementOfSeq, LenProperties DEF IInv, ApprovalTypeOK
    <2> QED
      BY <2>1 DEF Candidate, IInv, CandidatesAreSound
  <1>2. \A b, d \in BatchIds : batch'[b].scope = batch'[d].scope => b = d
    BY DEF Tables, Decided
  <1>3. \A b \in BatchIds : batch'[b].status # "cancelled"
    BY DEF Decided
  <1>4. ASSUME NEW c \in DOMAIN candidate
        PROVE  /\ batch'[candidate[c].batch].status = "approved"
               /\ \A i \in candidate[c].lines : batch'[candidate[c].batch].items[i] = "approved"
    BY <1>1 DEF Tables, Decided
  <1> QED
    BY <1>2, <1>3, <1>4 DEF Tables

LEMMA SerialStore ==
    ASSUME IInv, Tables, NEW r \in Requests, Knows(req[r]),
           \/ CreateItems(r) \/ SubmitWrite(r) \/ ApproveWrite(r)
           \/ ApproveItems(r) \/ RejectWrite(r) \/ DisputeWrite(r)
    PROVE  /\ Tables'
           /\ ApproveWrite(r) \/ ApproveItems(r) => batch'[req[r].batch].status = "approved"
           /\ \A b \in BatchIds : batch'[b].scope = batch[b].scope
           /\ \A b \in BatchIds : batch'[b].status = "approved" =>
                 batch[b].status = "approved" \/ (ApproveWrite(r) /\ b = req[r].batch)
  <1>0. ApprovalTypeOK /\ req[r].batch \in BatchIds
    BY StoredRow DEF IInv
  <1>1. PICK row \in Batch :
           /\ Store(r, row)
           /\ Decided(Row(r), row)
           /\ ApproveWrite(r) \/ ApproveItems(r) => row.status = "approved"
           /\ row.status = "approved" => Row(r).status = "approved" \/ ApproveWrite(r)
    BY StoredDecision
  <1>2. /\ BatchIds' = BatchIds
        /\ \A b \in BatchIds : batch'[b] = IF b = req[r].batch THEN row ELSE batch[b]
        /\ UNCHANGED candidate
    BY <1>0, <1>1, StoreRow
  <1>3. \A b \in BatchIds : Decided(batch[b], batch'[b])
    BY <1>1, <1>2 DEF Decided, Tables, Row
  <1>4. Tables'
    BY <1>2, <1>3, DecidedKeepsTables
  <1>5. \A b \in BatchIds : batch'[b].status = "approved" =>
           batch[b].status = "approved" \/ (ApproveWrite(r) /\ b = req[r].batch)
    BY <1>1, <1>2 DEF Row
  <1> QED
    BY <1>0, <1>1, <1>2, <1>3, <1>4, <1>5 DEF Decided

\* The row a creation inserts is the first of its scope, and bills nothing.
LEMMA SerialInsert ==
    ASSUME IInv, Tables, NEW r \in Requests, Knows(req[r]), CreateInsert(r)
    PROVE  Tables'
  <1> DEFINE n == Len(batch) + 1
  <1>1. /\ BatchIds' = BatchIds \cup {n}
        /\ n \notin BatchIds
        /\ \A b \in BatchIds : batch'[b] = batch[b]
        /\ batch'[n].scope = req[r].scope
        /\ batch'[n].status = "draft"
        /\ candidate' = candidate
    BY InsertedRow
  <1>2. \A b \in BatchIds : batch[b].scope # req[r].scope
    BY DEF CreateInsert, Knows, BatchesOf
  <1>3. \A c \in DOMAIN candidate : candidate[c].batch \in BatchIds
    BY DEF IInv, CandidatesAreSound
  <1> HIDE DEF n
  <1> QED
    BY <1>1, <1>2, <1>3 DEF Tables

\* The hook bills the items it has just read, of a batch that is still approved.
LEMMA SerialHook ==
    ASSUME IInv, Tables, NEW r \in Requests, Knows(req[r]), HookInsert(r)
    PROVE  Tables'
  <1>1. /\ batch' = batch
        /\ req[r].at = "hook.insert" /\ req[r].at \in AfterApproval
        /\ batch[req[r].batch].status = "approved"
        /\ \A i \in req[r].lines : batch[req[r].batch].items[i] = "approved"
    BY DEF HookInsert, Knows, AfterApproval
  <1>2. \A c \in DOMAIN candidate' :
           \/ c \in DOMAIN candidate /\ candidate'[c] = candidate[c]
           \/ candidate'[c].batch = req[r].batch /\ candidate'[c].lines = req[r].lines
    BY MoveKeepsCandidates DEF Moves, Continue
  <1>3. BatchIds' = BatchIds
    BY <1>1 DEF BatchIds
  <1> QED
    BY <1>1, <1>2, <1>3 DEF Tables

-----------------------------------------------------------------------------
(* What the request that moves knows afterwards *)

\* Request r goes on to hold h, and what it has read is true in the new state.
KnowsNext(r) == \E h : req' = [req EXCEPT ![r] = h] /\ Knows(h)'

LEMMA ReturnKnows ==
    ASSUME NEW r \in Requests, Return(r)
    PROVE  KnowsNext(r)
  <1>1. PICK h : h = Idle
    OBVIOUS
  <1>2. h.at = "idle"
    BY <1>1 DEF Idle
  <1>3. Knows(h)'
    BY <1>2 DEF Knows, BeforeDecision, AfterApproval
  <1> QED
    BY <1>1, <1>3 DEF Return, Goto, KnowsNext

\* The select that opens a mutation of a batch, and its status gate.
LEMMA ReadKnows ==
    ASSUME NEW r \in Requests, NEW b \in BatchIds, NEW status, NEW h,
           h.batch = b,
           \/ h.at = "submit.write" /\ status = "draft"
           \/ /\ h.at \in {"approve.guard", "reject.guard", "reject.write", "dispute.item"}
              /\ status = "submitted",
           BatchRead(r, b, status, h)
    PROVE  KnowsNext(r)
  <1>1. req' = [req EXCEPT ![r] = h] /\ batch' = batch /\ batch[b].status = status
    BY DEF BatchRead, Only, Goto
  <1>2. Knows(h)'
    BY <1>1 DEF Knows, BeforeDecision, AfterApproval
  <1> QED
    BY <1>1, <1>2 DEF KnowsNext

LEMMA ArriveKnows ==
    ASSUME IInv, Tables, NEW r \in Requests, Arrive(r)
    PROVE  KnowsNext(r) /\ batch' = batch /\ candidate' = candidate
  <1>0. batch' = batch /\ candidate' = candidate
    BY DEF Arrive, CreateRead, SubmitRead, GenerateToken, InternalApprove, ClientApproveByToken,
           ApproveRead, InternalReject, ClientRejectByToken, DisputeRead, BatchRead, Only
  <1>1. ASSUME NEW s \in Scopes, CreateRead(r, s) PROVE KnowsNext(r)
    <2>1. PICK h : h = [at |-> "create.insert", scope |-> s]
      OBVIOUS
    <2>2. h.at = "create.insert" /\ h.scope = s
      BY <2>1
    <2>3. BatchesOf(s) = {}
      BY <1>1 DEF CreateRead, NoBatchFound, BatchesOf, Tables
    <2>4. BatchesOf(s)' = {}
      BY <1>0, <2>3 DEF BatchesOf, BatchIds
    <2>5. Knows(h)'
      BY <2>2, <2>4 DEF Knows, BeforeDecision, AfterApproval
    <2> QED
      BY <1>1, <2>1, <2>5 DEF CreateRead, Only, Goto, KnowsNext
  <1>2. ASSUME NEW b \in BatchIds, SubmitRead(r, b) PROVE KnowsNext(r)
    <2>1. PICK h : h = [at |-> "submit.write", batch |-> b]
      OBVIOUS
    <2>2. h.batch = b /\ h.at = "submit.write" /\ BatchRead(r, b, "draft", h)
      BY <1>2, <2>1 DEF SubmitRead
    <2> QED
      BY <2>2, ReadKnows
  <1>3. ASSUME NEW b \in BatchIds, GenerateToken(r, b) PROVE KnowsNext(r)
    <2>1. Return(r)
      BY <1>3 DEF GenerateToken, Return, Goto, IInv, ApprovalTypeOK
    <2> QED
      BY <2>1, ReturnKnows
  <1>4. ASSUME NEW b \in BatchIds, NEW source, ApproveRead(r, b, source) PROVE KnowsNext(r)
    <2>1. PICK h : h = [at |-> "approve.guard", batch |-> b, source |-> source]
      OBVIOUS
    <2>2. h.batch = b /\ h.at = "approve.guard" /\ BatchRead(r, b, "submitted", h)
      BY <1>4, <2>1 DEF ApproveRead
    <2> QED
      BY <2>2, ReadKnows
  <1>5. ASSUME NEW b \in BatchIds, InternalReject(r, b) PROVE KnowsNext(r)
    <2>1. PICK h : h = [at |-> "reject.write", batch |-> b]
      OBVIOUS
    <2>2. h.batch = b /\ h.at = "reject.write" /\ BatchRead(r, b, "submitted", h)
      BY <1>5, <2>1 DEF InternalReject
    <2> QED
      BY <2>2, ReadKnows
  <1>6. ASSUME NEW b \in BatchIds, ClientRejectByToken(r, b) PROVE KnowsNext(r)
    <2>1. PICK h : h = [at |-> "reject.guard", batch |-> b]
      OBVIOUS
    <2>2. h.batch = b /\ h.at = "reject.guard" /\ BatchRead(r, b, "submitted", h)
      BY <1>6, <2>1 DEF ClientRejectByToken
    <2> QED
      BY <2>2, ReadKnows
  <1>7. ASSUME NEW b \in BatchIds, NEW i \in Items, DisputeRead(r, b, i) PROVE KnowsNext(r)
    <2>1. PICK h : h = [at |-> "dispute.item", batch |-> b, item |-> i]
      OBVIOUS
    <2>2. h.batch = b /\ h.at = "dispute.item" /\ BatchRead(r, b, "submitted", h)
      BY <1>7, <2>1 DEF DisputeRead
    <2> QED
      BY <2>2, ReadKnows
  <1> QED
    BY <1>0, <1>1, <1>2, <1>3, <1>4, <1>5, <1>6, <1>7
    DEF Arrive, InternalApprove, ClientApproveByToken

\* The next statement of a request relies on the status its batch now has.
LEMMA AdvanceKnows ==
    ASSUME IInv, NEW r \in Requests, NEW at, Advance(r, at),
           req[r].at \in OnBatch,
           \/ at \in BeforeDecision /\ batch'[req[r].batch].status = "submitted"
           \/ /\ at \in AfterApproval \ {"hook.insert"}
              /\ batch'[req[r].batch].status = "approved"
    PROVE  KnowsNext(r)
  <1>1. PICK old \in Request : old = req[r]
    BY DEF IInv, ApprovalTypeOK
  <1>2. PICK h : h = [old EXCEPT !.at = at]
    OBVIOUS
  <1>3. h.at = at /\ h.batch = old.batch
    BY <1>1, <1>2, AdvanceShape
  <1>4. PICK b : b = req[r].batch
    OBVIOUS
  <1>5. Knows(h)'
    BY <1>1, <1>3, <1>4 DEF Knows, BeforeDecision, AfterApproval
  <1>6. req' = [req EXCEPT ![r] = h]
    BY <1>1, <1>2 DEF Advance, IInv, ApprovalTypeOK
  <1> QED
    BY <1>5, <1>6 DEF KnowsNext

LEMMA ContinueKnows ==
    ASSUME IInv, Tables, NEW r \in Requests, Knows(req[r]), Continue(r)
    PROVE  KnowsNext(r)
  <1>0. OnBatch = BatchOps \cup ApproveOps \cup {"hook.insert"} \cup DisputeOps
    BY DEF OnBatch
  <1>1. CASE Return(r)
    BY <1>1, ReturnKnows
  <1>2. CASE CreateInsert(r)
    <2>1. PICK n : n = Len(batch) + 1
      OBVIOUS
    <2>2. PICK h : h = [at |-> "create.items", batch |-> n]
      OBVIOUS
    <2>3. h.at = "create.items" /\ h.batch = n /\ batch'[n].status = "draft"
      BY <1>2, <2>1, <2>2, InsertedRow
    <2>4. Knows(h)'
      BY <2>3 DEF Knows, BeforeDecision, AfterApproval
    <2>5. req' = [req EXCEPT ![r] = h]
      BY <1>2, <2>1, <2>2 DEF CreateInsert, Goto
    <2> QED
      BY <2>4, <2>5 DEF KnowsNext
  <1>3. CASE ApproveGuard(r) /\ ~Return(r)
    <2>1. Advance(r, "approve.write") /\ req[r].at = "approve.guard" /\ batch' = batch
      BY <1>3 DEF ApproveGuard, PeriodGuard, Only
    <2> QED
      BY <1>0, <2>1, AdvanceKnows DEF Knows, BeforeDecision, ApproveOps
  <1>4. CASE RejectGuard(r) /\ ~Return(r)
    <2>1. Advance(r, "reject.write") /\ req[r].at = "reject.guard" /\ batch' = batch
      BY <1>4 DEF RejectGuard, PeriodGuard, Only
    <2> QED
      BY <1>0, <2>1, AdvanceKnows DEF Knows, BeforeDecision, BatchOps
  <1>5. CASE ApproveWrite(r)
    <2>1. Advance(r, "approve.items") /\ req[r].at = "approve.write"
      BY <1>5 DEF ApproveWrite
    <2>2. batch'[req[r].batch].status = "approved"
      BY <1>5, SerialStore
    <2> QED
      BY <1>0, <2>1, <2>2, AdvanceKnows DEF ApproveOps, AfterApproval
  <1>6. CASE ApproveItems(r)
    <2>1. Advance(r, "hook.batch") /\ req[r].at = "approve.items"
      BY <1>6 DEF ApproveItems
    <2>2. batch'[req[r].batch].status = "approved"
      BY <1>6, SerialStore
    <2> QED
      BY <1>0, <2>1, <2>2, AdvanceKnows DEF ApproveOps, AfterApproval
  <1>7. CASE HookBatch(r) /\ ~Return(r)
    <2>1. Advance(r, "hook.existing") /\ req[r].at = "hook.batch" /\ batch' = batch
      BY <1>7 DEF HookBatch, Only
    <2> QED
      BY <1>0, <2>1, AdvanceKnows DEF Knows, ApproveOps, AfterApproval
  <1>8. CASE HookExisting(r) /\ ~Return(r)
    <2>1. Advance(r, "hook.items") /\ req[r].at = "hook.existing" /\ batch' = batch
      BY <1>8 DEF HookExisting, Only
    <2> QED
      BY <1>0, <2>1, AdvanceKnows DEF Knows, ApproveOps, AfterApproval
  <1>9. CASE HookItems(r) /\ ~Return(r)
    <2>1. PICK b, source, lines :
             b = req[r].batch /\ source = req[r].source /\ lines = Billable(req[r].batch)
      OBVIOUS
    <2>2. PICK h : h = [at |-> "hook.insert", batch |-> b, source |-> source, lines |-> lines]
      OBVIOUS
    <2>3. h.at = "hook.insert" /\ h.batch = b /\ h.lines = lines
      BY <2>2
    <2>4. req' = [req EXCEPT ![r] = h] /\ batch' = batch
      BY <1>9, <2>1, <2>2 DEF HookItems, Only, Goto
    <2>5. batch[b].status = "approved" /\ \A i \in lines : batch[b].items[i] = "approved"
      BY <1>9, <2>1 DEF HookItems, Knows, AfterApproval, Billable
    <2>6. Knows(h)'
      BY <2>3, <2>4, <2>5 DEF Knows, BeforeDecision, AfterApproval
    <2> QED
      BY <2>4, <2>6 DEF KnowsNext
  <1>10. CASE DisputeItem(r) /\ ~Return(r)
    <2>1. Advance(r, "dispute.write") /\ req[r].at = "dispute.item" /\ batch' = batch
      BY <1>10 DEF DisputeItem, Only
    <2> QED
      BY <1>0, <2>1, AdvanceKnows DEF Knows, BeforeDecision, DisputeOps
  <1> QED
    BY <1>1, <1>2, <1>3, <1>4, <1>5, <1>6, <1>7, <1>8, <1>9, <1>10
    DEF Continue, CreateItems, SubmitWrite, HookInsert, RejectWrite, DisputeWrite

-----------------------------------------------------------------------------
(* Every step that leaves one request alone keeps the serial invariant *)

LEMMA IdleKnows == Knows(Idle)
  <1>1. Idle.at = "idle"
    BY DEF Idle
  <1> QED
    BY <1>1 DEF Knows, BeforeDecision, AfterApproval

\* A mutation that goes on is the only one there is.
LEMMA MoverIsAlone ==
    ASSUME Alone, NEW r \in Requests, Continue(r) \/ Abort(r), NEW q \in Requests, q # r
    PROVE  req[q] = Idle
  <1>1. req[r] # Idle
    <2>1. Idle.at = "idle"
      BY DEF Idle
    <2>2. Continue(r) => req[r].at # "idle"
      BY DEF Continue, CreateInsert, CreateItems, SubmitWrite, ApproveGuard, PeriodGuard,
             ApproveWrite, ApproveItems, HookBatch, HookExisting, HookItems, HookInsert,
             RejectGuard, RejectWrite, DisputeItem, DisputeWrite
    <2> QED
      BY <2>1, <2>2 DEF Abort
  <1> QED
    BY <1>1 DEF Alone

LEMMA SerialMove ==
    ASSUME SerialInv, NEW r \in Requests, Moves(r)
    PROVE  (\A q \in Requests : Knows(req[q])') /\ Tables'
  <1>0. IInv /\ Tables /\ Alone /\ Knows(req[r]) /\ req \in [Requests -> Request]
    BY DEF SerialInv, IInv, ApprovalTypeOK
  <1>k. ASSUME KnowsNext(r), NEW q \in Requests,
               \/ batch' = batch
               \/ q # r => req[q] = Idle
        PROVE  Knows(req[q])'
    <2>1. PICK h : req' = [req EXCEPT ![r] = h] /\ Knows(h)'
      BY <1>k DEF KnowsNext
    <2>2. CASE q = r
      BY <1>0, <2>1, <2>2 DEF Knows, BatchesOf
    <2>3. CASE q # r
      <3>1. req'[q] = req[q]
        BY <1>0, <2>1, <2>3
      <3>2. CASE batch' = batch
        <4>1. Knows(req[q])
          BY DEF SerialInv
        <4> QED
          BY <3>1, <3>2, <4>1 DEF Knows, BatchesOf, BatchIds
      <3>3. CASE req[q] = Idle
        <4>1. req'[q].at = "idle"
          BY <3>1, <3>3 DEF Idle
        <4> QED
          BY <4>1 DEF Knows, BeforeDecision, AfterApproval
      <3> QED
        BY <1>k, <2>3, <3>2, <3>3
    <2> QED
      BY <2>2, <2>3
  <1>t. ASSUME batch' = batch, candidate' = candidate PROVE Tables'
    BY <1>0, <1>t DEF Tables, BatchIds
  <1>1. CASE Arrive(r)
    BY <1>0, <1>1, <1>k, <1>t, ArriveKnows
  <1>2. CASE Abort(r)
    BY <1>2, <1>k, <1>t, ReturnKnows DEF Abort, Only
  <1>3. CASE Continue(r)
    <2>1. \A q \in Requests : Knows(req[q])'
      BY <1>0, <1>3, <1>k, ContinueKnows, MoverIsAlone
    <2>2. CASE \/ CreateItems(r) \/ SubmitWrite(r) \/ ApproveWrite(r)
               \/ ApproveItems(r) \/ RejectWrite(r) \/ DisputeWrite(r)
      BY <1>0, <2>1, <2>2, SerialStore
    <2>3. CASE CreateInsert(r)
      BY <1>0, <2>1, <2>3, SerialInsert
    <2>4. CASE HookInsert(r)
      BY <1>0, <2>1, <2>4, SerialHook
    <2> QED
      BY <1>3, <1>t, <2>1, <2>2, <2>3, <2>4
      DEF Continue, ApproveGuard, RejectGuard, PeriodGuard, HookBatch, HookExisting, HookItems,
          DisputeItem, Only
  <1> QED
    BY <1>1, <1>2, <1>3 DEF Moves

LEMMA SerialStepOK == SerialInv /\ [Next /\ Alone']_vars => SerialInv'
  <1> SUFFICES ASSUME SerialInv, [Next /\ Alone']_vars PROVE SerialInv'
    OBVIOUS
  <1>1. IInv' /\ [Next]_vars
    BY StepOK DEF SerialInv
  <1>2. Alone'
    <2>1. CASE UNCHANGED vars
      BY <2>1 DEF SerialInv, Alone, vars
    <2> QED
      BY <2>1
  <1>3. ASSUME NEW r \in Requests, Moves(r) PROVE SerialInv'
    BY <1>1, <1>2, <1>3, SerialMove DEF SerialInv
  <1>4. ASSUME UNCHANGED approvalVars PROVE SerialInv'
    <2>1. (\A q \in Requests : Knows(req[q])') /\ Tables'
      BY <1>4 DEF SerialInv, Knows, Tables, BatchesOf, BatchIds, approvalVars
    <2> QED
      BY <1>1, <1>2, <2>1 DEF SerialInv
  <1> QED
    BY <1>1, <1>3, <1>4, NextSteps

LEMMA SerialInitOK == Init => SerialInv
  <1> SUFFICES ASSUME Init PROVE SerialInv
    OBVIOUS
  <1>1. IInv
    BY InitOK
  <1>2. \A r \in Requests : req[r] = Idle
    BY DEF Init
  <1>3. Alone /\ \A r \in Requests : Knows(req[r])
    BY <1>2, IdleKnows DEF Alone
  <1>4. Tables
    BY DEF Init, Tables, BatchIds
  <1> QED
    BY <1>1, <1>3, <1>4 DEF SerialInv

LEMMA SerialInvariance == SerialSpec => []SerialInv
  BY SerialInitOK, SerialStepOK, PTL DEF SerialSpec

\* When requests do not overlap, no second batch of a scope passes the duplicate check,
\* even after a creation that died before its items.
THEOREM ScopeIsBatchedOnce == SerialSpec => []OneBatchPerScope
  <1>1. SerialInv => OneBatchPerScope
    BY DEF SerialInv, Tables, OneBatchPerScope
  <1> QED
    BY <1>1, SerialInvariance, PTL

\* When requests do not overlap, the decision that the hook bills is the last one.
THEOREM RejectionIsFinal == SerialSpec => []RejectedIsNotBilled
  <1>1. SerialInv => RejectedIsNotBilled
    BY DEF SerialInv, Tables, RejectedIsNotBilled
  <1> QED
    BY <1>1, SerialInvariance, PTL

\* When requests do not overlap, no line of a candidate is or becomes disputed.
THEOREM DisputeIsNotBilled == SerialSpec => []DisputedIsNotBilled
  <1>1. SerialInv => DisputedIsNotBilled
    BY DEF SerialInv, Tables, DisputedIsNotBilled
  <1> QED
    BY <1>1, SerialInvariance, PTL

-----------------------------------------------------------------------------
(* The period guard of an approval *)

\* With its unique key a month has one row, and nobody closes the month between the
\* guard of an approval and its write.
GuardHolds ==
    /\ \A m \in Months : \A s, t \in lock[m] : s = t
    /\ \A r \in Requests : req[r].at = "approve.write" =>
          ~ClosedIn({StartMonth[batch[req[r].batch].scope]})

LEMMA RowsKeepScope ==
    ASSUME IInv, Tables, NEW r \in Requests, Knows(req[r]), Moves(r), NEW b \in BatchIds
    PROVE  batch'[b].scope = batch[b].scope
  <1>1. CASE CreateInsert(r)
    BY <1>1, InsertedRow
  <1>2. CASE batch' = batch
    BY <1>2
  <1> QED
    BY <1>1, <1>2, BatchSteps, SerialStore

\* A request comes to the write of an approval through the period guard, and no other way.
LEMMA OnlyTheGuardLeadsToApproval ==
    ASSUME req \in [Requests -> Request], NEW r \in Requests, Moves(r), req'[r].at = "approve.write"
    PROVE  ApproveGuard(r) /\ Advance(r, "approve.write")
  <1>1. ASSUME NEW at, Advance(r, at), req[r].at \in OnBatch
        PROVE  req'[r].at = at
    <2>1. PICK old \in Request : old = req[r]
      OBVIOUS
    <2>2. req'[r] = [old EXCEPT !.at = at]
      BY <1>1, <2>1 DEF Advance
    <2>3. [old EXCEPT !.at = at].at = at
      BY <1>1, <2>1, AdvanceShape
    <2> QED
      BY <2>2, <2>3
  <1>2. ~Return(r)
    <2>1. Idle.at = "idle"
      BY DEF Idle
    <2> QED
      BY <2>1 DEF Return, Goto
  <1>3. \A held : Goto(r, held) => req'[r] = held
    BY DEF Goto
  <1>4. ~Arrive(r)
    <2>1. ASSUME NEW b \in BatchIds PROVE ~GenerateToken(r, b)
      BY DEF GenerateToken, Idle
    <2>2. ASSUME NEW b \in BatchIds, NEW status, NEW held, held.at # "approve.write"
          PROVE  ~BatchRead(r, b, status, held)
      BY <1>3, <2>2 DEF BatchRead, Only
    <2>3. ASSUME NEW s \in Scopes PROVE ~CreateRead(r, s)
      BY <1>3 DEF CreateRead, Only
    <2>4. ASSUME NEW b \in BatchIds
          PROVE  /\ ~SubmitRead(r, b)
                 /\ ~InternalApprove(r, b) /\ ~ClientApproveByToken(r, b)
                 /\ ~InternalReject(r, b) /\ ~ClientRejectByToken(r, b)
                 /\ \A i \in Items : ~DisputeRead(r, b, i)
      BY <2>2 DEF SubmitRead, InternalApprove, ClientApproveByToken, ApproveRead, InternalReject,
                  ClientRejectByToken, DisputeRead
    <2> QED
      BY <2>1, <2>3, <2>4 DEF Arrive
  <1>5. ~Abort(r)
    BY <1>2 DEF Abort, Only
  <1>6. Continue(r)
    BY <1>4, <1>5 DEF Moves
  <1>7. ~CreateInsert(r) /\ ~HookItems(r)
    BY <1>2, <1>3 DEF CreateInsert, HookItems, Only
  <1>8. ~ApproveWrite(r) /\ ~ApproveItems(r) /\ ~HookBatch(r) /\ ~HookExisting(r)
    BY <1>1, <1>2 DEF ApproveWrite, ApproveItems, HookBatch, HookExisting, Only, OnBatch, ApproveOps
  <1>9. ~RejectGuard(r) /\ ~DisputeItem(r)
    BY <1>1, <1>2 DEF RejectGuard, PeriodGuard, DisputeItem, Only, OnBatch, BatchOps, DisputeOps
  <1>10. ApproveGuard(r)
    BY <1>2, <1>6, <1>7, <1>8, <1>9
    DEF Continue, CreateItems, SubmitWrite, HookInsert, RejectWrite, DisputeWrite
  <1> QED
    BY <1>2, <1>10 DEF ApproveGuard, PeriodGuard, Only

LEMMA GuardStepOK ==
    ASSUME UniquePeriodKey, SerialInv, GuardHolds, [Next /\ Alone']_vars
    PROVE  GuardHolds'
  <1>0. /\ IInv /\ Tables /\ Alone /\ req \in [Requests -> Request]
        /\ lock \in [Months -> SUBSET PeriodStatus]
        /\ \A r \in Requests : Knows(req[r])
    BY DEF SerialInv, IInv, ApprovalTypeOK, PeriodInv, PeriodTypeOK
  <1>1. ASSUME NEW r \in Requests, Moves(r), UNCHANGED periodVars PROVE GuardHolds'
    <2>1. lock' = lock
      BY <1>1 DEF periodVars
    <2>2. ASSUME NEW q \in Requests, req'[q].at = "approve.write"
          PROVE  ~ClosedIn({StartMonth[batch'[req'[q].batch].scope]})
      <3>1. PICK h \in Request : HoldsSoundly(r, h)
        BY <1>0, <1>1, MoverOK
      <3>2. CASE q # r
        <4>1. req'[q] = req[q]
          BY <1>0, <3>1, <3>2 DEF HoldsSoundly
        <4>2. req[q].batch \in BatchIds
          BY <1>0, <2>2, <4>1 DEF IInv, Sound, OnBatch, ApproveOps
        <4> QED
          BY <1>0, <1>1, <2>2, <4>1, <4>2, RowsKeepScope DEF GuardHolds
      <3>3. CASE q = r
        <4>1. ApproveGuard(r) /\ Advance(r, "approve.write")
          BY <1>0, <1>1, <2>2, <3>3, OnlyTheGuardLeadsToApproval
        <4>2. /\ req[r].at = "approve.guard" /\ req[r].at \in OnBatch
              /\ batch' = batch
          BY <4>1 DEF ApproveGuard, PeriodGuard, Only, OnBatch, ApproveOps
        <4>3. PICK m : m = StartMonth[Row(r).scope]
          OBVIOUS
        <4>4. PICK old \in Request : old = req[r]
          BY <1>0
        <4>5. req'[r] = [old EXCEPT !.at = "approve.write"] /\ req'[r] # Idle
          BY <1>0, <2>2, <3>3, <4>1, <4>4 DEF Advance, Idle
        <4>6. req'[r].batch = req[r].batch
          BY <4>2, <4>4, <4>5, AdvanceShape
        <4>7. PICK s \in Seen(m) : PeriodIsOpen(s)
          <5>1. ~Return(r)
            BY <1>0, <4>5 DEF Return, Goto
          <5> QED
            BY <4>1, <4>3, <5>1 DEF ApproveGuard, PeriodGuard, Only
        <4>8. m \in Months
          <5>1. Row(r) \in Batch
            BY <1>0, <4>2, BatchShape DEF Row, IInv, Sound
          <5> QED
            BY <4>3, <5>1, ApprovalAssumption DEF Batch
        <4>9. lock[m] \cap Frozen = {}
          BY <4>7, <4>8 DEF Seen, PeriodIsOpen, GuardHolds
        <4> QED
          BY <3>3, <4>2, <4>3, <4>6, <4>9 DEF ClosedIn, Row
      <3> QED
        BY <3>2, <3>3
    <2> QED
      BY <2>1, <2>2 DEF GuardHolds, ClosedIn
  <1>2. ASSUME UNCHANGED approvalVars, lock' = lock PROVE GuardHolds'
    BY <1>2 DEF GuardHolds, ClosedIn, approvalVars
  <1>3. ASSUME UNCHANGED approvalVars, NEW o \in Officers, WritePeriod(o) PROVE GuardHolds'
    <2>1. officer[o] # AtDesk
      BY <1>3 DEF WritePeriod, AtDesk
    <2>2. \A r \in Requests : req[r] = Idle
      BY <1>0, <2>1 DEF Alone
    <2>3. \A r \in Requests : req'[r].at = "idle"
      BY <1>3, <2>2 DEF approvalVars, Idle
    <2>4. \A m \in Months : lock'[m] = lock[m] \/ lock'[m] = {officer[o].to}
      BY <1>0, <1>3 DEF WritePeriod, Upsert
    <2> QED
      BY <2>3, <2>4 DEF GuardHolds
  <1>4. ASSUME NEW o \in Officers, PeriodStep(o) \/ AbortPeriod(o) PROVE lock' = lock \/ WritePeriod(o)
    BY <1>4 DEF PeriodStep, AbortPeriod, LockPeriod, ReopenPeriod, ExportPeriod, ReadPeriod, WriteAudit
  <1> QED
    BY <1>1, <1>2, <1>3, <1>4, NextSteps DEF periodVars

LEMMA ApprovalsComeFromTheWrite ==
    ASSUME SerialInv, GuardHolds, [Next]_vars, NEW b \in BatchIds, BecomesApproved(b)
    PROVE  ~ClosedIn({StartMonth[batch[b].scope]})
  <1>0. IInv /\ Tables /\ \A r \in Requests : Knows(req[r])
    BY DEF SerialInv
  <1>1. ASSUME NEW r \in Requests, Moves(r) PROVE ApproveWrite(r) /\ b = req[r].batch
    <2>1. CASE CreateInsert(r)
      BY <1>0, <2>1, InsertedRow DEF BecomesApproved
    <2>2. CASE batch' = batch
      BY <2>2 DEF BecomesApproved
    <2> QED
      BY <1>0, <1>1, <2>1, <2>2, BatchSteps, SerialStore DEF BecomesApproved
  <1>2. ~UNCHANGED approvalVars
    BY DEF BecomesApproved, approvalVars
  <1>3. PICK r \in Requests : Moves(r)
    BY <1>2, NextSteps
  <1> QED
    BY <1>1, <1>3 DEF ApproveWrite, GuardHolds

\* When requests do not overlap and the table has its key, no batch becomes approved in a
\* month that is locked or exported, whichever way the approval came in.
THEOREM ClosedMonthIsNotApproved ==
    ASSUME UniquePeriodKey PROVE SerialSpec => NoApprovalInClosedMonth
  <1>1. Init => GuardHolds
    <2> SUFFICES ASSUME Init PROVE GuardHolds
      OBVIOUS
    <2>1. Idle.at = "idle"
      BY DEF Idle
    <2> QED
      BY <2>1 DEF Init, PeriodInit, GuardHolds
  <1>2. SerialInv /\ GuardHolds /\ [Next /\ Alone']_vars => GuardHolds'
    BY GuardStepOK
  <1>3. SerialInv /\ GuardHolds /\ [Next /\ Alone']_vars
          => [\A b \in BatchIds : BecomesApproved(b) => ~ClosedIn({StartMonth[batch[b].scope]})]_vars
    BY ApprovalsComeFromTheWrite
  <1> QED
    BY <1>1, <1>2, <1>3, SerialInvariance, PTL DEF SerialSpec, NoApprovalInClosedMonth
=============================================================================
