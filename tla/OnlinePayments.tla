--------------------------- MODULE OnlinePayments ---------------------------
(***************************************************************************)
(* Client invoices and the money that comes for them: the monthly          *)
(* generation (server/routers/clientBilling.ts), manual payments, checkout *)
(* sessions and refunds (server/routers/payments.ts), and the webhooks by  *)
(* which Thawani and Stripe report a paid session                          *)
(* (server/paymentWebhooks.ts).  All payments go through                   *)
(* server/lib/applyClientInvoicePayment.ts or a copy of it.                *)
(*                                                                         *)
(* Nothing runs in a transaction: an action is one statement or one call   *)
(* of the provider, and req[r] is what request r holds between two of      *)
(* them.  The provider is a party of its own: a client may pay a session   *)
(* as soon as the provider has it, and the provider delivers the event of  *)
(* a paid session as often as it likes.                                    *)
(*                                                                         *)
(* Money is counted in baisa, the scale of the columns, so the 0.0005 OMR  *)
(* tolerance of billingEngine.ts vanishes.                                 *)
(***************************************************************************)
EXTENDS Integers, Sequences, FiniteSetsExt

CONSTANTS
    Requests,               \* requests and webhook deliveries handled at the same time
    Periods,                \* client x month pairs to invoice
    Totals,                 \* invoice totals a generation can compute
    Amounts,                \* amounts a caller can enter
    Gateways,               \* the providers in use
    DuplicateIsRecognised,  \* does isDuplicateKeyError see the code of a driver error
    MaxInvoices,            \* bound: invoices ever inserted
    MaxSessions,            \* bound: checkout sessions ever created
    MaxPayments             \* bound: records of an invoice when a manual payment begins

ASSUME PaymentsAssumption ==
    /\ Totals \subseteq Nat \ {0}
    /\ Amounts \subseteq Nat \ {0}
    /\ Gateways \subseteq {"thawani", "stripe"}
    /\ DuplicateIsRecognised \in BOOLEAN
    /\ MaxInvoices \in Nat
    /\ MaxSessions \in Nat
    /\ MaxPayments \in Nat

VARIABLES
    invoice,   \* client_service_invoices, the id being the index
    session,   \* payment_gateway_sessions, the id being the index
    claim,     \* payment_webhook_events: the sessions whose event has a row
    charge,    \* what the provider knows of each session
    req        \* what each request holds

vars == <<invoice, session, claim, charge, req>>

-----------------------------------------------------------------------------
\* recorded is the sum of the invoice_payment_records of an invoice, records their number.
Invoice == [period: Periods, total: Nat, status: {"sent", "partial", "paid"}, paid: Nat,
            itemised: BOOLEAN, records: Nat, recorded: Nat]

\* entries is the number of invoice_payment_records that name the session.
Session == [inv: Nat \ {0}, amount: Nat \ {0}, gateway: Gateways, linked: BOOLEAN,
            status: {"pending", "completed"}, entries: Nat]

Charge == [state: {"none", "open", "settled"}, answered: BOOLEAN, refunded: Nat]

Idle == [at |-> "idle"]

SessionOps == {"session.open", "session.link", "webhook.link", "webhook.claim",
               "apply.read", "webhook.complete"}

\* A payment being applied holds the amount paid that it read; its session is 0 when manual.
Request ==
    {Idle}
    \cup [at: {"generate.insert"}, period: Periods, total: Totals]
    \cup [at: {"generate.lines"}, inv: Nat \ {0}]
    \cup [at: {"session.insert"}, inv: Nat \ {0}, amount: Nat \ {0}, gateway: Gateways]
    \cup [at: SessionOps, session: Nat \ {0}]
    \cup [at: {"apply.insert", "apply.update"}, inv: Nat \ {0}, amount: Nat \ {0}, paid: Nat,
          session: Nat]
    \cup [at: {"refund.provider", "refund.update"}, session: Nat \ {0}, amount: Nat \ {0}, paid: Nat]

InvoiceIds == DOMAIN invoice
SessionIds == DOMAIN session

TypeOK ==
    /\ invoice \in Seq(Invoice)
    /\ session \in Seq(Session)
    /\ charge \in Seq(Charge)
    /\ Len(charge) = Len(session)
    /\ claim \subseteq SessionIds
    /\ req \in [Requests -> Request]

Init ==
    /\ invoice = << >>
    /\ session = << >>
    /\ claim = {}
    /\ charge = << >>
    /\ req = [r \in Requests |-> Idle]

Goto(r, held) == req' = [req EXCEPT ![r] = held]
Advance(r, at) == req' = [req EXCEPT ![r].at = at]
Return(r) == Goto(r, Idle)
Only(A) == A /\ UNCHANGED <<invoice, session, claim, charge>>

-----------------------------------------------------------------------------
(* generateClientServiceInvoices, one client of its loop *)

InvoicesOf(p) == {i \in InvoiceIds : invoice[i].period = p}

GenerateRead(r, p, total) ==
    /\ req[r] = Idle
    /\ InvoicesOf(p) = {}
    /\ Len(invoice) < MaxInvoices
    /\ Only(Goto(r, [at |-> "generate.insert", period |-> p, total |-> total]))

\* uq_client_invoice_period
PeriodKeyCollision(p) == InvoicesOf(p) # {}

\* A collision throws.
GenerateInsert(r) ==
    /\ req[r].at = "generate.insert"
    /\ Len(invoice) < MaxInvoices
    /\ IF PeriodKeyCollision(req[r].period)
       THEN Return(r) /\ UNCHANGED invoice
       ELSE /\ invoice' = Append(invoice, [period |-> req[r].period, total |-> req[r].total,
                                           status |-> "sent", paid |-> 0, itemised |-> FALSE,
                                           records |-> 0, recorded |-> 0])
            /\ Goto(r, [at |-> "generate.lines", inv |-> Len(invoice) + 1])
    /\ UNCHANGED <<session, claim, charge>>

\* The line items, whose number no property tells apart.
GenerateLines(r) ==
    /\ req[r].at = "generate.lines"
    /\ invoice' = [invoice EXCEPT ![req[r].inv].itemised = TRUE]
    /\ Return(r)
    /\ UNCHANGED <<session, claim, charge>>

-----------------------------------------------------------------------------
(* createSession *)

\* Pending sessions of the invoice are not looked at.
CreateRead(r, i, amount, gateway) ==
    /\ req[r] = Idle
    /\ invoice[i].paid < invoice[i].total
    /\ Len(session) < MaxSessions
    /\ Only(Goto(r, [at |-> "session.insert", inv |-> i, gateway |-> gateway,
                     amount |-> LET balance == invoice[i].total - invoice[i].paid
                                IN IF amount < balance THEN amount ELSE balance]))

CreateInsert(r) ==
    /\ req[r].at = "session.insert"
    /\ Len(session) < MaxSessions
    /\ session' = Append(session, [inv |-> req[r].inv, amount |-> req[r].amount,
                                   gateway |-> req[r].gateway, linked |-> FALSE,
                                   status |-> "pending", entries |-> 0])
    /\ charge' = Append(charge, [state |-> "none", answered |-> FALSE, refunded |-> 0])
    /\ Goto(r, [at |-> "session.open", session |-> Len(session) + 1])
    /\ UNCHANGED <<invoice, claim>>

\* The provider creates the checkout session, with our reference or id on it.
CreateOpen(r) ==
    /\ req[r].at = "session.open"
    /\ charge' = [charge EXCEPT ![req[r].session].state = "open"]
    /\ Advance(r, "session.link")
    /\ UNCHANGED <<invoice, session, claim>>

CreateLink(r) ==
    /\ req[r].at = "session.link"
    /\ session' = [session EXCEPT ![req[r].session].linked = TRUE]
    /\ Return(r)
    /\ UNCHANGED <<invoice, claim, charge>>

-----------------------------------------------------------------------------
(* The provider: the client pays. *)

Settle(s) ==
    /\ charge[s].state = "open"
    /\ charge' = [charge EXCEPT ![s].state = "settled"]
    /\ UNCHANGED <<invoice, session, claim, req>>

Settled(s) == s \in SessionIds /\ charge[s].state = "settled"
Answered(s) == s \in SessionIds /\ charge[s].answered

-----------------------------------------------------------------------------
(* reconcileThawaniPaid and reconcileStripeCheckoutCompleted *)

\* The handler returns: the provider sees a 200.
Answer(r, s) == charge' = [charge EXCEPT ![s].answered = TRUE] /\ Return(r)

\* Fault: the session is looked up by the provider's id only.
DeliverByGatewayId(r, s) ==
    /\ req[r] = Idle
    /\ Settled(s)
    /\ IF session[s].status = "completed" \/ ~session[s].linked
       THEN Answer(r, s)
       ELSE Goto(r, [at |-> "webhook.claim", session |-> s]) /\ UNCHANGED charge
    /\ UNCHANGED <<invoice, session, claim>>

\* The session is found by the provider's id, or else by the reference we gave it.
Deliver(r, s) ==
    /\ req[r] = Idle
    /\ Settled(s)
    /\ IF session[s].status = "completed"
       THEN Answer(r, s)
       ELSE /\ Goto(r, [at |-> IF session[s].gateway = "thawani" /\ ~session[s].linked
                               THEN "webhook.link"
                               ELSE "webhook.claim",
                        session |-> s])
            /\ UNCHANGED charge
    /\ UNCHANGED <<invoice, session, claim>>

WebhookLink(r) ==
    /\ req[r].at = "webhook.link"
    /\ session' = [session EXCEPT ![req[r].session].linked = TRUE]
    /\ Advance(r, "webhook.claim")
    /\ UNCHANGED <<invoice, claim, charge>>

\* Fault: events are not remembered.
ClaimNothing(r) ==
    /\ req[r].at = "webhook.claim"
    /\ Only(Advance(r, "apply.read"))

\* The insert into payment_webhook_events, whose duplicate key stops a repeated event.
\* When the error is not recognised as a duplicate it is thrown, and the answer is a 500.
\* Thawani's key also names the invoice of the remote session, of which there is one.
WebhookClaim(r) ==
    /\ req[r].at = "webhook.claim"
    /\ IF req[r].session \in claim
       THEN /\ IF DuplicateIsRecognised THEN Answer(r, req[r].session) ELSE Return(r) /\ UNCHANGED charge
            /\ UNCHANGED claim
       ELSE /\ claim' = claim \cup {req[r].session}
            /\ Advance(r, "apply.read")
            /\ UNCHANGED charge
    /\ UNCHANGED <<invoice, session>>

\* Fault: the request fails after the money is recorded.
CompleteUnanswered(r) ==
    /\ req[r].at = "webhook.complete"
    /\ Only(Return(r))

WebhookComplete(r) ==
    /\ req[r].at = "webhook.complete"
    /\ session' = [session EXCEPT ![req[r].session].status = "completed",
                                  ![req[r].session].linked = TRUE]
    /\ Answer(r, req[r].session)
    /\ UNCHANGED <<invoice, claim>>

-----------------------------------------------------------------------------
(* applyInvoicePayment *)

\* The check of applyPayment.
Fits(i, amount) == invoice[i].paid + amount <= invoice[i].total

Applying(i, amount, s) ==
    [at |-> "apply.insert", inv |-> i, amount |-> amount, paid |-> invoice[i].paid, session |-> s]

\* recordManual, recordPayment
PayRead(r, i, amount) ==
    /\ req[r] = Idle
    /\ invoice[i].records < MaxPayments
    /\ Fits(i, amount)
    /\ Only(Goto(r, Applying(i, amount, 0)))

\* For a webhook, a payment that does not fit any more throws, and the answer is a 500.
ApplyRead(r) ==
    /\ req[r].at = "apply.read"
    /\ LET s == session[req[r].session]
       IN Only(IF Fits(s.inv, s.amount)
               THEN Goto(r, Applying(s.inv, s.amount, req[r].session))
               ELSE Return(r))

ApplyInsert(r) ==
    /\ req[r].at = "apply.insert"
    /\ invoice' = [invoice EXCEPT ![req[r].inv].records = @ + 1,
                                  ![req[r].inv].recorded = @ + req[r].amount]
    /\ session' = [s \in SessionIds |->
                      IF s = req[r].session THEN [session[s] EXCEPT !.entries = @ + 1] ELSE session[s]]
    /\ Advance(r, "apply.update")
    /\ UNCHANGED <<claim, charge>>

\* The status and the amount that applyPayment and applyRefund compute.
PaidUp(row, paid) ==
    [row EXCEPT !.paid = paid,
                !.status = IF paid >= row.total THEN "paid" ELSE "partial"]
Reduced(row, paid) ==
    [row EXCEPT !.paid = paid,
                !.status = IF paid = 0 THEN "sent" ELSE "partial"]

\* Fault: the amount is added to itself.
ApplyTwice(r) ==
    /\ req[r].at = "apply.update"
    /\ invoice' = [invoice EXCEPT ![req[r].inv] = PaidUp(@, req[r].paid + 2 * req[r].amount)]
    /\ IF req[r].session = 0
       THEN Return(r)
       ELSE Goto(r, [at |-> "webhook.complete", session |-> req[r].session])
    /\ UNCHANGED <<session, claim, charge>>

ApplyUpdate(r) ==
    /\ req[r].at = "apply.update"
    /\ invoice' = [invoice EXCEPT ![req[r].inv] = PaidUp(@, req[r].paid + req[r].amount)]
    /\ IF req[r].session = 0
       THEN Return(r)
       ELSE Goto(r, [at |-> "webhook.complete", session |-> req[r].session])
    /\ UNCHANGED <<session, claim, charge>>

-----------------------------------------------------------------------------
(* refund *)

\* A payment record of the session is joined with its invoice; the record does not say
\* what was refunded already.
RefundRead(r, s, amount) ==
    /\ req[r] = Idle
    /\ session[s].entries > 0
    /\ Only(Goto(r, [at |-> "refund.provider", session |-> s,
                     amount |-> IF amount < session[s].amount THEN amount ELSE session[s].amount,
                     paid |-> invoice[session[s].inv].paid]))

\* The provider refuses to give back more than was paid, and the request throws.
RefundProvider(r) ==
    /\ req[r].at = "refund.provider"
    /\ IF charge[req[r].session].refunded + req[r].amount <= session[req[r].session].amount
       THEN /\ charge' = [charge EXCEPT ![req[r].session].refunded = @ + req[r].amount]
            /\ Advance(r, "refund.update")
       ELSE Return(r) /\ UNCHANGED charge
    /\ UNCHANGED <<invoice, session, claim>>

\* Fault: a refund leaves the invoice as it is.
RefundUnbooked(r) ==
    /\ req[r].at = "refund.update"
    /\ Only(Return(r))

\* Fault: a refund is taken off whatever amount was read.
RefundUnchecked(r) ==
    /\ req[r].at = "refund.update"
    /\ invoice' = [invoice EXCEPT ![session[req[r].session].inv] =
                                     Reduced(@, req[r].paid - req[r].amount)]
    /\ Return(r)
    /\ UNCHANGED <<session, claim, charge>>

\* applyRefund throws when the amount read at the start is smaller than the refund.
RefundUpdate(r) ==
    /\ req[r].at = "refund.update"
    /\ invoice' = IF req[r].amount <= req[r].paid
                  THEN [invoice EXCEPT ![session[req[r].session].inv] =
                                          Reduced(@, req[r].paid - req[r].amount)]
                  ELSE invoice
    /\ Return(r)
    /\ UNCHANGED <<session, claim, charge>>

-----------------------------------------------------------------------------
\* The process dies, or a statement or a call of request r fails: what it wrote stays.
Abort(r) ==
    /\ req[r] # Idle
    /\ Only(Return(r))

Arrive(r) ==
    \/ \E p \in Periods, total \in Totals : GenerateRead(r, p, total)
    \/ \E i \in InvoiceIds, a \in Amounts :
          \/ PayRead(r, i, a)
          \/ \E g \in Gateways : CreateRead(r, i, a, g)
    \/ \E s \in SessionIds : Deliver(r, s) \/ \E a \in Amounts : RefundRead(r, s, a)

Continue(r) ==
    \/ GenerateInsert(r)
    \/ GenerateLines(r)
    \/ CreateInsert(r)
    \/ CreateOpen(r)
    \/ CreateLink(r)
    \/ WebhookLink(r)
    \/ WebhookClaim(r)
    \/ WebhookComplete(r)
    \/ ApplyRead(r)
    \/ ApplyInsert(r)
    \/ ApplyUpdate(r)
    \/ RefundProvider(r)
    \/ RefundUpdate(r)

Step ==
    \/ \E r \in Requests : Arrive(r) \/ Continue(r)
    \/ \E s \in SessionIds : Settle(s)

Next == Step \/ \E r \in Requests : Abort(r)

Spec == Init /\ [][Next]_vars

\* No request is cut short.
CrashFreeSpec == Init /\ [][Step]_vars

\* No request is cut short, and none arrives while another is under way: what the
\* provider does is up to it.
Quiet == \A r \in Requests : req[r] = Idle
SerialNext ==
    \/ \E r \in Requests : (Quiet /\ Arrive(r)) \/ Continue(r)
    \/ \E s \in SessionIds : Settle(s)
SerialSpec == Init /\ [][SerialNext]_vars

\* A request that has begun goes on, and the provider delivers the event of a paid
\* session again and again until it is answered: however busy the server is, a delivery
\* that finds it free over and over gets through.
Fairness ==
    /\ \A r \in Requests : WF_vars(Continue(r))
    /\ \A s \in 1 .. MaxSessions :
          SF_vars(Settled(s) /\ ~Answered(s) /\ \E r \in Requests : Deliver(r, s))
FairCrashFreeSpec == CrashFreeSpec /\ Fairness
-----------------------------------------------------------------------------
(* What holds whatever requests overlap, and whatever request is cut short. *)

\* The amount an invoice shows as paid is covered by its payment records and by its
\* total, although a manual payment, a webhook and a refund each write an amount
\* computed from what they read several statements earlier.
PaidIsCovered ==
    \A i \in InvoiceIds : invoice[i].paid <= invoice[i].recorded /\ invoice[i].paid <= invoice[i].total

\* A provider is told 200 only for an event whose claim was stored, so no paid session
\* is dropped as unknown: not one whose creation died before the provider's id was
\* written (paymentWebhooks.ts:56).
AnsweredIsClaimed == \A s \in SessionIds : Answered(s) => s \in claim

\* A session in the eyes of Settlement.
Books == INSTANCE Settlement WITH
    Sessions <- 1 .. MaxSessions,
    charged  <- {s \in SessionIds : Settled(s)},
    entries  <- [s \in 1 .. MaxSessions |-> IF s \in SessionIds THEN session[s].entries ELSE 0],
    closed   <- {s \in SessionIds : session[s].status = "completed"}

\* However deliveries repeat, overlap and fail, the money of a session is entered at
\* most once, after it was paid and before the session is completed.
ImplementsSettlement == Books!Spec

-----------------------------------------------------------------------------
(* What holds when requests do not overlap and none is cut short. *)

RefundedOn(i) ==
    MapThenSumSet(LAMBDA s : charge[s].refunded, {s \in SessionIds : session[s].inv = i})

\* Between requests an invoice shows what was recorded less what the provider gave
\* back: "use when the PSP refund is the source of truth" (billingEngine.ts:97).
BooksAgree ==
    Quiet =>
        \A i \in InvoiceIds : invoice[i].paid = invoice[i].recorded - RefundedOn(i)

\* The claim of session s is stored, its money is not in the books, and nobody is on it.
Stranded(s) ==
    /\ s \in claim
    /\ session[s].entries = 0
    /\ \A r \in Requests : req[r] # Idle => req[r].at \notin {"apply.read", "apply.insert"}

\* The event of a paid session is answered in the end, unless its payment was refused
\* after the claim was stored.
SettledIsHandled ==
    \A s \in 1 .. MaxSessions : Settled(s) ~> (Answered(s) \/ Stranded(s))

-----------------------------------------------------------------------------
(* What the comments of the repository say, and the code does not keep. *)

\* "webhook idempotency" (drizzle/0057_payment_gateway.sql:1), and the handler's own
\* `if (isDuplicateKeyError(e)) return;` (paymentWebhooks.ts:86): a delivery that is
\* repeated until it is answered is answered in the end.
SettledIsAnswered == \A s \in 1 .. MaxSessions : Settled(s) ~> Answered(s)
=============================================================================
