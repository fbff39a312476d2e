------------------------ MODULE OnlinePayments_proofs ------------------------
(***************************************************************************)
(* Proofs about OnlinePayments for every number of overlapping requests,   *)
(* periods, sessions and repeated deliveries, with requests that die       *)
(* between any two statements.                                             *)
(***************************************************************************)
EXTENDS OnlinePayments, Sums, SequenceTheorems, FiniteSetTheorems, TLAPS

-----------------------------------------------------------------------------
(* The inductive invariant *)

\* An invoice shows no more than it recorded and no more than its total.
InvoicesOK ==
    \A i \in InvoiceIds : invoice[i].paid <= invoice[i].recorded /\ invoice[i].paid <= invoice[i].total

\* The life of a session: settled, claimed, entered once, completed; an event is answered
\* only after its claim.
SessionsOK ==
    \A s \in SessionIds :
        /\ session[s].inv \in InvoiceIds
        /\ s \in claim => charge[s].state = "settled"
        /\ session[s].entries \in {0, 1}
        /\ session[s].entries = 1 => s \in claim
        /\ session[s].status = "completed" => session[s].entries = 1
        /\ charge[s].answered => s \in claim

\* What a step has to show of the tables it leaves.
TablesOK ==
    /\ invoice \in Seq(Invoice)
    /\ session \in Seq(Session)
    /\ charge \in Seq(Charge)
    /\ Len(charge) = Len(session)
    /\ Len(session) <= MaxSessions
    /\ claim \subseteq SessionIds
    /\ InvoicesOK
    /\ SessionsOK

\* What a request may hold when I, S and K are the invoices, sessions and charges: the
\* rows it is about to write exist, its event was settled, and the amount that it read
\* is still covered by the invoice it is about to write.
Sound(h, I, S, K) ==
    /\ h \in Request
    /\ h.at \in {"generate.lines", "session.insert", "apply.insert", "apply.update"} => h.inv \in DOMAIN I
    /\ h.at \in SessionOps \cup {"refund.provider", "refund.update"} => h.session \in DOMAIN S
    /\ h.at \in {"webhook.link", "webhook.claim"} => K[h.session].state = "settled"
    /\ h.at \in {"apply.insert", "apply.update"} =>
          /\ h.session \in {0} \cup DOMAIN S
          /\ h.paid + h.amount <= I[h.inv].total
    /\ h.at = "apply.insert" => h.paid <= I[h.inv].recorded
    /\ h.at = "apply.update" => h.paid + h.amount <= I[h.inv].recorded
    /\ h.at \in {"refund.provider", "refund.update"} =>
          /\ h.paid <= I[S[h.session].inv].recorded
          /\ h.paid <= I[S[h.session].inv].total

\* The sessions that request h, and no other, may open, enter or complete.
Own(h) ==
    IF h.at \in {"session.open", "apply.read", "webhook.complete"} THEN {h.session}
    ELSE IF h.at \in {"apply.insert", "apply.update"} THEN {h.session} \ {0}
    ELSE {}

\* How far the session s that request h owns has come.
Reached(h, s, S, C, K) ==
    CASE h.at = "session.open" -> K[s].state = "none"
      [] h.at \in {"apply.read", "apply.insert"} -> s \in C /\ S[s].entries = 0
      [] OTHER -> s \in C /\ S[s].entries = 1

OwnedOK(h, S, C, K) == \A s \in Own(h) : s \in DOMAIN S /\ Reached(h, s, S, C, K)

HeldIsSound ==
    \A r \in Requests :
        Sound(req[r], invoice, session, charge) /\ OwnedOK(req[r], session, claim, charge)

\* No two requests own a session: the claim keeps repeated deliveries apart.
OneOwner == \A q, r \in Requests : q # r => Own(req[q]) \cap Own(req[r]) = {}

PaymentsInv == TablesOK /\ req \in [Requests -> Request] /\ HeldIsSound /\ OneOwner

-----------------------------------------------------------------------------
(* What rows and requests look like *)

LEMMA RequestShape ==
    ASSUME NEW h \in Request
    PROVE  /\ h.at = "generate.insert" => h.period \in Periods /\ h.total \in Totals
           /\ h.at = "generate.lines" => h.inv \in Nat \ {0}
           /\ h.at = "session.insert" =>
                 h.inv \in Nat \ {0} /\ h.amount \in Nat \ {0} /\ h.gateway \in Gateways
           /\ h.at \in SessionOps => h.session \in Nat \ {0}
           /\ h.at \in {"apply.insert", "apply.update"} =>
                 /\ h.inv \in Nat \ {0} /\ h.amount \in Nat \ {0}
                 /\ h.paid \in Nat /\ h.session \in Nat
           /\ h.at \in {"refund.provider", "refund.update"} =>
                 h.session \in Nat \ {0} /\ h.amount \in Nat \ {0} /\ h.paid \in Nat
  BY DEF Request, Idle, SessionOps

\* Moving a request that is on a session to its next statement.
LEMMA Advanced ==
    ASSUME NEW h \in Request, NEW at
    PROVE  /\ h.at \in SessionOps /\ at \in SessionOps =>
                 [h EXCEPT !.at = at] = [at |-> at, session |-> h.session]
           /\ h.at = "apply.insert" /\ at = "apply.update" =>
                 [h EXCEPT !.at = at] = [at |-> at, inv |-> h.inv, amount |-> h.amount,
                                         paid |-> h.paid, session |-> h.session]
           /\ h.at = "refund.provider" /\ at = "refund.update" =>
                 [h EXCEPT !.at = at] = [at |-> at, session |-> h.session,
                                         amount |-> h.amount, paid |-> h.paid]
  BY DEF Request, Idle, SessionOps

LEMMA IdleIsSound ==
    /\ \A I, S, K : Sound(Idle, I, S, K)
    /\ Own(Idle) = {}
  BY DEF Request, Idle, Sound, Own, SessionOps

LEMMA TablesShape ==
    ASSUME PaymentsInv
    PROVE  /\ invoice \in Seq(Invoice) /\ Len(invoice) \in Nat /\ InvoiceIds = 1..Len(invoice)
           /\ \A i \in InvoiceIds : invoice[i] \in Invoice
           /\ session \in Seq(Session) /\ Len(session) \in Nat /\ SessionIds = 1..Len(session)
           /\ \A s \in SessionIds : session[s] \in Session
           /\ charge \in Seq(Charge) /\ Len(charge) = Len(session) /\ DOMAIN charge = SessionIds
           /\ \A s \in SessionIds : charge[s] \in Charge
           /\ claim \subseteq SessionIds
           /\ req \in [Requests -> Request]
           /\ InvoicesOK /\ SessionsOK /\ HeldIsSound
  <1>1. /\ invoice \in Seq(Invoice) /\ session \in Seq(Session) /\ charge \in Seq(Charge)
        /\ Len(charge) = Len(session)
    BY DEF PaymentsInv, TablesOK
  <1> QED
    BY <1>1, LenProperties DEF PaymentsInv, TablesOK, InvoiceIds, SessionIds

-----------------------------------------------------------------------------
(* How a step leaves the other requests their rows *)

\* The tables move on: rows stay, keep what does not change in the code, and record no
\* less; claims stay, and what is settled stays settled.
MovesOn ==
    /\ \A i \in InvoiceIds :
          /\ i \in InvoiceIds'
          /\ invoice'[i].total = invoice[i].total
          /\ invoice[i].recorded <= invoice'[i].recorded
          /\ invoice[i].recorded \in Nat /\ invoice'[i].recorded \in Nat
    /\ \A s \in SessionIds :
          /\ s \in SessionIds'
          /\ session'[s].inv = session[s].inv
          /\ session[s].inv \in InvoiceIds
          /\ charge[s].state = "settled" => charge'[s].state = "settled"
    /\ claim \subseteq claim'

\* Outside the sessions T no session is opened and no money is entered.
Leaves(T) ==
    \A s \in SessionIds \ T :
        /\ session'[s].entries = session[s].entries
        /\ charge[s].state = "none" => charge'[s].state = "none"

\* The sessions nobody owns.
Free == {s \in Nat : \A q \in Requests : s \notin Own(req[q])}

LEMMA SoundLasts ==
    ASSUME PaymentsInv, MovesOn, NEW h, Sound(h, invoice, session, charge)
    PROVE  Sound(h, invoice', session', charge')
  <1>1. h \in Request
    BY DEF Sound
  <1>2. h.at \in {"apply.insert", "apply.update"} => h.paid \in Nat /\ h.amount \in Nat
    BY <1>1, RequestShape
  <1>3. h.at \in {"refund.provider", "refund.update"} => h.paid \in Nat
    BY <1>1, RequestShape
  <1> QED
    BY <1>2, <1>3 DEF Sound, MovesOn, InvoiceIds, SessionIds, SessionOps

LEMMA OwnedLasts ==
    ASSUME PaymentsInv, MovesOn, NEW T, Leaves(T), NEW h, Own(h) \cap T = {},
           OwnedOK(h, session, claim, charge)
    PROVE  OwnedOK(h, session', claim', charge')
  <1> SUFFICES ASSUME NEW s \in Own(h)
               PROVE  s \in DOMAIN session' /\ Reached(h, s, session', claim', charge')
    BY DEF OwnedOK
  <1>1. s \in SessionIds /\ Reached(h, s, session, claim, charge) /\ s \notin T
    BY DEF OwnedOK, SessionIds
  <1> QED
    BY <1>1 DEF Reached, MovesOn, Leaves, SessionIds

\* One request moves; what the others hold stays sound, and theirs stays theirs.
LEMMA OneMoves ==
    ASSUME PaymentsInv, NEW r \in Requests, NEW h, Goto(r, h), TablesOK', MovesOn,
           Leaves(Own(req[r])),
           Own(h) \subseteq Own(req[r]) \cup Free,
           Sound(h, invoice', session', charge'),
           OwnedOK(h, session', claim', charge')
    PROVE  PaymentsInv'
  <1>1. req \in [Requests -> Request] /\ req' = [req EXCEPT ![r] = h] /\ h \in Request
    BY DEF PaymentsInv, Goto, Sound
  <1>2. \A q \in Requests : req'[q] = IF q = r THEN h ELSE req[q]
    BY <1>1
  <1>3. req' \in [Requests -> Request]
    BY <1>1
  <1>4. \A q \in Requests \ {r} : Own(req[q]) \cap Own(req[r]) = {}
    BY DEF PaymentsInv, OneOwner
  <1>5. HeldIsSound'
    <2> SUFFICES ASSUME NEW q \in Requests
                 PROVE  /\ Sound(req'[q], invoice', session', charge')
                        /\ OwnedOK(req'[q], session', claim', charge')
      BY DEF HeldIsSound
    <2>1. CASE q = r
      BY <1>2, <2>1
    <2>2. CASE q # r
      <3>1. /\ Sound(req[q], invoice, session, charge)
            /\ OwnedOK(req[q], session, claim, charge)
        BY DEF PaymentsInv, HeldIsSound
      <3>2. req'[q] = req[q] /\ Own(req[q]) \cap Own(req[r]) = {}
        BY <1>2, <1>4, <2>2
      <3> QED
        BY <3>1, <3>2, SoundLasts, OwnedLasts
    <2> QED
      BY <2>1, <2>2
  <1>6. OneOwner'
    <2>1. \A q \in Requests \ {r} : Own(h) \cap Own(req[q]) = {}
      BY <1>4 DEF Free
    <2>2. \A p, q \in Requests : p # q => Own(req[p]) \cap Own(req[q]) = {}
      BY DEF PaymentsInv, OneOwner
    <2>3. \A p, q \in Requests : p # q => Own(req'[p]) \cap Own(req'[q]) = {}
      <3> SUFFICES ASSUME NEW p \in Requests, NEW q \in Requests, p # q
                   PROVE  Own(req'[p]) \cap Own(req'[q]) = {}
        OBVIOUS
      <3>1. CASE p = r
        BY <1>2, <2>1, <3>1
      <3>2. CASE q = r
        BY <1>2, <2>1, <3>2
      <3>3. CASE p # r /\ q # r
        BY <1>2, <2>2, <3>3
      <3> QED
        BY <3>1, <3>2, <3>3
    <2> QED
      BY <2>3 DEF OneOwner
  <1> QED
    BY <1>3, <1>5, <1>6 DEF PaymentsInv

\* A step of the provider or of nobody.
LEMMA NoneMoves ==
    ASSUME PaymentsInv, UNCHANGED req, TablesOK', MovesOn, Leaves({})
    PROVE  PaymentsInv'
  <1>1. ASSUME NEW q \in Requests
        PROVE  /\ Sound(req'[q], invoice', session', charge')
               /\ OwnedOK(req'[q], session', claim', charge')
    BY SoundLasts, OwnedLasts DEF PaymentsInv, HeldIsSound
  <1> QED
    BY <1>1 DEF PaymentsInv, HeldIsSound, OneOwner

-----------------------------------------------------------------------------
(* What the statements do to the tables *)

\* The invoices after a step, seen from the invoices before it.
InvoicesMove ==
    /\ invoice' \in Seq(Invoice)
    /\ InvoicesOK'
    /\ \A i \in InvoiceIds :
          /\ i \in InvoiceIds'
          /\ invoice'[i].total = invoice[i].total
          /\ invoice[i].recorded <= invoice'[i].recorded
          /\ invoice[i].recorded \in Nat /\ invoice'[i].recorded \in Nat

\* A step that writes at most row s of a table, or its charge.
SessionAt(s, row) ==
    /\ session' \in Seq(Session)
    /\ Len(session') = Len(session)
    /\ \A t \in SessionIds : session'[t] = IF t = s THEN row ELSE session[t]

ChargeAt(s, k) ==
    /\ charge' \in Seq(Charge)
    /\ Len(charge') = Len(session)
    /\ \A t \in SessionIds : charge'[t] = IF t = s THEN k ELSE charge[t]

\* What row s, its charge k and the claims C may become.
Consistent(s, row, k, C) ==
    /\ row.inv = session[s].inv
    /\ s \in C => k.state = "settled"
    /\ row.entries \in {0, 1}
    /\ row.entries = 1 => s \in C
    /\ row.status = "completed" => row.entries = 1
    /\ k.answered => s \in C
    /\ charge[s].state = "settled" => k.state = "settled"

LEMMA SessionWritten ==
    ASSUME PaymentsInv, NEW s \in SessionIds, NEW row \in Session,
           session' = [session EXCEPT ![s] = row]
    PROVE  SessionAt(s, row)
  BY TablesShape, ExceptSeq DEF SessionAt

LEMMA SessionKept ==
    ASSUME PaymentsInv, NEW s, UNCHANGED session
    PROVE  SessionAt(s, session[s])
  BY TablesShape DEF SessionAt

LEMMA ChargeWritten ==
    ASSUME PaymentsInv, NEW s \in SessionIds, NEW k \in Charge,
           charge' = [charge EXCEPT ![s] = k]
    PROVE  ChargeAt(s, k)
  BY TablesShape, ExceptSeq DEF ChargeAt

LEMMA ChargeKept ==
    ASSUME PaymentsInv, NEW s, UNCHANGED charge
    PROVE  ChargeAt(s, charge[s])
  BY TablesShape DEF ChargeAt

LEMMA InvoicesKept ==
    ASSUME PaymentsInv, UNCHANGED invoice
    PROVE  InvoicesMove /\ InvoiceIds' = InvoiceIds
  BY TablesShape DEF InvoicesMove, InvoicesOK, InvoiceIds, Invoice

\* An update of one invoice.
LEMMA InvoiceWritten ==
    ASSUME PaymentsInv, NEW i \in InvoiceIds, NEW row \in Invoice,
           invoice' = [invoice EXCEPT ![i] = row],
           row.period = invoice[i].period, row.total = invoice[i].total,
           invoice[i].recorded <= row.recorded,
           row.paid <= row.recorded, row.paid <= row.total
    PROVE  InvoicesMove /\ InvoiceIds' = InvoiceIds
  <1>1. /\ invoice' \in Seq(Invoice) /\ Len(invoice') = Len(invoice)
        /\ \A j \in InvoiceIds : invoice'[j] = IF j = i THEN row ELSE invoice[j]
    BY TablesShape, ExceptSeq
  <1>2. InvoiceIds' = InvoiceIds
    BY <1>1, TablesShape, LenProperties DEF InvoiceIds
  <1>3. InvoicesOK'
    BY <1>1, <1>2, TablesShape DEF InvoicesOK
  <1>4. \A j \in InvoiceIds : invoice[j].recorded \in Nat /\ invoice'[j].recorded \in Nat
    BY <1>1, TablesShape DEF Invoice
  <1> QED
    BY <1>1, <1>2, <1>3, <1>4 DEF InvoicesMove

\* A new invoice.
LEMMA InvoiceAdded ==
    ASSUME PaymentsInv, NEW row \in Invoice, invoice' = Append(invoice, row),
           row.paid = 0
    PROVE  InvoicesMove /\ Len(invoice) + 1 \in InvoiceIds'
  <1>1. /\ invoice' \in Seq(Invoice) /\ Len(invoice') = Len(invoice) + 1
        /\ \A j \in 1..Len(invoice) : invoice'[j] = invoice[j]
        /\ invoice'[Len(invoice) + 1] = row
    BY TablesShape, AppendProperties
  <1>2. /\ InvoiceIds' = 1..(Len(invoice) + 1)
        /\ \A j \in InvoiceIds' : j \in InvoiceIds \/ j = Len(invoice) + 1
        /\ InvoiceIds \subseteq InvoiceIds' /\ Len(invoice) + 1 \in InvoiceIds'
    BY <1>1, TablesShape, LenProperties DEF InvoiceIds
  <1>4. row.total \in Nat /\ row.recorded \in Nat
    BY DEF Invoice
  <1>5. InvoicesOK'
    BY <1>1, <1>2, <1>4, TablesShape DEF InvoicesOK
  <1>6. \A j \in InvoiceIds : invoice[j].recorded \in Nat /\ invoice'[j].recorded \in Nat
    BY <1>1, TablesShape DEF Invoice
  <1> QED
    BY <1>1, <1>2, <1>5, <1>6, TablesShape DEF InvoicesMove

\* An update of one session, of its charge or of its claim.
LEMMA SessionsMove ==
    ASSUME PaymentsInv, InvoicesMove, NEW s \in SessionIds, NEW row, NEW k,
           SessionAt(s, row), ChargeAt(s, k), claim \subseteq claim', claim' \subseteq claim \cup {s},
           Consistent(s, row, k, claim')
    PROVE  /\ TablesOK' /\ MovesOn /\ Leaves({s})
           /\ SessionIds' = SessionIds
           /\ row.entries = session[s].entries /\ (charge[s].state = "none" => k.state = "none")
                 => \A T : Leaves(T)
  <1>1. SessionIds' = SessionIds /\ DOMAIN charge' = SessionIds
    BY TablesShape, LenProperties DEF SessionAt, ChargeAt, SessionIds
  <1>2. SessionsOK'
    <2> SUFFICES ASSUME NEW t \in SessionIds
                 PROVE  /\ session'[t].inv \in InvoiceIds'
                        /\ t \in claim' => charge'[t].state = "settled"
                        /\ session'[t].entries \in {0, 1}
                        /\ session'[t].entries = 1 => t \in claim'
                        /\ session'[t].status = "completed" => session'[t].entries = 1
                        /\ charge'[t].answered => t \in claim'
      BY <1>1 DEF SessionsOK
    <2>1. session[t].inv \in InvoiceIds'
      BY TablesShape DEF SessionsOK, InvoicesMove
    <2>2. CASE t = s
      BY <2>1, <2>2 DEF SessionAt, ChargeAt, Consistent
    <2>3. CASE t # s
      BY <2>1, <2>3, TablesShape DEF SessionAt, ChargeAt, SessionsOK
    <2> QED
      BY <2>2, <2>3
  <1>3. TablesOK'
    <2>1. claim' \subseteq SessionIds'
      BY <1>1, TablesShape
    <2>2. Len(session) <= MaxSessions
      BY DEF PaymentsInv, TablesOK
    <2> QED
      BY <1>2, <2>1, <2>2 DEF TablesOK, InvoicesMove, SessionAt, ChargeAt
  <1>4. MovesOn
    <2>1. \A t \in SessionIds : /\ session'[t].inv = session[t].inv
                                /\ session[t].inv \in InvoiceIds
                                /\ charge[t].state = "settled" => charge'[t].state = "settled"
      BY TablesShape DEF SessionAt, ChargeAt, Consistent, SessionsOK
    <2> QED
      BY <1>1, <2>1 DEF MovesOn, InvoicesMove
  <1> QED
    BY <1>1, <1>3, <1>4 DEF Leaves, SessionAt, ChargeAt

LEMMA TablesMove ==
    ASSUME PaymentsInv, InvoicesMove, UNCHANGED <<session, claim, charge>>
    PROVE  /\ TablesOK' /\ MovesOn /\ SessionIds' = SessionIds
           /\ \A T : Leaves(T)
  <1>1. SessionIds' = SessionIds
    BY DEF SessionIds
  <1>2. SessionsOK'
    BY TablesShape, <1>1 DEF SessionsOK, InvoicesMove
  <1>3. TablesOK'
    BY <1>1, <1>2 DEF TablesOK, InvoicesMove, PaymentsInv
  <1>4. MovesOn
    BY <1>1, TablesShape DEF MovesOn, InvoicesMove, SessionsOK
  <1> QED
    BY <1>1, <1>3, <1>4 DEF Leaves

\* Reads take no more than a note.
LEMMA ReadIsSafe ==
    ASSUME PaymentsInv, NEW r \in Requests, NEW h, Only(Goto(r, h)),
           Own(h) \subseteq Own(req[r]),
           Sound(h, invoice, session, charge), OwnedOK(h, session, claim, charge)
    PROVE  PaymentsInv'
  <1>1. Goto(r, h) /\ UNCHANGED <<invoice, session, claim, charge>>
    BY DEF Only
  <1>2. InvoicesMove
    BY <1>1, InvoicesKept
  <1> QED
    BY <1>1, <1>2, TablesMove, OneMoves

\* A request that is done owns nothing.
LEMMA NothingOwned ==
    ASSUME NEW h, Own(h) = {}
    PROVE  \A S, C, K : OwnedOK(h, S, C, K)
  BY DEF OwnedOK

-----------------------------------------------------------------------------
(* One lemma per procedure *)

LEMMA InitOK == Init => PaymentsInv
  <1> SUFFICES ASSUME Init
               PROVE  PaymentsInv
    OBVIOUS
  <1>1. /\ invoice \in Seq(Invoice) /\ session \in Seq(Session) /\ charge \in Seq(Charge)
        /\ Len(session) = 0 /\ Len(charge) = 0
        /\ InvoiceIds = {} /\ SessionIds = {} /\ claim = {}
    BY EmptySeq DEF Init, InvoiceIds, SessionIds
  <1>2. \A r \in Requests : req[r] = Idle
    BY DEF Init
  <1>3. Idle \in Request
    BY DEF Request
  <1>4. req \in [Requests -> Request]
    BY <1>3 DEF Init
  <1>5. TablesOK
    BY <1>1, PaymentsAssumption DEF TablesOK, InvoicesOK, SessionsOK
  <1>6. HeldIsSound
    BY <1>2, IdleIsSound, NothingOwned DEF HeldIsSound
  <1>7. OneOwner
    BY <1>2, IdleIsSound DEF OneOwner
  <1> QED
    BY <1>4, <1>5, <1>6, <1>7 DEF PaymentsInv

\* What the invariant says of request r.
LEMMA Held ==
    ASSUME PaymentsInv, NEW r \in Requests
    PROVE  /\ req[r] \in Request
           /\ Sound(req[r], invoice, session, charge)
           /\ OwnedOK(req[r], session, claim, charge)
  BY DEF PaymentsInv, HeldIsSound

\* A statement on client_service_invoices by a request that is done, or that goes on
\* with what it owns.
LEMMA InvoiceWriteIsSafe ==
    ASSUME PaymentsInv, NEW r \in Requests, NEW h, Goto(r, h), InvoicesMove,
           UNCHANGED <<session, claim, charge>>,
           Own(h) \subseteq Own(req[r]),
           Sound(h, invoice', session, charge), OwnedOK(h, session, claim, charge)
    PROVE  PaymentsInv'
  BY TablesMove, OneMoves

\* A statement on a session, its charge or its claim, by the request that owns it.
LEMMA OwnerWriteIsSafe ==
    ASSUME PaymentsInv, NEW r \in Requests, NEW h, Goto(r, h), InvoicesMove,
           NEW s \in SessionIds, NEW row, NEW k,
           SessionAt(s, row), ChargeAt(s, k), UNCHANGED claim,
           Consistent(s, row, k, claim),
           s \in Own(req[r]), Own(h) \subseteq Own(req[r]),
           Sound(h, invoice', session', charge'), OwnedOK(h, session', claim, charge')
    PROVE  PaymentsInv'
  <1>1. TablesOK' /\ MovesOn /\ Leaves({s})
    BY SessionsMove
  <1>2. Leaves(Own(req[r]))
    BY <1>1 DEF Leaves
  <1> QED
    BY <1>1, <1>2, OneMoves

\* A statement on a session, its charge or its claim that leaves its money alone.
LEMMA SessionWriteIsSafe ==
    ASSUME PaymentsInv, NEW r \in Requests, NEW h, Goto(r, h), InvoicesMove,
           NEW s \in SessionIds, NEW row, NEW k,
           SessionAt(s, row), ChargeAt(s, k), claim \subseteq claim', claim' \subseteq claim \cup {s},
           Consistent(s, row, k, claim'),
           row.entries = session[s].entries, charge[s].state = "none" => k.state = "none",
           Own(h) \subseteq Own(req[r]) \cup Free,
           Sound(h, invoice', session', charge'), OwnedOK(h, session', claim', charge')
    PROVE  PaymentsInv'
  <1>1. TablesOK' /\ MovesOn /\ Leaves(Own(req[r]))
    BY SessionsMove DEF Leaves
  <1> QED
    BY <1>1, OneMoves

\* What is known of a session before a statement on it.
LEMMA SessionRow ==
    ASSUME PaymentsInv, NEW s \in SessionIds
    PROVE  /\ session[s] \in Session /\ charge[s] \in Charge
           /\ Consistent(s, session[s], charge[s], claim)
           /\ session[s].inv \in InvoiceIds
  BY TablesShape DEF SessionsOK, Consistent

LEMMA Itemised ==
    ASSUME NEW row \in Invoice
    PROVE  /\ [row EXCEPT !.itemised = TRUE] \in Invoice
           /\ [row EXCEPT !.itemised = TRUE].period = row.period
           /\ [row EXCEPT !.itemised = TRUE].total = row.total
           /\ [row EXCEPT !.itemised = TRUE].paid = row.paid
           /\ [row EXCEPT !.itemised = TRUE].recorded = row.recorded
           /\ row.recorded <= row.recorded
  <1> DEFINE new == [row EXCEPT !.itemised = TRUE]
  <1>1. row.recorded \in Nat
    BY DEF Invoice
  <1>2. /\ new.period = row.period /\ new.total = row.total /\ new.status = row.status
        /\ new.paid = row.paid /\ new.records = row.records /\ new.recorded = row.recorded
    BY DEF Invoice
  <1>3. new \in Invoice
    BY Zenon DEF Invoice
  <1> QED
    BY <1>1, <1>2, <1>3

\* generateClientServiceInvoices
LEMMA GenerateOK ==
    ASSUME PaymentsInv, NEW r \in Requests,
           \/ \E p \in Periods, total \in Totals : GenerateRead(r, p, total)
           \/ GenerateInsert(r)
           \/ GenerateLines(r)
    PROVE  PaymentsInv'
  <1>1. ASSUME NEW p \in Periods, NEW total \in Totals, GenerateRead(r, p, total)
        PROVE  PaymentsInv'
    <2> DEFINE h == [at |-> "generate.insert", period |-> p, total |-> total]
    <2>1. Sound(h, invoice, session, charge) /\ Own(h) = {}
      BY DEF Sound, Request, Own, SessionOps
    <2>2. Only(Goto(r, h))
      BY <1>1 DEF GenerateRead
    <2> HIDE DEF h
    <2> QED
      BY <2>1, <2>2, ReadIsSafe, NothingOwned
  <1>2. CASE GenerateInsert(r)
    <2> DEFINE row == [period |-> req[r].period, total |-> req[r].total,
                       status |-> "sent", paid |-> 0, itemised |-> FALSE,
                       records |-> 0, recorded |-> 0]
               h == [at |-> "generate.lines", inv |-> Len(invoice) + 1]
    <2>1. CASE PeriodKeyCollision(req[r].period)
      BY <1>2, <2>1, IdleIsSound, NothingOwned, ReadIsSafe DEF GenerateInsert, Return, Only
    <2>2. CASE ~PeriodKeyCollision(req[r].period)
      <3>1. row \in Invoice /\ row.paid = 0
        BY <1>2, Held, RequestShape, PaymentsAssumption DEF GenerateInsert, Invoice
      <3>3. /\ invoice' = Append(invoice, row) /\ Goto(r, h)
            /\ UNCHANGED <<session, claim, charge>>
        BY <1>2, <2>2 DEF GenerateInsert
      <3>4. InvoicesMove /\ Len(invoice) + 1 \in InvoiceIds'
        <4> HIDE DEF row
        <4> QED
          BY <3>1, <3>3, InvoiceAdded
      <3>5. Sound(h, invoice', session, charge) /\ Own(h) = {}
        BY <3>4, TablesShape DEF Sound, Request, Own, InvoiceIds, SessionOps
      <3> HIDE DEF h, row
      <3> QED
        BY <3>3, <3>4, <3>5, NothingOwned, InvoiceWriteIsSafe
    <2> QED
      BY <2>1, <2>2
  <1>3. CASE GenerateLines(r)
    <2> DEFINE i == req[r].inv
               row == [invoice[i] EXCEPT !.itemised = TRUE]
    <2>1. i \in InvoiceIds
      BY <1>3, Held DEF GenerateLines, Sound, InvoiceIds
    <2>2. invoice' = [invoice EXCEPT ![i] = row] /\ Goto(r, Idle)
          /\ UNCHANGED <<session, claim, charge>>
      BY <1>3 DEF GenerateLines, Return
    <2>3. /\ row \in Invoice /\ row.period = invoice[i].period /\ row.total = invoice[i].total
          /\ invoice[i].recorded <= row.recorded
          /\ row.paid <= row.recorded /\ row.paid <= row.total
      <3>1. invoice[i] \in Invoice
        BY <2>1, TablesShape
      <3>2. invoice[i].paid <= invoice[i].recorded /\ invoice[i].paid <= invoice[i].total
        BY <2>1, TablesShape DEF InvoicesOK
      <3> HIDE DEF i
      <3> QED
        BY <3>1, <3>2, Itemised
    <2> HIDE DEF row, i
    <2>4. InvoicesMove
      BY <2>1, <2>2, <2>3, InvoiceWritten
    <2> QED
      BY <2>2, <2>4, IdleIsSound, NothingOwned, InvoiceWriteIsSafe
  <1> QED
    BY <1>1, <1>2, <1>3

\* createSession
LEMMA CreateReadOK ==
    ASSUME PaymentsInv, NEW r \in Requests, NEW i \in InvoiceIds, NEW a \in Amounts,
           NEW g \in Gateways, CreateRead(r, i, a, g)
    PROVE  PaymentsInv'
  <1> DEFINE b == invoice[i].total - invoice[i].paid
             least == IF a < b THEN a ELSE b
             h == [at |-> "session.insert", inv |-> i, gateway |-> g, amount |-> least]
  <1>1. b \in Nat \ {0} /\ a \in Nat \ {0} /\ i \in Nat \ {0}
    <2>1. invoice[i] \in Invoice /\ i \in 1..Len(invoice) /\ Len(invoice) \in Nat
      BY TablesShape
    <2>2. invoice[i].total \in Nat /\ invoice[i].paid \in Nat /\ invoice[i].paid < invoice[i].total
      BY <2>1 DEF CreateRead, Invoice
    <2>3. a \in Nat \ {0}
      BY PaymentsAssumption
    <2> QED
      BY <2>1, <2>2, <2>3
  <1>2. least \in Nat \ {0}
    BY <1>1
  <1>3. Only(Goto(r, h))
    BY DEF CreateRead
  <1>4. Sound(h, invoice, session, charge) /\ Own(h) = {}
    <2> HIDE DEF least
    <2> QED
      BY <1>1, <1>2 DEF Sound, Request, Own, InvoiceIds, SessionOps
  <1> HIDE DEF h
  <1> QED
    BY <1>3, <1>4, NothingOwned, ReadIsSafe

LEMMA CreateInsertOK ==
    ASSUME PaymentsInv, NEW r \in Requests, CreateInsert(r)
    PROVE  PaymentsInv'
  <1> DEFINE n == Len(session) + 1
             row == [inv |-> req[r].inv, amount |-> req[r].amount, gateway |-> req[r].gateway,
                     linked |-> FALSE, status |-> "pending", entries |-> 0]
             k == [state |-> "none", answered |-> FALSE, refunded |-> 0]
             h == [at |-> "session.open", session |-> n]
  <1>1. row \in Session /\ row.inv \in InvoiceIds
    BY Held, RequestShape DEF CreateInsert, Session, Sound, InvoiceIds
  <1>2. k \in Charge
    BY DEF Charge
  <1>3. /\ session' = Append(session, row) /\ charge' = Append(charge, k)
        /\ Goto(r, h) /\ UNCHANGED <<invoice, claim>> /\ Len(session) < MaxSessions
    BY DEF CreateInsert
  <1>4. /\ row.status = "pending" /\ row.entries = 0
        /\ k.state = "none" /\ ~k.answered
    OBVIOUS
  <1>5. h.at = "session.open" /\ h.session = n
    OBVIOUS
  <1>6. n \in Nat \ {0} /\ n \notin SessionIds
    BY TablesShape
  <1>7. h \in Request
    BY <1>6 DEF Request, SessionOps
  <1>8. Own(h) = {n}
    BY <1>5 DEF Own
  <1> HIDE DEF row, k, h
  <1>9. /\ session' \in Seq(Session) /\ Len(session') = Len(session) + 1
        /\ \A t \in 1..Len(session) : session'[t] = session[t]
        /\ session'[n] = row
    BY <1>1, <1>3, TablesShape, AppendProperties
  <1>10. /\ charge' \in Seq(Charge) /\ Len(charge') = Len(charge) + 1
         /\ \A t \in 1..Len(session) : charge'[t] = charge[t]
         /\ charge'[n] = k
    BY <1>2, <1>3, TablesShape, AppendProperties
  <1>11. /\ SessionIds' = 1..n
         /\ \A t \in SessionIds' : t \in SessionIds \/ t = n
         /\ SessionIds \subseteq SessionIds' /\ n \in SessionIds'
    BY <1>9, TablesShape, LenProperties DEF SessionIds
  <1>12. InvoicesMove /\ InvoiceIds' = InvoiceIds
    BY <1>3, InvoicesKept
  <1>13. SessionsOK'
    BY <1>1, <1>3, <1>4, <1>6, <1>9, <1>10, <1>11, <1>12, TablesShape DEF SessionsOK
  <1>14. TablesOK'
    <2>1. Len(session') <= MaxSessions /\ Len(charge') = Len(session')
      BY <1>3, <1>9, <1>10, TablesShape, PaymentsAssumption
    <2>2. claim' \subseteq SessionIds'
      BY <1>3, <1>11, TablesShape
    <2> QED
      BY <1>9, <1>10, <1>12, <1>13, <2>1, <2>2 DEF TablesOK, InvoicesMove
  <1>15. MovesOn /\ Leaves(Own(req[r]))
    BY <1>3, <1>9, <1>10, <1>11, <1>12, TablesShape
    DEF MovesOn, InvoicesMove, Leaves, SessionsOK
  <1>16. n \in Free
    BY <1>6, Held DEF Free, OwnedOK, SessionIds
  <1>17. Sound(h, invoice', session', charge')
    BY <1>5, <1>7, <1>11 DEF Sound, SessionIds, SessionOps
  <1>18. OwnedOK(h, session', claim', charge')
    BY <1>4, <1>5, <1>8, <1>10, <1>11 DEF OwnedOK, Reached, SessionIds
  <1> QED
    BY <1>3, <1>8, <1>14, <1>15, <1>16, <1>17, <1>18, OneMoves

LEMMA AdvanceIsGoto ==
    ASSUME NEW r, NEW at, Advance(r, at)
    PROVE  Goto(r, [req[r] EXCEPT !.at = at])
  BY DEF Advance, Goto

LEMMA SessionAdvances ==
    ASSUME PaymentsInv, NEW r \in Requests, req[r].at \in SessionOps,
           NEW at \in SessionOps, Advance(r, at)
    PROVE  Goto(r, [at |-> at, session |-> req[r].session])
  <1>1. [req[r] EXCEPT !.at = at] = [at |-> at, session |-> req[r].session]
    BY Held, Advanced
  <1> QED
    BY <1>1, AdvanceIsGoto

\* The updates of a session and of its charge.
LEMMA SessionUpdates ==
    ASSUME NEW row \in Session
    PROVE  LET linked    == [row EXCEPT !.linked = TRUE]
               completed == [row EXCEPT !.status = "completed", !.linked = TRUE]
               entered   == [row EXCEPT !.entries = row.entries + 1]
           IN /\ linked \in Session /\ linked.inv = row.inv
              /\ linked.entries = row.entries /\ linked.status = row.status
              /\ completed \in Session /\ completed.inv = row.inv
              /\ completed.entries = row.entries
              /\ entered \in Session /\ entered.inv = row.inv
              /\ entered.entries = row.entries + 1 /\ entered.status = row.status
  <1>1. /\ row.entries \in Nat /\ row.entries + 1 \in Nat
        /\ row = [inv |-> row.inv, amount |-> row.amount, gateway |-> row.gateway,
                  linked |-> row.linked, status |-> row.status, entries |-> row.entries]
        /\ row.inv \in Nat \ {0} /\ row.amount \in Nat \ {0} /\ row.gateway \in Gateways
        /\ row.linked \in BOOLEAN /\ row.status \in {"pending", "completed"}
    BY DEF Session
  <1> QED
    BY <1>1 DEF Session

LEMMA ChargeUpdates ==
    ASSUME NEW k \in Charge, NEW n \in Nat
    PROVE  LET opened   == [k EXCEPT !.state = "open"]
               settled  == [k EXCEPT !.state = "settled"]
               answered == [k EXCEPT !.answered = TRUE]
               refunded == [k EXCEPT !.refunded = k.refunded + n]
           IN /\ opened \in Charge /\ opened.state = "open" /\ opened.answered = k.answered
              /\ settled \in Charge /\ settled.state = "settled" /\ settled.answered = k.answered
              /\ answered \in Charge /\ answered.state = k.state
              /\ refunded \in Charge /\ refunded.state = k.state /\ refunded.answered = k.answered
  <1>1. /\ k.refunded \in Nat /\ k.refunded + n \in Nat
        /\ k.state \in {"none", "open", "settled"} /\ k.answered \in BOOLEAN
        /\ k = [state |-> k.state, answered |-> k.answered, refunded |-> k.refunded]
    BY DEF Charge
  <1> QED
    BY <1>1 DEF Charge

\* The rest of createSession
LEMMA CreateOpenOK ==
    ASSUME PaymentsInv, NEW r \in Requests, CreateOpen(r)
    PROVE  PaymentsInv'
  <1> DEFINE s == req[r].session
             k == [charge[s] EXCEPT !.state = "open"]
             h == [at |-> "session.link", session |-> s]
  <1>1. /\ s \in SessionIds /\ s \in Own(req[r]) /\ charge[s].state = "none"
        /\ s \in Nat \ {0}
    BY Held, RequestShape
    DEF CreateOpen, Sound, Own, OwnedOK, Reached, SessionIds, SessionOps
  <1>2. /\ charge' = [charge EXCEPT ![s] = k] /\ UNCHANGED <<invoice, session, claim>>
        /\ Goto(r, h)
    BY SessionAdvances DEF CreateOpen, SessionOps
  <1>3. k \in Charge /\ k.state = "open" /\ k.answered = charge[s].answered
    BY <1>1, SessionRow, ChargeUpdates
  <1>4. h.at = "session.link" /\ h.session = s /\ h \in Request /\ Own(h) = {}
    BY <1>1 DEF Request, SessionOps, Own
  <1> HIDE DEF s, k, h
  <1>5. /\ InvoicesMove /\ ChargeAt(s, k) /\ SessionAt(s, session[s])
        /\ Consistent(s, session[s], k, claim')
    BY <1>1, <1>2, <1>3, InvoicesKept, ChargeWritten, SessionKept, SessionRow DEF Consistent
  <1>6. Sound(h, invoice', session', charge')
    BY <1>1, <1>2, <1>4 DEF Sound, SessionIds, SessionOps
  <1>7. OwnedOK(h, session', claim, charge') /\ Own(h) \subseteq Own(req[r])
    BY <1>4, NothingOwned
  <1> QED
    BY <1>1, <1>2, <1>5, <1>6, <1>7, OwnerWriteIsSafe

LEMMA CreateLinkOK ==
    ASSUME PaymentsInv, NEW r \in Requests, CreateLink(r)
    PROVE  PaymentsInv'
  <1> DEFINE s == req[r].session
             row == [session[s] EXCEPT !.linked = TRUE]
  <1>1. s \in SessionIds
    BY Held DEF CreateLink, Sound, SessionIds, SessionOps
  <1>2. /\ session' = [session EXCEPT ![s] = row] /\ UNCHANGED <<invoice, claim, charge>>
        /\ Goto(r, Idle)
    BY DEF CreateLink, Return
  <1>3. /\ row \in Session /\ row.inv = session[s].inv /\ row.entries = session[s].entries
        /\ row.status = session[s].status
    BY <1>1, SessionRow, SessionUpdates
  <1> HIDE DEF s, row
  <1>4. /\ InvoicesMove /\ ChargeAt(s, charge[s]) /\ SessionAt(s, row)
        /\ Consistent(s, row, charge[s], claim')
    BY <1>1, <1>2, <1>3, InvoicesKept, ChargeKept, SessionWritten, SessionRow DEF Consistent
  <1> QED
    BY <1>1, <1>2, <1>3, <1>4, IdleIsSound, NothingOwned, SessionWriteIsSafe

\* The client pays.
LEMMA SettleOK ==
    ASSUME PaymentsInv, NEW s \in SessionIds, Settle(s)
    PROVE  PaymentsInv'
  <1> DEFINE k == [charge[s] EXCEPT !.state = "settled"]
  <1>1. charge' = [charge EXCEPT ![s] = k] /\ UNCHANGED <<invoice, session, claim, req>>
        /\ charge[s].state = "open"
    BY DEF Settle
  <1>2. k \in Charge /\ k.state = "settled" /\ k.answered = charge[s].answered
    BY SessionRow, ChargeUpdates
  <1> HIDE DEF k
  <1>3. /\ InvoicesMove /\ ChargeAt(s, k) /\ SessionAt(s, session[s])
        /\ Consistent(s, session[s], k, claim')
    BY <1>1, <1>2, InvoicesKept, ChargeWritten, SessionKept, SessionRow DEF Consistent
  <1>4. TablesOK' /\ MovesOn /\ Leaves({})
    BY <1>1, <1>3, SessionsMove
  <1> QED
    BY <1>1, <1>4, NoneMoves

\* A 200 is given only for a session whose claim is stored.
LEMMA AnswerOK ==
    ASSUME PaymentsInv, NEW r \in Requests, NEW s \in claim, Answer(r, s),
           UNCHANGED <<invoice, session, claim>>
    PROVE  PaymentsInv'
  <1> DEFINE k == [charge[s] EXCEPT !.answered = TRUE]
  <1>1. s \in SessionIds
    BY TablesShape
  <1>2. charge' = [charge EXCEPT ![s] = k] /\ Goto(r, Idle)
    BY DEF Answer, Return
  <1>3. k \in Charge /\ k.state = charge[s].state
    BY <1>1, SessionRow, ChargeUpdates
  <1> HIDE DEF k
  <1>4. /\ InvoicesMove /\ ChargeAt(s, k) /\ SessionAt(s, session[s])
        /\ Consistent(s, session[s], k, claim')
    BY <1>1, <1>2, <1>3, InvoicesKept, ChargeWritten, SessionKept, SessionRow DEF Consistent
  <1> QED
    BY <1>1, <1>2, <1>3, <1>4, IdleIsSound, NothingOwned, SessionWriteIsSafe

\* reconcileThawaniPaid, reconcileStripeCheckoutCompleted
LEMMA DeliverOK ==
    ASSUME PaymentsInv, NEW r \in Requests, NEW s \in SessionIds, Deliver(r, s)
    PROVE  PaymentsInv'
  <1>1. CASE session[s].status = "completed"
    <2>1. s \in claim
      BY <1>1, SessionRow DEF Consistent
    <2> QED
      BY <1>1, <2>1, AnswerOK DEF Deliver
  <1>2. CASE session[s].status # "completed"
    <2> DEFINE h(at) == [at |-> at, session |-> s]
    <2>1. charge[s].state = "settled" /\ s \in Nat \ {0}
      BY TablesShape DEF Deliver, Settled
    <2>2. ASSUME NEW at \in {"webhook.link", "webhook.claim"}
          PROVE  Sound(h(at), invoice, session, charge) /\ Own(h(at)) = {}
      BY <2>1 DEF Sound, Request, Own, SessionIds, SessionOps
    <2>3. PICK at \in {"webhook.link", "webhook.claim"} : Only(Goto(r, h(at)))
      BY <1>2 DEF Deliver, Only
    <2> HIDE DEF h
    <2> QED
      BY <2>2, <2>3, NothingOwned, ReadIsSafe
  <1> QED
    BY <1>1, <1>2

LEMMA WebhookLinkOK ==
    ASSUME PaymentsInv, NEW r \in Requests, WebhookLink(r)
    PROVE  PaymentsInv'
  <1> DEFINE s == req[r].session
             row == [session[s] EXCEPT !.linked = TRUE]
             h == [at |-> "webhook.claim", session |-> s]
  <1>1. s \in SessionIds /\ s \in Nat \ {0} /\ charge[s].state = "settled"
    BY Held, RequestShape DEF WebhookLink, Sound, SessionIds, SessionOps
  <1>2. /\ session' = [session EXCEPT ![s] = row] /\ UNCHANGED <<invoice, claim, charge>>
        /\ Goto(r, h)
    BY SessionAdvances DEF WebhookLink, SessionOps
  <1>3. /\ row \in Session /\ row.inv = session[s].inv /\ row.entries = session[s].entries
        /\ row.status = session[s].status
    BY <1>1, SessionRow, SessionUpdates
  <1>4. h.at = "webhook.claim" /\ h.session = s /\ h \in Request /\ Own(h) = {}
    BY <1>1 DEF Request, SessionOps, Own
  <1> HIDE DEF s, row, h
  <1>5. /\ InvoicesMove /\ ChargeAt(s, charge[s]) /\ SessionAt(s, row)
        /\ Consistent(s, row, charge[s], claim')
    BY <1>1, <1>2, <1>3, InvoicesKept, ChargeKept, SessionWritten, SessionRow DEF Consistent
  <1>6. SessionIds' = SessionIds
    BY <1>1, <1>2, <1>5, SessionsMove
  <1>7. Sound(h, invoice', session', charge')
    BY <1>1, <1>2, <1>4, <1>6 DEF Sound, SessionIds, SessionOps
  <1> QED
    BY <1>1, <1>2, <1>3, <1>4, <1>5, <1>7, NothingOwned, SessionWriteIsSafe

\* A session that is settled and not claimed is nobody's.
LEMMA UnclaimedIsFree ==
    ASSUME PaymentsInv, NEW s \in SessionIds, charge[s].state = "settled", s \notin claim
    PROVE  s \in Free
  <1>1. ASSUME NEW q \in Requests, s \in Own(req[q])
        PROVE  FALSE
    BY <1>1, Held DEF OwnedOK, Reached
  <1> QED
    BY <1>1, TablesShape DEF Free

LEMMA WebhookClaimOK ==
    ASSUME PaymentsInv, NEW r \in Requests, WebhookClaim(r)
    PROVE  PaymentsInv'
  <1> DEFINE s == req[r].session
             h == [at |-> "apply.read", session |-> s]
  <1>1. s \in SessionIds /\ s \in Nat \ {0} /\ charge[s].state = "settled"
    BY Held, RequestShape DEF WebhookClaim, Sound, SessionIds, SessionOps
  <1>2. CASE s \in claim /\ DuplicateIsRecognised
    BY <1>2, AnswerOK DEF WebhookClaim
  <1>3. CASE s \in claim /\ ~DuplicateIsRecognised
    BY <1>3, IdleIsSound, NothingOwned, ReadIsSafe DEF WebhookClaim, Return, Only
  <1>4. CASE s \notin claim
    <2>1. /\ claim' = claim \cup {s} /\ UNCHANGED <<invoice, session, charge>>
          /\ Goto(r, h)
      BY <1>4, SessionAdvances DEF WebhookClaim, SessionOps
    <2>2. h.at = "apply.read" /\ h.session = s /\ h \in Request /\ Own(h) = {s}
      BY <1>1 DEF Request, SessionOps, Own
    <2> HIDE DEF s, h
    <2>3. Own(h) \subseteq Own(req[r]) \cup Free
      BY <1>1, <1>4, <2>2, UnclaimedIsFree
    <2>4. /\ InvoicesMove /\ ChargeAt(s, charge[s]) /\ SessionAt(s, session[s])
          /\ Consistent(s, session[s], charge[s], claim')
      BY <1>1, <2>1, InvoicesKept, ChargeKept, SessionKept, SessionRow DEF Consistent
    <2>5. Sound(h, invoice', session', charge')
      BY <1>1, <2>1, <2>2 DEF Sound, SessionIds, SessionOps
    <2>6. session[s].entries = 0
      BY <1>1, <1>4, SessionRow DEF Consistent
    <2>7. OwnedOK(h, session', claim', charge')
      BY <1>1, <2>1, <2>2, <2>6 DEF OwnedOK, Reached, SessionIds
    <2> QED
      BY <1>1, <2>1, <2>3, <2>4, <2>5, <2>7, SessionWriteIsSafe
  <1> QED
    BY <1>2, <1>3, <1>4

LEMMA WebhookCompleteOK ==
    ASSUME PaymentsInv, NEW r \in Requests, WebhookComplete(r)
    PROVE  PaymentsInv'
  <1> DEFINE s == req[r].session
             row == [session[s] EXCEPT !.status = "completed", !.linked = TRUE]
             k == [charge[s] EXCEPT !.answered = TRUE]
  <1>1. /\ s \in SessionIds /\ s \in Own(req[r]) /\ s \in claim /\ session[s].entries = 1
    BY Held DEF WebhookComplete, Sound, Own, OwnedOK, Reached, SessionIds, SessionOps
  <1>2. /\ session' = [session EXCEPT ![s].status = "completed", ![s].linked = TRUE]
        /\ charge' = [charge EXCEPT ![s] = k]
        /\ UNCHANGED <<invoice, claim>> /\ Goto(r, Idle)
    BY DEF WebhookComplete, Answer, Return
  <1>3. session' = [session EXCEPT ![s] = row]
    BY <1>1, <1>2, TablesShape
  <1>4. row \in Session /\ row.inv = session[s].inv /\ row.entries = session[s].entries
    BY <1>1, SessionRow, SessionUpdates
  <1>5. k \in Charge /\ k.state = charge[s].state
    BY <1>1, SessionRow, ChargeUpdates
  <1> HIDE DEF s, row, k
  <1>6. /\ InvoicesMove /\ ChargeAt(s, k) /\ SessionAt(s, row)
        /\ Consistent(s, row, k, claim')
    BY <1>1, <1>2, <1>3, <1>4, <1>5, InvoicesKept, ChargeWritten, SessionWritten, SessionRow
    DEF Consistent
  <1>7. /\ OwnedOK(Idle, session', claim, charge') /\ Own(Idle) \subseteq Own(req[r])
        /\ Sound(Idle, invoice', session', charge')
    BY IdleIsSound, NothingOwned
  <1> QED
    BY <1>1, <1>2, <1>6, <1>7, OwnerWriteIsSafe

\* applyInvoicePayment: what PaidUp and Reduced leave of an invoice.
LEMMA InvoiceUpdates ==
    ASSUME NEW row \in Invoice, NEW n \in Nat
    PROVE  /\ PaidUp(row, n) \in Invoice /\ PaidUp(row, n).period = row.period
           /\ PaidUp(row, n).total = row.total /\ PaidUp(row, n).recorded = row.recorded
           /\ PaidUp(row, n).paid = n
           /\ Reduced(row, n) \in Invoice /\ Reduced(row, n).period = row.period
           /\ Reduced(row, n).total = row.total /\ Reduced(row, n).recorded = row.recorded
           /\ Reduced(row, n).paid = n
  <1>1. /\ row = [period |-> row.period, total |-> row.total, status |-> row.status,
                  paid |-> row.paid, itemised |-> row.itemised,
                  records |-> row.records, recorded |-> row.recorded]
        /\ row.period \in Periods /\ row.total \in Nat /\ row.itemised \in BOOLEAN
        /\ row.records \in Nat /\ row.recorded \in Nat
    BY DEF Invoice
  <1> QED
    BY <1>1 DEF PaidUp, Reduced, Invoice

LEMMA RecordedUpdate ==
    ASSUME NEW row \in Invoice, NEW n \in Nat
    PROVE  LET new == [row EXCEPT !.records = row.records + 1, !.recorded = row.recorded + n]
           IN /\ new \in Invoice /\ new.period = row.period /\ new.total = row.total
              /\ new.paid = row.paid /\ new.recorded = row.recorded + n
  <1>1. /\ row = [period |-> row.period, total |-> row.total, status |-> row.status,
                  paid |-> row.paid, itemised |-> row.itemised,
                  records |-> row.records, recorded |-> row.recorded]
        /\ row.period \in Periods /\ row.total \in Nat /\ row.itemised \in BOOLEAN
        /\ row.records \in Nat /\ row.recorded \in Nat /\ row.paid \in Nat
        /\ row.status \in {"sent", "partial", "paid"}
        /\ row.records + 1 \in Nat /\ row.recorded + n \in Nat
    BY DEF Invoice
  <1> QED
    BY <1>1 DEF Invoice

LEMMA InvoiceRow ==
    ASSUME PaymentsInv, NEW i \in InvoiceIds
    PROVE  /\ invoice[i] \in Invoice /\ i \in Nat \ {0}
           /\ invoice[i].total \in Nat /\ invoice[i].paid \in Nat /\ invoice[i].recorded \in Nat
           /\ invoice[i].paid <= invoice[i].recorded /\ invoice[i].paid <= invoice[i].total
  BY SMTT(30), TablesShape DEF InvoicesOK, Invoice

\* A payment that fits the invoice when it is read.
LEMMA ApplyingIsSound ==
    ASSUME PaymentsInv, NEW i \in InvoiceIds, NEW a \in Nat \ {0}, NEW s \in {0} \cup SessionIds,
           Fits(i, a)
    PROVE  /\ Sound(Applying(i, a, s), invoice, session, charge)
           /\ Applying(i, a, s).at = "apply.insert" /\ Applying(i, a, s).session = s
           /\ Own(Applying(i, a, s)) = {s} \ {0}
  <1> DEFINE h == Applying(i, a, s)
  <1>1. /\ h.at = "apply.insert" /\ h.session = s /\ h.inv = i /\ h.amount = a
        /\ h.paid = invoice[i].paid
    BY DEF Applying
  <1>2. h \in Request
    BY InvoiceRow, TablesShape DEF Applying, Request
  <1>3. Own(h) = {s} \ {0}
    BY <1>1 DEF Own
  <1> HIDE DEF h
  <1>4. Sound(h, invoice, session, charge)
    BY <1>1, <1>2, InvoiceRow DEF Sound, Fits, InvoiceIds, SessionIds, SessionOps
  <1> QED
    BY <1>1, <1>3, <1>4 DEF h

LEMMA PayReadOK ==
    ASSUME PaymentsInv, NEW r \in Requests, NEW i \in InvoiceIds, NEW a \in Amounts,
           PayRead(r, i, a)
    PROVE  PaymentsInv'
  <1>1. Sound(Applying(i, a, 0), invoice, session, charge) /\ Own(Applying(i, a, 0)) = {}
    BY ApplyingIsSound, PaymentsAssumption DEF PayRead
  <1> QED
    BY <1>1, NothingOwned, ReadIsSafe DEF PayRead

LEMMA ApplyReadOK ==
    ASSUME PaymentsInv, NEW r \in Requests, ApplyRead(r)
    PROVE  PaymentsInv'
  <1> DEFINE s == req[r].session
             i == session[s].inv
             h == Applying(i, session[s].amount, s)
  <1>1. /\ s \in SessionIds /\ s \in Nat \ {0} /\ Own(req[r]) = {s}
        /\ s \in claim /\ session[s].entries = 0
    BY Held, RequestShape DEF ApplyRead, Sound, Own, OwnedOK, Reached, SessionIds, SessionOps
  <1>2. i \in InvoiceIds /\ session[s].amount \in Nat \ {0}
    BY <1>1, SessionRow DEF Session
  <1>3. CASE ~Fits(i, session[s].amount)
    BY <1>3, IdleIsSound, NothingOwned, ReadIsSafe DEF ApplyRead, Return
  <1>4. CASE Fits(i, session[s].amount)
    <2>1. Only(Goto(r, h))
      BY <1>4 DEF ApplyRead
    <2>2. /\ Sound(h, invoice, session, charge) /\ h.at = "apply.insert" /\ h.session = s
          /\ Own(h) = {s}
      BY <1>1, <1>2, <1>4, ApplyingIsSound
    <2> HIDE DEF h, i, s
    <2>3. OwnedOK(h, session, claim, charge)
      BY <1>1, <2>2 DEF OwnedOK, Reached, SessionIds
    <2> QED
      BY <1>1, <2>1, <2>2, <2>3, ReadIsSafe
  <1> QED
    BY SMTT(30), <1>3, <1>4

LEMMA ApplyInsertOK ==
    ASSUME PaymentsInv, NEW r \in Requests, ApplyInsert(r)
    PROVE  PaymentsInv'
  <1> DEFINE i == req[r].inv
             a == req[r].amount
             p == req[r].paid
             s == req[r].session
             row == [invoice[i] EXCEPT !.records = invoice[i].records + 1,
                                       !.recorded = invoice[i].recorded + a]
             entered == [session[s] EXCEPT !.entries = session[s].entries + 1]
             h == [at |-> "apply.update", inv |-> i, amount |-> a, paid |-> p, session |-> s]
  <1>1. /\ i \in InvoiceIds /\ a \in Nat \ {0} /\ p \in Nat /\ s \in {0} \cup SessionIds
        /\ p + a <= invoice[i].total /\ p <= invoice[i].recorded
        /\ i \in Nat \ {0} /\ s \in Nat
    BY Held, RequestShape DEF ApplyInsert, Sound, InvoiceIds, SessionIds
  <1>2. /\ invoice' = [invoice EXCEPT ![i].records = @ + 1, ![i].recorded = @ + a]
        /\ session' = [t \in SessionIds |-> IF t = s THEN [session[t] EXCEPT !.entries = @ + 1]
                                            ELSE session[t]]
        /\ UNCHANGED <<claim, charge>>
    BY DEF ApplyInsert
  <1>3. Goto(r, h)
    <2>1. [req[r] EXCEPT !.at = "apply.update"] = h
      BY Held, Advanced DEF ApplyInsert
    <2> QED
      BY <2>1, AdvanceIsGoto DEF ApplyInsert
  <1>4. invoice' = [invoice EXCEPT ![i] = row]
    BY <1>1, <1>2, TablesShape
  <1>5. /\ row \in Invoice /\ row.period = invoice[i].period /\ row.total = invoice[i].total
        /\ row.paid = invoice[i].paid /\ row.recorded = invoice[i].recorded + a
    BY <1>1, InvoiceRow, RecordedUpdate
  <1>6. /\ h.at = "apply.update" /\ h.inv = i /\ h.amount = a /\ h.paid = p /\ h.session = s
        /\ h \in Request /\ Own(h) = {s} \ {0} /\ Own(req[r]) = {s} \ {0}
    BY <1>1 DEF Request, Own, ApplyInsert
  <1>7. s # 0 => /\ s \in SessionIds /\ s \in claim /\ session[s].entries = 0
                 /\ s \in Own(req[r])
    BY <1>6, Held DEF ApplyInsert, OwnedOK, Reached, SessionIds
  <1> HIDE DEF i, a, p, row, h
  <1>8. InvoicesMove /\ InvoiceIds' = InvoiceIds /\ invoice'[i] = row
    <2>1. /\ invoice[i].recorded <= row.recorded
          /\ row.paid <= row.recorded /\ row.paid <= row.total
      BY <1>1, <1>5, InvoiceRow
    <2>2. InvoicesMove /\ InvoiceIds' = InvoiceIds
      BY <1>1, <1>4, <1>5, <2>1, InvoiceWritten
    <2> QED
      BY <1>1, <1>4, <2>2, TablesShape
  <1>9. SessionIds' = SessionIds
    BY <1>2 DEF SessionIds
  <1>10. Sound(h, invoice', session', charge')
    BY <1>1, <1>5, <1>6, <1>8, <1>9, InvoiceRow DEF Sound, InvoiceIds, SessionIds, SessionOps
  <1>11. CASE s = 0
    <2>1. session' = session
      BY <1>2, <1>11, TablesShape
    <2>2. Own(h) = {}
      BY <1>6, <1>11
    <2> HIDE DEF s
    <2> QED
      BY <1>2, <1>3, <1>8, <1>10, <2>1, <2>2, NothingOwned, InvoiceWriteIsSafe
  <1>12. CASE s # 0
    <2>1. /\ entered \in Session /\ entered.inv = session[s].inv /\ entered.entries = 1
          /\ entered.status = session[s].status
      <3>1. /\ s \in SessionIds /\ session[s] \in Session /\ session[s].entries = 0
            /\ 0 + 1 = 1
        BY <1>7, <1>12, SessionRow
      <3> HIDE DEF s
      <3> QED
        BY <3>1, SessionUpdates
    <2>2. \A t \in SessionIds : session'[t] = IF t = s THEN entered ELSE session[t]
      BY <1>2
    <2> HIDE DEF entered, s
    <2>3. session' \in [1..Len(session) -> Session]
      BY <1>2, <2>1, <2>2, TablesShape
    <2>4. SessionAt(s, entered)
      BY <2>2, <2>3, TablesShape, LenProperties DEF SessionAt
    <2>5. Consistent(s, entered, charge[s], claim)
      BY <1>7, <1>12, <2>1, SessionRow DEF Consistent
    <2>6. ChargeAt(s, charge[s])
      BY <1>2, ChargeKept
    <2>7. OwnedOK(h, session', claim, charge')
      BY <1>6, <1>7, <1>9, <1>12, <2>1, <2>2 DEF OwnedOK, Reached, SessionIds
    <2> QED
      BY <1>2, <1>3, <1>6, <1>7, <1>8, <1>10, <1>12, <2>4, <2>5, <2>6, <2>7, OwnerWriteIsSafe
  <1> QED
    BY <1>11, <1>12

LEMMA ApplyUpdateOK ==
    ASSUME PaymentsInv, NEW r \in Requests, ApplyUpdate(r)
    PROVE  PaymentsInv'
  <1> DEFINE i == req[r].inv
             n == req[r].paid + req[r].amount
             s == req[r].session
             row == PaidUp(invoice[i], n)
             h == [at |-> "webhook.complete", session |-> s]
  <1>1. /\ i \in InvoiceIds /\ n \in Nat /\ s \in {0} \cup SessionIds /\ s \in Nat
        /\ n <= invoice[i].total /\ n <= invoice[i].recorded
    BY Held, RequestShape DEF ApplyUpdate, Sound, InvoiceIds, SessionIds
  <1>2. invoice' = [invoice EXCEPT ![i] = row] /\ UNCHANGED <<session, claim, charge>>
    BY DEF ApplyUpdate
  <1>3. Goto(r, IF s = 0 THEN Idle ELSE h)
    BY DEF ApplyUpdate, Return
  <1>4. /\ row \in Invoice /\ row.period = invoice[i].period /\ row.total = invoice[i].total
        /\ row.paid = n /\ row.recorded = invoice[i].recorded
    BY <1>1, InvoiceRow, InvoiceUpdates
  <1>5. s # 0 => /\ h.at = "webhook.complete" /\ h.session = s /\ h \in Request /\ Own(h) = {s}
                 /\ Own(req[r]) = {s} /\ s \in SessionIds
                 /\ s \in claim /\ session[s].entries = 1
    <2>1. s # 0 => h \in Request /\ Own(h) = {s} /\ Own(req[r]) = {s} /\ s \in SessionIds
      BY <1>1 DEF Request, SessionOps, Own, ApplyUpdate
    <2>2. s # 0 => s \in claim /\ session[s].entries = 1
      BY <2>1, Held DEF ApplyUpdate, OwnedOK, Reached
    <2> QED
      BY <2>1, <2>2
  <1> HIDE DEF i, n, s, row, h
  <1>6. InvoicesMove
    <2>1. /\ invoice[i].recorded <= row.recorded
          /\ row.paid <= row.recorded /\ row.paid <= row.total
      BY <1>1, <1>4, InvoiceRow
    <2> QED
      BY <1>1, <1>2, <1>4, <2>1, InvoiceWritten
  <1>7. CASE s = 0
    BY <1>2, <1>3, <1>6, <1>7, IdleIsSound, NothingOwned, InvoiceWriteIsSafe
  <1>8. CASE s # 0
    <2>1. Sound(h, invoice', session, charge)
      BY <1>5, <1>8 DEF Sound, SessionIds, SessionOps
    <2>2. OwnedOK(h, session, claim, charge)
      BY <1>5, <1>8 DEF OwnedOK, Reached, SessionIds
    <2> QED
      BY <1>2, <1>3, <1>5, <1>6, <1>8, <2>1, <2>2, InvoiceWriteIsSafe
  <1> QED
    BY <1>7, <1>8

\* refund
LEMMA RefundReadOK ==
    ASSUME PaymentsInv, NEW r \in Requests, NEW s \in SessionIds, NEW a \in Amounts,
           RefundRead(r, s, a)
    PROVE  PaymentsInv'
  <1> DEFINE i == session[s].inv
             least == IF a < session[s].amount THEN a ELSE session[s].amount
             h == [at |-> "refund.provider", session |-> s, amount |-> least,
                   paid |-> invoice[i].paid]
  <1>1. /\ s \in Nat \ {0} /\ i \in InvoiceIds
        /\ session[s].amount \in Nat \ {0} /\ a \in Nat \ {0}
    BY SMTT(30), TablesShape, SessionRow, PaymentsAssumption DEF Session
  <1>2. least \in Nat \ {0}
    BY <1>1
  <1>3. Only(Goto(r, h))
    BY DEF RefundRead
  <1> HIDE DEF least
  <1>4. /\ h.at = "refund.provider" /\ h.session = s /\ h.paid = invoice[i].paid
        /\ h \in Request /\ Own(h) = {}
    BY <1>1, <1>2, InvoiceRow DEF Request, Own
  <1> HIDE DEF h
  <1>5. Sound(h, invoice, session, charge)
    BY <1>1, <1>4, InvoiceRow DEF Sound, SessionIds, SessionOps
  <1> QED
    BY <1>3, <1>4, <1>5, NothingOwned, ReadIsSafe

LEMMA RefundProviderOK ==
    ASSUME PaymentsInv, NEW r \in Requests, RefundProvider(r)
    PROVE  PaymentsInv'
  <1> DEFINE s == req[r].session
             a == req[r].amount
             p == req[r].paid
             k == [charge[s] EXCEPT !.refunded = charge[s].refunded + a]
             h == [at |-> "refund.update", session |-> s, amount |-> a, paid |-> p]
  <1>1. /\ s \in SessionIds /\ s \in Nat \ {0} /\ a \in Nat \ {0} /\ p \in Nat
        /\ p <= invoice[session[s].inv].recorded /\ p <= invoice[session[s].inv].total
    BY Held, RequestShape DEF RefundProvider, Sound, SessionIds
  <1>2. CASE ~(charge[s].refunded + a <= session[s].amount)
    BY <1>2, IdleIsSound, NothingOwned, ReadIsSafe DEF RefundProvider, Return, Only
  <1>3. CASE charge[s].refunded + a <= session[s].amount
    <2>1. charge' = [charge EXCEPT ![s] = k] /\ UNCHANGED <<invoice, session, claim>>
      BY <1>3 DEF RefundProvider
    <2>2. Goto(r, h)
      <3>1. [req[r] EXCEPT !.at = "refund.update"] = h
        BY Held, Advanced DEF RefundProvider
      <3> QED
        BY <1>3, <3>1, AdvanceIsGoto DEF RefundProvider
    <2>3. k \in Charge /\ k.state = charge[s].state /\ k.answered = charge[s].answered
      BY <1>1, SessionRow, ChargeUpdates
    <2>4. /\ h.at = "refund.update" /\ h.session = s /\ h.paid = p /\ h \in Request
          /\ Own(h) = {}
      BY <1>1 DEF Request, Own
    <2> HIDE DEF s, a, p, k, h
    <2>5. /\ InvoicesMove /\ ChargeAt(s, k) /\ SessionAt(s, session[s])
          /\ Consistent(s, session[s], k, claim')
      BY <1>1, <2>1, <2>3, InvoicesKept, ChargeWritten, SessionKept, SessionRow DEF Consistent
    <2>6. Sound(h, invoice', session', charge')
      BY <1>1, <2>1, <2>4 DEF Sound, SessionIds, SessionOps
    <2> QED
      BY <1>1, <2>1, <2>2, <2>3, <2>4, <2>5, <2>6, NothingOwned, SessionWriteIsSafe
  <1> QED
    BY <1>2, <1>3

LEMMA RefundUpdateOK ==
    ASSUME PaymentsInv, NEW r \in Requests, RefundUpdate(r)
    PROVE  PaymentsInv'
  <1> DEFINE i == session[req[r].session].inv
             a == req[r].amount
             p == req[r].paid
             row == Reduced(invoice[i], p - a)
  <1>1. /\ i \in InvoiceIds /\ a \in Nat /\ p \in Nat
        /\ p <= invoice[i].recorded /\ p <= invoice[i].total
    BY Held, RequestShape, SessionRow DEF RefundUpdate, Sound, SessionIds
  <1>2. UNCHANGED <<session, claim, charge>> /\ Goto(r, Idle)
    BY DEF RefundUpdate, Return
  <1>3. CASE ~(a <= p)
    <2>1. InvoicesMove
      BY <1>3, InvoicesKept DEF RefundUpdate
    <2> QED
      BY <1>2, <2>1, IdleIsSound, NothingOwned, InvoiceWriteIsSafe
  <1>4. CASE a <= p
    <2>1. invoice' = [invoice EXCEPT ![i] = row]
      BY <1>4 DEF RefundUpdate
    <2>2. p - a \in Nat /\ p - a <= invoice[i].recorded /\ p - a <= invoice[i].total
      BY SMTT(30), <1>1, <1>4, InvoiceRow
    <2>3. /\ row \in Invoice /\ row.period = invoice[i].period /\ row.total = invoice[i].total
          /\ row.paid = p - a /\ row.recorded = invoice[i].recorded
      BY <1>1, <2>2, InvoiceRow, InvoiceUpdates
    <2> HIDE DEF i, a, p, row
    <2>4. invoice[i].recorded <= row.recorded /\ row.paid <= row.recorded /\ row.paid <= row.total
      BY <1>1, <2>2, <2>3, InvoiceRow
    <2>5. InvoicesMove
      BY <1>1, <2>1, <2>3, <2>4, InvoiceWritten
    <2> QED
      BY <1>2, <2>5, IdleIsSound, NothingOwned, InvoiceWriteIsSafe
  <1> QED
    BY <1>3, <1>4

-----------------------------------------------------------------------------
(* The invariants *)

\* Every statement of every procedure, every payment of a client and every failure keeps
\* the invariant.
LEMMA StepOK ==
    ASSUME PaymentsInv, [Next]_vars
    PROVE  PaymentsInv'
  <1>1. ASSUME NEW r \in Requests, Arrive(r)
        PROVE  PaymentsInv'
    BY <1>1, GenerateOK, PayReadOK, CreateReadOK, DeliverOK, RefundReadOK DEF Arrive
  <1>2. ASSUME NEW r \in Requests, Continue(r)
        PROVE  PaymentsInv'
    BY <1>2, GenerateOK, CreateInsertOK, CreateOpenOK, CreateLinkOK, WebhookLinkOK,
       WebhookClaimOK, WebhookCompleteOK, ApplyReadOK, ApplyInsertOK, ApplyUpdateOK,
       RefundProviderOK, RefundUpdateOK DEF Continue
  <1>3. ASSUME NEW s \in SessionIds, Settle(s)
        PROVE  PaymentsInv'
    BY <1>3, SettleOK
  <1>4. ASSUME NEW r \in Requests, Abort(r)
        PROVE  PaymentsInv'
    BY <1>4, IdleIsSound, NothingOwned, ReadIsSafe DEF Abort, Return
  <1>5. CASE UNCHANGED vars
    <2>1. InvoicesMove
      BY <1>5, InvoicesKept DEF vars
    <2> QED
      BY <1>5, <2>1, TablesMove, NoneMoves DEF vars
  <1> QED
    BY <1>1, <1>2, <1>3, <1>4, <1>5 DEF Next, Step

\* Whatever requests overlap, however often an event is delivered and whichever request
\* dies, the invariant holds.
THEOREM PaymentsInvariance == Spec => []PaymentsInv
  <1>1. PaymentsInv /\ [Next]_vars => PaymentsInv'
    BY StepOK
  <1> QED
    BY InitOK, <1>1, PTL DEF Spec

\* Invoices, sessions, claims and requests keep their types: no payment or refund takes
\* the amount paid of an invoice below zero.
THEOREM PaymentsTypeCorrect == Spec => []TypeOK
  <1>1. PaymentsInv => TypeOK
    BY DEF PaymentsInv, TablesOK, TypeOK
  <1> QED
    BY PaymentsInvariance, <1>1, PTL

\* The amount an invoice shows as paid is covered by its payment records and by its total,
\* although applyInvoicePayment and refund write an amount computed from an earlier read.
THEOREM PaidIsAlwaysCovered == Spec => []PaidIsCovered
  <1>1. PaymentsInv => PaidIsCovered
    BY DEF PaymentsInv, TablesOK, InvoicesOK, PaidIsCovered
  <1> QED
    BY PaymentsInvariance, <1>1, PTL

\* The provider is told 200 only for an event whose claim is stored (paymentWebhooks.ts).
THEOREM NoPaidSessionIsDropped == Spec => []AnsweredIsClaimed
  <1>1. PaymentsInv => AnsweredIsClaimed
    BY DEF PaymentsInv, TablesOK, SessionsOK, AnsweredIsClaimed, Answered
  <1> QED
    BY PaymentsInvariance, <1>1, PTL

-----------------------------------------------------------------------------
(* The webhooks implement Settlement *)

LEMMA SessionsAreBounded ==
    ASSUME PaymentsInv
    PROVE  \A s \in SessionIds : s \in 1..MaxSessions
  BY TablesShape, PaymentsAssumption DEF PaymentsInv, TablesOK

\* A step that writes a row, but neither the money nor the status of a session.
LEMMA RowKeepsBooks ==
    ASSUME PaymentsInv, NEW s, NEW row, NEW k, SessionAt(s, row), ChargeAt(s, k),
           s \in SessionIds =>
              /\ row.entries = session[s].entries /\ row.status = session[s].status
              /\ k.state = "settled" <=> charge[s].state = "settled"
    PROVE  UNCHANGED Books!vars
  <1>1. SessionIds' = SessionIds
    BY TablesShape, LenProperties DEF SessionAt, SessionIds
  <1>2. \A t \in SessionIds :
           /\ session'[t].entries = session[t].entries /\ session'[t].status = session[t].status
           /\ charge'[t].state = "settled" <=> charge[t].state = "settled"
    BY DEF SessionAt, ChargeAt
  <1>3. {t \in SessionIds : Settled(t)}' = {t \in SessionIds : Settled(t)}
    BY <1>1, <1>2 DEF Settled
  <1>4. {t \in SessionIds : session[t].status = "completed"}'
           = {t \in SessionIds : session[t].status = "completed"}
    BY <1>1, <1>2
  <1>5. [t \in 1..MaxSessions |-> IF t \in SessionIds THEN session[t].entries ELSE 0]'
           = [t \in 1..MaxSessions |-> IF t \in SessionIds THEN session[t].entries ELSE 0]
    BY <1>1, <1>2
  <1> QED
    BY <1>3, <1>4, <1>5 DEF Books!vars

LEMMA IdleKeepsBooks ==
    ASSUME PaymentsInv, UNCHANGED <<session, charge>>
    PROVE  UNCHANGED Books!vars
  <1>1. SessionAt(0, session[0]) /\ ChargeAt(0, charge[0]) /\ 0 \notin SessionIds
    BY SessionKept, ChargeKept, TablesShape
  <1> QED
    BY <1>1, RowKeepsBooks

\* A checkout session that is created has no money yet.
LEMMA CreateKeepsBooks ==
    ASSUME PaymentsInv, NEW r \in Requests, CreateInsert(r)
    PROVE  UNCHANGED Books!vars
  <1> DEFINE n == Len(session) + 1
             row == [inv |-> req[r].inv, amount |-> req[r].amount, gateway |-> req[r].gateway,
                     linked |-> FALSE, status |-> "pending", entries |-> 0]
             k == [state |-> "none", answered |-> FALSE, refunded |-> 0]
  <1>1. /\ session' = Append(session, row) /\ charge' = Append(charge, k)
        /\ row.status = "pending" /\ row.entries = 0 /\ k.state = "none"
    BY DEF CreateInsert
  <1>2. row \in Session
    BY Held, RequestShape DEF CreateInsert, Session
  <1>3. k \in Charge
    BY DEF Charge
  <1> HIDE DEF row, k
  <1>4. /\ session' \in Seq(Session) /\ Len(session') = Len(session) + 1
        /\ \A t \in 1..Len(session) : session'[t] = session[t]
        /\ session'[n] = row
    BY <1>1, <1>2, TablesShape, AppendProperties
  <1>5. /\ \A t \in 1..Len(session) : charge'[t] = charge[t]
        /\ charge'[n] = k
    BY <1>1, <1>3, TablesShape, AppendProperties
  <1>6. /\ \A t \in SessionIds' : t \in SessionIds \/ t = n
        /\ SessionIds \subseteq SessionIds' /\ n \in SessionIds' /\ n \notin SessionIds
    BY <1>4, TablesShape, LenProperties DEF SessionIds
  <1>7. \A t \in SessionIds : session'[t] = session[t] /\ charge'[t] = charge[t]
    BY <1>4, <1>5, TablesShape
  <1> HIDE DEF n
  <1>8. {t \in SessionIds : Settled(t)}' = {t \in SessionIds : Settled(t)}
    BY <1>1, <1>5, <1>6, <1>7 DEF Settled
  <1>9. {t \in SessionIds : session[t].status = "completed"}'
           = {t \in SessionIds : session[t].status = "completed"}
    BY <1>1, <1>4, <1>6, <1>7
  <1>10. [t \in 1..MaxSessions |-> IF t \in SessionIds THEN session[t].entries ELSE 0]'
           = [t \in 1..MaxSessions |-> IF t \in SessionIds THEN session[t].entries ELSE 0]
    BY <1>1, <1>4, <1>6, <1>7
  <1> QED
    BY <1>8, <1>9, <1>10 DEF Books!vars

LEMMA AnswerKeepsBooks ==
    ASSUME PaymentsInv, NEW r, NEW s \in SessionIds, Answer(r, s), UNCHANGED session
    PROVE  UNCHANGED Books!vars
  <1> DEFINE k == [charge[s] EXCEPT !.answered = TRUE]
  <1>1. k \in Charge /\ k.state = charge[s].state /\ charge' = [charge EXCEPT ![s] = k]
    BY SessionRow, ChargeUpdates DEF Answer
  <1> HIDE DEF k
  <1>2. ChargeAt(s, k) /\ SessionAt(s, session[s])
    BY <1>1, ChargeWritten, SessionKept
  <1> QED
    BY <1>1, <1>2, RowKeepsBooks

LEMMA OpenKeepsBooks ==
    ASSUME PaymentsInv, NEW r \in Requests, CreateOpen(r)
    PROVE  UNCHANGED Books!vars
  <1> DEFINE s == req[r].session
             k == [charge[s] EXCEPT !.state = "open"]
  <1>1. s \in SessionIds /\ charge[s].state = "none"
    BY Held DEF CreateOpen, Sound, Own, OwnedOK, Reached, SessionIds, SessionOps
  <1>2. /\ k \in Charge /\ k.state = "open" /\ charge' = [charge EXCEPT ![s] = k]
        /\ UNCHANGED session
    BY <1>1, SessionRow, ChargeUpdates DEF CreateOpen
  <1> HIDE DEF s, k
  <1>3. ChargeAt(s, k) /\ SessionAt(s, session[s])
    BY <1>1, <1>2, ChargeWritten, SessionKept
  <1> QED
    BY <1>1, <1>2, <1>3, RowKeepsBooks

LEMMA LinkKeepsBooks ==
    ASSUME PaymentsInv, NEW r \in Requests, CreateLink(r) \/ WebhookLink(r)
    PROVE  UNCHANGED Books!vars
  <1> DEFINE s == req[r].session
             row == [session[s] EXCEPT !.linked = TRUE]
  <1>1. s \in SessionIds
    BY Held DEF CreateLink, WebhookLink, Sound, SessionIds, SessionOps
  <1>2. session' = [session EXCEPT ![s] = row] /\ UNCHANGED charge
    BY DEF CreateLink, WebhookLink
  <1>3. row \in Session /\ row.entries = session[s].entries /\ row.status = session[s].status
    BY <1>1, SessionRow, SessionUpdates
  <1> HIDE DEF s, row
  <1>4. ChargeAt(s, charge[s]) /\ SessionAt(s, row)
    BY <1>1, <1>2, <1>3, ChargeKept, SessionWritten
  <1> QED
    BY <1>3, <1>4, RowKeepsBooks

LEMMA RefundKeepsBooks ==
    ASSUME PaymentsInv, NEW r \in Requests, RefundProvider(r)
    PROVE  UNCHANGED Books!vars
  <1> DEFINE s == req[r].session
             k == [charge[s] EXCEPT !.refunded = charge[s].refunded + req[r].amount]
  <1>1. s \in SessionIds /\ req[r].amount \in Nat
    BY Held, RequestShape DEF RefundProvider, Sound, SessionIds
  <1>2. k \in Charge /\ k.state = charge[s].state
    BY <1>1, SessionRow, ChargeUpdates
  <1>3. (UNCHANGED charge \/ charge' = [charge EXCEPT ![s] = k]) /\ UNCHANGED session
    BY DEF RefundProvider
  <1> HIDE DEF s, k
  <1>4. CASE UNCHANGED charge
    BY <1>3, <1>4, IdleKeepsBooks
  <1>5. CASE charge' = [charge EXCEPT ![s] = k]
    <2>1. ChargeAt(s, k) /\ SessionAt(s, session[s])
      BY <1>1, <1>2, <1>3, <1>5, ChargeWritten, SessionKept
    <2> QED
      BY <1>2, <2>1, RowKeepsBooks
  <1> QED
    BY <1>3, <1>4, <1>5

LEMMA SettlementSteps ==
    ASSUME NEW s \in 1..MaxSessions, Books!Pay(s) \/ Books!Enter(s) \/ Books!Close(s)
    PROVE  Books!Next
  BY DEF Books!Next

\* The client's payment of a session is Pay.
LEMMA SettleIsPay ==
    ASSUME PaymentsInv, NEW s \in SessionIds, Settle(s)
    PROVE  Books!Next
  <1>1. /\ charge' = [charge EXCEPT ![s].state = "settled"] /\ UNCHANGED session
        /\ charge[s].state = "open" /\ SessionIds' = SessionIds
    BY DEF Settle, SessionIds
  <1>2. \A t \in SessionIds : charge'[t].state = IF t = s THEN "settled" ELSE charge[t].state
    BY <1>1, TablesShape DEF Charge
  <1>3. s \notin {t \in SessionIds : Settled(t)}
    BY <1>1 DEF Settled
  <1>4. {t \in SessionIds : Settled(t)}' = {t \in SessionIds : Settled(t)} \cup {s}
    BY <1>1, <1>2 DEF Settled
  <1>5. Books!Pay(s)
    BY <1>1, <1>3, <1>4 DEF Books!Pay
  <1> QED
    BY <1>5, SessionsAreBounded, SettlementSteps

\* The insert of the payment record of a session is Enter.
LEMMA InsertIsEnter ==
    ASSUME PaymentsInv, NEW r \in Requests, ApplyInsert(r)
    PROVE  Books!Next \/ UNCHANGED Books!vars
  <1>0. PICK s : s = req[r].session
    OBVIOUS
  <1>1. /\ session' = [t \in SessionIds |-> IF t = s THEN [session[t] EXCEPT !.entries = @ + 1]
                                            ELSE session[t]]
        /\ UNCHANGED charge
    BY <1>0 DEF ApplyInsert
  <1>2. CASE s = 0
    <2>1. session' = session
      BY <1>1, <1>2, TablesShape
    <2> QED
      BY <1>1, <2>1, IdleKeepsBooks
  <1>3. CASE s # 0
    <2>1. s \in Own(req[r])
      BY <1>0, <1>3 DEF ApplyInsert, Own
    <2>2. s \in SessionIds /\ s \in claim /\ session[s].entries = 0
      BY <1>0, <2>1, Held DEF ApplyInsert, OwnedOK, Reached, SessionIds
    <2>3. s \in 1..MaxSessions /\ charge[s].state = "settled"
      BY <2>2, SessionsAreBounded, SessionRow DEF Consistent
    <2>4. SessionIds' = SessionIds
      BY <1>1 DEF SessionIds
    <2>5. \A t \in SessionIds :
             /\ session'[t].entries = IF t = s THEN 1 ELSE session[t].entries
             /\ session'[t].status = session[t].status
      BY <1>1, <2>2, SessionRow DEF Session
    <2>6. s \in {t \in SessionIds : Settled(t)}
      BY <2>2, <2>3 DEF Settled
    <2> DEFINE entered == [t \in 1..MaxSessions |-> IF t \in SessionIds THEN session[t].entries ELSE 0]
    <2>7. entered[s] = 0
      BY <2>2, <2>3
    <2>8. entered' = [entered EXCEPT ![s] = 1]
      BY <2>2, <2>3, <2>4, <2>5
    <2>9. {t \in SessionIds : Settled(t)}' = {t \in SessionIds : Settled(t)}
      BY <1>1, <2>4 DEF Settled
    <2>10. {t \in SessionIds : session[t].status = "completed"}'
              = {t \in SessionIds : session[t].status = "completed"}
      BY <2>4, <2>5
    <2>11. Books!Enter(s)
      BY <2>6, <2>7, <2>8, <2>9, <2>10 DEF Books!Enter
    <2> QED
      BY <2>3, <2>11, SettlementSteps
  <1> QED
    BY <1>2, <1>3

\* The last update of a webhook is Close.
LEMMA CompleteIsClose ==
    ASSUME PaymentsInv, NEW r \in Requests, WebhookComplete(r)
    PROVE  Books!Next
  <1>0. PICK s : s = req[r].session
    OBVIOUS
  <1>1. s \in SessionIds /\ session[s].entries = 1
    BY <1>0, Held DEF WebhookComplete, Sound, Own, OwnedOK, Reached, SessionIds, SessionOps
  <1>2. /\ session' = [session EXCEPT ![s].status = "completed", ![s].linked = TRUE]
        /\ charge' = [charge EXCEPT ![s].answered = TRUE]
    BY <1>0 DEF WebhookComplete, Answer
  <1>3. SessionIds' = SessionIds
    BY <1>2, TablesShape, LenProperties DEF SessionIds
  <1>4. \A t \in SessionIds :
           /\ session'[t].entries = session[t].entries
           /\ session'[t].status = IF t = s THEN "completed" ELSE session[t].status
    BY SMTT(30), <1>1, <1>2, TablesShape DEF Session
  <1>5. \A t \in SessionIds : charge'[t].state = charge[t].state
    BY <1>1, <1>2, TablesShape DEF Charge
  <1>6. {t \in SessionIds : Settled(t)}' = {t \in SessionIds : Settled(t)}
    BY <1>3, <1>5 DEF Settled
  <1>7. {t \in SessionIds : session[t].status = "completed"}'
           = {t \in SessionIds : session[t].status = "completed"} \cup {s}
    BY <1>1, <1>3, <1>4
  <1> DEFINE entered == [t \in 1..MaxSessions |-> IF t \in SessionIds THEN session[t].entries ELSE 0]
  <1>8. s \in 1..MaxSessions
    BY <1>1, SessionsAreBounded
  <1>9. entered' = entered /\ entered[s] = 1
    BY <1>1, <1>3, <1>4, <1>8
  <1>10. Books!Close(s)
    BY <1>6, <1>7, <1>9 DEF Books!Close
  <1> QED
    BY <1>8, <1>10, SettlementSteps

LEMMA StepSettles ==
    ASSUME PaymentsInv, [Next]_vars
    PROVE  [Books!Next]_(Books!vars)
  <1>1. ASSUME NEW r \in Requests, NEW s \in SessionIds, Deliver(r, s)
        PROVE  UNCHANGED Books!vars
    BY <1>1, AnswerKeepsBooks, IdleKeepsBooks DEF Deliver
  <1>2. ASSUME NEW r \in Requests, Arrive(r)
        PROVE  UNCHANGED Books!vars
    BY <1>1, <1>2, IdleKeepsBooks DEF Arrive, GenerateRead, PayRead, CreateRead, RefundRead, Only
  <1>3. ASSUME NEW r \in Requests, WebhookClaim(r)
        PROVE  UNCHANGED Books!vars
    <2>1. req[r].session \in SessionIds
      BY <1>3, Held DEF WebhookClaim, Sound, SessionIds, SessionOps
    <2> QED
      BY <1>3, <2>1, AnswerKeepsBooks, IdleKeepsBooks DEF WebhookClaim
  <1>4. ASSUME NEW r \in Requests,
               \/ GenerateInsert(r) \/ GenerateLines(r) \/ ApplyRead(r) \/ ApplyUpdate(r)
               \/ RefundUpdate(r) \/ Abort(r)
        PROVE  UNCHANGED Books!vars
    BY <1>4, IdleKeepsBooks
    DEF GenerateInsert, GenerateLines, ApplyRead, ApplyUpdate, RefundUpdate, Abort, Only
  <1>5. ASSUME NEW r \in Requests, Continue(r)
        PROVE  [Books!Next]_(Books!vars)
    BY <1>3, <1>4, <1>5, CreateKeepsBooks, OpenKeepsBooks, LinkKeepsBooks, RefundKeepsBooks,
       InsertIsEnter, CompleteIsClose DEF Continue
  <1>6. CASE UNCHANGED vars
    BY <1>6, IdleKeepsBooks DEF vars
  <1> QED
    BY <1>2, <1>4, <1>5, <1>6, SettleIsPay DEF Next, Step

\* However deliveries repeat, overlap and fail, the money of a session enters the books
\* at most once, after it was paid and before the session is completed: the webhooks
\* implement Settlement.
THEOREM WebhooksSettleOnce == Spec => ImplementsSettlement
  <1>1. Init => Books!Init
    <2> SUFFICES ASSUME Init
                 PROVE  Books!Init
      OBVIOUS
    <2>1. SessionIds = {}
      BY EmptySeq DEF Init, SessionIds
    <2> QED
      BY <2>1 DEF Books!Init
  <1>2. PaymentsInv /\ [Next]_vars => [Books!Next]_(Books!vars)
    BY StepSettles
  <1> QED
    BY <1>1, <1>2, PaymentsInvariance, PTL DEF Spec, ImplementsSettlement, Books!Spec

-----------------------------------------------------------------------------
(* When requests neither overlap nor die *)

\* One request is under way at most.
Alone == \A r, q \in Requests : req[r] # Idle /\ req[q] # Idle => r = q

SessionsOn(i) == {s \in SessionIds : session[s].inv = i}

\* What was given back of each session, and what is left of what it brought in.
Refunds == [s \in SessionIds |-> charge[s].refunded]
Nets ==
    [s \in SessionIds |->
        (IF session[s].entries = 1 THEN session[s].amount ELSE 0) - charge[s].refunded]

\* What invoice i will show once h is done, less what it shows now.
Pending(h, i) ==
    IF h.at = "apply.update" /\ h.inv = i THEN h.amount
    ELSE IF h.at = "refund.update" /\ session[h.session].inv = i THEN 0 - h.amount
    ELSE 0

\* An invoice shows, or will show, what it recorded less what was given back of its
\* sessions; and it recorded what they brought in.
Balanced(h) ==
    \A i \in InvoiceIds :
        /\ invoice[i].paid + Pending(h, i) = invoice[i].recorded - Total(Refunds, SessionsOn(i))
        /\ Total(Nets, SessionsOn(i)) <= invoice[i].recorded - Total(Refunds, SessionsOn(i))

\* No more was given back of a session than it brought in.
NetsOK == \A s \in SessionIds : 0 <= Nets[s]

\* What a request that works alone knows: the amount paid is what it read, a webhook
\* applies the amount of its session to the invoice of its session, and a refund is no
\* more than what is paid.
UpToDate(h) ==
    /\ h.at \in {"apply.insert", "apply.update"} => h.paid = invoice[h.inv].paid
    /\ h.at = "apply.insert" /\ h.session # 0 =>
          h.inv = session[h.session].inv /\ h.amount = session[h.session].amount
    /\ h.at \in {"refund.provider", "refund.update"} =>
          /\ h.paid = invoice[session[h.session].inv].paid
          /\ session[h.session].entries = 1
    /\ h.at = "refund.update" => h.amount <= h.paid

Bookkeeping(h) == Balanced(h) /\ UpToDate(h)

SerialInv ==
    /\ PaymentsInv
    /\ Alone
    /\ NetsOK
    /\ Quiet => Bookkeeping(Idle)
    /\ \A r \in Requests : req[r] # Idle => Bookkeeping(req[r])

\* The sums of the invoices are sums of these functions.
LEMMA RefundedIsTotal ==
    ASSUME NEW i
    PROVE  RefundedOn(i) = Total(Refunds, SessionsOn(i))
  <1> DEFINE T == SessionsOn(i)
             SumOf(iter, s) == IF s = {} THEN 0
                               ELSE charge[Picked(s)].refunded + iter[Rest(s)]
             It(iter) == [s \in SUBSET T |-> SumOf(iter, s)]
  <1>1. RefundedOn(i) = (CHOOSE iter : iter = It(iter))[T]
    BY DEF RefundedOn, MapThenSumSet, MapThenFoldSet, SessionsOn, Picked, Rest
  <1>2. \A iter : IsSums(Refunds, T, iter) <=> iter = It(iter)
    BY DEF IsSums, SumStep, Picked, Refunds, SessionsOn
  <1>3. Total(Refunds, T) = (CHOOSE iter : IsSums(Refunds, T, iter))[T]
    BY DEF Total, MapThenSumSet, MapThenFoldSet, IsSums, SumStep, Picked, Rest
  <1> HIDE DEF It, T
  <1>4. RefundedOn(i) = Total(Refunds, T)
    BY <1>1, <1>2, <1>3
  <1> QED
    BY <1>4 DEF T

LEMMA SumsShape ==
    ASSUME PaymentsInv
    PROVE  /\ \A s \in SessionIds :
                 /\ charge[s].refunded \in Nat /\ session[s].amount \in Nat \ {0}
                 /\ session[s].entries \in {0, 1}
                 /\ Refunds[s] = charge[s].refunded
                 /\ Nets[s] = (IF session[s].entries = 1 THEN session[s].amount ELSE 0)
                                - charge[s].refunded
                 /\ Refunds[s] \in Int /\ Nets[s] \in Int
           /\ \A i : /\ IsFiniteSet(SessionsOn(i)) /\ SessionsOn(i) \subseteq SessionIds
                     /\ Total(Refunds, SessionsOn(i)) \in Int
                     /\ Total(Nets, SessionsOn(i)) \in Int
  <1>1. ASSUME NEW s \in SessionIds
        PROVE  /\ charge[s].refunded \in Nat /\ session[s].amount \in Nat \ {0}
               /\ session[s].entries \in {0, 1}
    BY TablesShape, SessionRow DEF Charge, Session, Consistent
  <1>2. ASSUME NEW s \in SessionIds
        PROVE  /\ Refunds[s] = charge[s].refunded
               /\ Nets[s] = (IF session[s].entries = 1 THEN session[s].amount ELSE 0)
                               - charge[s].refunded
               /\ Refunds[s] \in Int /\ Nets[s] \in Int
    BY <1>1 DEF Refunds, Nets
  <1>3. IsFiniteSet(SessionIds)
    BY TablesShape, FS_Interval
  <1>4. ASSUME NEW i
        PROVE  /\ IsFiniteSet(SessionsOn(i)) /\ SessionsOn(i) \subseteq SessionIds
               /\ Total(Refunds, SessionsOn(i)) \in Int
               /\ Total(Nets, SessionsOn(i)) \in Int
    <2>1. SessionsOn(i) \subseteq SessionIds
      BY DEF SessionsOn
    <2>2. IsFiniteSet(SessionsOn(i))
      BY <1>3, <2>1, FS_Subset
    <2> QED
      BY <1>2, <2>1, <2>2, TotalIsInt
  <1> QED
    BY <1>1, <1>2, <1>4

\* A step that leaves the money of invoices and sessions alone.
MoneyStays ==
    /\ InvoiceIds' = InvoiceIds /\ SessionIds' = SessionIds
    /\ \A i \in InvoiceIds :
          invoice'[i].paid = invoice[i].paid /\ invoice'[i].recorded = invoice[i].recorded
    /\ \A s \in SessionIds :
          /\ session'[s].inv = session[s].inv /\ session'[s].amount = session[s].amount
          /\ session'[s].entries = session[s].entries
          /\ charge'[s].refunded = charge[s].refunded

\* The rows that h is about exist.
RowsExist(h) ==
    /\ h.at \in {"apply.insert", "apply.update"} => h.inv \in InvoiceIds
    /\ h.at = "apply.insert" /\ h.session # 0 => h.session \in SessionIds
    /\ h.at \in {"refund.provider", "refund.update"} => h.session \in SessionIds

LEMMA SoundRows ==
    ASSUME PaymentsInv, NEW r \in Requests
    PROVE  RowsExist(req[r])
  BY Held DEF RowsExist, Sound, InvoiceIds, SessionIds

LEMMA BooksKept ==
    ASSUME PaymentsInv, MoneyStays, NEW h, RowsExist(h), Bookkeeping(h)
    PROVE  Bookkeeping(h)' /\ (NetsOK => NetsOK')
  <1>1. Refunds' = Refunds /\ Nets' = Nets /\ \A i : SessionsOn(i)' = SessionsOn(i)
    BY DEF MoneyStays, Refunds, Nets, SessionsOn
  <1>2. \A i \in InvoiceIds : Pending(h, i)' = Pending(h, i)
    BY DEF MoneyStays, Pending, RowsExist
  <1>3. Balanced(h)'
    BY <1>1, <1>2 DEF MoneyStays, Balanced, Bookkeeping
  <1>4. \A s \in SessionIds : session[s].inv \in InvoiceIds
    BY SessionRow
  <1>5. UpToDate(h)'
    BY <1>4 DEF UpToDate, Bookkeeping, MoneyStays, RowsExist
  <1>6. NetsOK => NetsOK'
    BY <1>1 DEF NetsOK, MoneyStays
  <1> QED
    BY <1>3, <1>5, <1>6 DEF Bookkeeping

\* A request moves, having been alone or having found nobody else at work.
LEMMA SerialMove ==
    ASSUME SerialInv, PaymentsInv', NEW r \in Requests, Quiet \/ req[r] # Idle,
           NEW h, Goto(r, h), NetsOK', Bookkeeping(h)'
    PROVE  SerialInv'
  <1>1. \A q \in Requests : req'[q] = IF q = r THEN h ELSE req[q]
    BY DEF Goto, SerialInv, PaymentsInv
  <1>2. \A q \in Requests \ {r} : req'[q] = Idle
    BY <1>1 DEF SerialInv, Alone, Quiet
  <1>3. Alone'
    BY <1>2 DEF Alone
  <1>4. Quiet' => Bookkeeping(Idle)'
    <2> SUFFICES ASSUME Quiet'
                 PROVE  Bookkeeping(Idle)'
      OBVIOUS
    <2>1. h = Idle
      BY <1>1 DEF Quiet
    <2> QED
      BY <2>1
  <1>5. ASSUME NEW q \in Requests, req'[q] # Idle
        PROVE  Bookkeeping(req[q])'
    <2>1. q = r /\ req'[q] = h
      BY <1>1, <1>2, <1>5
    <2> QED
      BY <2>1 DEF Bookkeeping, Balanced, UpToDate, Pending
  <1> QED
    BY <1>3, <1>4, <1>5 DEF SerialInv

\* What is known when request r moves.
LEMMA Current ==
    ASSUME SerialInv, NEW r \in Requests, Quiet \/ req[r] # Idle
    PROVE  /\ PaymentsInv /\ NetsOK
           /\ \E h : h = req[r] /\ h \in Request /\ Bookkeeping(h) /\ RowsExist(h)
  <1>1. PaymentsInv /\ NetsOK /\ Bookkeeping(req[r])
    BY DEF SerialInv, Quiet
  <1>2. req[r] \in Request /\ RowsExist(req[r])
    BY <1>1, Held, SoundRows
  <1> QED
    BY <1>1, <1>2

\* Nothing is pending before or after, and no money moves.
Settling == {"apply.update", "refund.update"}

LEMMA NoteIsTaken ==
    ASSUME SerialInv, PaymentsInv', NEW r \in Requests, Quiet \/ req[r] # Idle,
           req[r].at \notin Settling, NEW h, Goto(r, h), h.at \notin Settling,
           MoneyStays, UpToDate(h), RowsExist(h)
    PROVE  SerialInv'
  <1>1. PaymentsInv /\ NetsOK
    BY Current
  <1>2. PICK g : g = req[r] /\ Bookkeeping(g)
    BY Current
  <1>3. Balanced(h)
    BY <1>2 DEF Bookkeeping, Balanced, Pending, Settling
  <1>4. Bookkeeping(h)' /\ NetsOK'
    BY <1>1, <1>3, BooksKept DEF Bookkeeping
  <1> QED
    BY <1>4, SerialMove

LEMMA IdleIsUpToDate == UpToDate(Idle) /\ RowsExist(Idle) /\ Idle.at \notin Settling
  BY DEF UpToDate, RowsExist, Idle, Settling

\* A read, or a statement on a row whose money it does not touch.
LEMMA MoneyUntouched ==
    ASSUME PaymentsInv,
           \/ UNCHANGED <<invoice, session, charge>>
           \/ \E s \in SessionIds :
                 \/ /\ UNCHANGED <<invoice, session>>
                    /\ \/ charge' = [charge EXCEPT ![s].state = "open"]
                       \/ charge' = [charge EXCEPT ![s].state = "settled"]
                       \/ charge' = [charge EXCEPT ![s].answered = TRUE]
                 \/ /\ UNCHANGED invoice
                    /\ \/ session' = [session EXCEPT ![s].linked = TRUE] /\ UNCHANGED charge
                       \/ /\ session' = [session EXCEPT ![s].status = "completed",
                                                        ![s].linked = TRUE]
                          /\ charge' = [charge EXCEPT ![s].answered = TRUE]
           \/ \E i \in InvoiceIds :
                 UNCHANGED <<session, charge>> /\ invoice' = [invoice EXCEPT ![i].itemised = TRUE]
    PROVE  MoneyStays
  <1>0. /\ \A s \in SessionIds : session[s] \in Session /\ charge[s] \in Charge
        /\ \A i \in InvoiceIds : invoice[i] \in Invoice
        /\ DOMAIN charge = SessionIds
    BY TablesShape
  <1>1. UNCHANGED <<invoice, session, charge>> => MoneyStays
    BY SMTT(30) DEF MoneyStays, InvoiceIds, SessionIds
  <1>2. ASSUME NEW s \in SessionIds, UNCHANGED <<invoice, session>>,
               \/ charge' = [charge EXCEPT ![s].state = "open"]
               \/ charge' = [charge EXCEPT ![s].state = "settled"]
               \/ charge' = [charge EXCEPT ![s].answered = TRUE]
        PROVE  MoneyStays
    <2>1. \A t \in SessionIds : charge'[t].refunded = charge[t].refunded
      BY SMTT(30), <1>0, <1>2 DEF Charge
    <2> QED
      BY <1>2, <2>1 DEF MoneyStays, InvoiceIds, SessionIds
  <1>3. ASSUME NEW s \in SessionIds, UNCHANGED invoice,
               \/ session' = [session EXCEPT ![s].linked = TRUE] /\ UNCHANGED charge
               \/ /\ session' = [session EXCEPT ![s].status = "completed", ![s].linked = TRUE]
                  /\ charge' = [charge EXCEPT ![s].answered = TRUE]
        PROVE  MoneyStays
    <2>1. DOMAIN session' = SessionIds
      BY <1>3 DEF SessionIds
    <2>2. \A t \in SessionIds : /\ session'[t].inv = session[t].inv
                                /\ session'[t].amount = session[t].amount
                                /\ session'[t].entries = session[t].entries
      <3>1. CASE session' = [session EXCEPT ![s].linked = TRUE]
        BY ZenonT(60), <1>0, <3>1 DEF Session, SessionIds
      <3>2. CASE session' = [session EXCEPT ![s].status = "completed", ![s].linked = TRUE]
        <4> DEFINE row == [session[s] EXCEPT !.status = "completed", !.linked = TRUE]
        <4>1. session' = [session EXCEPT ![s] = row]
          BY <3>2 DEF SessionIds
        <4>2. row.inv = session[s].inv /\ row.amount = session[s].amount
              /\ row.entries = session[s].entries
          BY <1>0 DEF Session
        <4> HIDE DEF row
        <4> QED
          BY <4>1, <4>2 DEF SessionIds
      <3> QED
        BY <1>3, <3>1, <3>2
    <2>3. \A t \in SessionIds : charge'[t].refunded = charge[t].refunded
      BY <1>0, <1>3 DEF Charge
    <2> QED
      BY ZenonT(60), <1>3, <2>1, <2>2, <2>3 DEF MoneyStays, InvoiceIds, SessionIds
  <1>4. ASSUME NEW i \in InvoiceIds, UNCHANGED <<session, charge>>,
               invoice' = [invoice EXCEPT ![i].itemised = TRUE]
        PROVE  MoneyStays
    <2>1. DOMAIN invoice' = InvoiceIds
      BY <1>4 DEF InvoiceIds
    <2>2. \A j \in InvoiceIds :
             invoice'[j].paid = invoice[j].paid /\ invoice'[j].recorded = invoice[j].recorded
      BY <1>0, <1>4 DEF Invoice, InvoiceIds
    <2> QED
      BY <1>4, <2>1, <2>2 DEF MoneyStays, InvoiceIds, SessionIds
  <1> QED
    BY <1>1, <1>2, <1>3, <1>4

LEMMA ReadTakesNote ==
    ASSUME SerialInv, PaymentsInv', NEW r \in Requests, Quiet \/ req[r] # Idle,
           req[r].at \notin Settling, NEW h, Only(Goto(r, h)), h.at \notin Settling,
           UpToDate(h), RowsExist(h)
    PROVE  SerialInv'
  <1>1. Goto(r, h) /\ UNCHANGED <<invoice, session, claim, charge>>
    BY DEF Only
  <1>2. MoneyStays
    BY <1>1, MoneyUntouched DEF SerialInv
  <1> QED
    BY <1>1, <1>2, NoteIsTaken

LEMMA QuietIsIdle ==
    ASSUME Quiet, NEW r \in Requests
    PROVE  req[r] = Idle /\ req[r].at = "idle"
  BY DEF Quiet, Idle

\* The procedures that begin.
LEMMA SerialArrive ==
    ASSUME SerialInv, PaymentsInv', NEW r \in Requests, Quiet, Arrive(r)
    PROVE  SerialInv'
  <1>0. req[r].at \notin Settling /\ PaymentsInv
    BY QuietIsIdle DEF Settling, SerialInv
  <1>1. ASSUME NEW p \in Periods, NEW total \in Totals, GenerateRead(r, p, total)
        PROVE  SerialInv'
    <2>1. PICK h : Only(Goto(r, h)) /\ h.at = "generate.insert"
      BY <1>1 DEF GenerateRead
    <2> QED
      BY <1>0, <2>1, ReadTakesNote DEF UpToDate, RowsExist, Settling
  <1>2. ASSUME NEW i \in InvoiceIds, NEW a \in Amounts, PayRead(r, i, a)
        PROVE  SerialInv'
    <2>1. PICK h : h = Applying(i, a, 0)
      OBVIOUS
    <2>2. Only(Goto(r, h))
      BY <1>2, <2>1 DEF PayRead
    <2>3. h.at = "apply.insert" /\ h.inv = i /\ h.paid = invoice[i].paid /\ h.session = 0
      BY <2>1 DEF Applying
    <2> QED
      BY <1>0, <2>2, <2>3, ReadTakesNote DEF UpToDate, RowsExist, Settling
  <1>3. ASSUME NEW i \in InvoiceIds, NEW a \in Amounts, NEW g \in Gateways, CreateRead(r, i, a, g)
        PROVE  SerialInv'
    <2>1. PICK h : Only(Goto(r, h)) /\ h.at = "session.insert"
      BY <1>3 DEF CreateRead
    <2> QED
      BY <1>0, <2>1, ReadTakesNote DEF UpToDate, RowsExist, Settling
  <1>4. ASSUME NEW s \in SessionIds, Deliver(r, s)
        PROVE  SerialInv'
    <2>1. UNCHANGED <<invoice, session, claim>>
      BY <1>4 DEF Deliver
    <2>2. PICK h : /\ Goto(r, h)
                   /\ h = Idle \/ h.at \in {"webhook.link", "webhook.claim"}
                   /\ UNCHANGED charge \/ charge' = [charge EXCEPT ![s].answered = TRUE]
      BY <1>4 DEF Deliver, Answer, Return
    <2>3. MoneyStays
      BY <1>0, <2>1, <2>2, MoneyUntouched
    <2>4. UpToDate(h) /\ RowsExist(h) /\ h.at \notin Settling
      BY <2>2, IdleIsUpToDate DEF UpToDate, RowsExist, Settling
    <2> QED
      BY <1>0, <2>2, <2>3, <2>4, NoteIsTaken
  <1>5. ASSUME NEW s \in SessionIds, NEW a \in Amounts, RefundRead(r, s, a)
        PROVE  SerialInv'
    <2>1. PICK h : /\ Only(Goto(r, h)) /\ h.at = "refund.provider" /\ h.session = s
                   /\ h.paid = invoice[session[s].inv].paid
      BY <1>5 DEF RefundRead
    <2>2. session[s].entries = 1
      BY <1>0, <1>5, SumsShape DEF RefundRead
    <2> QED
      BY <1>0, <2>1, <2>2, ReadTakesNote DEF UpToDate, RowsExist, Settling
  <1> QED
    BY <1>1, <1>2, <1>3, <1>4, <1>5 DEF Arrive

\* The statements that move no money.
LEMMA SerialOther ==
    ASSUME SerialInv, PaymentsInv', NEW r \in Requests,
           \/ GenerateLines(r) \/ CreateOpen(r) \/ CreateLink(r) \/ WebhookLink(r)
           \/ WebhookClaim(r) \/ WebhookComplete(r)
    PROVE  SerialInv'
  <1>0. PaymentsInv
    BY DEF SerialInv
  <1>1. /\ req[r].at \in SessionOps \cup {"generate.lines"}
        /\ req[r].at = "generate.lines" <=> GenerateLines(r)
    BY DEF GenerateLines, CreateOpen, CreateLink, WebhookLink, WebhookClaim, WebhookComplete,
           SessionOps
  <1>2. req[r] # Idle /\ req[r].at \notin Settling
    BY <1>1 DEF SessionOps, Settling, Idle
  <1> DEFINE s == req[r].session
  <1>3. CASE GenerateLines(r)
    <2>1. req[r].inv \in InvoiceIds
      BY <1>0, <1>1, <1>3, Held DEF Sound, InvoiceIds
    <2>2. MoneyStays /\ Goto(r, Idle)
      BY <1>0, <1>3, <2>1, MoneyUntouched DEF GenerateLines, Return
    <2> QED
      BY <1>2, <2>2, IdleIsUpToDate, NoteIsTaken
  <1>4. CASE ~GenerateLines(r)
    <2>1. req[r].at \in SessionOps /\ s \in SessionIds
      BY <1>0, <1>1, <1>4, Held DEF Sound, SessionIds
    <2>2. MoneyStays
      BY <1>0, <1>4, <2>1, MoneyUntouched
      DEF CreateOpen, CreateLink, WebhookLink, WebhookClaim, WebhookComplete, Answer
    <2>3. PICK h : Goto(r, h) /\ (h = Idle \/ h.at \in SessionOps)
      <3>1. \/ Goto(r, Idle)
            \/ \E at \in SessionOps : Advance(r, at)
        BY <1>4 DEF CreateOpen, CreateLink, WebhookLink, WebhookClaim, WebhookComplete,
                    Answer, Return, SessionOps
      <3>2. ASSUME NEW at \in SessionOps, Advance(r, at)
            PROVE  \E h : Goto(r, h) /\ h.at \in SessionOps
        <4> DEFINE h == [at |-> at, session |-> s]
        <4>1. Goto(r, h) /\ h.at = at
          BY <1>0, <2>1, <3>2, SessionAdvances
        <4> HIDE DEF h
        <4> QED
          BY <4>1
      <3> QED
        BY <3>1, <3>2
    <2>4. UpToDate(h) /\ RowsExist(h) /\ h.at \notin Settling
      BY <2>3, IdleIsUpToDate DEF UpToDate, RowsExist, Settling, SessionOps
    <2> QED
      BY <1>2, <2>2, <2>3, <2>4, NoteIsTaken
  <1> QED
    BY <1>3, <1>4

\* The client pays, or nothing happens: no request moves.
LEMMA SerialStays ==
    ASSUME SerialInv, PaymentsInv', req' = req, MoneyStays
    PROVE  SerialInv'
  <1>1. PaymentsInv /\ NetsOK
    BY DEF SerialInv
  <1>2. NetsOK'
    BY <1>1 DEF NetsOK, MoneyStays, Nets
  <1>3. Quiet' => Bookkeeping(Idle)'
    <2>1. Quiet' => Bookkeeping(Idle)
      BY DEF SerialInv, Quiet
    <2> QED
      BY <1>1, <2>1, IdleIsUpToDate, BooksKept
  <1>4. ASSUME NEW r \in Requests, req[r] # Idle
        PROVE  Bookkeeping(req[r])'
    <2>1. PICK h : h = req[r] /\ Bookkeeping(h) /\ RowsExist(h)
      BY <1>4, Current
    <2>2. Bookkeeping(h)' /\ req'[r] = h
      BY <1>1, <2>1, BooksKept
    <2> QED
      BY <2>2 DEF Bookkeeping, Balanced, UpToDate, Pending
  <1> QED
    BY <1>2, <1>3, <1>4 DEF SerialInv, Alone

\* The rows after a step.
LEMMA RowsAfter ==
    ASSUME PaymentsInv'
    PROVE  /\ invoice' \in Seq(Invoice) /\ Len(invoice') \in Nat /\ InvoiceIds' = 1..Len(invoice')
           /\ session' \in Seq(Session) /\ Len(session') \in Nat /\ SessionIds' = 1..Len(session')
           /\ charge' \in Seq(Charge)
           /\ \A i \in InvoiceIds' : invoice'[i].paid \in Nat
           /\ \A s \in SessionIds' :
                 /\ charge'[s].refunded \in Nat
                 /\ session'[s].amount \in Nat
                 /\ session'[s].entries \in {0, 1}
  <1>1. /\ invoice' \in Seq(Invoice) /\ session' \in Seq(Session) /\ charge' \in Seq(Charge)
        /\ Len(charge') = Len(session')
        /\ \A s \in SessionIds' : session'[s].entries \in {0, 1}
    BY DEF PaymentsInv, TablesOK, SessionsOK
  <1>2. /\ InvoiceIds' = 1..Len(invoice') /\ \A i \in InvoiceIds' : invoice'[i] \in Invoice
        /\ SessionIds' = 1..Len(session') /\ \A s \in SessionIds' : session'[s] \in Session
        /\ \A s \in SessionIds' : charge'[s] \in Charge
        /\ Len(invoice') \in Nat /\ Len(session') \in Nat
    BY <1>1, LenProperties DEF InvoiceIds, SessionIds
  <1>3. \A i \in InvoiceIds' : invoice'[i].paid \in Nat
    BY <1>2 DEF Invoice
  <1>4. \A s \in SessionIds' : charge'[s].refunded \in Nat /\ session'[s].amount \in Nat
    BY <1>2 DEF Session, Charge
  <1> QED
    BY <1>1, <1>2, <1>3, <1>4

\* A new invoice has no sessions, and a new session has brought nothing yet.
LEMMA SerialGenerate ==
    ASSUME SerialInv, PaymentsInv', NEW r \in Requests, GenerateInsert(r)
    PROVE  SerialInv'
  <1>0. /\ PaymentsInv /\ NetsOK /\ req[r].at = "generate.insert" /\ req[r] # Idle
        /\ req[r].at \notin Settling
    BY DEF SerialInv, GenerateInsert, Idle, Settling
  <1>1. CASE PeriodKeyCollision(req[r].period)
    BY <1>0, <1>1, IdleIsUpToDate, ReadTakesNote DEF GenerateInsert, Return, Only
  <1>2. CASE ~PeriodKeyCollision(req[r].period)
    <2> DEFINE n == Len(invoice) + 1
    <2>1. PICK row, h : /\ invoice' = Append(invoice, row) /\ row.paid = 0 /\ row.recorded = 0
                        /\ Goto(r, h) /\ h.at = "generate.lines"
                        /\ UNCHANGED <<session, charge>>
      BY <1>2 DEF GenerateInsert
    <2>2. /\ InvoiceIds' = 1..n /\ InvoiceIds = 1..Len(invoice) /\ Len(invoice) \in Nat
          /\ \A i \in InvoiceIds : invoice'[i] = invoice[i]
          /\ invoice'[n] = row
      <3>1. Len(invoice') = n
        <4>1. invoice' \in Seq(Invoice) /\ invoice \in Seq(Invoice)
          BY <1>0, RowsAfter, TablesShape
        <4> QED
          BY <2>1, <4>1, AppendProperties
      <3>2. InvoiceIds' = 1..n
        BY <3>1, RowsAfter
      <3>3. /\ InvoiceIds = 1..Len(invoice) /\ Len(invoice) \in Nat
            /\ invoice \in Seq(Invoice)
        BY <1>0, TablesShape
      <3> QED
        BY <2>1, <3>2, <3>3
    <2>3. Refunds' = Refunds /\ Nets' = Nets /\ \A i : SessionsOn(i)' = SessionsOn(i)
      BY <2>1 DEF Refunds, Nets, SessionsOn, SessionIds
    <2>4. SessionsOn(n) = {}
      BY <1>0, <2>2, SessionRow DEF SessionsOn
    <2>5. Balanced(Idle)
      <3>1. PICK g : g = req[r] /\ Bookkeeping(g)
        BY <1>0, Current
      <3> QED
        BY <1>0, <3>1 DEF Bookkeeping, Balanced, Pending, Settling, Idle
    <2>6. ASSUME NEW i \in InvoiceIds'
          PROVE  /\ invoice'[i].paid = invoice'[i].recorded - Total(Refunds, SessionsOn(i))
                 /\ Total(Nets, SessionsOn(i)) <= invoice'[i].recorded - Total(Refunds, SessionsOn(i))
      <3>1. CASE i = n
        <4>1. Total(Refunds, SessionsOn(i)) = 0 /\ Total(Nets, SessionsOn(i)) = 0
          BY <2>4, <3>1, TotalOfNone
        <4> QED
          BY <2>1, <2>2, <3>1, <4>1
      <3>2. CASE i # n
        <4>1. i \in InvoiceIds
          BY <2>2, <3>2
        <4>2. Pending(Idle, i) = 0 /\ invoice[i].paid \in Nat
          BY <1>0, <4>1, InvoiceRow DEF Pending, Idle
        <4> QED
          BY <2>2, <2>5, <4>1, <4>2 DEF Balanced
      <3> QED
        BY <3>1, <3>2
    <2>7. \A i : Pending(h, i)' = 0
      BY <2>1 DEF Pending
    <2>8. \A i \in InvoiceIds' : invoice'[i].paid \in Nat
      BY RowsAfter
    <2>9. Balanced(h)'
      BY <2>3, <2>6, <2>7, <2>8 DEF Balanced
    <2>10. UpToDate(h)'
      BY <2>1 DEF UpToDate
    <2>11. NetsOK'
      BY <1>0, <2>1, <2>3 DEF NetsOK, SessionIds
    <2> QED
      BY <1>0, <2>1, <2>9, <2>10, <2>11, SerialMove DEF Bookkeeping
  <1> QED
    BY <1>1, <1>2

\* The sums over the sessions of an invoice, after a step.
LEMMA SumsAfter ==
    ASSUME PaymentsInv', NEW s \in SessionIds'
    PROVE  /\ Refunds'[s] = charge'[s].refunded
           /\ Nets'[s] = (IF session'[s].entries = 1 THEN session'[s].amount ELSE 0)
                           - charge'[s].refunded
           /\ Refunds'[s] \in Int /\ Nets'[s] \in Int
  BY RowsAfter DEF Refunds, Nets

LEMMA SerialCreate ==
    ASSUME SerialInv, PaymentsInv', NEW r \in Requests, CreateInsert(r)
    PROVE  SerialInv'
  <1>0. PaymentsInv /\ NetsOK /\ req[r].at = "session.insert" /\ req[r] # Idle
    BY DEF SerialInv, CreateInsert, Idle
  <1> DEFINE n == Len(session) + 1
  <1>1. PICK row, k, h : /\ session' = Append(session, row) /\ charge' = Append(charge, k)
                         /\ row.inv = req[r].inv /\ row.entries = 0 /\ k.refunded = 0
                         /\ Goto(r, h) /\ h.at = "session.open" /\ UNCHANGED invoice
    BY DEF CreateInsert
  <1>2. /\ SessionIds' = 1..n /\ SessionIds = 1..Len(session) /\ Len(session) \in Nat
        /\ \A s \in SessionIds : session'[s] = session[s] /\ charge'[s] = charge[s]
        /\ session'[n] = row /\ charge'[n] = k
    <2>1. /\ session \in Seq(Session) /\ session' \in Seq(Session)
          /\ charge \in Seq(Charge) /\ charge' \in Seq(Charge)
          /\ Len(charge) = Len(session)
          /\ SessionIds = 1..Len(session) /\ SessionIds' = 1..Len(session') /\ Len(session) \in Nat
      BY <1>0, RowsAfter, TablesShape
    <2>2. Len(session') = n
      BY <1>1, <2>1, AppendProperties
    <2>3. /\ \A s \in 1..Len(session) : session'[s] = session[s]
          /\ session'[n] = row
      BY <1>1, <2>1
    <2>4. /\ \A s \in 1..Len(session) : charge'[s] = charge[s]
          /\ charge'[n] = k
      BY <1>1, <2>1
    <2> QED
      BY <2>1, <2>2, <2>3, <2>4
  <1>3. /\ SessionIds' = SessionIds \cup {n} /\ n \notin SessionIds
        /\ Refunds'[n] = 0 /\ Nets'[n] = 0
        /\ \A s \in SessionIds : Refunds'[s] = Refunds[s] /\ Nets'[s] = Nets[s]
    <2>1. SessionIds' = SessionIds \cup {n} /\ n \notin SessionIds
      BY <1>2
    <2>2. Refunds'[n] = 0 /\ Nets'[n] = 0
      <3>1. n \in SessionIds' /\ session'[n].entries = 0 /\ charge'[n].refunded = 0
        BY <1>1, <1>2, <2>1
      <3> HIDE DEF n
      <3> QED
        BY <3>1, SumsAfter
    <2>3. ASSUME NEW s \in SessionIds
          PROVE  Refunds'[s] = Refunds[s] /\ Nets'[s] = Nets[s]
      <3>1. /\ s \in SessionIds' /\ session'[s] = session[s] /\ charge'[s] = charge[s]
        BY <1>2, <2>1
      <3>2. /\ Refunds'[s] = charge'[s].refunded
            /\ Nets'[s] = (IF session'[s].entries = 1 THEN session'[s].amount ELSE 0)
                             - charge'[s].refunded
        BY <1>0, <3>1, SumsAfter
      <3>3. /\ Refunds[s] = charge[s].refunded
            /\ Nets[s] = (IF session[s].entries = 1 THEN session[s].amount ELSE 0)
                            - charge[s].refunded
        BY <1>0, SumsShape
      <3> QED
        BY <3>1, <3>2, <3>3
    <2> QED
      BY <2>1, <2>2, <2>3
  <1>4. ASSUME NEW i
        PROVE  /\ Total(Refunds', SessionsOn(i)') = Total(Refunds, SessionsOn(i))
               /\ Total(Nets', SessionsOn(i)') = Total(Nets, SessionsOn(i))
    <2>1. IsFiniteSet(SessionsOn(i)) /\ SessionsOn(i) \subseteq SessionIds
      BY <1>0, SumsShape
    <2>2. /\ \A s \in SessionsOn(i) : Refunds[s] \in Int /\ Refunds'[s] = Refunds[s]
          /\ \A s \in SessionsOn(i) : Nets[s] \in Int /\ Nets'[s] = Nets[s]
          /\ n \notin SessionsOn(i) /\ Refunds'[n] \in Int /\ Nets'[n] \in Int
      BY <1>0, <1>3, <2>1, SumsShape
    <2>3. Total(Refunds, SessionsOn(i)) \in Int /\ Total(Nets, SessionsOn(i)) \in Int
      BY <1>0, SumsShape
    <2>4. SessionsOn(i)' = SessionsOn(i) \cup (IF row.inv = i THEN {n} ELSE {})
      BY <1>2, <1>3 DEF SessionsOn
    <2>5. CASE row.inv = i
      <3>1. SessionsOn(i)' = SessionsOn(i) \cup {n}
        BY <2>4, <2>5
      <3>2. Total(Refunds', SessionsOn(i) \cup {n}) = Refunds'[n] + Total(Refunds, SessionsOn(i))
        BY <2>1, <2>2, TotalWithOneMore
      <3>3. Total(Nets', SessionsOn(i) \cup {n}) = Nets'[n] + Total(Nets, SessionsOn(i))
        BY <2>1, <2>2, TotalWithOneMore
      <3> QED
        BY <1>3, <2>3, <3>1, <3>2, <3>3
    <2>6. CASE row.inv # i
      <3>1. SessionsOn(i)' = SessionsOn(i)
        BY <2>4, <2>6
      <3> QED
        BY <2>1, <2>2, <3>1, TotalSame
    <2> QED
      BY <2>5, <2>6
  <1>5. Balanced(Idle)
    <2>1. PICK g : g = req[r] /\ Bookkeeping(g)
      BY <1>0, Current
    <2> QED
      BY <1>0, <2>1 DEF Bookkeeping, Balanced, Pending, Idle
  <1>6. \A i : Pending(h, i)' = 0 /\ Pending(Idle, i) = 0
    BY <1>1 DEF Pending, Idle
  <1>7. Balanced(h)'
    BY <1>1, <1>4, <1>5, <1>6 DEF Balanced, InvoiceIds
  <1>8. UpToDate(h)'
    BY <1>1 DEF UpToDate
  <1>9. NetsOK'
    BY <1>0, <1>3 DEF NetsOK
  <1> QED
    BY <1>0, <1>1, <1>7, <1>8, <1>9, SerialMove DEF Bookkeeping

\* One session changes its sums, those of its invoice follow.
LEMMA OneSessionChanges ==
    ASSUME PaymentsInv, PaymentsInv', SessionIds' = SessionIds, NEW s \in SessionIds,
           \A t \in SessionIds : session'[t].inv = session[t].inv,
           \A t \in SessionIds \ {s} : Refunds'[t] = Refunds[t] /\ Nets'[t] = Nets[t]
    PROVE  \A i : LET here == session[s].inv = i
                  IN /\ Total(Refunds', SessionsOn(i)')
                           = Total(Refunds, SessionsOn(i))
                               + (IF here THEN Refunds'[s] - Refunds[s] ELSE 0)
                     /\ Total(Nets', SessionsOn(i)')
                           = Total(Nets, SessionsOn(i))
                               + (IF here THEN Nets'[s] - Nets[s] ELSE 0)
  <1> SUFFICES ASSUME NEW i
               PROVE  /\ Total(Refunds', SessionsOn(i)')
                            = Total(Refunds, SessionsOn(i))
                                + (IF session[s].inv = i THEN Refunds'[s] - Refunds[s] ELSE 0)
                      /\ Total(Nets', SessionsOn(i)')
                            = Total(Nets, SessionsOn(i))
                                + (IF session[s].inv = i THEN Nets'[s] - Nets[s] ELSE 0)
    OBVIOUS
  <1>1. SessionsOn(i)' = SessionsOn(i)
    BY DEF SessionsOn
  <1>2. /\ IsFiniteSet(SessionsOn(i)) /\ SessionsOn(i) \subseteq SessionIds
        /\ Total(Refunds, SessionsOn(i)) \in Int /\ Total(Nets, SessionsOn(i)) \in Int
        /\ \A t \in SessionIds : Refunds[t] \in Int /\ Nets[t] \in Int
    BY SumsShape
  <1>3. \A t \in SessionIds : Refunds'[t] \in Int /\ Nets'[t] \in Int
    BY SumsAfter
  <1>4. CASE session[s].inv = i
    <2>1. s \in SessionsOn(i)
      BY <1>4 DEF SessionsOn
    <2>2. /\ \A t \in SessionsOn(i) : Refunds[t] \in Int /\ Refunds'[t] \in Int
          /\ \A t \in SessionsOn(i) \ {s} : Refunds'[t] = Refunds[t]
      BY <1>2, <1>3
    <2>3. /\ \A t \in SessionsOn(i) : Nets[t] \in Int /\ Nets'[t] \in Int
          /\ \A t \in SessionsOn(i) \ {s} : Nets'[t] = Nets[t]
      BY <1>2, <1>3
    <2>4. Total(Refunds', SessionsOn(i)) = Total(Refunds, SessionsOn(i)) + Refunds'[s] - Refunds[s]
      BY <1>2, <2>1, <2>2, TotalWithChange
    <2>5. Total(Nets', SessionsOn(i)) = Total(Nets, SessionsOn(i)) + Nets'[s] - Nets[s]
      BY <1>2, <2>1, <2>3, TotalWithChange
    <2> QED
      BY <1>1, <1>2, <1>3, <1>4, <2>4, <2>5
  <1>5. CASE session[s].inv # i
    <2>1. \A t \in SessionsOn(i) : Refunds'[t] = Refunds[t] /\ Nets'[t] = Nets[t]
      BY <1>2, <1>5 DEF SessionsOn
    <2>2. /\ Total(Refunds', SessionsOn(i)) = Total(Refunds, SessionsOn(i))
          /\ Total(Nets', SessionsOn(i)) = Total(Nets, SessionsOn(i))
      BY <1>2, <2>1, TotalSame
    <2> QED
      BY <1>1, <1>2, <1>5, <2>2
  <1> QED
    BY <1>4, <1>5

\* A payment is recorded, and, when a webhook brought it, entered in its session.
LEMMA SerialInsert ==
    ASSUME SerialInv, PaymentsInv', NEW r \in Requests, ApplyInsert(r)
    PROVE  SerialInv'
  <1>0. PaymentsInv /\ NetsOK /\ req[r].at = "apply.insert" /\ req[r] # Idle
    BY DEF SerialInv, ApplyInsert, Idle
  <1>1. PICK g : g = req[r] /\ g \in Request /\ Bookkeeping(g) /\ RowsExist(g)
    BY <1>0, Current
  <1>2. g.at = "apply.insert" /\ g.inv \in InvoiceIds /\ g.amount \in Nat /\ g.session \in Nat
    BY <1>0, <1>1, RequestShape DEF RowsExist
  <1>3. PICK h : Goto(r, h) /\ h.at = "apply.update" /\ h.inv = g.inv /\ h.amount = g.amount
                 /\ h.paid = g.paid
    <2>1. PICK h : h = [at |-> "apply.update", inv |-> g.inv, amount |-> g.amount,
                        paid |-> g.paid, session |-> g.session]
      OBVIOUS
    <2>2. [g EXCEPT !.at = "apply.update"] = h
      BY <1>1, <1>2, <2>1, Advanced
    <2>3. Goto(r, h)
      BY <1>1, <2>2, AdvanceIsGoto DEF ApplyInsert
    <2> QED
      BY <2>1, <2>3
  <1>4. /\ invoice' = [invoice EXCEPT ![g.inv].records = @ + 1, ![g.inv].recorded = @ + g.amount]
        /\ session' = [s \in SessionIds |->
                          IF s = g.session THEN [session[s] EXCEPT !.entries = @ + 1] ELSE session[s]]
        /\ UNCHANGED charge
    BY <1>1 DEF ApplyInsert
  <1>5. /\ InvoiceIds' = InvoiceIds
        /\ \A i \in InvoiceIds :
              /\ invoice'[i].paid = invoice[i].paid
              /\ invoice'[i].recorded =
                    IF i = g.inv THEN invoice[i].recorded + g.amount ELSE invoice[i].recorded
    <2>1. \A i \in InvoiceIds : invoice[i] \in Invoice
      BY <1>0, TablesShape
    <2> DEFINE row == [invoice[g.inv] EXCEPT !.records = invoice[g.inv].records + 1,
                                             !.recorded = invoice[g.inv].recorded + g.amount]
    <2>2. invoice' = [invoice EXCEPT ![g.inv] = row]
      BY <1>2, <1>4 DEF InvoiceIds
    <2>3. row.paid = invoice[g.inv].paid /\ row.recorded = invoice[g.inv].recorded + g.amount
      BY <1>2, <2>1, RecordedUpdate
    <2> HIDE DEF row
    <2> QED
      BY <2>2, <2>3 DEF InvoiceIds
  <1>6. /\ SessionIds' = SessionIds
        /\ \A s \in SessionIds :
              /\ session'[s].inv = session[s].inv /\ session'[s].amount = session[s].amount
              /\ session'[s].entries =
                    IF s = g.session THEN session[s].entries + 1 ELSE session[s].entries
    <2>1. \A s \in SessionIds : session[s] \in Session
      BY <1>0, TablesShape
    <2> QED
      BY <1>4, <2>1 DEF Session, SessionIds
  <1>7. \A i \in InvoiceIds :
           /\ invoice[i].paid \in Nat /\ invoice[i].recorded \in Nat
           /\ Total(Refunds, SessionsOn(i)) \in Int /\ Total(Nets, SessionsOn(i)) \in Int
    BY <1>0, InvoiceRow, SumsShape
  <1>8. \A i \in InvoiceIds :
           /\ Pending(g, i) = 0
           /\ Pending(h, i)' = IF i = g.inv THEN g.amount ELSE 0
    BY <1>2, <1>3 DEF Pending
  <1>9. Balanced(g)
    BY <1>1 DEF Bookkeeping
  <1>10. UpToDate(h)'
    BY <1>1, <1>2, <1>3, <1>5 DEF Bookkeeping, UpToDate
  <1>11. CASE g.session = 0
    <2>1. 0 \notin SessionIds
      BY <1>0, TablesShape
    <2>2. /\ Refunds' = Refunds /\ Nets' = Nets /\ \A i : SessionsOn(i)' = SessionsOn(i)
      BY <1>4, <1>6, <1>11, <2>1 DEF Refunds, Nets, SessionsOn
    <2>3. Balanced(h)'
      BY <1>2, <1>5, <1>7, <1>8, <1>9, <2>2 DEF Balanced
    <2>4. NetsOK'
      BY <1>0, <1>6, <2>2 DEF NetsOK
    <2> QED
      BY <1>0, <1>3, <1>10, <2>3, <2>4, SerialMove DEF Bookkeeping
  <1>12. CASE g.session # 0
    <2>0. PICK s : s = g.session
      OBVIOUS
    <2>1. /\ s \in SessionIds /\ g.inv = session[s].inv /\ g.amount = session[s].amount
      BY <1>1, <1>2, <1>12, <2>0 DEF RowsExist, Bookkeeping, UpToDate
    <2>2. session[s].entries = 0
      BY <1>0, <1>1, <1>2, <1>12, <2>0, Held DEF OwnedOK, Own, Reached
    <2>3. /\ Refunds'[s] = Refunds[s] /\ Nets'[s] = Nets[s] + g.amount
          /\ \A t \in SessionIds \ {s} : Refunds'[t] = Refunds[t] /\ Nets'[t] = Nets[t]
      BY <1>0, <1>4, <1>6, <2>0, <2>1, <2>2, SumsShape, SumsAfter
    <2>4. ASSUME NEW i \in InvoiceIds
          PROVE  /\ Total(Refunds', SessionsOn(i)') = Total(Refunds, SessionsOn(i))
                 /\ Total(Nets', SessionsOn(i)') =
                       IF i = g.inv THEN Total(Nets, SessionsOn(i)) + g.amount
                                    ELSE Total(Nets, SessionsOn(i))
      <3>1. LET here == session[s].inv = i
            IN /\ Total(Refunds', SessionsOn(i)')
                     = Total(Refunds, SessionsOn(i)) + (IF here THEN Refunds'[s] - Refunds[s] ELSE 0)
               /\ Total(Nets', SessionsOn(i)')
                     = Total(Nets, SessionsOn(i)) + (IF here THEN Nets'[s] - Nets[s] ELSE 0)
        BY <1>0, <1>6, <2>1, <2>3, OneSessionChanges
      <3>2. Refunds[s] \in Int /\ Nets[s] \in Int
        BY <1>0, <2>1, SumsShape
      <3> QED
        BY <1>2, <1>7, <2>1, <2>3, <3>1, <3>2
    <2>5. Balanced(h)'
      BY <1>2, <1>5, <1>7, <1>8, <1>9, <2>4 DEF Balanced
    <2>6. ASSUME NEW t \in SessionIds
          PROVE  0 <= Nets'[t]
      <3>1. Nets[t] \in Int /\ 0 <= Nets[t]
        BY <1>0, SumsShape DEF NetsOK
      <3>2. CASE t = s
        BY <1>2, <2>3, <3>1, <3>2
      <3>3. CASE t # s
        BY <2>3, <3>1, <3>3
      <3> QED
        BY <3>2, <3>3
    <2>7. NetsOK'
      BY <1>6, <2>6 DEF NetsOK
    <2> QED
      BY <1>0, <1>3, <1>10, <2>5, <2>7, SerialMove DEF Bookkeeping
  <1> QED
    BY <1>11, <1>12

\* The amount that the invoice shows catches up with what was recorded.
LEMMA SerialUpdate ==
    ASSUME SerialInv, PaymentsInv', NEW r \in Requests, ApplyUpdate(r)
    PROVE  SerialInv'
  <1>0. PaymentsInv /\ NetsOK /\ req[r].at = "apply.update" /\ req[r] # Idle
    BY DEF SerialInv, ApplyUpdate, Idle
  <1>1. PICK g : g = req[r] /\ g \in Request /\ Bookkeeping(g) /\ RowsExist(g)
    BY <1>0, Current
  <1>2. /\ g.at = "apply.update" /\ g.inv \in InvoiceIds /\ g.amount \in Nat
        /\ g.paid = invoice[g.inv].paid
    BY <1>0, <1>1, RequestShape DEF RowsExist, Bookkeeping, UpToDate
  <1>3. PICK h : Goto(r, h) /\ (h = Idle \/ h.at = "webhook.complete")
    BY DEF ApplyUpdate, Return
  <1>4. h.at \notin Settling /\ h.at \notin {"apply.insert", "refund.provider"}
    BY <1>3 DEF Settling, Idle
  <1>5. UNCHANGED <<session, charge>>
    BY DEF ApplyUpdate
  <1>6. /\ InvoiceIds' = InvoiceIds
        /\ \A i \in InvoiceIds :
              /\ invoice'[i].recorded = invoice[i].recorded
              /\ invoice'[i].paid =
                    IF i = g.inv THEN invoice[i].paid + g.amount ELSE invoice[i].paid
    <2> DEFINE n == g.paid + g.amount
               row == PaidUp(invoice[g.inv], n)
    <2>1. invoice' = [invoice EXCEPT ![g.inv] = row]
      BY <1>1 DEF ApplyUpdate
    <2>2. n \in Nat /\ n = invoice[g.inv].paid + g.amount
      BY <1>0, <1>2, InvoiceRow
    <2> HIDE DEF n
    <2>3. row.paid = n /\ row.recorded = invoice[g.inv].recorded
      BY <1>0, <1>2, <2>2, InvoiceRow, InvoiceUpdates
    <2> HIDE DEF row
    <2> QED
      BY <2>1, <2>2, <2>3 DEF InvoiceIds
  <1>7. \A i \in InvoiceIds :
           /\ invoice[i].paid \in Nat /\ invoice[i].recorded \in Nat
           /\ Total(Refunds, SessionsOn(i)) \in Int /\ Total(Nets, SessionsOn(i)) \in Int
    BY <1>0, InvoiceRow, SumsShape
  <1>8. \A i \in InvoiceIds :
           /\ Pending(g, i) = IF i = g.inv THEN g.amount ELSE 0
           /\ Pending(h, i)' = 0
    BY <1>2, <1>4 DEF Pending, Settling
  <1>9. Refunds' = Refunds /\ Nets' = Nets /\ \A i : SessionsOn(i)' = SessionsOn(i)
    BY <1>5 DEF Refunds, Nets, SessionsOn, SessionIds
  <1>10. Balanced(h)'
    BY <1>1, <1>2, <1>6, <1>7, <1>8, <1>9 DEF Bookkeeping, Balanced
  <1>11. UpToDate(h)'
    BY <1>4 DEF UpToDate, Settling
  <1>12. NetsOK'
    BY <1>0, <1>5, <1>9 DEF NetsOK, SessionIds
  <1> QED
    BY <1>0, <1>3, <1>10, <1>11, <1>12, SerialMove DEF Bookkeeping

\* A webhook reads the invoice its session is for.
LEMMA SerialRead ==
    ASSUME SerialInv, PaymentsInv', NEW r \in Requests, ApplyRead(r)
    PROVE  SerialInv'
  <1>0. PaymentsInv /\ NetsOK /\ req[r].at = "apply.read" /\ req[r] # Idle /\ req[r].at \notin Settling
    BY DEF SerialInv, ApplyRead, Idle, Settling
  <1> DEFINE s == req[r].session
             i == session[s].inv
             h == Applying(i, session[s].amount, s)
  <1>1. s \in SessionIds /\ i \in InvoiceIds
    BY <1>0, Held, SessionRow DEF Sound, SessionOps, SessionIds
  <1>2. Only(Goto(r, h)) \/ Only(Goto(r, Idle))
    BY DEF ApplyRead, Return
  <1>3. /\ h.at = "apply.insert" /\ h.inv = i /\ h.paid = invoice[i].paid
        /\ h.session = s /\ h.amount = session[s].amount
    BY DEF Applying
  <1> HIDE DEF h
  <1>4. UpToDate(h) /\ RowsExist(h) /\ h.at \notin Settling
    BY <1>1, <1>3 DEF UpToDate, RowsExist, Settling
  <1> QED
    BY <1>0, <1>2, <1>4, IdleIsUpToDate, ReadTakesNote

\* The provider gives money back, and never more than the session brought in; so the
\* invoice shows enough to take the refund off.
LEMMA SerialRefund ==
    ASSUME SerialInv, PaymentsInv', NEW r \in Requests, RefundProvider(r)
    PROVE  SerialInv'
  <1>0. /\ PaymentsInv /\ NetsOK /\ req[r].at = "refund.provider" /\ req[r] # Idle
        /\ req[r].at \notin Settling
    BY DEF SerialInv, RefundProvider, Idle, Settling
  <1>1. PICK g : g = req[r] /\ g \in Request /\ Bookkeeping(g) /\ RowsExist(g)
    BY <1>0, Current
  <1>2. PICK s : s = g.session
    OBVIOUS
  <1>3. PICK inv : inv = session[s].inv
    OBVIOUS
  <1>4. /\ g.at = "refund.provider" /\ s \in SessionIds /\ inv \in InvoiceIds
        /\ g.amount \in Nat /\ g.paid = invoice[inv].paid /\ session[s].entries = 1
    BY <1>0, <1>1, <1>2, <1>3, RequestShape, SessionRow DEF RowsExist, Bookkeeping, UpToDate
  <1>5. CASE ~(charge[s].refunded + g.amount <= session[s].amount)
    BY <1>0, <1>1, <1>2, <1>5, IdleIsUpToDate, ReadTakesNote DEF RefundProvider, Return, Only
  <1>6. CASE charge[s].refunded + g.amount <= session[s].amount
    <2>1. PICK h : /\ Goto(r, h) /\ h.at = "refund.update" /\ h.session = s
                   /\ h.amount = g.amount /\ h.paid = g.paid
      <3>1. PICK h : h = [at |-> "refund.update", session |-> s, amount |-> g.amount,
                          paid |-> g.paid]
        OBVIOUS
      <3>2. [g EXCEPT !.at = "refund.update"] = h
        BY <1>1, <1>2, <1>4, <3>1, Advanced
      <3>3. Goto(r, h)
        BY <1>1, <1>2, <1>6, <3>2, AdvanceIsGoto DEF RefundProvider
      <3> QED
        BY <3>1, <3>3
    <2>2. /\ UNCHANGED <<invoice, session>>
          /\ charge' = [charge EXCEPT ![s].refunded = @ + g.amount]
      BY <1>1, <1>2, <1>6 DEF RefundProvider
    <2>3. InvoiceIds' = InvoiceIds /\ SessionIds' = SessionIds
      BY <2>2 DEF InvoiceIds, SessionIds
    <2>4. /\ charge'[s].refunded = charge[s].refunded + g.amount
          /\ \A t \in SessionIds \ {s} : charge'[t] = charge[t]
      <3>1. charge[s] \in Charge /\ DOMAIN charge = SessionIds
        BY <1>0, <1>4, TablesShape
      <3> QED
        BY <1>4, <2>2, <3>1 DEF Charge
    <2>5. /\ Refunds'[s] = Refunds[s] + g.amount /\ Nets'[s] = Nets[s] - g.amount
          /\ 0 <= Nets'[s]
      <3>1. /\ Refunds[s] = charge[s].refunded /\ Nets[s] = session[s].amount - charge[s].refunded
            /\ charge[s].refunded \in Nat /\ session[s].amount \in Nat
        BY <1>0, <1>4, SumsShape
      <3>2. /\ Refunds'[s] = charge'[s].refunded
            /\ Nets'[s] = session[s].amount - charge'[s].refunded
        BY <1>4, <2>2, <2>3, SumsAfter
      <3> QED
        BY <1>4, <1>6, <2>4, <3>1, <3>2
    <2>6. \A t \in SessionIds \ {s} : Refunds'[t] = Refunds[t] /\ Nets'[t] = Nets[t]
      BY <1>0, <2>2, <2>3, <2>4, SumsShape, SumsAfter
    <2>7. \A i \in InvoiceIds :
             /\ invoice[i].paid \in Nat /\ invoice[i].recorded \in Nat
             /\ Total(Refunds, SessionsOn(i)) \in Int /\ Total(Nets, SessionsOn(i)) \in Int
      BY <1>0, InvoiceRow, SumsShape
    <2>8. ASSUME NEW i \in InvoiceIds
          PROVE  /\ Total(Refunds', SessionsOn(i)') =
                       IF i = inv THEN Total(Refunds, SessionsOn(i)) + g.amount
                                  ELSE Total(Refunds, SessionsOn(i))
                 /\ Total(Nets', SessionsOn(i)') =
                       IF i = inv THEN Total(Nets, SessionsOn(i)) - g.amount
                                  ELSE Total(Nets, SessionsOn(i))
      <3>1. LET here == session[s].inv = i
            IN /\ Total(Refunds', SessionsOn(i)')
                     = Total(Refunds, SessionsOn(i)) + (IF here THEN Refunds'[s] - Refunds[s] ELSE 0)
               /\ Total(Nets', SessionsOn(i)')
                     = Total(Nets, SessionsOn(i)) + (IF here THEN Nets'[s] - Nets[s] ELSE 0)
        BY <1>0, <1>4, <2>2, <2>3, <2>6, OneSessionChanges
      <3>2. Refunds[s] \in Int /\ Nets[s] \in Int
        BY <1>0, <1>4, SumsShape
      <3> QED
        BY <1>3, <1>4, <2>5, <2>7, <3>1, <3>2
    <2>9. \A i \in InvoiceIds :
             /\ Pending(g, i) = 0
             /\ Pending(h, i)' = IF i = inv THEN 0 - g.amount ELSE 0
      BY <1>3, <1>4, <2>1, <2>2 DEF Pending
    <2>10. Balanced(g)
      BY <1>1 DEF Bookkeeping
    <2>11. Balanced(h)'
      <3>1. ASSUME NEW i \in InvoiceIds
            PROVE  /\ invoice[i].paid + (IF i = inv THEN 0 - g.amount ELSE 0)
                          = invoice[i].recorded - Total(Refunds', SessionsOn(i)')
                   /\ Total(Nets', SessionsOn(i)')
                          <= invoice[i].recorded - Total(Refunds', SessionsOn(i)')
        <4>1. /\ invoice[i].paid = invoice[i].recorded - Total(Refunds, SessionsOn(i))
              /\ Total(Nets, SessionsOn(i)) <= invoice[i].recorded - Total(Refunds, SessionsOn(i))
          BY <2>7, <2>9, <2>10 DEF Balanced
        <4> QED
          BY <1>4, <2>7, <2>8, <4>1
      <3> QED
        BY <2>2, <2>3, <2>9, <3>1 DEF Balanced
    <2>12. \A t \in SessionIds : 0 <= Nets'[t]
      BY <1>0, <2>5, <2>6 DEF NetsOK
    <2>13. NetsOK'
      BY <2>3, <2>12 DEF NetsOK
    <2>14. g.amount <= g.paid
      <3>1. /\ invoice[inv].paid = invoice[inv].recorded - Total(Refunds, SessionsOn(inv))
            /\ Total(Nets, SessionsOn(inv))
                  <= invoice[inv].recorded - Total(Refunds, SessionsOn(inv))
        BY <1>4, <2>7, <2>9, <2>10 DEF Balanced
      <3>2. IsFiniteSet(SessionsOn(inv)) /\ SessionsOn(inv) \subseteq SessionIds
        BY <1>0, SumsShape
      <3>3. \A t \in SessionsOn(inv) : Nets[t] \in Nat
        BY <1>0, <3>2, SumsShape DEF NetsOK
      <3>4. s \in SessionsOn(inv)
        BY <1>3, <1>4 DEF SessionsOn
      <3>5. Nets[s] <= Total(Nets, SessionsOn(inv))
        BY <3>2, <3>3, <3>4, TotalCovers
      <3>6. Nets[s] \in Int /\ Total(Nets, SessionsOn(inv)) \in Int
        BY <1>0, <1>4, SumsShape
      <3> QED
        BY <1>4, <2>5, <2>7, <3>1, <3>5, <3>6
    <2>15. UpToDate(h)'
      BY <1>3, <1>4, <2>1, <2>2, <2>14 DEF UpToDate
    <2> QED
      BY <1>0, <2>1, <2>11, <2>13, <2>15, SerialMove DEF Bookkeeping
  <1> QED
    BY <1>5, <1>6

\* The refund is taken off the invoice.
LEMMA SerialReduce ==
    ASSUME SerialInv, PaymentsInv', NEW r \in Requests, RefundUpdate(r)
    PROVE  SerialInv'
  <1>0. PaymentsInv /\ NetsOK /\ req[r].at = "refund.update" /\ req[r] # Idle
    BY DEF SerialInv, RefundUpdate, Idle
  <1>1. PICK g : g = req[r] /\ g \in Request /\ Bookkeeping(g) /\ RowsExist(g)
    BY <1>0, Current
  <1>2. PICK inv : inv = session[g.session].inv
    OBVIOUS
  <1>3. /\ g.at = "refund.update" /\ inv \in InvoiceIds /\ g.amount \in Nat
        /\ g.paid = invoice[inv].paid /\ g.amount <= g.paid
    BY <1>0, <1>1, <1>2, RequestShape, SessionRow DEF RowsExist, Bookkeeping, UpToDate
  <1>4. UNCHANGED <<session, charge>> /\ Goto(r, Idle)
    BY DEF RefundUpdate, Return
  <1>5. /\ InvoiceIds' = InvoiceIds
        /\ \A i \in InvoiceIds :
              /\ invoice'[i].recorded = invoice[i].recorded
              /\ invoice'[i].paid =
                    IF i = inv THEN invoice[i].paid - g.amount ELSE invoice[i].paid
    <2> DEFINE n == g.paid - g.amount
               row == Reduced(invoice[inv], n)
    <2>1. invoice' = [invoice EXCEPT ![inv] = row]
      BY <1>1, <1>2, <1>3 DEF RefundUpdate
    <2>2. n \in Nat /\ n = invoice[inv].paid - g.amount
      BY <1>0, <1>3, InvoiceRow
    <2> HIDE DEF n
    <2>3. row.paid = n /\ row.recorded = invoice[inv].recorded
      BY <1>0, <1>3, <2>2, InvoiceRow, InvoiceUpdates
    <2> HIDE DEF row
    <2> QED
      BY <2>1, <2>2, <2>3 DEF InvoiceIds
  <1>6. \A i \in InvoiceIds :
           /\ invoice[i].paid \in Nat /\ invoice[i].recorded \in Nat
           /\ Total(Refunds, SessionsOn(i)) \in Int /\ Total(Nets, SessionsOn(i)) \in Int
    BY <1>0, InvoiceRow, SumsShape
  <1>7. \A i \in InvoiceIds :
           /\ Pending(g, i) = IF i = inv THEN 0 - g.amount ELSE 0
           /\ Pending(Idle, i)' = 0
    BY <1>2, <1>3 DEF Pending, Idle
  <1>8. Refunds' = Refunds /\ Nets' = Nets /\ \A i : SessionsOn(i)' = SessionsOn(i)
    BY <1>4 DEF Refunds, Nets, SessionsOn, SessionIds
  <1>9. Balanced(Idle)'
    BY <1>1, <1>3, <1>5, <1>6, <1>7, <1>8 DEF Bookkeeping, Balanced
  <1>10. UpToDate(Idle)'
    BY DEF UpToDate, Idle
  <1>11. NetsOK'
    BY <1>0, <1>4, <1>8 DEF NetsOK, SessionIds
  <1> QED
    BY <1>0, <1>4, <1>9, <1>10, <1>11, SerialMove DEF Bookkeeping

LEMMA SerialInitOK == Init => SerialInv
  <1> SUFFICES ASSUME Init
               PROVE  SerialInv
    OBVIOUS
  <1>1. PaymentsInv
    BY InitOK
  <1>2. InvoiceIds = {} /\ SessionIds = {}
    BY EmptySeq DEF Init, InvoiceIds, SessionIds
  <1>3. \A r \in Requests : req[r] = Idle
    BY DEF Init
  <1>4. Bookkeeping(Idle) /\ NetsOK
    BY <1>2, IdleIsUpToDate DEF Bookkeeping, Balanced, NetsOK
  <1> QED
    BY <1>1, <1>3, <1>4 DEF SerialInv, Alone

LEMMA SerialStepOK ==
    ASSUME SerialInv, [SerialNext]_vars
    PROVE  SerialInv'
  <1>1. PaymentsInv'
    <2>1. PaymentsInv
      BY DEF SerialInv
    <2>2. [Next]_vars
      BY DEF SerialNext, Next, Step
    <2> QED
      BY <2>1, <2>2, StepOK
  <1>2. ASSUME NEW r \in Requests, Quiet, Arrive(r)
        PROVE  SerialInv'
    BY <1>1, <1>2, SerialArrive
  <1>3. ASSUME NEW r \in Requests, Continue(r)
        PROVE  SerialInv'
    BY <1>1, <1>3, SerialOther, SerialGenerate, SerialCreate, SerialRead, SerialInsert,
       SerialUpdate, SerialRefund, SerialReduce DEF Continue
  <1>4. ASSUME NEW s \in SessionIds, Settle(s)
        PROVE  SerialInv'
    <2>1. MoneyStays /\ req' = req
      BY <1>4, MoneyUntouched DEF SerialInv, Settle
    <2> QED
      BY <1>1, <2>1, SerialStays
  <1>5. CASE UNCHANGED vars
    <2>1. MoneyStays /\ req' = req
      BY <1>5, MoneyUntouched DEF SerialInv, vars
    <2> QED
      BY <1>1, <2>1, SerialStays
  <1> QED
    BY <1>2, <1>3, <1>4, <1>5 DEF SerialNext

\* While requests come one at a time and none is cut short, every invoice shows between
\* them what was recorded less what the providers gave back, whatever the clients and
\* the providers do meanwhile.
THEOREM SerialBooksAgree == SerialSpec => []BooksAgree
  <1>1. ASSUME SerialInv
        PROVE  BooksAgree
    <2> SUFFICES ASSUME Quiet, NEW i \in InvoiceIds
                 PROVE  invoice[i].paid = invoice[i].recorded - RefundedOn(i)
      BY DEF BooksAgree
    <2>1. PaymentsInv /\ Balanced(Idle)
      BY <1>1 DEF SerialInv, Bookkeeping
    <2>2. Pending(Idle, i) = 0 /\ invoice[i].paid \in Nat
      BY <2>1, InvoiceRow DEF Pending, Idle
    <2> QED
      BY <2>1, <2>2, RefundedIsTotal DEF Balanced
  <1> QED
    BY <1>1, SerialInitOK, SerialStepOK, PTL DEF SerialSpec
=============================================================================
