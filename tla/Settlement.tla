----------------------------- MODULE Settlement -----------------------------
(***************************************************************************)
(* What the webhooks promise for a checkout session, however often an      *)
(* event is delivered: the money enters the books at most once, only after *)
(* the client paid, and the session is closed only after that.             *)
(***************************************************************************)
EXTENDS Integers

CONSTANT Sessions

VARIABLES
    charged,   \* the sessions the client has paid
    entries,   \* how often each session's money is in the books
    closed     \* the sessions that read "completed"

vars == <<charged, entries, closed>>

Init ==
    /\ charged = {}
    /\ entries = [s \in Sessions |-> 0]
    /\ closed = {}

Pay(s) ==
    /\ s \notin charged
    /\ charged' = charged \cup {s}
    /\ UNCHANGED <<entries, closed>>

Enter(s) ==
    /\ s \in charged
    /\ entries[s] = 0
    /\ entries' = [entries EXCEPT ![s] = 1]
    /\ UNCHANGED <<charged, closed>>

Close(s) ==
    /\ entries[s] = 1
    /\ closed' = closed \cup {s}
    /\ UNCHANGED <<charged, entries>>

Next == \E s \in Sessions : Pay(s) \/ Enter(s) \/ Close(s)

Spec == Init /\ [][Next]_vars
=============================================================================
