-------------------------- MODULE HandoffProtocol --------------------------
(***************************************************************************)
(* What pairing promises, without network, clocks or failures: a session   *)
(* that is offered is handed out once, to one device, and the device takes *)
(* over the logins of that handoff, or none of them, at most once between  *)
(* two of its restarts.  Pairing implements it.                            *)
(***************************************************************************)
EXTENDS CompanionVaultSession

CONSTANTS Phones, Sessions

VARIABLES
    offered,     \* sessions that may be claimed
    handed,      \* the handoffs made: [session, target, items]
    opened,      \* what each device opened since it started
    received     \* the logins each device has stored

vars == <<offered, handed, opened, received>>

Init ==
    /\ offered = {}
    /\ handed = {}
    /\ opened = [p \in Phones |-> {}]
    /\ received = [p \in Phones |-> {}]

HandedOut == {h.session : h \in handed}

(* The Mac offers a session it never handed out before. *)
Offer(s) ==
    /\ s \notin HandedOut
    /\ offered' = offered \cup {s}
    /\ UNCHANGED <<handed, opened, received>>

(* Expiry, a locked vault or a restart. *)
Withdraw ==
    /\ offered' \in SUBSET offered
    /\ UNCHANGED <<handed, opened, received>>

(* The one time a session is handed out. *)
HandOut(s, p, v) ==
    /\ s \in offered
    /\ s \notin HandedOut
    /\ offered' = offered \ {s}
    /\ handed' = handed \cup {[session |-> s, target |-> p, items |-> v]}
    /\ UNCHANGED <<opened, received>>

(* The device opens a handoff made for it; storing it may fail. *)
Open(h) ==
    /\ h \in handed
    /\ h.session \notin opened[h.target]
    /\ opened' = [opened EXCEPT ![h.target] = @ \cup {h.session}]
    /\ \/ received' = [received EXCEPT ![h.target] = Merge(@, h.items)]
       \/ UNCHANGED received
    /\ UNCHANGED <<offered, handed>>

(* A device forgets what it opened and keeps what it stored. *)
Forget(p) ==
    /\ opened' = [opened EXCEPT ![p] = {}]
    /\ UNCHANGED <<offered, handed, received>>

Next ==
    \/ \E s \in Sessions : Offer(s)
    \/ Withdraw
    \/ \E s \in Sessions, p \in Phones, v \in SUBSET Credential : HandOut(s, p, v)
    \/ \E h \in handed : Open(h)
    \/ \E p \in Phones : Forget(p)

Spec == Init /\ [][Next]_vars
=============================================================================
