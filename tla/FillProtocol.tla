---------------------------- MODULE FillProtocol ----------------------------
(***************************************************************************)
(* What the companion promises about filling a page, with no threads, no   *)
(* locks and no session: a fill intent is asked for, the user approves the *)
(* intent that stands, and an approval hands its credential to one tab and *)
(* is then used up.  A new intent or a withdrawal ends what stood before.  *)
(***************************************************************************)
CONSTANTS Tabs, Credential, None

VARIABLES
    intent,   \* the credential the user is asked about
    grant,    \* the credential the user approved and nobody has claimed
    held      \* per tab, the credential it was handed

vars == <<intent, grant, held>>

Init ==
    /\ intent = None
    /\ grant = None
    /\ held = [t \in Tabs |-> None]

Ask(c) ==
    /\ intent' = c
    /\ grant' = None
    /\ UNCHANGED held

Approve ==
    /\ intent # None
    /\ grant' = intent
    /\ intent' = None
    /\ UNCHANGED held

HandOver(t) ==
    /\ grant # None
    /\ held' = [held EXCEPT ![t] = grant]
    /\ grant' = None
    /\ UNCHANGED intent

(* The claim was answered but the answer did not arrive. *)
LoseClaim ==
    /\ grant' = None
    /\ UNCHANGED <<intent, held>>

Withdraw ==
    /\ intent' = None
    /\ grant' = None
    /\ UNCHANGED held

Forget(t) ==
    /\ held' = [held EXCEPT ![t] = None]
    /\ UNCHANGED <<intent, grant>>

Next ==
    \/ \E c \in Credential : Ask(c)
    \/ Approve
    \/ LoseClaim
    \/ Withdraw
    \/ \E t \in Tabs : HandOver(t) \/ Forget(t)

Spec == Init /\ [][Next]_vars
=============================================================================
