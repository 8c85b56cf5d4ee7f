------------------------------ MODULE Pairing ------------------------------
(***************************************************************************)
(* Pairing an iPhone: the Mac's CompanionPairingSessionCoordinator and the *)
(* pairing part of its view model, the iPhone's PairingInviteViewModel,    *)
(* PairingHandoffOpener, DefaultPairingHandoffImporter and                 *)
(* PairingHandoffImportStore, and the network between them.                *)
(*                                                                         *)
(* The invite travels by hand (copied or scanned) to any device, once or   *)
(* again.  A claim or an answer that was sent may arrive never, late,      *)
(* twice, or at another device that waits: claims and answers are only     *)
(* ever added.  A refusal (400, 409, 410, 423, 500) ends an attempt just   *)
(* like a lost answer, so only handoffs are kept as answers.  The clocks   *)
(* of Mac and iPhones are independent.                                     *)
(***************************************************************************)
EXTENDS CompanionVaultSession

CONSTANTS
    Phones,      \* devices, each with the key of its target identity
    Sessions,    \* pairing session ids; the nonce goes with the id
    Vaults,      \* the logins the Mac may be unlocked with
    Empty        \* an empty text

ASSUME PairingAssumption ==
    /\ \A v \in Vaults : v \subseteq Credential /\ HasUniqueIds(v)
    /\ None \notin Sessions

VARIABLES
    session,     \* the Mac's CompanionVaultSession
    pending,     \* ids in pendingSessions
    consumed,    \* consumedSessionIds
    started,     \* ids ever given out, which makes new ones fresh (UUIDs)
    macLate,     \* sessions past their expiresAt by the Mac's clock
    claims,      \* POST /v1/pairing/claim sent: [session, target]
    answers,     \* handoffs sent back: [session, target, items]
    device,      \* per iPhone, its view model, opener and importer
    late,        \* per iPhone, sessions past expiresAt by its clock
    received     \* per iPhone, the logins in its received-vault file

macVars == <<session, pending, consumed, started, macLate>>
phoneVars == <<device, late, received>>
vars == <<session, pending, consumed, started, macLate, claims, answers,
          device, late, received>>

Claim == [session: Sessions, target: Phones]

Handoff == [session: Sessions, target: Phones, items: SUBSET Credential]

(* state: PairingInviteFlowState, where failed stands for every state that *)
(* shows a failure, and received for pairing with the answer in hand.      *)
Device == [state: {"empty", "ready", "pairing", "received", "imported", "failed"},
           invite: Sessions \cup {None},
           handoff: Handoff \cup {None},
           opened: SUBSET Sessions,
           cache: (SUBSET Credential) \cup {None}]

FreshDevice == [state |-> "empty", invite |-> None, handoff |-> None,
                opened |-> {}, cache |-> None]

Init ==
    /\ session = LockedSession
    /\ pending = {} /\ consumed = {}
    /\ started = {} /\ macLate = {}
    /\ claims = {} /\ answers = {}
    /\ device = [p \in Phones |-> FreshDevice]
    /\ late = [p \in Phones |-> {}]
    /\ received = [p \in Phones |-> {}]

-----------------------------------------------------------------------------
(* The Mac. *)

(* unlock(credentials:), by the user or by an import. *)
UnlockVault(v) ==
    /\ session' = UnlockedSession(v)
    /\ UNCHANGED <<pending, consumed, started, macLate, claims, answers>>
    /\ UNCHANGED phoneVars

(* lock() of the view model: it takes the invite off the screen, and       *)
(* leaves the pending session alone.                                       *)
lock ==
    /\ session' = LockedSession
    /\ UNCHANGED <<pending, consumed, started, macLate, claims, answers>>
    /\ UNCHANGED phoneVars

(* The session changes by itself or by others: its deadline passes, its    *)
(* state is read (by the refresh timer, the bridge), it is marked.         *)
SessionEnds ==
    /\ \/ session.deadline = "ahead" /\ session' = Overdue(session)
       \/ Settled(session) # session /\ session' = Settled(session)
       \/ \E r \in {"lostDevice", "revoked"} : session' = AttentionSession(r)
    /\ UNCHANGED <<pending, consumed, started, macLate, claims, answers>>
    /\ UNCHANGED phoneVars

(* startSession, as pairIPhone calls it. *)
startSession(s) ==
    /\ IsUnlocked(Settled(session))
    /\ s \notin started
    /\ pending' = pending \cup {s}
    /\ started' = started \cup {s}
    /\ UNCHANGED <<session, consumed, macLate, claims, answers>>
    /\ UNCHANGED phoneVars

(* pairIPhone when the vault turns out to be locked. *)
RefusePairing ==
    /\ ~IsUnlocked(Settled(session))
    /\ session' = Settled(session)
    /\ UNCHANGED <<pending, consumed, started, macLate, claims, answers>>
    /\ UNCHANGED phoneVars

pairIPhone == RefusePairing \/ \E s \in Sessions : startSession(s)

(* completeSession gives up a pending session that is overdue or finds the *)
(* vault locked (410, 423).                                                *)
RefuseClaim(c) ==
    /\ \/ c.session \in macLate /\ UNCHANGED session
       \/ /\ c.session \notin macLate
          /\ ~IsUnlocked(Settled(session))
          /\ session' = Settled(session)
    /\ pending' = pending \ {c.session}
    /\ UNCHANGED <<consumed, answers>>

(* Seeded fault: the session is not taken off the books. *)
MakeHandoffAndForget(c) ==
    /\ c.session \notin macLate
    /\ IsUnlocked(Settled(session))
    /\ answers' = answers \cup
         {[session |-> c.session, target |-> c.target, items |-> session.credentials]}
    /\ UNCHANGED <<session, pending, consumed>>

(* completeSession makes the handoff: every login of the open vault, for   *)
(* the claimed target, under the session's id and deadline.                *)
MakeHandoff(c) ==
    /\ c.session \notin macLate
    /\ IsUnlocked(Settled(session))
    /\ answers' = answers \cup
         {[session |-> c.session, target |-> c.target, items |-> session.credentials]}
    /\ pending' = pending \ {c.session}
    /\ consumed' = consumed \cup {c.session}
    /\ UNCHANGED session

(* Seeded fault: only replays are looked up, not what is pending. *)
completeSessionUnasked(c) ==
    /\ c.session \notin consumed
    /\ RefuseClaim(c) \/ MakeHandoff(c)
    /\ UNCHANGED <<started, macLate, claims>>
    /\ UNCHANGED phoneVars

(* completeSession under its lock, for a claim that was sent.  A consumed  *)
(* (409) or unknown (400) session, and a handoff that cannot be made       *)
(* (500), change nothing.                                                  *)
completeSession(c) ==
    /\ c.session \notin consumed
    /\ c.session \in pending
    /\ RefuseClaim(c) \/ MakeHandoff(c)
    /\ UNCHANGED <<started, macLate, claims>>
    /\ UNCHANGED phoneVars

MacClockPasses(s) ==
    /\ s \in started \ macLate
    /\ macLate' = macLate \cup {s}
    /\ UNCHANGED <<session, pending, consumed, started, claims, answers>>
    /\ UNCHANGED phoneVars

(* The companion ends and starts again: sessions live in memory only. *)
RestartMac ==
    /\ session' = LockedSession
    /\ pending' = {} /\ consumed' = {}
    /\ UNCHANGED <<started, macLate, claims, answers>>
    /\ UNCHANGED phoneVars

-----------------------------------------------------------------------------
(* The iPhone. *)

isBusy(p) == device[p].state \in {"pairing", "received"}

(* replaceInviteText with the invite of a session the Mac has started: the *)
(* parser refuses an overdue one.                                          *)
PasteInvite(p, s) ==
    /\ ~isBusy(p)
    /\ s \in started
    /\ device' = [device EXCEPT
         ![p].state = IF s \in late[p] THEN "failed" ELSE "ready",
         ![p].invite = IF s \in late[p] THEN None ELSE s,
         ![p].handoff = None]
    /\ UNCHANGED macVars
    /\ UNCHANGED <<claims, answers, late, received>>

(* replaceInviteText with an empty text or one that is no invite. *)
PasteOther(p) ==
    /\ ~isBusy(p)
    /\ \E state \in {"empty", "failed"} :
         device' = [device EXCEPT ![p].state = state, ![p].invite = None,
                                  ![p].handoff = None]
    /\ UNCHANGED macVars
    /\ UNCHANGED <<claims, answers, late, received>>

(* pair() up to the await of the exchange. *)
pair(p) ==
    /\ device[p].state = "ready"
    /\ device' = [device EXCEPT ![p].state = "pairing"]
    /\ claims' = claims \cup {[session |-> device[p].invite, target |-> p]}
    /\ UNCHANGED macVars
    /\ UNCHANGED <<answers, late, received>>

(* Seeded fault: the attempt is forgotten, but still shown as going on. *)
DiscardedSilently(d) == [d EXCEPT !.state = "pairing", !.invite = None, !.handoff = None]

(* discardFailedAttempt and the failed state. *)
Discarded(d) == [d EXCEPT !.state = "failed", !.invite = None, !.handoff = None]

(* The same after the handoff was opened: the opener remembers its id. *)
Spent(d) == [Discarded(d) EXCEPT !.opened = d.opened \cup {d.handoff.session}]

(* An answer arrives that PairingHandoffResponseParser accepts. *)
ReceiveHandoff(p) ==
    /\ device[p].state = "pairing"
    /\ \E h \in answers :
         /\ h.target = p
         /\ h.session \notin late[p]
         /\ device' = [device EXCEPT ![p].state = "received", ![p].handoff = h]
    /\ UNCHANGED macVars
    /\ UNCHANGED <<claims, answers, late, received>>

(* The exchange throws: no identity, no answer, a refusal, or an answer    *)
(* that the parser refuses.                                                *)
ExchangeFails(p) ==
    /\ device[p].state = "pairing"
    /\ device' = [device EXCEPT ![p] = Discarded(@)]
    /\ UNCHANGED macVars
    /\ UNCHANGED <<claims, answers, late, received>>

(* Seeded fault: without the replay guard. *)
CanOpenAgain(p, h) ==
    /\ h.session \notin late[p]
    /\ h.target = p

(* The guards of PairingHandoffOpener.open. *)
CanOpen(p, h) ==
    /\ h.session \notin late[p]
    /\ h.target = p
    /\ h.session \notin device[p].opened

(* isValidCredential *)
isValid(c) == c.label # Empty /\ c.password # Empty

(* The import store the importer uses: the one it kept from an earlier     *)
(* import, or one loaded from the file.                                    *)
ImportStore(p) == IF device[p].cache # None THEN device[p].cache ELSE received[p]

(* Seeded fault: the store is kept although it could not be written. *)
ImportFailsKeepingStore(p) ==
    /\ device[p].state = "received"
    /\ CanOpen(p, device[p].handoff)
    /\ device' = [device EXCEPT
         ![p] = [Spent(@) EXCEPT !.cache = Merge(ImportStore(p), device[p].handoff.items)]]
    /\ UNCHANGED macVars
    /\ UNCHANGED <<claims, answers, late, received>>

(* importHandoff throws before the handoff is opened (the key cannot be    *)
(* read, or a guard of the opener fails), or after (the file cannot be     *)
(* read or written, no logins, a login with an empty field).               *)
ImportFails(p) ==
    /\ device[p].state = "received"
    /\ \/ device' = [device EXCEPT ![p] = Discarded(@)]
       \/ /\ CanOpen(p, device[p].handoff)
          /\ device' = [device EXCEPT ![p] = Spent(@)]
    /\ UNCHANGED macVars
    /\ UNCHANGED <<claims, answers, late, received>>

(* importHandoff: open, merge by id, write the file, keep the store. *)
ImportHandoff(p) ==
    /\ device[p].state = "received"
    /\ CanOpen(p, device[p].handoff)
    /\ device[p].handoff.items # {}
    /\ \A c \in device[p].handoff.items : isValid(c)
    /\ received' = [received EXCEPT ![p] = Merge(ImportStore(p), device[p].handoff.items)]
    /\ device' = [device EXCEPT
         ![p].state = "imported",
         ![p].opened = @ \cup {device[p].handoff.session},
         ![p].cache = Merge(ImportStore(p), device[p].handoff.items)]
    /\ UNCHANGED macVars
    /\ UNCHANGED <<claims, answers, late>>

PhoneClockPasses(p, s) ==
    /\ s \in started \ late[p]
    /\ late' = [late EXCEPT ![p] = @ \cup {s}]
    /\ UNCHANGED macVars
    /\ UNCHANGED <<claims, answers, device, received>>

(* The app ends and starts again: only the received-vault file is left. *)
RestartPhone(p) ==
    /\ device' = [device EXCEPT ![p] = FreshDevice]
    /\ UNCHANGED macVars
    /\ UNCHANGED <<claims, answers, late, received>>

-----------------------------------------------------------------------------
MacActs ==
    \/ \E v \in Vaults : UnlockVault(v)
    \/ lock
    \/ SessionEnds
    \/ pairIPhone
    \/ \E c \in claims : completeSession(c)
    \/ \E s \in Sessions : MacClockPasses(s)
    \/ RestartMac

PhoneActs(p) ==
    \/ \E s \in Sessions : PasteInvite(p, s)
    \/ PasteOther(p)
    \/ pair(p)
    \/ ReceiveHandoff(p)
    \/ ExchangeFails(p)
    \/ ImportFails(p)
    \/ ImportHandoff(p)
    \/ \E s \in Sessions : PhoneClockPasses(p, s)
    \/ RestartPhone(p)

Next == MacActs \/ \E p \in Phones : PhoneActs(p)

Spec == Init /\ [][Next]_vars

(* The exchange's request ends by an answer or a timeout, and the main     *)
(* actor goes on with the method it is in.                                 *)
Fairness ==
    \A p \in Phones :
        /\ WF_vars(ReceiveHandoff(p) \/ ExchangeFails(p))
        /\ WF_vars(ImportFails(p) \/ ImportHandoff(p))

FairSpec == Spec /\ Fairness

-----------------------------------------------------------------------------
(* Properties. *)

(* Every variable has its type. *)
TypeOK ==
    /\ session \in Session
    /\ pending \in SUBSET Sessions
    /\ consumed \in SUBSET Sessions
    /\ started \in SUBSET Sessions
    /\ macLate \in SUBSET Sessions
    /\ claims \in SUBSET Claim
    /\ answers \in SUBSET Handoff
    /\ device \in [Phones -> Device]
    /\ late \in [Phones -> SUBSET Sessions]
    /\ received \in [Phones -> SUBSET Credential]

(* However often a session is claimed, by one device or several, and       *)
(* whether or not the Mac restarts in between, one handoff is made for it, *)
(* for one device (pendingSessions and consumedSessionIds).                *)
OneHandoffPerSession ==
    \A h, g \in answers : h.session = g.session => h = g

(* What an iPhone reports as imported is in its file, and the store it     *)
(* keeps for the next import is what is in the file, although reading and  *)
(* writing the file may fail half way through any import: importPayload    *)
(* works on a copy that is kept only when it was written.                  *)
ImportedIsStored ==
    \A p \in Phones :
        /\ device[p].state = "imported" => device[p].handoff.items \subseteq received[p]
        /\ device[p].cache # None => device[p].cache = received[p]

(* The received-vault file never holds two logins with the same id, which  *)
(* loadEncryptedStore would crash on at every later start                  *)
(* (Dictionary(uniqueKeysWithValues:)).                                    *)
FileLoads == \A p \in Phones : HasUniqueIds(received[p])

(* Failed attempts fail closed: an iPhone's stored logins change only in   *)
(* the step that reports the import, and by a handoff made for that device *)
(* which it had not opened before.                                         *)
FailsClosed ==
    [][\A p \in Phones : received'[p] # received[p] =>
        /\ device'[p].state = "imported"
        /\ device'[p].handoff \in answers
        /\ device'[p].handoff.target = p
        /\ device'[p].handoff.session \notin device[p].opened]_vars

(* No attempt leaves the iPhone waiting: pair() ends in an import or a     *)
(* failure, unless the app is ended.                                       *)
AttemptEnds ==
    \A p \in Phones : isBusy(p) ~> device[p].state \in {"imported", "failed", "empty"}

(* Pairing implements the one-time handoff. *)
Protocol == INSTANCE HandoffProtocol WITH
    offered <- pending,
    handed <- answers,
    opened <- [p \in Phones |-> device[p].opened],
    received <- received

ImplementsHandoffProtocol == Protocol!Spec
=============================================================================
