-------------------------- MODULE CompanionRelease --------------------------
(***************************************************************************)
(* Releasing one credential from the Mac companion to a browser tab.       *)
(*                                                                         *)
(* Three parties share the vault session and the bridge's release slot:    *)
(*  - the server threads that run the bridge's HTTP handlers for the       *)
(*    browser extension (metadata, release, claim), the status probe and   *)
(*    the Web importer;                                                    *)
(*  - the main actor, on which the view model approves, denies, locks,     *)
(*    unlocks, edits and refreshes;                                        *)
(*  - the extension's fill requests, one per tab, which ask for metadata,  *)
(*    request a release and then poll the claim endpoint.                  *)
(*                                                                         *)
(* CompanionBridgeService holds its own lock for a whole method, but each  *)
(* call it makes to the session takes and gives back the session's lock,   *)
(* so a method with two session calls is two steps here; between them the  *)
(* session may change while the bridge's fields may not.                   *)
(***************************************************************************)
EXTENDS CompanionVaultSession, Naturals, FiniteSets

CONSTANTS
    Tabs,        \* content-script requests in flight at the same time
    Pages,       \* the page origins tabs are on
    Pool,        \* the logins that may enter the vault
    Imports,     \* what the Web importer may bring, sets of them
    MaxClaims,   \* MAC_COMPANION_APPROVAL_CLAIM_ATTEMPTS
    MaxPosted    \* equal callbacks queued beyond this many are merged

Approval == [id: Ids, origin: Origins, label: Labels]

Vaults == {v \in SUBSET Pool : HasUniqueIds(v)}

ASSUME ReleaseAssumption ==
    /\ Pages \subseteq Spellings
    /\ Pool \subseteq Credential
    /\ Imports \subseteq Vaults
    /\ MaxClaims \in Nat \ {0}
    /\ MaxPosted \in Nat \ {0}
    /\ None \notin Approval
    /\ None \notin Ids

VARIABLES
    session,             \* CompanionVaultSession's fields
    store,               \* the logins in the encrypted vault file
    pendingApproval,     \* bridge: currentPendingApproval
    pendingCredential,   \* bridge: pendingCredential
    approvedCredential,  \* bridge: approvedCredential
    main,                \* main actor: program counter and captured request
    view,                \* view model: pendingApproval, shown to the user
    posted,              \* onPendingApprovalChanged tasks not yet run
    tabs,                \* per tab: the fill request's progress
    importer             \* the Web import running on a server thread

bridge == <<pendingApproval, pendingCredential, approvedCredential>>

vars == <<session, store, bridge, main, view, posted, tabs, importer>>

ApprovalOf(c) == [id |-> c.id, origin |-> c.origin, label |-> c.label]

(* Program counters at which a thread holds the bridge's lock. *)
HoldingPcs == {"metadataCheck", "releaseLookup", "claimLookup"}

TabPcs == {"idle", "metadata", "release", "claim"} \cup HoldingPcs

IdleTab == [pc |-> "idle", page |-> None, id |-> None, claims |-> 0, filled |-> None]

IdleMain == [pc |-> "idle", request |-> None]

BridgeFree ==
    /\ main.pc # "approve"
    /\ \A t \in Tabs : tabs[t].pc \notin HoldingPcs

Init ==
    /\ session = LockedSession
    /\ store \in Vaults
    /\ pendingApproval = None
    /\ pendingCredential = None
    /\ approvedCredential = None
    /\ main = IdleMain
    /\ view = None
    /\ posted = [a \in Approval \cup {None} |-> 0]
    /\ tabs = [t \in Tabs |-> IdleTab]
    /\ importer = None

-----------------------------------------------------------------------------
(* Helpers for the bridge's fields. *)

Post(a) ==
    posted' = [posted EXCEPT ![a] = IF @ < MaxPosted THEN @ + 1 ELSE @]

(* Seeded fault: the approval survives clearing. *)
ClearPendingOnly ==
    /\ pendingApproval' = None
    /\ pendingCredential' = None
    /\ UNCHANGED approvedCredential
    /\ Post(None)

ClearReleaseMaterial ==
    /\ pendingApproval' = None
    /\ pendingCredential' = None
    /\ approvedCredential' = None
    /\ Post(None)

KeepBridge == UNCHANGED <<bridge, posted>>

(* isSessionUnlocked() *)
RequireUnlocked ==
    /\ session' = Settled(session)
    /\ IF IsUnlocked(session') THEN KeepBridge ELSE ClearReleaseMaterial

-----------------------------------------------------------------------------
(* The extension and the handlers that serve it. *)

TabAt(t, pc) == tabs' = [tabs EXCEPT ![t].pc = pc]

EndFill(t) == TabAt(t, "idle")

StartFill(t, page) ==
    /\ tabs[t].pc = "idle"
    /\ tabs' = [tabs EXCEPT ![t] = [IdleTab EXCEPT !.pc = "metadata", !.page = page]]
    /\ UNCHANGED <<session, store, bridge, main, view, posted, importer>>

(* The request never reaches the handler: the companion is down, the token *)
(* is refused, or the fetch rejects.                                       *)
FetchFails(t) ==
    /\ tabs[t].pc \in {"metadata", "release", "claim"}
    /\ EndFill(t)
    /\ UNCHANGED <<session, store, bridge, main, view, posted, importer>>

(* GET /v1/credentials, first session call: a non-empty list is answered;  *)
(* exactly one match is followed by a release request.  The answer may be  *)
(* lost, here and below, in which case the request ends.                   *)
ReadMetadata(t) ==
    LET found == Matches(Settled(session), tabs[t].page)
    IN  /\ tabs[t].pc = "metadata"
        /\ BridgeFree
        /\ session' = Settled(session)
        /\ \/ /\ found = {}
              /\ TabAt(t, "metadataCheck")
           \/ /\ \E c \in found :
                 /\ found = {c}
                 /\ tabs' = [tabs EXCEPT ![t].pc = "release", ![t].id = c.id]
           \/ found # {} /\ EndFill(t)
        /\ KeepBridge
        /\ UNCHANGED <<store, main, view, importer>>

(* The second session call of metadata: no match, or locked. *)
CheckMetadata(t) ==
    /\ tabs[t].pc = "metadataCheck"
    /\ RequireUnlocked
    /\ EndFill(t)
    /\ UNCHANGED <<store, main, view, importer>>

(* POST /v1/credentials/release up to isSessionUnlocked. *)
CheckRelease(t) ==
    /\ tabs[t].pc = "release"
    /\ BridgeFree
    /\ RequireUnlocked
    /\ IF IsUnlocked(session') THEN TabAt(t, "releaseLookup") ELSE EndFill(t)
    /\ UNCHANGED <<store, main, view, importer>>

(* The rest of requestRelease. *)
LookupRelease(t) ==
    LET c == Lookup(Settled(session), tabs[t].id, tabs[t].page)
    IN  /\ tabs[t].pc = "releaseLookup"
        /\ session' = Settled(session)
        /\ \/ /\ c = None
              /\ EndFill(t)
              /\ KeepBridge
           \/ /\ c # None
              /\ pendingApproval' = ApprovalOf(c)
              /\ pendingCredential' = c
              /\ approvedCredential' = None
              /\ Post(ApprovalOf(c))
              /\ TabAt(t, "claim") \/ EndFill(t)
        /\ UNCHANGED <<store, main, view, importer>>

(* POST /v1/credentials/claim up to isSessionUnlocked. *)
CheckClaim(t) ==
    /\ tabs[t].pc = "claim"
    /\ BridgeFree
    /\ RequireUnlocked
    /\ IF IsUnlocked(session') THEN TabAt(t, "claimLookup") ELSE EndFill(t)
    /\ UNCHANGED <<store, main, view, importer>>

(* Seeded fault: the claim trusts the approval and does not ask the vault. *)
ClaimMatchesById(t) ==
    /\ approvedCredential # None
    /\ approvedCredential.id = tabs[t].id

(* The approved credential is still the vault's entry for this page. *)
ClaimMatches(t) ==
    /\ approvedCredential # None
    /\ approvedCredential.id = tabs[t].id
    /\ Lookup(Settled(session), tabs[t].id, tabs[t].page) = approvedCredential

(* Seeded fault: polls are not counted. *)
LookupClaimUncounted(t) ==
    /\ tabs[t].pc = "claimLookup"
    /\ ~ClaimMatches(t)
    /\ TabAt(t, "claim")
    /\ KeepBridge
    /\ UNCHANGED <<session, store, main, view, importer>>

(* Seeded fault: the approval is not used up by the claim. *)
LookupClaimReplayable(t) ==
    /\ tabs[t].pc = "claimLookup"
    /\ ClaimMatches(t)
    /\ session' = Settled(session)
    /\ tabs' = [tabs EXCEPT ![t].pc = "idle", ![t].filled = approvedCredential]
    /\ KeepBridge
    /\ UNCHANGED <<store, main, view, importer>>

(* The rest of consumeApprovedRelease: released, or credential_not_found,  *)
(* after which the extension waits and polls again up to MaxClaims times.  *)
LookupClaim(t) ==
    /\ tabs[t].pc = "claimLookup"
    /\ session' = IF approvedCredential # None /\ approvedCredential.id = tabs[t].id
                  THEN Settled(session) ELSE session
    /\ \/ /\ ClaimMatches(t)
          /\ approvedCredential' = None
          /\ UNCHANGED <<pendingApproval, pendingCredential, posted>>
          /\ \/ tabs' = [tabs EXCEPT ![t].pc = "idle", ![t].filled = approvedCredential]
             \/ EndFill(t)
       \/ /\ ~ClaimMatches(t)
          /\ \/ /\ tabs[t].claims + 1 < MaxClaims
                /\ tabs' = [tabs EXCEPT ![t].pc = "claim", ![t].claims = @ + 1]
             \/ EndFill(t)
          /\ KeepBridge
    /\ UNCHANGED <<store, main, view, importer>>

(* GET /status asks for metadata of an origin no login has. *)
ProbeStatus ==
    /\ BridgeFree
    /\ RequireUnlocked
    /\ UNCHANGED <<store, main, view, tabs, importer>>

-----------------------------------------------------------------------------
(* POST /v1/local-vault/import: three calls without a lock around them.    *)
(* A locked vault or an entry without an http(s) origin ends the import.   *)

StartImport(w) ==
    /\ importer = None
    /\ w # {}
    /\ session' = Settled(session)
    /\ importer' =
        IF IsUnlocked(session') /\ \A c \in w : Normalized[c.origin] # NoOrigin
        THEN [step |-> "save", merged |-> Merge(session'.credentials, NormalizeAll(w))]
        ELSE None
    /\ UNCHANGED <<store, bridge, main, view, posted, tabs>>

SaveImport ==
    /\ importer # None
    /\ importer.step = "save"
    /\ \/ store' = importer.merged /\ importer' = [importer EXCEPT !.step = "unlock"]
       \/ importer' = None /\ UNCHANGED store        \* the save failed
    /\ UNCHANGED <<session, bridge, main, view, posted, tabs>>

UnlockImport ==
    /\ importer # None
    /\ importer.step = "unlock"
    /\ session' = UnlockedSession(importer.merged)
    /\ importer' = None
    /\ UNCHANGED <<store, bridge, main, view, posted, tabs>>

-----------------------------------------------------------------------------
(* The main actor.  Prompts for the user's presence are abstracted: the    *)
(* actions below start where the prompt has been granted.                  *)

MainAt(pc) == main' = [IdleMain EXCEPT !.pc = pc]

(* Seeded fault: whatever is pending is approved. *)
AnythingIsPending == pendingApproval # None

(* Only the id of the request on the screen is compared. *)
ShownIsPending == pendingApproval # None /\ pendingApproval.id = view.id

(* approvePendingFill up to isSessionUnlocked; the view's request is kept  *)
(* in a local while the bridge is called.                                  *)
ClickApprove ==
    /\ main.pc = "idle"
    /\ view # None
    /\ BridgeFree
    /\ \/ /\ ~ShownIsPending
          /\ MainAt("refresh")
          /\ view' = None
          /\ KeepBridge
          /\ UNCHANGED session
       \/ /\ ShownIsPending
          /\ RequireUnlocked
          /\ IF IsUnlocked(session')
             THEN main' = [pc |-> "approve", request |-> view] /\ UNCHANGED view
             ELSE MainAt("refresh") /\ view' = None
    /\ UNCHANGED <<store, tabs, importer>>

(* The rest of approvePendingRelease. *)
LookupApprove ==
    /\ main.pc = "approve"
    /\ session' = Settled(session)
    /\ IF Lookup(session', pendingApproval.id, pendingApproval.origin) = pendingCredential
       THEN /\ pendingApproval' = None
            /\ pendingCredential' = None
            /\ approvedCredential' = pendingCredential
            /\ Post(None)
       ELSE ClearReleaseMaterial
    /\ MainAt("refresh")
    /\ view' = None
    /\ UNCHANGED <<store, tabs, importer>>

ClickDeny ==
    /\ main.pc = "idle"
    /\ view # None
    /\ BridgeFree
    /\ IF ShownIsPending THEN ClearReleaseMaterial ELSE KeepBridge
    /\ MainAt("refresh")
    /\ view' = None
    /\ UNCHANGED <<session, store, tabs, importer>>

(* toggleLockState of an unlocked vault: lock() up to session.lock(). *)
Lock ==
    /\ main.pc = "idle"
    /\ IsUnlocked(Settled(session))
    /\ session' = LockedSession
    /\ MainAt("clear")
    /\ UNCHANGED <<store, bridge, view, posted, tabs, importer>>

(* clearPendingApproval and pendingApproval = nil, in lock() and after     *)
(* every operation that republishes the vault.                             *)
ClearPendingApproval ==
    /\ main.pc = "clear"
    /\ BridgeFree
    /\ ClearReleaseMaterial
    /\ MainAt("refresh")
    /\ view' = None
    /\ UNCHANGED <<session, store, tabs, importer>>

(* unlockLocalVault: an empty store is not unlocked; the release slot is   *)
(* left alone.                                                             *)
Unlock ==
    /\ main.pc = "idle"
    /\ store # {}
    /\ session' = UnlockedSession(store)
    /\ MainAt("refresh")
    /\ UNCHANGED <<store, bridge, view, posted, tabs, importer>>

(* saveLocalCredential of an edit, confirmDeleteLocalCredential and        *)
(* restoreLocalVaultBackup: save, session.unlock, then clear.              *)
ReplaceVault(v) ==
    /\ main.pc = "idle"
    /\ store' = v
    /\ session' = UnlockedSession(v)
    /\ MainAt("clear")
    /\ UNCHANGED <<bridge, view, posted, tabs, importer>>

(* saveLocalCredential of a new login reaches the store only. *)
AddLogin(c) ==
    /\ main.pc = "idle"
    /\ \A d \in store : d.id # c.id
    /\ store' = store \cup {c}
    /\ MainAt("refresh")
    /\ UNCHANGED <<session, bridge, view, posted, tabs, importer>>

(* Seeded fault: the timer does not read the bridge's request. *)
RefreshStatusOnly ==
    /\ main.pc \in {"idle", "refresh"}
    /\ session' = Settled(session)
    /\ MainAt("idle")
    /\ UNCHANGED <<view, store, bridge, posted, tabs, importer>>

(* refresh(): at the end of most operations and every half second. *)
Refresh ==
    /\ main.pc \in {"idle", "refresh"}
    /\ BridgeFree
    /\ view' = pendingApproval
    /\ session' = Settled(session)
    /\ MainAt("idle")
    /\ UNCHANGED <<store, bridge, posted, tabs, importer>>

(* A task posted by onPendingApprovalChanged runs; tasks are unordered. *)
RunPosted(a) ==
    /\ main.pc = "idle"
    /\ posted[a] > 0
    /\ posted' = [posted EXCEPT ![a] = @ - 1]
    /\ view' = a
    /\ UNCHANGED <<session, store, bridge, main, tabs, importer>>

-----------------------------------------------------------------------------
(* The environment. *)

DeadlinePasses ==
    /\ session.deadline = "ahead"
    /\ session' = Overdue(session)
    /\ UNCHANGED <<store, bridge, main, view, posted, tabs, importer>>

(* markLostDevice and markRevoked *)
MarkAttention(reason) ==
    /\ session' = AttentionSession(reason)
    /\ UNCHANGED <<store, bridge, main, view, posted, tabs, importer>>

(* The companion quits or crashes and is started again: only the vault     *)
(* file survives, and requests in flight fail.                             *)
Restart ==
    /\ session' = LockedSession
    /\ pendingApproval' = None
    /\ pendingCredential' = None
    /\ approvedCredential' = None
    /\ main' = IdleMain
    /\ view' = None
    /\ posted' = [a \in Approval \cup {None} |-> 0]
    /\ tabs' = [t \in Tabs |-> [tabs[t] EXCEPT !.pc = "idle"]]
    /\ importer' = None
    /\ UNCHANGED store

Handle(t) ==
    \/ ReadMetadata(t) \/ CheckMetadata(t)
    \/ CheckRelease(t) \/ LookupRelease(t)
    \/ CheckClaim(t) \/ LookupClaim(t)

MainContinues == LookupApprove \/ ClearPendingApproval \/ Refresh

UserActs ==
    \/ ClickApprove \/ ClickDeny \/ Lock \/ Unlock
    \/ \E v \in Vaults : ReplaceVault(v)
    \/ \E c \in Pool : AddLogin(c)

Next ==
    \/ \E t \in Tabs : Handle(t) \/ FetchFails(t) \/ \E p \in Pages : StartFill(t, p)
    \/ ProbeStatus
    \/ \E w \in Imports : StartImport(w)
    \/ SaveImport \/ UnlockImport
    \/ MainContinues
    \/ UserActs
    \/ \E a \in Approval \cup {None} : RunPosted(a)
    \/ DeadlinePasses
    \/ \E r \in {"lostDevice", "revoked"} : MarkAttention(r)
    \/ Restart

Spec == Init /\ [][Next]_vars

-----------------------------------------------------------------------------
(* Properties. *)

TabState == [pc: TabPcs, page: Pages \cup {None}, id: Ids \cup {None},
             claims: 0 .. MaxClaims - 1, filled: Credential \cup {None}]

ImportState == [step: {"save", "unlock"}, merged: SUBSET Credential]

(* Every variable has its type, and a tab that has read its metadata knows *)
(* the page and the credential it asks for.                                *)
TypeOK ==
    /\ session \in Session
    /\ store \in SUBSET Credential
    /\ pendingApproval \in Approval \cup {None}
    /\ pendingCredential \in Credential \cup {None}
    /\ approvedCredential \in Credential \cup {None}
    /\ main \in [pc: {"idle", "approve", "clear", "refresh"}, request: Approval \cup {None}]
    /\ view \in Approval \cup {None}
    /\ posted \in [Approval \cup {None} -> 0 .. MaxPosted]
    /\ tabs \in [Tabs -> TabState]
    /\ importer \in ImportState \cup {None}

(* Nothing is approved unseen: what approvePendingRelease grants answers   *)
(* to the id of the request that was on the screen at the click, although  *)
(* requests, callbacks and the refresh timer replace what is pending and   *)
(* what is shown at any moment, and it is a login the vault still holds    *)
(* when the approval takes effect, although the vault may lock or change   *)
(* between the two calls of the session.  The label and the origin are not *)
(* promised: only the id of the request is compared.                       *)
ApprovedWasShown ==
    [][approvedCredential' # approvedCredential /\ approvedCredential' # None =>
            /\ main.request # None
            /\ approvedCredential'.id = main.request.id
            /\ approvedCredential' \in Settled(session).credentials]_vars

(* lock() leaves nothing to approve or to claim: once it has returned, and *)
(* for as long as the vault stays locked, the release slot is empty, even  *)
(* when a release request was half way through while the session locked.   *)
LockEmptiesSlot ==
    IsLocked(session) /\ main.pc # "clear" =>
        /\ pendingCredential = None
        /\ approvedCredential = None

(* A password reaches a tab only while the vault is unlocked, only if it   *)
(* is still what the vault holds (an edit, a delete, a restore or an       *)
(* import between approval and claim makes the claim fail), and only on a  *)
(* page of the credential's own origin.                                    *)
FilledFromOpenVault ==
    [][\A t \in Tabs :
        tabs'[t].filled # tabs[t].filled /\ tabs'[t].filled # None =>
            /\ IsUnlocked(session)
            /\ tabs'[t].filled \in session.credentials
            /\ tabs'[t].filled.origin = Normalized[tabs[t].page]]_vars

(* Every approval hands over at most one payload, and only the latest one  *)
(* the user approved: the abstract protocol is implemented.                *)
Protocol ==
    INSTANCE FillProtocol WITH
        intent <- pendingCredential,
        grant <- approvedCredential,
        held <- [t \in Tabs |-> tabs[t].filled]

ImplementsFillProtocol == Protocol!Spec

-----------------------------------------------------------------------------
(* Fairness.  The machine makes progress, the user need not: a thread that *)
(* holds the bridge's lock runs on, a thread that waits for it gets it in  *)
(* the end (strong fairness: the lock is only free now and then), posted   *)
(* tasks run and the refresh timer fires.                                  *)
Fairness ==
    /\ \A t \in Tabs : SF_vars(Handle(t))
    /\ WF_vars(LookupApprove)
    /\ SF_vars(ClearPendingApproval)
    /\ SF_vars(Refresh)

FairSpec == Spec /\ Fairness

(* A fill request always ends: with a credential, with an error or after   *)
(* MaxClaims polls, whatever the user does and whoever else asks.          *)
FillEnds == \A t \in Tabs : tabs[t].pc # "idle" ~> tabs[t].pc = "idle"

(* The request on the screen catches up with the bridge, although the      *)
(* callbacks that announce changes may run in any order: the refresh timer *)
(* repairs what they leave behind.                                         *)
ViewCatchesUp == []<>(view = pendingApproval)
=============================================================================
