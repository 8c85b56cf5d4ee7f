------------------------------ MODULE WebVault ------------------------------
(***************************************************************************)
(* A Web vault page: useVaultUnlock and VaultPanel, whose handlers suspend *)
(* at awaits while the user goes on; the local credential bridge of the    *)
(* API, to which the page publishes what it has unlocked; and "Save to     *)
(* this Mac".  How vault/sync works is in VaultSync: here an answer brings *)
(* one of Lists, changed by what was asked.                                *)
(*                                                                         *)
(* A login is its seal: the passphrase its password is sealed with,        *)
(* "plain" (a password of an old format, which opens with any passphrase), *)
(* "none" (no password) or "absent" (not in the list).  A handler keeps    *)
(* what it captured when it was started, which decides how it will end.    *)
(***************************************************************************)
EXTENDS Integers, FiniteSets, SequencesExt

CONSTANTS
    Ids,         \* logins
    Passphrases,
    Lists,       \* what the server may hold, from Ids to seals
    SiteOf,      \* of each login: "http", "other" (an origin like ftp:) or "none"
    Ops,         \* handlers that can be suspended at once
    UsesOf,      \* bound: what each of them may be
    MaxUnderWay, \* bound: handlers suspended and calls to the bridge under way
    None

Kinds == {"load", "submit", "reveal", "edit", "write", "delete", "save"}

Seals == Passphrases \cup {"plain", "none", "absent"}

ASSUME WebVaultAssumption ==
    /\ None \notin Ids \cup Passphrases
    /\ None \notin [pass : Passphrases, secure : BOOLEAN]
    /\ Passphrases \cap {"plain", "none", "absent"} = {}
    /\ Lists \subseteq [Ids -> Seals]
    /\ SiteOf \in [Ids -> {"http", "other", "none"}]
    /\ UsesOf \in [Ops -> SUBSET Kinds] /\ MaxUnderWay \in Nat

VARIABLES
    verifier,    \* localStorage: the master password verifier, or None
    page,        \* the hooks' state
    importing,   \* MacCompanionPanel says that an import is under way
    op,          \* suspended handlers
    bridge,      \* the API's store of unlocked credentials
    calls,       \* calls to the bridge under way, in the order they were made
    current,     \* history: the page's newest call has taken effect
    overtaken,   \* history: and after it an older one
    late,        \* history: a handler ended after its page was locked
    replaced,    \* history: a set-up wrote over another verifier
    erased       \* history: passwords that an edit erased untouched

calling == <<bridge, calls, current, overtaken>>
vars == <<verifier, page, importing, op, bridge, calls, current, overtaken, late,
          replaced, erased>>

Verifiers == [pass : Passphrases, secure : BOOLEAN]

(* from: the login when editing began; password: the field is not empty;   *)
(* touched: the user changed that field.                                   *)
NoEdit == [id |-> None, from |-> "absent", password |-> FALSE, touched |-> FALSE]

NoPage == [view |-> "closed", stored |-> None, mode |-> "needs_setup", pass |-> None,
           items |-> [i \in Ids |-> "absent"], isSyncing |-> FALSE, revealed |-> {},
           selected |-> None, detail |-> "item", editing |-> NoEdit]

NoOp == [kind |-> "idle", step |-> "idle", id |-> None, seal |-> "none", ok |-> FALSE]

Init ==
    /\ verifier \in {None} \cup [pass : Passphrases, secure : {FALSE}]
    /\ page = NoPage /\ importing = FALSE
    /\ op = [o \in Ops |-> NoOp]
    /\ bridge = [ids |-> {}, fresh |-> FALSE]
    /\ calls = <<>>
    /\ current = FALSE /\ overtaken = FALSE /\ late = FALSE /\ replaced = FALSE
    /\ erased = {}

-----------------------------------------------------------------------------
(* The page's list. *)

Listed(u) == {i \in Ids : u.items[i] # "absent"}

hasSavedPassword(u, i) == u.items[i] \notin {"none", "absent"}

(* readDraftPassword gives a password. *)
Opens(u, i, p) == u.items[i] \in {p, "plain"}

(* protectedCiphertexts *)
Protected(u) == {i \in Ids : u.items[i] \in Passphrases}

canUnlockProtectedCiphertexts(u, p) == \A i \in Protected(u) : Opens(u, i, p)

Unlocked(u) == u.pass # None

-----------------------------------------------------------------------------
(* Effects. *)

cancelEditing(u) == [u EXCEPT !.editing = NoEdit]

(* Seeded fault: what was revealed and edited stays when the page locks. *)
ForgetSelection(u) == [u EXCEPT !.selected = None, !.detail = "item"]

(* The effect of a change of isUnlocked to false. *)
Forget(u) ==
    cancelEditing([u EXCEPT !.revealed = {}, !.selected = None, !.detail = "item"])

(* The effect that selects one of the items. *)
Selections(u) ==
    IF ~Unlocked(u) \/ u.selected \in Listed(u) THEN {u}
    ELSE IF Listed(u) = {} THEN {[u EXCEPT !.selected = None, !.detail = "create"]}
    ELSE {[u EXCEPT !.selected = i, !.detail = "item"] : i \in Listed(u)}

(* What publishLocalCredentialBridgeSession makes of a page: logins with   *)
(* an origin whose password opens.                                         *)
Publishable(u) ==
    IF Unlocked(u) THEN {i \in Ids : SiteOf[i] # "none" /\ Opens(u, i, u.pass)} ELSE {}

(* normalizeUnlockedCredential: the API takes all of them or none. *)
Valid(ids) == \A i \in ids : SiteOf[i] = "http"

(* Seeded fault: a locked page publishes what opens without a passphrase. *)
PublishesAnyway(u) ==
    LET ids == {i \in Ids : SiteOf[i] # "none" /\ Opens(u, i, u.pass)}
    IN  [kind |-> "publish", ids |-> ids, newest |-> TRUE, valid |-> Valid(ids)]

Publication(u) ==
    IF Unlocked(u)
    THEN [kind |-> "publish", ids |-> Publishable(u), newest |-> TRUE,
          valid |-> Valid(Publishable(u))]
    ELSE [kind |-> "clear", ids |-> {}, newest |-> TRUE, valid |-> TRUE]

(* The effect that tells the bridge, in a call that nothing waits for.     *)
TellBridge(u) ==
    /\ calls' = Append([n \in DOMAIN calls |-> [calls[n] EXCEPT !.newest = FALSE]],
                       Publication(u))
    /\ current' = FALSE /\ overtaken' = FALSE
    /\ UNCHANGED bridge

(* Seeded fault: the bridge is told when the page is unlocked or locked,   *)
(* and not when its items change.                                          *)
ChangesLockOnly(u, newItems) == u.pass # page.pass

(* One of accessToken, isUnlocked, items and unlockPassphrase is new. *)
Changes(u, newItems) == newItems \/ u.pass # page.pass

(* The page renders u, and the effects run. *)
Render(u, newItems) ==
    LET locks == Unlocked(page) /\ ~Unlocked(u) IN
    /\ page' \in Selections(IF locks THEN Forget(u) ELSE u)
    /\ IF Changes(u, newItems) THEN TellBridge(u) ELSE UNCHANGED calling

(* Its message goes when the page locks. *)
ImportingAfter(u) == importing /\ ~(Unlocked(page) /\ ~Unlocked(u))

-----------------------------------------------------------------------------
(* Handlers. *)

At(o, k, s) == op[o].kind = k /\ op[o].step = s

Suspend(o, k, s, i, a, b) ==
    /\ op[o] = NoOp /\ k \in UsesOf[o]
    /\ op' = [op EXCEPT ![o] = [kind |-> k, step |-> s, id |-> i, seal |-> a, ok |-> b]]

EndOp(o) == op' = [op EXCEPT ![o] = NoOp]

(* A handler that waits for something else next. *)
GoOn(o, s) == op' = [op EXCEPT ![o].step = s]

-----------------------------------------------------------------------------
(* useVaultSync, as far as this page is concerned. *)

(* The page loads; loadVault finds a session and sends the first sync.     *)
OpenPage(o) ==
    /\ page.view = "closed"
    /\ Suspend(o, "load", "sync", None, "none", FALSE)
    /\ Render([NoPage EXCEPT !.view = "loading", !.stored = verifier, !.isSyncing = TRUE,
                  !.mode = IF verifier = None THEN "needs_setup" ELSE "locked"], TRUE)
    /\ UNCHANGED <<verifier, importing, late, replaced, erased>>

(* Closed or loaded again, without telling the bridge. *)
ClosePage ==
    /\ page.view # "closed"
    /\ page' = NoPage /\ importing' = FALSE
    /\ op' = [o \in Ops |-> NoOp]
    /\ late' = FALSE
    /\ UNCHANGED <<verifier, calling, replaced, erased>>

(* What the list is to hold after the handler's request. *)
Written(o, l) ==
    CASE op[o].kind = "write" -> [l EXCEPT ![op[o].id] = op[o].seal]
      [] op[o].kind = "delete" -> [l EXCEPT ![op[o].id] = "absent"]
      [] OTHER -> l

(* runSync's answer, and what saveEditing and handleSubmit do with it.     *)
(* Each of them closes its form.                                           *)
ReceiveItems(o) ==
    /\ op[o].step = "sync"
    /\ EndOp(o)
    /\ \E l \in Lists :
          LET u == [page EXCEPT !.view = "open", !.items = Written(o, l), !.isSyncing = FALSE]
          IN  IF op[o].kind # "write" THEN Render(u, TRUE)
              ELSE IF op[o].ok THEN Render(cancelEditing(u), TRUE)
              ELSE Render([u EXCEPT !.detail = "item"], TRUE)
    /\ UNCHANGED <<verifier, importing, late, replaced, erased>>

(* The list stays; a page whose first sync fails shows no workspace.       *)
SyncFails(o) ==
    /\ op[o].step = "sync"
    /\ EndOp(o)
    /\ page' = [page EXCEPT !.isSyncing = FALSE,
                            !.view = IF @ = "loading" THEN "failed" ELSE @]
    /\ UNCHANGED <<verifier, importing, calling, late, replaced, erased>>

(* writeDraftPassword is done, runSync begins. *)
SendWrite(o) ==
    /\ At(o, "write", "seal")
    /\ GoOn(o, "sync")
    /\ page' = [page EXCEPT !.isSyncing = TRUE]
    /\ UNCHANGED <<verifier, importing, calling, late, replaced, erased>>

-----------------------------------------------------------------------------
(* useVaultUnlock. *)

(* What a submitUnlock that is started now with p will come to. *)
Outcome(u, p) ==
    IF ~canUnlockProtectedCiphertexts(u, p) THEN "refuse"
    ELSE IF u.mode = "needs_setup" THEN "adopt"
    ELSE IF u.stored = None \/ u.stored.pass # p THEN "refuse"
    ELSE IF u.stored.secure THEN "unlock" ELSE "adopt"

(* The form is not disabled while a submission is being verified. *)
UnlockFormShown == page.view = "open" /\ ~Unlocked(page)

submitUnlock(o, p) ==
    /\ UnlockFormShown
    /\ Suspend(o, "submit", Outcome(page, p), None, p, FALSE)
    /\ UNCHANGED <<verifier, page, importing, calling, late, replaced, erased>>

(* setUnlockPassphrase(null) and a message; the mode stays. *)
RefuseUnlock(o) ==
    /\ At(o, "submit", "refuse")
    /\ EndOp(o)
    /\ Render([page EXCEPT !.pass = None], FALSE)
    /\ importing' = ImportingAfter([page EXCEPT !.pass = None])
    /\ UNCHANGED <<verifier, late, replaced, erased>>

(* Seeded fault: the page goes on with the verifier it has read. *)
AdoptInStorage(o) ==
    LET p == op[o].seal IN
    /\ At(o, "submit", "adopt")
    /\ EndOp(o)
    /\ verifier' = [pass |-> p, secure |-> TRUE]
    /\ replaced' = (replaced \/ (verifier # None /\ verifier.pass # p))
    /\ Render([page EXCEPT !.pass = p, !.mode = "unlocked"], FALSE)
    /\ UNCHANGED <<importing, late, erased>>

(* A set-up, or an unlock that upgrades the verifier. *)
AdoptVerifier(o) ==
    LET p == op[o].seal
        v == [pass |-> p, secure |-> TRUE] IN
    /\ At(o, "submit", "adopt")
    /\ EndOp(o)
    /\ verifier' = v
    /\ replaced' = (replaced \/ (verifier # None /\ verifier.pass # p))
    /\ Render([page EXCEPT !.stored = v, !.pass = p, !.mode = "unlocked"], FALSE)
    /\ UNCHANGED <<importing, late, erased>>

Unlock(o) ==
    /\ At(o, "submit", "unlock")
    /\ EndOp(o)
    /\ Render([page EXCEPT !.pass = op[o].seal, !.mode = "unlocked"], FALSE)
    /\ UNCHANGED <<verifier, importing, late, replaced, erased>>

Locked(u) ==
    [u EXCEPT !.pass = None, !.mode = IF u.stored = None THEN "needs_setup" ELSE "locked"]

(* A submission still being verified is not cancelled. *)
lock ==
    /\ page.view = "open" /\ Unlocked(page)
    /\ Render(Locked(page), FALSE)
    /\ importing' = ImportingAfter(Locked(page))
    /\ UNCHANGED <<verifier, op, late, replaced, erased>>

-----------------------------------------------------------------------------
(* VaultPanel. *)

(* The buttons of a row; those of the selected login are no others. *)
CanPress == page.view = "open" /\ Unlocked(page) /\ ~page.isSyncing

HidePassword(i) ==
    /\ CanPress /\ i \in page.revealed \cap Listed(page)
    /\ page' = [page EXCEPT !.revealed = @ \ {i}]
    /\ UNCHANGED <<verifier, importing, op, calling, late, replaced, erased>>

(* Without a password to show, it ends where it began. *)
togglePasswordVisibility(o, i) ==
    /\ CanPress /\ i \in Listed(page) \ page.revealed
    /\ hasSavedPassword(page, i) /\ Opens(page, i, page.pass)
    /\ Suspend(o, "reveal", "open", i, "none", TRUE)
    /\ UNCHANGED <<verifier, page, importing, calling, late, replaced, erased>>

(* Whatever happened meanwhile. *)
RevealPassword(o) ==
    /\ At(o, "reveal", "open")
    /\ EndOp(o)
    /\ page' = [page EXCEPT !.revealed = @ \cup {op[o].id}]
    /\ late' = (late \/ ~Unlocked(page))
    /\ UNCHANGED <<verifier, importing, calling, replaced, erased>>

(* Seeded fault: the password field is still empty when the form appears. *)
startEditingAtOnce(o, i) ==
    /\ CanPress /\ i \in Listed(page)
    /\ Suspend(o, "edit", "open", i, page.items[i],
               hasSavedPassword(page, i) /\ Opens(page, i, page.pass))
    /\ page' = [page EXCEPT !.selected = i, !.detail = "item",
                  !.editing = [NoEdit EXCEPT !.id = i, !.from = page.items[i]]]
    /\ UNCHANGED <<verifier, importing, calling, late, replaced, erased>>

startEditing(o, i) ==
    /\ CanPress /\ i \in Listed(page)
    /\ Suspend(o, "edit", "open", i, page.items[i],
               hasSavedPassword(page, i) /\ Opens(page, i, page.pass))
    /\ UNCHANGED <<verifier, page, importing, calling, late, replaced, erased>>

(* The rest of startEditing: all fields at once. *)
ShowEditForm(o) ==
    /\ At(o, "edit", "open")
    /\ EndOp(o)
    /\ Render([page EXCEPT !.selected = op[o].id, !.detail = "item",
                  !.editing = [id |-> op[o].id, from |-> op[o].seal,
                               password |-> op[o].ok, touched |-> FALSE]], FALSE)
    /\ late' = (late \/ ~Unlocked(page))
    /\ UNCHANGED <<verifier, importing, replaced, erased>>

openCreatePanel ==
    /\ page.view = "open" /\ Unlocked(page)
    /\ Render([cancelEditing(page) EXCEPT !.detail = "create"], FALSE)
    /\ UNCHANGED <<verifier, importing, op, late, replaced, erased>>

selectItem(i) ==
    /\ CanPress /\ i \in Listed(page)
    /\ Render([cancelEditing(page) EXCEPT !.selected = i, !.detail = "item"], FALSE)
    /\ UNCHANGED <<verifier, importing, op, late, replaced, erased>>

(* The right hand side: the form for a new login, ... *)
CreateFormShown == page.view = "open" /\ Unlocked(page) /\ page.detail = "create"

(* Seeded fault: it does not go with the rest when the page locks. *)
EditFormShownLocked ==
    /\ page.view = "open" /\ page.detail = "item"
    /\ page.editing.id \in Listed(page)

(* ... the form for the login being edited, ... *)
EditFormShown ==
    /\ page.view = "open" /\ Unlocked(page) /\ page.detail = "item"
    /\ page.selected \in Listed(page) /\ page.editing.id = page.selected

(* ... or the selected login. *)
DetailsShown ==
    /\ page.view = "open" /\ Unlocked(page) /\ page.detail = "item"
    /\ page.selected \in Listed(page) /\ page.editing.id # page.selected

TypePassword(b) ==
    /\ EditFormShown
    /\ page' = [page EXCEPT !.editing.password = b, !.editing.touched = TRUE]
    /\ UNCHANGED <<verifier, importing, op, calling, late, replaced, erased>>

PressCancel ==
    /\ EditFormShown /\ ~page.isSyncing
    /\ page' = cancelEditing(page)
    /\ UNCHANGED <<verifier, importing, op, calling, late, replaced, erased>>

(* An empty password field erases the password; the page opened it, and    *)
(* the user left the field alone.                                          *)
Erases(e) == ~e.password /\ ~e.touched /\ e.from \in {page.pass, "plain"}

(* Up to the await of updateItem. *)
saveEditing(o) ==
    /\ EditFormShown /\ ~page.isSyncing
    /\ Suspend(o, "write", "seal", page.editing.id,
               IF page.editing.password THEN page.pass ELSE "none", TRUE)
    /\ erased' = IF Erases(page.editing) THEN erased \cup {page.editing.id} ELSE erased
    /\ UNCHANGED <<verifier, page, importing, calling, late, replaced>>

(* An id that nothing on the page has.  Unlike a UUID it may have been that *)
(* of a login that is gone.                                                *)
Fresh == {i \in Ids \ Listed(page) : \A o \in Ops : op[o].id # i}

(* Up to the await of createItem, with a password or without. *)
handleSubmit(o, i) ==
    /\ CreateFormShown /\ ~page.isSyncing /\ i \in Fresh
    /\ \E s \in {page.pass, "none"} : Suspend(o, "write", "seal", i, s, FALSE)
    /\ UNCHANGED <<verifier, page, importing, calling, late, replaced, erased>>

deleteItem(o) ==
    /\ DetailsShown /\ ~page.isSyncing
    /\ Suspend(o, "delete", "sync", page.selected, "none", FALSE)
    /\ page' = [page EXCEPT !.isSyncing = TRUE]
    /\ UNCHANGED <<verifier, importing, calling, late, replaced, erased>>

-----------------------------------------------------------------------------
(* MacCompanionPanel.  Its status of the companion, polled every 5 seconds, *)
(* is not kept: the button may be enabled, and saveToMac asks again.       *)

(* With the passwords that open now; importing is not set yet. *)
saveToMac(o) ==
    /\ page.view = "open" /\ Unlocked(page) /\ ~importing
    /\ Suspend(o, "save", "check", None, "none",
               \E i \in Ids : hasSavedPassword(page, i) /\ Opens(page, i, page.pass))
    /\ UNCHANGED <<verifier, page, importing, calling, late, replaced, erased>>

(* refreshCompanionStatus is unlocked, or not, or throws. *)
CheckCompanion(o) ==
    /\ At(o, "save", "check")
    /\ \/ GoOn(o, "import") /\ importing' = TRUE
       \/ EndOp(o) /\ importing' \in {FALSE, importing}
    /\ UNCHANGED <<verifier, page, calling, late, replaced, erased>>

(* A receipt, an error, or that there was nothing to send. *)
EndImport(o) ==
    /\ At(o, "save", "import")
    /\ EndOp(o)
    /\ importing' = FALSE
    /\ UNCHANGED <<verifier, page, calling, late, replaced, erased>>

-----------------------------------------------------------------------------
(* The API's local credential bridge. *)

(* The n-th call takes effect.  Calls may overtake each other: the page    *)
(* does not wait for one before the next, and a publication first opens    *)
(* the passwords.                                                          *)
TakeEffect(n) ==
    /\ calls' = RemoveAt(calls, n)
    /\ current' = (current \/ calls[n].newest)
    /\ overtaken' = (overtaken \/ (current /\ ~calls[n].newest))
    /\ UNCHANGED <<verifier, page, importing, op, late, replaced, erased>>

(* Seeded fault: the credentials are added to those of earlier ones. *)
addUnlockedCredentials(ids) == [ids |-> bridge.ids \cup ids, fresh |-> TRUE]

(* With a new deadline. *)
replaceUnlockedCredentials(ids) == [ids |-> ids, fresh |-> TRUE]

publishUnlockedCredentialSession(n) ==
    /\ calls[n].kind = "publish" /\ calls[n].valid
    /\ bridge' = replaceUnlockedCredentials(calls[n].ids)
    /\ TakeEffect(n)

clearUnlockedCredentialSession(n) ==
    /\ calls[n].kind = "clear"
    /\ bridge' = [ids |-> {}, fresh |-> FALSE]
    /\ TakeEffect(n)

(* Never sent, lost, refused for its token, for one of its credentials, or *)
(* because of a failure.                                                   *)
EndCall(n) ==
    /\ calls' = RemoveAt(calls, n)
    /\ UNCHANGED <<verifier, page, importing, op, bridge, current, overtaken, late, replaced, erased>>

(* now() >= expiresAt *)
Expire ==
    /\ bridge.fresh
    /\ bridge' = [bridge EXCEPT !.fresh = FALSE]
    /\ UNCHANGED <<verifier, page, importing, op, calls, current, overtaken, late, replaced, erased>>

(* What findCredentialMetadata and releaseSecret have to give; the site,   *)
(* the profile and the reason of a request must fit, too.                  *)
UnlockedCredentials == IF bridge.fresh THEN bridge.ids ELSE {}

(* GET /credentials or POST /credentials/release, after the deadline. *)
readUnlockedCredentials ==
    /\ ~bridge.fresh
    /\ bridge' = [bridge EXCEPT !.ids = {}]
    /\ UNCHANGED <<verifier, page, importing, op, calls, current, overtaken, late, replaced, erased>>

(* Its memory is gone. *)
RestartApi ==
    /\ bridge' = [ids |-> {}, fresh |-> FALSE]
    /\ current' = FALSE
    /\ UNCHANGED <<verifier, page, importing, op, calls, overtaken, late, replaced, erased>>

-----------------------------------------------------------------------------
Suspended(o) ==
    \/ ReceiveItems(o) \/ SyncFails(o) \/ SendWrite(o)
    \/ RefuseUnlock(o) \/ AdoptVerifier(o) \/ Unlock(o)
    \/ RevealPassword(o) \/ ShowEditForm(o) \/ CheckCompanion(o) \/ EndImport(o)

User ==
    \/ ClosePage \/ lock \/ openCreatePanel \/ PressCancel
    \/ \E b \in BOOLEAN : TypePassword(b)
    \/ \E i \in Ids : HidePassword(i) \/ selectItem(i)
    \/ \E o \in Ops : OpenPage(o) \/ saveEditing(o) \/ deleteItem(o) \/ saveToMac(o)
    \/ \E o \in Ops, p \in Passphrases : submitUnlock(o, p)
    \/ \E o \in Ops, i \in Ids :
          togglePasswordVisibility(o, i) \/ startEditing(o, i) \/ handleSubmit(o, i)

Api ==
    \/ \E n \in DOMAIN calls : \/ publishUnlockedCredentialSession(n)
                              \/ clearUnlockedCredentialSession(n) \/ EndCall(n)
    \/ readUnlockedCredentials \/ RestartApi

Next ==
    /\ \/ \E o \in Ops : Suspended(o)
       \/ User \/ Api \/ Expire
    /\ Cardinality({o \in Ops : op'[o] # NoOp}) + Len(calls') <= MaxUnderWay

(* Time passes. *)
Spec == Init /\ [][Next]_vars /\ WF_vars(Expire)

-----------------------------------------------------------------------------
(* Every variable keeps its type. *)
TypeOK ==
    /\ verifier \in Verifiers \cup {None}
    /\ page \in [view : {"closed", "loading", "failed", "open"},
                 stored : Verifiers \cup {None},
                 mode : {"needs_setup", "locked", "unlocked"},
                 pass : Passphrases \cup {None},
                 items : [Ids -> Seals],
                 isSyncing : BOOLEAN,
                 revealed : SUBSET Ids,
                 selected : Ids \cup {None},
                 detail : {"item", "create"},
                 editing : [id : Ids \cup {None}, from : Seals,
                            password : BOOLEAN, touched : BOOLEAN]]
    /\ importing \in BOOLEAN
    /\ op \in [Ops -> [kind : Kinds \cup {"idle"},
                       step : {"idle", "sync", "seal", "open", "check", "import",
                               "adopt", "unlock", "refuse"},
                       id : Ids \cup {None}, seal : Seals, ok : BOOLEAN]]
    /\ bridge \in [ids : SUBSET Ids, fresh : BOOLEAN]
    /\ calls \in Seq([kind : {"publish", "clear"}, ids : SUBSET Ids,
                     valid : BOOLEAN, newest : BOOLEAN])
    /\ current \in BOOLEAN /\ overtaken \in BOOLEAN
    /\ late \in BOOLEAN /\ replaced \in BOOLEAN
    /\ erased \in SUBSET Ids

(* Once the page's newest call to the bridge has taken effect, and no      *)
(* older one after it, the bridge gives, until its deadline, exactly the   *)
(* logins that the page has unlocked: each way the passphrase or the list  *)
(* can change is followed by a call (vault-panel.tsx, bridge-session.ts,   *)
(* local-credential-bridge-service.ts).                                    *)
BridgeFollowsPage ==
    current /\ ~overtaken /\ page.view # "closed" /\ (bridge.fresh \/ ~Unlocked(page)) =>
        UnlockedCredentials = Publishable(page)

(* Once there is no unlocked page any more, the bridge in the end gives    *)
(* nothing, and never again does, whatever publications are still to come  *)
(* and DELETEs get lost, and however often a locked page is loaded, locked *)
(* or gets another list: none of that publishes, and no reading of what is *)
(* past its deadline keeps it (vault-panel.tsx:331-346 and the time to     *)
(* live of local-credential-bridge-service.ts).                            *)
LockedBridgeStaysEmpty ==
    <>[]~Unlocked(page) => <>[](UnlockedCredentials = {})

(* The passphrase an unlocked page holds is the one that its verifier, and *)
(* the stored one, vouch for, in version 2, however submissions, locks and *)
(* reloads overlap; only a set-up that wrote over another verifier can     *)
(* part them (use-vault-unlock.ts, submitUnlock).                          *)
PassphraseIsVerified ==
    ~replaced /\ Unlocked(page) =>
        page.stored = [pass |-> page.pass, secure |-> TRUE] /\ verifier = page.stored

(* A page that is not unlocked has forgotten the passwords it showed and   *)
(* the one it was editing, unless a handler that was still opening one     *)
(* ended after the lock (vault-panel.tsx, the effect of isUnlocked).       *)
LockedPageForgets ==
    ~late /\ ~Unlocked(page) => page.revealed = {} /\ page.editing = NoEdit

(* Saving an edit whose password field was left alone never erases a       *)
(* password that the page can open: no form is ever shown with the field   *)
(* not filled in yet (vault-panel.tsx, startEditing and saveEditing).      *)
EditsKeepPasswords == ~replaced => erased = {}
=============================================================================
