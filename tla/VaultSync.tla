----------------------------- MODULE VaultSync -----------------------------
(***************************************************************************)
(* POST /vault/sync: the API's syncVaultFromToken with its database calls, *)
(* which interleave with those of other requests, and the Web pages that   *)
(* send requests and show the list each answer brings (useVaultSync).      *)
(*                                                                         *)
(* A row of vault_items is its owner and whether deleted_at is set; what   *)
(* it holds is left out, because a later write always wins.  A new item    *)
(* gets a random UUID, which no row and no request has; other items that a *)
(* request names have a row.  A page may be unlocked at any time.          *)
(***************************************************************************)
EXTENDS Integers, FiniteSets

CONSTANTS
    Tabs,        \* Web pages
    Others,      \* other users of the api-client's syncVault
    Profiles,    \* rows of users_profile
    ProfileOf,   \* the profile each client's token resolves to
    Requests,    \* calls of syncVault a client can have going at once
    ClientOf,    \* the client of each
    Items,       \* item ids
    MaxNamed,    \* bound: items that a request of Others changes, and deletes
    None         \* no profile

Clients == Tabs \cup Others

ASSUME SyncAssumption ==
    /\ ProfileOf \in [Clients -> Profiles]
    /\ ClientOf \in [Requests -> Clients]
    /\ Tabs \cap Others = {}
    /\ None \notin Profiles

VARIABLES
    owner,       \* user_profile_id of each item's row, None before it has one
    gone,        \* items whose row has deleted_at set
    phase,       \* how far each request is
    changed,     \* its changedItems
    deleted,     \* its deletedItemIds
    live,        \* its vaultItems: what listVaultItemsByProfileId returned
    dead,        \* its profileDeletedItemIds
    heard,       \* requests whose client still waits for the answer
    page,        \* per tab, whether it is authenticated
    items,       \* per tab, the list it shows
    isSyncing    \* per tab

rows == <<owner, gone>>
tabs == <<page, items, isSyncing>>
vars == <<owner, gone, phase, changed, deleted, live, dead, heard,
          page, items, isSyncing>>

Serving == {"sent", "checked", "saved", "removed", "listed"}

Owner(r) == ProfileOf[ClientOf[r]]

Init ==
    /\ owner = [i \in Items |-> None] /\ gone = {}
    /\ phase = [r \in Requests |-> "idle"]
    /\ changed = [r \in Requests |-> {}] /\ deleted = [r \in Requests |-> {}]
    /\ live = [r \in Requests |-> {}] /\ dead = [r \in Requests |-> {}]
    /\ heard = {}
    /\ page = [t \in Tabs |-> "closed"]
    /\ items = [t \in Tabs |-> {}]
    /\ isSyncing = [t \in Tabs |-> FALSE]

-----------------------------------------------------------------------------
(* The clients. *)

(* A client has the request r to send, with the ids it will name. *)
Prepare(r, c, d, p) ==
    /\ phase[r] = "idle"
    /\ phase' = [phase EXCEPT ![r] = p]
    /\ changed' = [changed EXCEPT ![r] = c]
    /\ deleted' = [deleted EXCEPT ![r] = d]
    /\ heard' = heard \cup {r}
    /\ UNCHANGED <<live, dead>>
    /\ UNCHANGED rows

(* crypto.randomUUID *)
Fresh == {i \in Items : owner[i] = None /\ \A r \in Requests : i \notin changed[r]}

Existing == {i \in Items : owner[i] # None}

(* loadVault with a session: the first sync of a page. *)
OpenPage(r) ==
    LET t == ClientOf[r] IN
    /\ t \in Tabs /\ page[t] = "closed"
    /\ Prepare(r, {}, {}, "sent")
    /\ page' = [page EXCEPT ![t] = "loading"]
    /\ isSyncing' = [isSyncing EXCEPT ![t] = TRUE]
    /\ UNCHANGED items

(* loadVault without one, or when getSession fails. *)
OpenSignedOut(t) ==
    /\ page[t] = "closed"
    /\ page' = [page EXCEPT ![t] = "signedOut"]
    /\ UNCHANGED <<rows, phase, changed, deleted, live, dead, heard, items, isSyncing>>

(* The page is closed or loaded again: nothing of it hears an answer, and  *)
(* what it has not sent is never sent.                                     *)
ClosePage(t) ==
    LET mine == {r \in Requests : ClientOf[r] = t}
        unsent == {r \in mine : phase[r] = "sealing"} IN
    /\ page[t] # "closed"
    /\ page' = [page EXCEPT ![t] = "closed"]
    /\ items' = [items EXCEPT ![t] = {}]
    /\ isSyncing' = [isSyncing EXCEPT ![t] = FALSE]
    /\ heard' = heard \ mine
    /\ phase' = [r \in Requests |-> IF r \in unsent THEN "idle" ELSE phase[r]]
    /\ changed' = [r \in Requests |-> IF r \in unsent THEN {} ELSE changed[r]]
    /\ UNCHANGED <<rows, deleted, live, dead>>

(* The buttons of a signed-in page are disabled while isSyncing. *)
CanPress(t) == t \in Tabs /\ page[t] = "open" /\ ~isSyncing[t]

(* createItem and updateItem, up to writeDraftPassword: isSyncing is not   *)
(* set yet.                                                                *)
WriteItem(r, i) ==
    /\ CanPress(ClientOf[r])
    /\ i \in Fresh \cup items[ClientOf[r]]
    /\ Prepare(r, {i}, {}, "sealing")
    /\ UNCHANGED tabs

(* The password is sealed: runSync. *)
SendWrite(r) ==
    /\ phase[r] = "sealing"
    /\ phase' = [phase EXCEPT ![r] = "sent"]
    /\ isSyncing' = [isSyncing EXCEPT ![ClientOf[r]] = TRUE]
    /\ UNCHANGED <<rows, changed, deleted, live, dead, heard, page, items>>

deleteItem(r, i) ==
    /\ CanPress(ClientOf[r])
    /\ i \in items[ClientOf[r]]
    /\ Prepare(r, {}, {i}, "sent")
    /\ isSyncing' = [isSyncing EXCEPT ![ClientOf[r]] = TRUE]
    /\ UNCHANGED <<page, items>>

(* Another user of the api-client, whose request may both change and       *)
(* delete, and may name items of another profile.                          *)
Push(r, c, d) ==
    /\ ClientOf[r] \in Others
    /\ c \subseteq Fresh \cup Existing /\ Cardinality(c) <= MaxNamed
    /\ d \subseteq Existing /\ Cardinality(d) <= MaxNamed
    /\ Prepare(r, c, d, "sent")
    /\ UNCHANGED tabs

-----------------------------------------------------------------------------
(* syncVaultFromToken. *)

Serve(r, from, to) ==
    /\ phase[r] = from
    /\ phase' = [phase EXCEPT ![r] = to]
    /\ UNCHANGED <<deleted, heard>>
    /\ UNCHANGED tabs

(* An error carries nothing of the request back. *)
Refuse(r, from) ==
    /\ phase[r] = from
    /\ phase' = [phase EXCEPT ![r] = "refused"]
    /\ changed' = [changed EXCEPT ![r] = {}]
    /\ deleted' = [deleted EXCEPT ![r] = {}]
    /\ live' = [live EXCEPT ![r] = {}]
    /\ UNCHANGED <<rows, dead, heard>>
    /\ UNCHANGED tabs

(* Seeded fault: only deletions are checked. *)
ForeignDeletions(r) == {i \in deleted[r] : owner[i] \notin {None, Owner(r)}}

(* Ids of the request whose row belongs to another profile. *)
Foreign(r) == {i \in changed[r] \cup deleted[r] : owner[i] \notin {None, Owner(r)}}

(* A deletion wins over a change of the same request; then                 *)
(* listVaultItemsByIds finds no row of another profile.                    *)
CheckOwners(r) ==
    /\ Serve(r, "sent", "checked")
    /\ Foreign(r) = {}
    /\ changed' = [changed EXCEPT ![r] = @ \ deleted[r]]
    /\ UNCHANGED <<rows, live, dead>>

(* VaultSyncItemConflictError: 409. *)
RefuseForeign(r) ==
    /\ Refuse(r, "sent")
    /\ Foreign(r) # {}

(* The token or the profile is unknown, or a database call fails: 401, 404, *)
(* 500.  What was done stays done.                                         *)
FailRequest(r) == \E p \in Serving : Refuse(r, p)

(* Seeded fault: a saved item is made active again. *)
upsertRestores(r) ==
    /\ Serve(r, "checked", "saved")
    /\ owner' = [i \in Items |-> IF i \in changed[r] THEN Owner(r) ELSE owner[i]]
    /\ gone' = gone \ changed[r]
    /\ UNCHANGED <<changed, live, dead>>

(* One statement: a row that is there changes hands too, and keeps its     *)
(* deleted_at, which a record does not carry.                              *)
upsertVaultItems(r) ==
    /\ Serve(r, "checked", "saved")
    /\ owner' = [i \in Items |-> IF i \in changed[r] THEN Owner(r) ELSE owner[i]]
    /\ UNCHANGED <<gone, changed, live, dead>>

softDeleteVaultItems(r) ==
    /\ Serve(r, "saved", "removed")
    /\ gone' = gone \cup {i \in deleted[r] : owner[i] = Owner(r)}
    /\ UNCHANGED <<owner, changed, live, dead>>

(* Seeded fault: every profile's items are listed. *)
ListAllItems(r) ==
    /\ Serve(r, "removed", "listed")
    /\ live' = [live EXCEPT ![r] = {i \in Items \ gone : owner[i] # None}]
    /\ UNCHANGED <<rows, changed, dead>>

(* listVaultItemsByProfileId *)
ListItems(r) ==
    /\ Serve(r, "removed", "listed")
    /\ live' = [live EXCEPT ![r] = {i \in Items \ gone : owner[i] = Owner(r)}]
    /\ UNCHANGED <<rows, changed, dead>>

(* listDeletedVaultItemIdsByProfileId *)
ListDeleted(r) ==
    /\ Serve(r, "listed", "answered")
    /\ dead' = [dead EXCEPT ![r] = {i \in gone : owner[i] = Owner(r)}]
    /\ UNCHANGED <<rows, changed, live>>

(* Seeded fault: the deleted ids are read before the items. *)
syncDeletedFirst(r) ==
    \/ CheckOwners(r) \/ RefuseForeign(r) \/ FailRequest(r)
    \/ upsertVaultItems(r) \/ softDeleteVaultItems(r)
    \/ /\ Serve(r, "removed", "listed")
       /\ dead' = [dead EXCEPT ![r] = {i \in gone : owner[i] = Owner(r)}]
       /\ UNCHANGED <<rows, changed, live>>
    \/ /\ Serve(r, "listed", "answered")
       /\ live' = [live EXCEPT ![r] = {i \in Items \ gone : owner[i] = Owner(r)}]
       /\ UNCHANGED <<rows, changed, dead>>

(* The calls of one request, in this order. *)
syncVaultFromToken(r) ==
    \/ CheckOwners(r) \/ RefuseForeign(r) \/ FailRequest(r)
    \/ upsertVaultItems(r) \/ softDeleteVaultItems(r)
    \/ ListItems(r) \/ ListDeleted(r)

-----------------------------------------------------------------------------
(* The end of runSync. *)

Release(r) ==
    /\ phase' = [phase EXCEPT ![r] = "idle"]
    /\ changed' = [changed EXCEPT ![r] = {}]
    /\ deleted' = [deleted EXCEPT ![r] = {}]
    /\ live' = [live EXCEPT ![r] = {}]
    /\ dead' = [dead EXCEPT ![r] = {}]
    /\ heard' = heard \ {r}
    /\ UNCHANGED rows

(* The tab that waits for r shows its list. *)
ShowList(r) ==
    LET t == ClientOf[r] IN
    IF r \in heard /\ t \in Tabs
    THEN /\ items' = [items EXCEPT ![t] = live[r]]
         /\ page' = [page EXCEPT ![t] = "open"]
         /\ isSyncing' = [isSyncing EXCEPT ![t] = FALSE]
    ELSE UNCHANGED tabs

(* Seeded fault: the page signs out, and does not stop syncing. *)
ShowErrorStillSyncing(r) ==
    LET t == ClientOf[r] IN
    IF r \in heard /\ t \in Tabs
    THEN /\ page' = [page EXCEPT ![t] = IF @ = "loading" THEN "signedOut" ELSE @]
         /\ UNCHANGED <<items, isSyncing>>
    ELSE UNCHANGED tabs

(* It keeps the list it has; a first sync that fails signs the page out. *)
ShowError(r) ==
    LET t == ClientOf[r] IN
    IF r \in heard /\ t \in Tabs
    THEN /\ page' = [page EXCEPT ![t] = IF @ = "loading" THEN "signedOut" ELSE @]
         /\ isSyncing' = [isSyncing EXCEPT ![t] = FALSE]
         /\ UNCHANGED items
    ELSE UNCHANGED tabs

ReceiveAnswer(r) ==
    /\ phase[r] = "answered"
    /\ Release(r)
    /\ ShowList(r)

ReceiveError(r) ==
    /\ phase[r] = "refused"
    /\ Release(r)
    /\ ShowError(r)

(* fetch rejects; the API goes on with the request, or has never got it,   *)
(* which is like failing at once.                                          *)
LoseConnection(r) ==
    /\ phase[r] \in Serving \cup {"answered"}
    /\ r \in heard /\ ClientOf[r] \in Tabs
    /\ heard' = heard \ {r}
    /\ ShowError(r)
    /\ UNCHANGED <<rows, phase, changed, deleted, live, dead>>

Next ==
    \/ \E t \in Tabs : OpenSignedOut(t) \/ ClosePage(t)
    \/ \E r \in Requests : OpenPage(r) \/ SendWrite(r)
    \/ \E r \in Requests : syncVaultFromToken(r)
    \/ \E r \in Requests : ReceiveAnswer(r) \/ ReceiveError(r) \/ LoseConnection(r)
    \/ \E r \in Requests, i \in Items : WriteItem(r, i) \/ deleteItem(r, i)
    \/ \E r \in Requests : \E c, d \in SUBSET Items : Push(r, c, d)

Spec == Init /\ [][Next]_vars

-----------------------------------------------------------------------------
(* Every variable keeps its type. *)
TypeOK ==
    /\ owner \in [Items -> Profiles \cup {None}]
    /\ gone \in SUBSET Items
    /\ phase \in [Requests -> Serving \cup {"idle", "sealing", "answered", "refused"}]
    /\ changed \in [Requests -> SUBSET Items]
    /\ deleted \in [Requests -> SUBSET Items]
    /\ live \in [Requests -> SUBSET Items]
    /\ dead \in [Requests -> SUBSET Items]
    /\ heard \in SUBSET Requests
    /\ page \in [Tabs -> {"closed", "loading", "open", "signedOut"}]
    /\ items \in [Tabs -> SUBSET Items]
    /\ isSyncing \in [Tabs -> BOOLEAN]

(* A row never changes hands, although the upsert overwrites the owner and *)
(* only an earlier read, with other requests' steps in between, stands     *)
(* before it (vault-service.ts, syncVaultFromToken).                       *)
OwnersKept == [][\A i \in Items : owner[i] # None => owner'[i] = owner[i]]_vars

(* A deletion is final: a change that was prepared from a list that still  *)
(* showed the item, and is saved later, does not bring it back             *)
(* (upsertVaultItems keeps deleted_at).                                    *)
DeletionWins == [][gone \subseteq gone']_vars

(* An answer accounts for everything its request named: it lists each item *)
(* that was changed as live or as deleted, although another request may    *)
(* delete it between the two reads; and it lists each item that was        *)
(* deleted as deleted only (syncVaultFromToken, the two read-backs).       *)
AnswerHonoursRequest ==
    \A r \in Requests : phase[r] = "answered" =>
        /\ changed[r] \subseteq live[r] \cup dead[r]
        /\ deleted[r] \subseteq dead[r] \ live[r]

(* A page shows items of its own profile only, whatever the order of       *)
(* requests and answers (listVaultItemsByProfileId, setItems).             *)
ItemsAreOwn ==
    \A t \in Tabs : \A i \in items[t] : owner[i] = ProfileOf[t]

(* A page that is busy, with its buttons disabled or still loading, waits  *)
(* for a request that is under way: no way a request can end, and no order *)
(* of two ends, leaves it busy for ever (runSync, loadVault).              *)
NeverStuck ==
    \A t \in Tabs : isSyncing[t] \/ page[t] = "loading" =>
        \E r \in heard : ClientOf[r] = t /\ phase[r] \in Serving \cup {"answered", "refused"}
=============================================================================
