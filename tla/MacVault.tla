------------------------------ MODULE MacVault ------------------------------
(***************************************************************************)
(* The Mac companion's view model as the editor of the local vault: the    *)
(* add/edit form, the list of logins, and the operations that first await  *)
(* a prompt for the user's presence (CompanionViewModel), over the         *)
(* encrypted vault file (LocalCompanionVaultStore) and the unlocked        *)
(* session, while the Web importer writes both from a server thread.       *)
(*                                                                         *)
(* The view model is a main-actor class: a method runs without others in   *)
(* between except at its await.  So an operation is two actions, up to the *)
(* prompt and from the granted prompt on, with what the code captured in   *)
(* locals kept in the prompt.  The second half loads, writes and publishes *)
(* in separate steps, because the importer's thread can run between them.  *)
(*                                                                         *)
(* Label, origin and username are captured and stored alike; the origin    *)
(* stands for the three.                                                   *)
(***************************************************************************)
EXTENDS CompanionVaultSession, Naturals, FiniteSets

CONSTANTS
    Empty,        \* the empty text of a form field
    Typed,        \* passwords the user may type
    Batches,      \* what the Web vault may send to the importer
    UserOps,      \* the operations the user asks for, a bound on the input
    MaxPrompts    \* prompts open at the same time

ASSUME VaultAssumption ==
    /\ Empty \in Passwords \cap Spellings
    /\ Normalized[Empty] = NoOrigin
    /\ Typed \subseteq Passwords \ {Empty}
    /\ \A w \in Batches : w \subseteq Credential /\ w # {} /\ HasUniqueIds(w)
    /\ UserOps \subseteq {"save", "unlock", "export", "restore", "copy", "delete"}
    /\ MaxPrompts \in Nat \ {0}
    /\ None \notin Ids

VARIABLES
    session,        \* CompanionVaultSession's fields
    store,          \* the logins in the vault file
    backup,         \* the logins in the exported backup file, or None
    form,           \* route, editingCredentialId and the draft fields
    rows,           \* ids of savedCredentialRows, the list on the screen
    pendingDelete,  \* id of pendingDeleteCredential
    prompts,        \* operations awaiting the user's presence
    main,           \* the granted operation the main actor is running
    importer,       \* the Web import running on a server thread
    clipboard,      \* whether the pasteboard holds a password
    durable,        \* history: every login the vault file has held
    intended        \* history: the vault as the completed operations left it

vars == <<session, store, backup, form, rows, pendingDelete, prompts, main,
          importer, clipboard, durable, intended>>

ClosedForm == [route |-> "overview", editing |-> None, origin |-> Empty, password |-> Empty]

IdleMain == [op |-> "none", pc |-> "idle", loaded |-> {}, next |-> {}]

WithId(v, i) == {c \in v : c.id = i}

IdsOf(v) == {c.id : c \in v}

(* A vault file with one login or none; ids in it count as given out. *)
Init ==
    /\ session = LockedSession
    /\ store \in {{}} \cup {{c} : c \in {d \in Credential : d.password \in Typed /\ d.origin \in Origins}}
    /\ backup = None
    /\ form = ClosedForm
    /\ rows = {}
    /\ pendingDelete = None
    /\ prompts = {}
    /\ main = IdleMain
    /\ importer = None
    /\ clipboard = "other"
    /\ durable = store
    /\ intended = store

-----------------------------------------------------------------------------
MainIdle == main.pc = "idle"

(* Reading isUnlocked or lockState wipes an overdue session. *)
ReadSession == session' = Settled(session)

(* refresh(): the list is loaded from the file, or emptied if not unlocked *)
(* (or if the file cannot be read, which is left out here: it shows less). *)
ShowRows == rows' = IF IsUnlocked(session') THEN IdsOf(store') ELSE {}

Ask(prompt) ==
    /\ prompt.op \in UserOps
    /\ Cardinality(prompts) < MaxPrompts
    /\ prompts' = prompts \cup {prompt}

Prompt(op) == [op |-> op, id |-> None, origin |-> Empty]

(* The rest of a method: the vault it loaded, and the one it will write.   *)
Run(prompt, op, pc, loaded, next) ==
    /\ prompts' = prompts \ {prompt}
    /\ main' = [op |-> op, pc |-> pc, loaded |-> loaded, next |-> next]

Stop(prompt) ==
    /\ prompts' = prompts \ {prompt}
    /\ UNCHANGED main

-----------------------------------------------------------------------------
(* The form. *)

showAddLogin ==
    /\ MainIdle
    /\ form' = [form EXCEPT !.route = "addLogin", !.editing = None]
    /\ UNCHANGED <<session, store, backup, rows, pendingDelete, prompts, main,
                   importer, clipboard, durable, intended>>

(* A row of the list is clicked; the login is loaded from the file.  If it *)
(* cannot be, or the session is not unlocked, the list is refreshed.       *)
showEditLogin(i) ==
    /\ MainIdle
    /\ i \in rows
    /\ ReadSession
    /\ \/ \E c \in WithId(store, i) :
            /\ IsUnlocked(session')
            /\ form' = [route |-> "editLogin", editing |-> i,
                        origin |-> c.origin, password |-> c.password]
            /\ pendingDelete' = None
            /\ UNCHANGED <<rows, store>>
       \/ /\ UNCHANGED <<form, pendingDelete, store>>
          /\ ShowRows
    /\ UNCHANGED <<backup, prompts, main, importer, clipboard, durable, intended>>

TypeInForm(o, p) ==
    /\ MainIdle
    /\ form.route # "overview"
    /\ form' = [form EXCEPT !.origin = o, !.password = p]
    /\ UNCHANGED <<session, store, backup, rows, pendingDelete, prompts, main,
                   importer, clipboard, durable, intended>>

cancelAddLogin ==
    /\ MainIdle
    /\ form' = ClosedForm
    /\ UNCHANGED <<session, store, backup, rows, pendingDelete, prompts, main,
                   importer, clipboard, durable, intended>>

-----------------------------------------------------------------------------
(* Up to the prompt. *)

saveLocalCredential ==
    /\ MainIdle
    /\ form.route # "overview"
    /\ form.origin # Empty
    /\ form.password # Empty
    /\ Ask([op |-> "save", id |-> form.editing, origin |-> form.origin])
    /\ UNCHANGED <<session, store, backup, form, rows, pendingDelete, main,
                   importer, clipboard, durable, intended>>

(* unlockLocalVault, exportLocalVaultBackup, restoreLocalVaultBackup *)
AskFirst(op) ==
    /\ MainIdle
    /\ Ask(Prompt(op))
    /\ UNCHANGED <<session, store, backup, form, rows, pendingDelete, main,
                   importer, clipboard, durable, intended>>

copyPassword(i) ==
    /\ MainIdle
    /\ i \in rows
    /\ ReadSession
    /\ UNCHANGED store
    /\ \/ /\ IsUnlocked(session')
          /\ Ask([Prompt("copy") EXCEPT !.id = i])
          /\ UNCHANGED rows
       \/ /\ ~IsUnlocked(session')
          /\ ShowRows
          /\ UNCHANGED prompts
    /\ UNCHANGED <<backup, form, pendingDelete, main, importer, clipboard,
                   durable, intended>>

copyUsername(i) ==
    /\ MainIdle
    /\ i \in rows
    /\ ReadSession
    /\ UNCHANGED store
    /\ IF IsUnlocked(session')
       THEN clipboard' = "other" /\ UNCHANGED rows
       ELSE ShowRows /\ UNCHANGED clipboard
    /\ UNCHANGED <<backup, form, pendingDelete, prompts, main, importer,
                   durable, intended>>

requestDeleteLocalCredential(i) ==
    /\ MainIdle
    /\ i \in rows
    /\ ReadSession
    /\ pendingDelete' = IF IsUnlocked(session') THEN i ELSE None
    /\ UNCHANGED <<store, backup, form, rows, prompts, main, importer,
                   clipboard, durable, intended>>

cancelDeleteLocalCredential ==
    /\ MainIdle
    /\ pendingDelete' = None
    /\ UNCHANGED <<session, store, backup, form, rows, prompts, main, importer,
                   clipboard, durable, intended>>

confirmDeleteLocalCredential ==
    /\ MainIdle
    /\ pendingDelete # None
    /\ ReadSession
    /\ UNCHANGED store
    /\ \/ /\ IsUnlocked(session')
          /\ Ask([Prompt("delete") EXCEPT !.id = pendingDelete])
          /\ UNCHANGED <<pendingDelete, rows>>
       \/ /\ ~IsUnlocked(session')
          /\ pendingDelete' = None
          /\ ShowRows
          /\ UNCHANGED prompts
    /\ UNCHANGED <<backup, form, main, importer, clipboard, durable, intended>>

-----------------------------------------------------------------------------
(* From the prompt's answer on. *)

(* The user refuses, or the prompt is unavailable; or the presence is      *)
(* granted and reading a file fails, after which all but a save refresh.   *)
GiveUp(prompt) ==
    /\ MainIdle
    /\ Stop(prompt)
    /\ UNCHANGED <<store, backup, form, pendingDelete, importer, clipboard,
                   durable, intended>>
    /\ \/ UNCHANGED <<session, rows>>
       \/ prompt.op # "save" /\ ReadSession /\ ShowRows

(* saveLocalCredential of an edit: the file is loaded only now, and so is  *)
(* the password: the other fields and the id were captured before.         *)
GrantEdit(prompt) ==
    /\ MainIdle
    /\ prompt.op = "save"
    /\ prompt.id # None
    /\ ReadSession
    /\ UNCHANGED store
    /\ \/ \E c \in WithId(store, prompt.id) :
            /\ Run(prompt, "edit", "write", store,
                   Merge(store, {[c EXCEPT !.origin = prompt.origin,
                                           !.password = form.password]}))
            /\ UNCHANGED rows
       \/ /\ WithId(store, prompt.id) = {}
          /\ Stop(prompt)
          /\ ShowRows
    /\ UNCHANGED <<backup, form, pendingDelete, importer, clipboard, durable, intended>>

(* New ids are UUIDs: never one that was seen before. *)
GivenOut == IdsOf(durable) \cup UNION {IdsOf(w) : w \in Batches}

(* saveLocalCredential of a new login. *)
GrantAdd(prompt, c) ==
    /\ MainIdle
    /\ prompt.op = "save"
    /\ prompt.id = None
    /\ c.id \notin GivenOut
    /\ c.origin = prompt.origin
    /\ c.password = form.password
    /\ Run(prompt, "add", "write", store, store \cup {c})
    /\ UNCHANGED <<session, store, backup, form, rows, pendingDelete, importer,
                   clipboard, durable, intended>>

(* Seeded fault: the delete starts from the unlocked session's logins. *)
GrantDeleteFromSession(prompt) ==
    /\ MainIdle
    /\ prompt.op = "delete"
    /\ Run(prompt, "delete", "write", session.credentials,
           session.credentials \ WithId(session.credentials, prompt.id))
    /\ UNCHANGED <<session, store, backup, form, rows, pendingDelete, importer,
                   clipboard, durable, intended>>

GrantDelete(prompt) ==
    /\ MainIdle
    /\ prompt.op = "delete"
    /\ ReadSession
    /\ UNCHANGED store
    /\ \/ /\ WithId(store, prompt.id) # {}
          /\ Run(prompt, "delete", "write", store, store \ WithId(store, prompt.id))
          /\ UNCHANGED <<pendingDelete, rows>>
       \/ /\ WithId(store, prompt.id) = {}
          /\ Stop(prompt)
          /\ pendingDelete' = None
          /\ ShowRows
    /\ UNCHANGED <<backup, form, importer, clipboard, durable, intended>>

(* restoreBackup decodes the backup before it overwrites the file. *)
GrantRestore(prompt) ==
    /\ MainIdle
    /\ prompt.op = "restore"
    /\ backup # None
    /\ Run(prompt, "restore", "write", {}, backup)
    /\ UNCHANGED <<session, store, backup, form, rows, pendingDelete, importer,
                   clipboard, durable, intended>>

(* An empty vault is not unlocked. *)
GrantUnlock(prompt) ==
    /\ MainIdle
    /\ prompt.op = "unlock"
    /\ UNCHANGED store
    /\ \/ /\ store # {}
          /\ Run(prompt, "unlock", "publish", store, store)
          /\ UNCHANGED <<session, rows>>
       \/ /\ store = {}
          /\ Stop(prompt)
          /\ ReadSession
          /\ ShowRows
    /\ UNCHANGED <<backup, form, pendingDelete, importer, clipboard, durable, intended>>

GrantExport(prompt) ==
    /\ MainIdle
    /\ prompt.op = "export"
    /\ Stop(prompt)
    /\ ReadSession
    /\ backup' = store
    /\ UNCHANGED <<store, form, pendingDelete, importer, clipboard, durable, intended>>
    /\ ShowRows

(* The lock state is not looked at again. *)
GrantCopy(prompt) ==
    /\ MainIdle
    /\ prompt.op = "copy"
    /\ Stop(prompt)
    /\ ReadSession
    /\ clipboard' = IF WithId(store, prompt.id) # {} THEN "password" ELSE clipboard
    /\ UNCHANGED <<store, backup, form, pendingDelete, importer, durable, intended>>
    /\ ShowRows

(* What the operation means for a vault, whatever else is going on. *)
Meant(v) ==
    CASE main.op = "add" -> v \cup (main.next \ main.loaded)
      [] main.op = "edit" -> Merge(v, main.next \ main.loaded)
      [] main.op = "delete" -> {c \in v : c.id \notin IdsOf(main.loaded) \ IdsOf(main.next)}
      [] main.op = "restore" -> main.next

(* vaultStore.save or restoreBackup: atomic, or fails and changes nothing. *)
(* A failed delete or restore refreshes, a failed save does not.           *)
WriteVault ==
    /\ main.pc = "write"
    /\ \/ /\ store' = main.next
          /\ intended' = Meant(intended)
          /\ durable' = durable \cup store'
          /\ IF main.op = "add"
             THEN /\ main' = IdleMain
                  /\ form' = ClosedForm
                  /\ ReadSession
                  /\ ShowRows
             ELSE /\ main' = [main EXCEPT !.pc = "publish"]
                  /\ UNCHANGED <<form, session, rows>>
       \/ /\ main' = IdleMain
          /\ UNCHANGED <<store, intended, durable, form>>
          /\ IF main.op \in {"delete", "restore"}
             THEN ReadSession /\ ShowRows
             ELSE UNCHANGED <<session, rows>>
    /\ UNCHANGED <<backup, pendingDelete, prompts, importer, clipboard>>

(* Seeded fault: only the list is refreshed, the session keeps its logins. *)
PublishListOnly ==
    /\ main.pc = "publish"
    /\ session' = IF main.op = "unlock" THEN UnlockedSession(main.next) ELSE session
    /\ main' = IdleMain
    /\ UNCHANGED <<store, backup, form, pendingDelete, prompts, importer,
                   clipboard, durable, intended>>
    /\ ShowRows

(* session.unlock and what the method resets after it. *)
Publish ==
    /\ main.pc = "publish"
    /\ session' = UnlockedSession(main.next)
    /\ form' = IF main.op \in {"edit", "restore"} THEN ClosedForm ELSE form
    /\ pendingDelete' = IF main.op \in {"delete", "restore"} THEN None ELSE pendingDelete
    /\ main' = IdleMain
    /\ UNCHANGED <<store, backup, prompts, importer, clipboard, durable, intended>>
    /\ ShowRows

(* Seeded fault: locking leaves the form as it is. *)
lockKeepsForm ==
    /\ MainIdle
    /\ IsUnlocked(Settled(session))
    /\ session' = LockedSession
    /\ pendingDelete' = None
    /\ rows' = {}
    /\ UNCHANGED <<form, store, backup, prompts, main, importer, clipboard, durable, intended>>

lock ==
    /\ MainIdle
    /\ IsUnlocked(Settled(session))
    /\ session' = LockedSession
    /\ form' = ClosedForm
    /\ pendingDelete' = None
    /\ rows' = {}
    /\ UNCHANGED <<store, backup, prompts, main, importer, clipboard, durable, intended>>

refresh ==
    /\ MainIdle
    /\ ReadSession
    /\ UNCHANGED <<store, backup, form, pendingDelete, prompts, main, importer,
                   clipboard, durable, intended>>
    /\ ShowRows

-----------------------------------------------------------------------------
(* The importer's thread: no lock spans its three calls. *)

StartImport(w) ==
    /\ importer = None
    /\ ReadSession
    /\ importer' =
        IF IsUnlocked(session') /\ \A c \in w : Normalized[c.origin] # NoOrigin /\ c.password # Empty
        THEN [pc |-> "save", batch |-> NormalizeAll(w),
              merged |-> Merge(session'.credentials, NormalizeAll(w))]
        ELSE None
    /\ UNCHANGED <<store, backup, form, rows, pendingDelete, prompts, main,
                   clipboard, durable, intended>>

(* Seeded fault: a failed save is not noticed. *)
SaveImportIgnoresFailure ==
    /\ importer # None
    /\ importer.pc = "save"
    /\ importer' = [importer EXCEPT !.pc = "unlock"]
    /\ UNCHANGED <<session, store, backup, form, rows, pendingDelete, prompts,
                   main, clipboard, durable, intended>>

SaveImport ==
    /\ importer # None
    /\ importer.pc = "save"
    /\ \/ /\ store' = importer.merged
          /\ intended' = Merge(intended, importer.batch)
          /\ durable' = durable \cup store'
          /\ importer' = [importer EXCEPT !.pc = "unlock"]
       \/ /\ importer' = None
          /\ UNCHANGED <<store, intended, durable>>
    /\ UNCHANGED <<session, backup, form, rows, pendingDelete, prompts, main,
                   clipboard>>

UnlockImport ==
    /\ importer # None
    /\ importer.pc = "unlock"
    /\ session' = UnlockedSession(importer.merged)
    /\ importer' = None
    /\ UNCHANGED <<store, backup, form, rows, pendingDelete, prompts, main,
                   clipboard, durable, intended>>

-----------------------------------------------------------------------------
(* The environment. *)

DeadlinePasses ==
    /\ session.deadline = "ahead"
    /\ session' = Overdue(session)
    /\ UNCHANGED <<store, backup, form, rows, pendingDelete, prompts, main,
                   importer, clipboard, durable, intended>>

(* The clear task of the last write runs, or another app copies. *)
ClipboardChanges ==
    /\ clipboard = "password"
    /\ clipboard' = "other"
    /\ UNCHANGED <<session, store, backup, form, rows, pendingDelete, prompts,
                   main, importer, durable, intended>>

(* The companion quits or crashes: the files stay. *)
Restart ==
    /\ session' = LockedSession
    /\ form' = ClosedForm
    /\ rows' = {}
    /\ pendingDelete' = None
    /\ prompts' = {}
    /\ main' = IdleMain
    /\ importer' = None
    /\ UNCHANGED <<store, backup, clipboard, durable, intended>>

Grant(prompt) ==
    \/ GrantEdit(prompt)
    \/ \E c \in Credential : GrantAdd(prompt, c)
    \/ GrantDelete(prompt)
    \/ GrantRestore(prompt)
    \/ GrantUnlock(prompt)
    \/ GrantExport(prompt)
    \/ GrantCopy(prompt)

Next ==
    \/ showAddLogin \/ cancelAddLogin \/ saveLocalCredential
    \/ \E o \in Origins, p \in Typed : TypeInForm(o, p)
    \/ \E op \in {"unlock", "export", "restore"} : AskFirst(op)
    \/ \E i \in Ids : showEditLogin(i) \/ copyPassword(i) \/ copyUsername(i)
                      \/ requestDeleteLocalCredential(i)
    \/ cancelDeleteLocalCredential \/ confirmDeleteLocalCredential
    \/ \E prompt \in prompts : Grant(prompt) \/ GiveUp(prompt)
    \/ WriteVault \/ Publish
    \/ lock \/ refresh
    \/ \E w \in Batches : StartImport(w)
    \/ SaveImport \/ UnlockImport
    \/ DeadlinePasses \/ ClipboardChanges \/ Restart

Spec == Init /\ [][Next]_vars

-----------------------------------------------------------------------------
(* Properties. *)

Main == [op: {"none", "add", "edit", "delete", "restore", "unlock"},
         pc: {"idle", "write", "publish"},
         loaded: SUBSET Credential, next: SUBSET Credential]

PromptState == [op: {"save", "unlock", "export", "restore", "copy", "delete"},
                id: Ids \cup {None}, origin: Spellings]

Import == [pc: {"save", "unlock"}, batch: SUBSET Credential, merged: SUBSET Credential]

(* Every variable has its type, and the vault never holds two logins with  *)
(* one id: the code finds, replaces and deletes by id.                     *)
TypeOK ==
    /\ session \in Session
    /\ store \in SUBSET Credential /\ HasUniqueIds(store)
    /\ backup \in (SUBSET Credential) \cup {None}
    /\ form \in [route: {"overview", "addLogin", "editLogin"}, editing: Ids \cup {None},
                 origin: Spellings, password: Passwords]
    /\ rows \in SUBSET Ids
    /\ pendingDelete \in Ids \cup {None}
    /\ prompts \in SUBSET PromptState
    /\ main \in Main
    /\ importer \in Import \cup {None}
    /\ clipboard \in {"other", "password"}
    /\ durable \in SUBSET Credential
    /\ intended \in SUBSET Credential

(* A locked companion shows and remembers nothing of the vault: no list,   *)
(* no login opened for editing, no delete to confirm.                      *)
LockForgets ==
    IsLocked(session) => rows = {} /\ form.editing = None /\ pendingDelete = None

(* No completed add, edit, delete, restore or import is undone by another  *)
(* operation that overlaps it: the file is loaded after the prompt, not    *)
(* before it.                                                              *)
NoLostUpdate == store = intended

(* An import takes no login away: what it writes over the file has every   *)
(* login of the file, also one the user was told is saved (decision.saved  *)
(* in saveLocalCredential).  The code does not keep this: it merges with   *)
(* the session, which has no login added since it was unlocked.            *)
ImportsKeepLogins ==
    [][importer # importer' /\ store # store' => IdsOf(store) \subseteq IdsOf(store')]_vars

(* What the unlocked session serves is what the file holds, except for     *)
(* logins added since the last unlock, which it does not have yet.         *)
SessionServesStore ==
    IsUnlocked(session) /\ MainIdle /\ importer = None =>
        session.credentials \subseteq NormalizeAll(store)

(* The session never serves a login that was not saved first: a failed     *)
(* write or a crash between saving and unlocking leaves nothing that       *)
(* exists in memory only.                                                  *)
ServedWasSaved == session.credentials \subseteq NormalizeAll(durable)
=============================================================================
