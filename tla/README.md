# unuvault: TLA+ models, model checks and proofs

unuvault is a local-first password vault. A Mac menu-bar companion keeps the
vault; a browser extension asks it for credentials over a loopback HTTP bridge;
a Web app imports logins into it; an iPhone can be paired with it; an API
synchronises encrypted items for accounts. This directory holds TLA+ models of
the parts whose correctness depends on the order in which several actors act,
the TLC runs that check them, and proofs of the results that matter most.

All source paths below are relative to the repository.

## 1. Inventory

### Mac companion (`apps/macos/App/Sources`)

| Component | State | Operations | Interacts with |
|---|---|---|---|
| `CompanionVaultSession` | credentials, `expiresAt`, attention reason, one lock per call | `unlock`, `lock`, `markLostDevice`, `markRevoked`, `metadata`, `credential`, `credentialsForPairing`; *reading* the lock state wipes an overdue session | everything below calls it, from the main actor and from server threads |
| `CompanionBridgeService` | one release slot: pending request, its credential, approved credential; a lock per method | `metadata`, `requestRelease`, `approvePendingRelease`, `consumeApprovedRelease`, `denyPendingRelease`, `clearPendingApproval` | calls the session with its own lock held; posts a callback for each change |
| `BridgeHTTPCodec`, `LoopbackHTTPServer` | none | routes for status, metadata, release, claim, import, pairing | handlers run concurrently on a global dispatch queue |
| `CompanionViewModel` | request on the screen, form, list, delete confirmation | approve/deny, lock/unlock, add/edit/delete/copy, export/restore, refresh every half second | main actor; awaits a user-presence prompt before most operations |
| `LocalCompanionVaultStore` | the encrypted vault file | `save`, `loadCredentials`, `exportBackup`, `restoreBackup` (atomic writes) | view model and importer |
| `CompanionLocalVaultImporter` | none | one import: read session, merge, save, unlock session | called by a server thread |
| `CompanionPairingSessionCoordinator`, `CompanionPairingHandoffBuilder` | pending sessions, consumed ids; a lock | `startSession`, `completeSession` (makes the handoff) | view model, bridge route, vault session |

Hard here: handlers, importer and main actor interleave between any two session
calls; prompts suspend an operation while others run; the session expires
without being told; callbacks arrive in any order; approval and claim are
separate requests. *Correct* means: a password reaches only the page, from only
the vault, that the user approved; locking ends release; no operation loses
another's change; nothing is served that was not saved.

### Browser extension (`apps/browser-extension/src`)

| Component | State | Operations | Interacts with |
|---|---|---|---|
| `background/runtime.ts`, `mac-companion.ts` | none of their own | one fill request per message: metadata, release, then at most `MAC_COMPANION_APPROVAL_CLAIM_ATTEMPTS` claims; candidates; the fallback to the extension's vault | the Mac companion, the parts below |
| `unlock-session.ts` | the passphrase, in the worker's memory; the verifier, in storage | set-up or unlock, lock, state | storage; Chrome stops the worker when it likes |
| `auth.ts`, `vault-cache.ts` | account and vault items, in storage | sign-in (three calls), sign-out, cache refresh | Supabase, the API |
| `popup/use-popup-*.ts` | what the popup shows: mode, items, revealed passwords, sign-in form | unlock, lock, reveal, sign in | messages to the worker, answered in any order; the popup closes at any time |
| `content/autofill.ts` | none | fills the page from two messages | the worker |

Hard: each handler awaits between reading state and writing it, while other
messages are handled. Correct: a request ends; what is in memory was verified; a
locked popup shows nothing; a page gets one login; the form comes back.

### iOS (`apps/ios/App/Sources`)

`PairingHandoffOpener`, `DefaultPairingHandoffImporter`,
`PairingHandoffImportStore`, `DefaultPairingTargetIdentityProvider`,
`PairingInviteReceiveView`: claim a
pairing session, open the encrypted handoff once, persist the logins.
Hard: lost answers, replays, failure between opening and persisting, restart.
Correct: one handoff per session; what is reported as imported is stored;
whatever fails leaves the stored logins alone and a state that accepts the next
invite.

### API (`apps/api/src`)

| Component | State | Operations |
|---|---|---|
| vault sync (`vault-service.ts`) | `vault_items` | ownership check, upsert, soft delete, two reads: separate database calls |
| developer secrets (`dev-secret-session-store.ts`, `dev-secrets-service.ts`) | handoffs and CLI sessions with deadlines, in memory; sealed records | create and exchange a handoff, read and write a record |
| local credential bridge | unlocked credentials with a deadline, in memory | publish, clear, metadata, release |
| browser-import reports (`import-service.ts`) | `import_jobs` | validate and record a report |
| auth bootstrap | `users_profile` | make the profile of an account |

Hard: concurrent requests between a check and the write it justifies; one step of
several failing; expiry at the boundary; restarts that forget. Correct: a row
keeps its owner, a deletion is final, an answer accounts for what was asked; a
secret goes to the account and target that a browser session vouched for, in
time; a receipt has its job.

### Developer secrets on the terminal (`scripts/secrets/provider.ts`)

A command (`read`, `verify`, `import`) logs in through a browser page
(`apps/web/src/components/dev-secrets/handoff-page-client.tsx`) that redirects to
a listener on a loopback port, exchanges the code and reads or writes a record.
Hard: pages outlive their command, ports are used again, the user may interrupt
a command whose request is under way. Correct: a command gets its own login;
nothing unconfirmed is stored; exit code 0 is true.

### Web (`apps/web/src`)

| Component | State | Operations |
|---|---|---|
| `use-vault-sync.ts` | items, `isSyncing` | load, create, update, delete |
| `use-vault-unlock.ts` | mode, passphrase, verifier (also in localStorage) | set-up or unlock, lock |
| `vault-panel.tsx` | selection, revealed passwords, the edit form | reveal, edit, save, create, delete; an effect that publishes to the API's bridge |
| `mac-companion-panel.tsx` | the import's state | Save to this Mac |
| `lib/import/encrypted-import-plan.ts` | none | makes sealed items of an analysed CSV |

Hard: answers out of order, a lock while a handler is suspended, a request that
fails after it did half of its work, publications nobody waits for. Correct: a
page shows its own account's items and never stays busy; a locked page has
forgotten; no edit erases a password left alone; the bridge follows the page.

### Packages

`security` (envelopes, verifiers), `api-client`: pure functions and types.
`domain` has the analyzer of browser exports (`browser-import.ts`): one pass that
sorts the rows of a CSV into accepted, malformed and duplicate ones and makes a
report of it, which the API's validator checks independently.

## 2. What is modelled

| Module | Models | Kind |
|---|---|---|
| `CompanionVaultSession` | the session's methods as operators | shared vocabulary |
| `FillProtocol` | what the companion promises about filling | abstract specification |
| `CompanionRelease` | session x bridge x handlers x approvals x importer x fill requests | detailed specification |
| `CompanionReleaseProofs` | theorems about `CompanionRelease` | proofs |
| `MacVault` | the view model's vault operations x file x session x importer | detailed specification |
| `MacVaultProofs` | theorems about `MacVault` | proofs |
| `HandoffProtocol` | what pairing promises | abstract specification |
| `Pairing` | pairing coordinator x network x iPhones | detailed specification |
| `PairingProofs` | theorems about `Pairing` | proofs |
| `VaultSync` | sync requests x the items table x Web pages | detailed specification |
| `VaultSyncProofs` | theorems about `VaultSync` | proofs |
| `ExtensionSession` | extension worker x popup x storage x page | detailed specification |
| `ExtensionSessionProofs` | theorems about `ExtensionSession` | proofs |
| `WebVault` | a page's handlers x the API's credential bridge | detailed specification |
| `WebVaultProofs` | theorems about `WebVault` | proofs |
| `DevSecrets` | provider runs x browser pages x API | detailed specification |
| `DevSecretsProofs` | theorems about `DevSecrets` | proofs |
| `BrowserImport` | analyzer x plan x recording of reports | detailed specification |
| `BrowserImportProofs` | theorems about `BrowserImport` | proofs |
| `MC...` | constants of each specification for TLC | instances |

### CompanionVaultSession

The class locks around each method, so a method is one operator on the
session's value. Time is what `now() >= expiresAt` distinguishes: the deadline
is *absent* (locked), *ahead* or *passed*. `Settled` is `currentLockState`'s side
effect: an overdue session is wiped, with attention `unlockExpired`, only when
someone reads it. A *spelling* is the text of an origin together with the
profile it is used for; `Normalized` is `normalizedOrigin`, given as a function
of the spelling (URL parsing is data). A login's `label` stands for label and
username, which the code copies together.

### CompanionRelease

State and code: `pendingApproval`, `pendingCredential`, `approvedCredential` are
the bridge's fields; `view` is the view model's published `pendingApproval`;
`posted` counts the `Task { @MainActor in ... }` callbacks not yet run; `tabs`
is one fill request per tab, its program counter naming the endpoint it is about
to call, or the point inside the handler between two session calls; `main` is
where the main actor is in an operation that calls the bridge after the session.

A bridge method holds `stateLock` throughout, but each session call it makes
takes and releases the session's own lock. So a handler with two session calls
is two actions (`CheckRelease`/`LookupRelease`, `CheckClaim`/`LookupClaim`,
`ReadMetadata`/`CheckMetadata`, `ClickApprove`/`LookupApprove`): between them the
session may be locked, expire, be edited, imported over or marked, and no other
bridge method may run (`BridgeFree`). The importer holds no lock:
`StartImport`, `SaveImport` and `UnlockImport` are separate. A fetch may fail
before the handler runs (`FetchFails`), and an answer may be lost after it ran
(the `EndFill` alternatives). `Restart` loses everything but the file.

Left out here: the prompts (an action starts where its prompt was granted;
`MacVault` has them), the reason field (callers always send `fill-active-page`), the 401
and 404 answers (they change no state), the extension's fallback to its own
vault after an unsuccessful request. `MarkAttention` stands for `markLostDevice`
and `markRevoked`, public methods that only tests call today.

### FillProtocol

The promise without threads: an intent is asked for, the user approves the
intent that stands, the approval hands its credential to one tab and is used up.
`CompanionRelease` implements it with intent = pending credential, grant =
approved credential, held = what each tab was handed.

### MacVault

An operation of the main-actor view model runs undisturbed except at its await,
so each is an action up to the prompt and one from the granted prompt on
(`Grant...`), with the captured locals kept in the prompt. What follows is
split where the importer's thread may come between: load (in the grant),
`WriteVault`, `Publish`. Reads and writes of a file may fail (`GiveUp`,
`WriteVault`); in a list refresh a failed read is left out, since it only
shows less. The password is taken from the form when the prompt has
been granted and the other fields before it, as in `saveLocalCredential`.
`durable` (every login the file has held) and `intended` (the completed
operations applied one after another) are history variables.

Left out: the bridge (in `CompanionRelease`), the startup credential and the
prefilled draft of development builds, launch at login, `pairIPhone` (in `Pairing`), texts. The backup is one
this companion exported. Labels and usernames behave like the origin and are
represented by it.

### Pairing

Mac: `pending` and `consumed` are `pendingSessions` (its keys) and
`consumedSessionIds`; `started` makes ids fresh, as UUIDs are. `startSession` and
`completeSession` make one call of the vault session each, the latter under the
coordinator's lock, so each is one action; `SessionEnds` gathers what others do
to the session meanwhile. iPhone: `device[p]` is the view model (state, invite,
handoff), the opener's `consumedHandoffIds` and the importer's kept
`importStore`; `received[p]` is the file. `pair()` is split at its await: `pair`
sends the claim, `ReceiveHandoff` or `ExchangeFails` resumes it, and the import,
which does not suspend, follows as `ImportHandoff` or `ImportFails`. Only the
iPhone's own clock can move between the last two, so that the opener's check of
the deadline may differ from the parser's.

Network: sent claims and answers are only ever added, so that each may arrive
never, late, twice or at another device; the guards of the code are there to
cope with that. Refusals (400, 409, 410, 423, 500) end an attempt like a lost
answer does and are not kept. Both sides judge a deadline by their own clock
(`macLate`, `late[p]`). A restart of the Mac forgets sessions, a restart of the
iPhone forgets what it opened: within its deadline the same handoff can then be
opened again, which the abstract specification allows (`Forget`) and the
documentation lists as open work ("restart-persistent iOS replay rejection is
pending").

Left out: the nonce, which always goes with the id; the encryption of the
handoff and the validity of keys; how the iPhone makes its identity (its failure
is `ExchangeFails`); the invite's display on the Mac.

### HandoffProtocol

The promise: an offered session is handed out once, to one device; a device
stores the logins of a handoff or leaves its logins alone, and opens a handoff
at most once between restarts. `Pairing` implements it with offered = `pending`,
handed = `answers`, opened and received as they are.

### VaultSync

`owner` and `gone` are the columns `user_profile_id` and `deleted_at` of
`vault_items`; what an item holds is left out, because the code lets a later
write win, and so no property could tell contents apart. A request is a call of `syncVaultFromToken`;
its locals are `changed` (`changedItems`), `deleted`, `live` (`vaultItems`) and
`dead` (`profileDeletedItemIds`), and each database call is an action:
`CheckOwners`/`RefuseForeign`, `upsertVaultItems`, `softDeleteVaultItems`,
`ListItems`, `ListDeleted`. The two lookups of the token and the profile change
nothing; their failures (401, 404) are `FailRequest` with those of any later
call (500), after which what was done stays done.

A page is `useVaultSync`: `items`, `isSyncing`, and `page` for
`isAuthenticated` and `isBootstrapping`. A write passes `writeDraftPassword`,
an await during which `isSyncing` is not set yet (*sealing*), so a page may have
two requests going, each with its slot in `Requests`. Closing or reloading a
page (`ClosePage`) leaves its requests running unheard, and a broken connection
(`LoseConnection`) does so without the page closing. `Others` are further users
of `syncVault`, whose requests may mix changes and deletions and name items of
other profiles.

Assumed: an id of a new item is fresh (`crypto.randomUUID`), and any other id a
request names has a row. Left out: unlocking the page (it may be unlocked
at any time), the status texts, the extension's read-only syncs (they are a
request that names nothing).

### ExtensionSession

Storage (`auth`, `verifier`, `cache`), the worker's memory (`unlockPassphrase`),
and `req`, the messages under way. A handler is one step per await: an unlock
goes from `read` (with the verification of what was read, which touches nothing
others see) through `try` and `write` to `open`, and any other message may be
handled in between. A read of the storage may fail, which the code takes
for an absent value (`ReadMasterPasswordVerifier`), a handler may reject
(`FailRequest`), and Chrome may stop the worker (`RestartWorker`), after which
every message is answered with an error, which carries nothing else (`Answer`), and
the memory is gone. `popup` is the
state of its three hooks; `heard` are the messages whose answers it still waits
for, which a popup that is closed and opened does not (`Drop`). A fill is two
reads of the worker (candidates, then fill data), each of which asks the
companion first and falls back to the items; `picked` is the candidate whose
username is to be filled. `mac` are the companion's logins for the page and the
account signed in, which `MacChanges` replaces at any moment, also between
any two of the three times a fill asks for them: the candidates (`AskCompanion` of
the first read), the one to be released (of the second), and the release of what
has that one's id by then (`ReleaseLogin`). An edited login keeps its id (`IdOf`).

A verifier is the passphrase it vouches for and whether it is of version 2
(unlocking upgrades an older one). `replaced` and `moved` are history: a set-up
that wrote over another verifier, and fills whose two reads had different
sources or whose source changed between them. Left out: copying to the clipboard, the search, the message
`read_autofill_status` (it has no caller), and the companion's side of a release,
its approval and the polls (in `CompanionRelease`; here it hands over the login, or
refuses, or is gone).

### WebVault

`page` is the state of `useVaultUnlock` and `VaultPanel`, `op` the handlers
suspended at their await, each with what it captured, `bridge` the API's store of
unlocked credentials and `calls` the calls to it under way. `Render` is what React
does with a new state: the effects that forget what is shown when the page locks,
that select an item, and that tell the bridge (`TellBridge`), without waiting,
when the items or the passphrase are new. Calls take effect in any order, or
never. A login is its seal: the passphrase its password was sealed with. How a
sync works is `VaultSync`; here its answer is any of `Lists`, changed by what was
asked. `late`, `replaced`, `erased`, `current` and `overtaken` are history.

One page is modelled. Two pages of a user publish to the same store, the later
one over the earlier one. Left out: copying, the search, the fields other than
the password, the polling of the companion's status.

### DevSecrets

A run goes once through `provider.ts`; its random `state` is its name. `page[r]` is
the browser page that run `r` opened: it may be reloaded and go to the callback
again, at a port at which another run may be listening by then (`Redirect`).
`handoffs` and `cliSessions` are the store's maps, whose entries
`purgeExpiredRecords` drops before each operation; the token of a session is
named by the code it was exchanged for. `request[r]` is the request of `r` that
the API is handling: checked, then at its database call, and it goes on when its
run was interrupted (`Fail`). A run may find a token in its environment
(`KnownTokens`). Time is a counter.

Left out: the sign-in page, the liveness of a login, codes that others present.

### BrowserImport

A row of a CSV is the key it is compared by and the set of checks it would fail;
`ReportRow` and `AcceptRow` are the analyzer's loop, `firstRow` its map. `PlanItem`
seals one accepted entry under a generated id, and an error anywhere leaves no
plan. A report is posted, validated by the API as `import-service.ts` does, and
inserted; the insertion may fail, be done and its result be unreadable, and the
answer may be lost. Other clients post `OtherReports` and bodies of another shape
(`Junk`). No screen calls these parts yet (`README.md`, line 58), so the
caller modelled does each as soon and as often as the results it needs allow.

Left out: the parser (a file is refused, or its rows are there) and the limit on
a request's size.

## 3. What the runs check

| Run | Instance | Properties | Result |
|---|---|---|---|
| `release` | 2 tabs (symmetric) on one page, a login that changes its password, its site and loses its http origin, 2 claims | `LockEmptiesSlot`, `FilledFromOpenVault`, `ImplementsFillProtocol` | hold |
| `release_liveness` | 1 tab that may ask for either of 2 logins, no imports, `FairSpec` | `ApprovedWasShown`, `FillEnds`, `ViewCatchesUp` | hold |
| `mac_vault` | 2 ids (symmetric), 2 prompts open at once, no import | `TypeOK`, `LockForgets`, `NoLostUpdate`, `SessionServesStore` | hold |
| `mac_vault_import` | an imported login the user also edits, 2 passwords | `ServedWasSaved` | hold |
| `import_keeps_logins` | a login in the file, one to be added and an imported one; adding and unlocking | `ImportsKeepLogins` | violated |
| `pairing` | 1 iPhone, 2 sessions, 4 vaults | `ImportedIsStored`, `FileLoads`, `FailsClosed` | hold |
| `pairing_two_phones` | 2 iPhones, 1 session, 1 vault, `FairSpec` | `OneHandoffPerSession`, `ImplementsHandoffProtocol`, `AttemptEnds` | hold |
| `vault_sync` | 1 page with 2 requests, a client of another profile, 2 items (requests of the page and items symmetric) | `AnswerHonoursRequest`, `ItemsAreOwn`, `NeverStuck`, `OwnersKept`, `DeletionWins` | hold |
| `extension_session` | 1 account, 2 passphrases, 2 logins (symmetric), 2 versions of a companion's login, 2 messages at a time | `PassphraseIsVerified`, `LockedPopupForgets`, `SignInSettles`, `FillsAgree` | hold |
| `web_vault` | 1 login, 2 passphrases, 2 handlers, 2 suspended or calls under way; fair clock | `TypeOK`, `BridgeFollowsPage`, `PassphraseIsVerified`, `LockedPageForgets`, `EditsKeepPasswords`, `LockedBridgeStaysEmpty` | hold |
| `dev_secrets` | 2 runs, 1 port, 2 codes, accounts, targets, texts and passwords (all symmetric), times to live of 1, clock up to 2 | `SessionIsTheRunsLogin`, `SuccessIsReal`, `StoredWasConfirmed`, `AccessIsVouchedFor` | hold |
| `browser_import` | CSVs of up to 3 rows over 2 keys, 3 ids, one post, 6 other reports | `RowsAreSorted`, `ReportIsValid`, `PlanCompletesReport`, `RecordingIsTrue` | hold |

The type invariant is checked for `MacVault` and `WebVault`, and proved of every
detailed specification (`TypeCorrect`, section 5), as are all the safety properties above.

What they show:

- **Release.** Whatever the interleaving, a lock leaves the slot empty once it
  returned; a tab is handed only what the open vault still holds, for its own
  page; what is approved has the id of the request that was on the screen at the
  click (its id only: section 4), and the vault held it when the approval took
  effect; an approval is used at most once although answers get lost and two tabs compete. These rest on
  the *second* session call in `requestRelease`, `approvePendingRelease` and
  `consumeApprovedRelease`; the mutants that drop it break them.
- **Vault.** Without imports no completed change is undone by an operation that
  overlaps it, and the session follows the file; with imports and failures at
  every step, nothing is served that was not saved; a locked companion shows and
  remembers nothing.
- **Pairing.** However often and by whomever an invite is claimed, one handoff
  is made of it; the iPhone's file and its memory agree after any failure, hold
  each login once, and change only in the step that reports an import; every
  attempt ends.
- **Vault sync.** The ownership check and the upsert are apart, and still no row
  changes hands; an edit prepared before a deletion does not undo it; both lists
  of an answer together miss nothing the request named, which rests on reading
  the live items *first*; no failure, lost answer or overlap leaves a page busy.

- **Extension.** However unlocks, locks, set-ups, failures and restarts interleave,
  the passphrase in memory is one that the stored verifier vouches for, because
  the verifier is written before the vault opens; a password being opened when
  the popup locks is not shown; sign-in has its profile first; a page gets
  username and password of one login, unless between the two reads the cache was
  rewritten, the companion came or went, or its logins changed. What this shows is
  that nothing else parts them: other messages, locks, restarts, a failing storage,
  and that the second read asks the companion twice. What it does not show is
  that two reads of the companion are tied together: they are not (section 4).
- **Web vault.** Once the page's newest call has taken effect the API's bridge
  gives what the page has unlocked; once there is no unlocked page any more it
  empties and stays empty, whatever publications are still under way, however
  often a locked page is loaded and whatever its list becomes; the edit form is shown with all its fields, so
  that saving never erases a password left alone; a locked page has forgotten.
- **Developer secrets.** A run never takes the code of another run's page; the API
  lets a request through only for the account and target of the code behind it,
  and in time; nothing is stored but what was confirmed; exit code 0 is true,
  also of runs whose request failed or whose API restarted.
- **Browser import.** The one-pass analyzer agrees with the definition of a good
  row, the API's validator takes all of its reports and nothing that does not
  account for every row, a plan is complete or not there, and a receipt means a
  recorded job.

### Bounds and why they suffice

`MaxClaims` = 2 reaches a first, a repeated and a last poll (the code has 80; the
theorems are proved for every value, among them `RequestsAlwaysAdvance`, that
every poll brings a request nearer its end). `MaxPosted` = 1 merges equal callbacks
queued at the same time: running the same one twice in a row changes nothing,
and the callbacks of different values are still unordered. Two tabs are enough
for every conflict over the single slot, which remembers no tab. One login that
moves gives a match, no match, a changed secret and a dropped origin; a list with
several matches ends a request as an empty one does. `MaxPrompts` = 2 gives every pair of overlapping
operations; a third would overlap the same file in the same way. Imports run one
at a time, and a batch has one login. `UserOps` names the operations the user asks
for: `mac_vault` leaves out copying, which touches no vault and no session,
`import_keeps_logins` has only those its counterexample needs, `mac_vault_import` has
every operation. `release_liveness` looks at which request is approved, so it has two
logins for one page, of which the vault may hold one, the other or both, and leaves out
imports (`Imports`), which `release` has; in `release` every request is for
the one login. Ids of new logins are fresh
(`GivenOut`), as UUIDs are, so the number of ids bounds the logins ever created.

For pairing, one iPhone with two sessions gives a second import over the first
one's logins, an answer to an earlier attempt and a kept store that could be
stale; two iPhones with one session give every conflict over a session, since
the coordinator treats sessions apart. The four vaults are a login, the same
login edited beside one that unlocking drops, one with a field the iPhone
refuses, and none.

For vault sync, two requests of one page are also two requests of one profile,
which the table cannot tell from two pages; the third, of another profile,
meets the ownership check; two items let a request change one and delete, or be
refused for, the other (`MaxNamed` = 1 of each). The two requests of the page are
interchangeable, and so are the items. The theorems hold for any numbers.

For the extension, two messages at a time give every pair of overlapping
handlers that touch the same state (`UsesOf` says which kinds each slot may be:
an unlock in both; a lock, a sign-out or a fill against a sign-in or a refresh).
A fill overlapping a lock or a sign-out is left to the theorems. A second account would add nothing to the properties, none of which
relates two accounts (section 4 has what happens with two). Two passphrases are a
right and a wrong one, two logins a match and a second match. The companion has
one login for the page in one of two versions, or none: a match and no match, and an
edit between any two questions; several matches are left to the theorem. The
first state of sign-in (`auth`) and a sign-in share a slot, so no run has both under
way at once; that an answer to the one overtakes the other is covered by the theorem
`SignInAlwaysSettles`, for any number of messages of any kinds.

For the Web vault, a login that is absent, unprotected or sealed with the
first passphrase covers what a list can hold for the page; `UsesOf` lets a second
submission or an edit overlap every other handler. `MaxUnderWay` bounds
handlers and calls together. `SiteOf` is `"http"`: an origin that the API refuses
makes it refuse a whole publication, which is a lost call.

For developer secrets, two runs with one port give the callback of one at the
listener of the other, and with two codes each run its login or one run two. With
times to live of 1 and a clock to 2 every check happens before, at and after a
deadline.

For the browser import, three rows give a duplicate of an accepted row, one of a
row that was refused for the same key, and the limit; the other reports break
the validator's rules one by one. The analyzer's limit on rows (`DataRows`) and the
API's (`MaxImportRows`) are two constants in the code, both 3,000: the model assumes
that the first is not above the second, without which `ReportIsValid` would fail. One
post is under way, and only one is made; `RecordingTrue` is proved for any number.

### Fairness

`FairSpec` assumes of the machine, not of the user: a tab's request is served in
the end (strong fairness of `Handle(t)`: it waits for a lock that others keep
taking and releasing, and `NSLock` waiters are not starved for ever); the main
actor goes on with a method it is in (`LookupApprove`, `ClearPendingApproval`;
the latter waits for the lock); the refresh timer fires (`Refresh`, strong since
the main actor may be in another method). Nothing is assumed of clicks,
fetches, imports, the deadline or posted callbacks.

For pairing it assumes that the iPhone's request ends, by an answer or by
`URLSession`'s timeout, and that the main actor goes on after it. The Mac, the
network and the clocks owe nothing.

For the Web vault, `Spec` assumes that time passes (`WF(Expire)`): credentials that
nobody publishes again reach their deadline. That nobody does is not assumed: it is
what `LockedBridgeStaysEmpty` adds, whose mutant publishes from a locked page, at
every load, what opens without a passphrase.

## 4. Findings

One statement of the user interface does not hold of the code, and its run's
counterexample is the shortest trace:

`ImportsKeepLogins`: adding a login saves it to the file but not to the session; an
import then writes the session's logins merged with its own over the file, and the
added login is gone (`CompanionLocalVaultImporter.swift:110`). The trace: the vault
is unlocked, a login is added, an import of another one saves. The user was told
"Saved %@ locally." By the same line a delete or an edit that overlaps an import is
undone, so `NoLostUpdate` and `SessionServesStore` hold without imports only.

The following observations have no run. The models show them as reachable
behaviour, and the properties are stated so that they leave them room.

Of the Mac companion:

- Approving compares the id only, so a request that replaced the shown one (same
  login, moved to another origin by an edit, or relabelled) is approved unseen
  (`CompanionViewModel.swift:718`).
- Expiry clears the session when it is read, the slot only when a bridge method
  notices; after approve, expire, unlock, the earlier approval is claimed
  (`CompanionViewModel.swift:455`).
- The password is read after the prompt; cancelling the form meanwhile saves an
  empty one (`CompanionViewModel.swift:377`).
- An import that began before a lock unlocks the vault
  (`CompanionLocalVaultImporter.swift:111`).
- `copyPassword` checks the lock before its prompt and not after it, so a vault
  that locked or expired in between still gives the password (`GrantCopy` has no
  guard on the session).
- Locking takes a pairing invite off the screen but leaves its session pending:
  it is completed after the next unlock, within its 120 seconds (`lock` of
  `Pairing` leaves `pending` alone).

Of vault sync: answers of two overlapping requests of a page are shown in the
order they arrive, so the list may for a while lack an item just saved or show
one just deleted. A create whose answer was lost and that is repeated makes a second item,
since each press takes a new id. And the theorem on owners rests on
fresh ids: two profiles that push the *same* new id at the same moment would
both find no row, and the second upsert would take the first one's. The plan
`docs/superpowers/plans/2026-03-15-vault-sync-write-items.md` asks for a conflict
whenever another profile owns the id; with random UUIDs the case does not arise.

Of the extension:

- A lock does not cancel an unlock that is being verified, which then opens the
  vault (`unlock-session.ts:172`).
- Two set-ups that overlap, or a failed read of the storage (taken as "no
  verifier"), replace the verifier by another passphrase's: `replaced`.
- Signing in as another account leaves the former one's cache until the refresh
  has ended, and a refresh that began before writes the former account's items
  afterwards (`vault-cache.ts:54`).
- A popup opened during an unlock shows "locked" although the worker is unlocked
  a moment later; its items are read once, when it opens.
- The two reads of a fill ask the passphrase and the items one after the other: a
  lock in between does not stop the fill. If the cache is rewritten, or the
  companion comes or goes, between them, username and password may be of two
  logins: `moved`.
- The companion is asked for its logins anew in each read (`runtime.ts:90` and
  `runtime.ts:273`), and nothing carries the candidate of the first one to the second
  (`autofill.ts:259`): if the login is edited, deleted, replaced by an import, or
  another account signs in, between the two, the page gets the username of the one and
  the password of the other. `moved` has these fills, too.

Of the Web vault:

- A submission that is being verified while the user locks unlocks the page
  afterwards (`use-vault-unlock.ts:142`).
- A password being opened, for showing or editing, when the page locks is kept,
  and shown when it is unlocked again: `late`.
- Saving an edit of a login whose password does not open with the page's
  passphrase erases that password (the field is empty).
- One login with an origin other than http or https makes the API refuse a
  publication as a whole; what was published before stays until its deadline.
- A page that is closed unlocked leaves the bridge as it is until the deadline
  (5 minutes); a publication may overtake the DELETE of a later lock.

Of developer secrets:

- A page of an earlier run that comes back to a port in use makes the run that
  listens there fail, with `callback_state_mismatch`: it never gets a wrong login,
  but loses its own.
- The answer to an exchange that gets lost has used up the code.
- Interrupting an import does not recall the write that the API is handling, and
  a session may expire while the database is at work.

Of the browser import: a report posted again after a lost answer makes a second
job.

## 5. What is proved

Each `...Proofs` module extends the module it is about. Those of the modules that
use the session's operators begin with what these return (`SettledFacts`,
`LookupFacts`, `MergeType`).

`CompanionReleaseProofs` proves, for every number of tabs, pages, logins and
polls, and every normalisation function that fixes normalised origins:

| Theorem | Property |
|---|---|
| `TypeCorrect` | `TypeOK` |
| `ApprovedAlwaysShown` | `ApprovedWasShown` |
| `LockAlwaysEmptiesSlot` | `LockEmptiesSlot` |
| `FillsComeFromOpenVault` | `FilledFromOpenVault` |
| `ReleaseImplementsProtocol` | `ImplementsFillProtocol` |
| `RequestsAlwaysAdvance` | `RequestsAdvance`: a fill request makes at most 2 `MaxClaims` + 4 steps |
| `MethodsAlwaysAtomic` | `MethodsAreAtomic`: nobody else changes the slot between a method's two session calls |

Assumptions: `SpellingsAssumption`, `NoneAssumption`, `ReleaseAssumption` - that
nil is none of the values, and that a normalised origin normalises to itself.

The argument. The inductive invariant is `TypeInv` = `TypeOK` and
`SessionNormalized`: the open vault holds normalised origins only. Without the second part
`TypeOK` is not inductive, because `requestRelease` copies the stored origin into
the request, whose type demands a normalised one. `ApprovedWasShown` needs that the
pending request has the id of the credential it stands for: `SlotConsistent`, a
lemma (`SlotInvariant`), inductive with `TypeInv`; and that the pending request still
has the id that the click compared when the approval takes effect (`ApprovingShown`),
since no other method of the bridge runs in between (`OneHolder`). So is `LockEmptiesSlot`: a handler caught between its two
calls when the vault locks looks the credential up in a locked session, finds
nil and fills nothing. Most steps are *quiet* (`QuietStep`): they hand nothing to a tab and
either leave the slot alone or empty it; `StepKinds` splits `Next` into those and
the three others (`LookupRelease`, `LookupClaim`, `LookupApprove`), which are the
only ones the action property and the refinement look at. In the refinement a
quiet step is a stutter or a `Withdraw`, a release an `Ask`, an approval an
`Approve`, a claim a `HandOver` or a `LoseClaim`.

Two theorems state what no run does, in the proof module itself.
`RequestsAdvance` is the safety half of `FillEnds`: `Remaining` counts the steps a
request has left, and whoever moves a request lowers it, so that one that does
not end has a step that is never taken, which `Fairness` excludes.
`MethodsAreAtomic` is what `stateLock` is for, and what reading a method as two steps
over one slot rests on. It follows from `OneHolder`: a method is entered only when no
other is under way, on the main actor or on a server thread.

`MacVaultProofs` proves, for every set of logins, passwords, batches, prompts
and operations, from the same assumptions and `VaultAssumption` (an import batch
has one login per id; ids and passwords are values):

| Theorem | Property | Extra hypothesis |
|---|---|---|
| `TypeCorrect` | `TypeOK` | none |
| `LockAlwaysForgets` | `LockForgets` | none |
| `OnlySavedLoginsServed` | `ServedWasSaved` | none |
| `NoUpdateLostWithoutImports` | `NoLostUpdate` | `Batches = {}` |
| `SessionServesStoreWithoutImports` | `SessionServesStore` | `Batches = {}` |

The argument. `TypeOK` is not inductive alone: `TypeInv` adds that ids are unique
*everywhere* a list of logins is kept (file, backup, session, the write in
progress, the import in progress), because a merge keeps uniqueness only when
both of its sides have it, and that a file write is in progress only for an
operation that writes. `SavedBeforeServed` strengthens
`ServedWasSaved` with where logins come *from*: what the importer or the main
actor is about to publish has already reached the file. `NoImportInv`
strengthens `NoLostUpdate` with `WritesWhatItMeans` (the list about to be written
is the operation applied to the list last completed) and `SessionFollows` (the
open session is the file, normalised, except between a write and its
publication). The hypothesis `Batches = {}` is needed: an import merges with the session as it
was when it began (`import_keeps_logins` shows one of the consequences). For `LockForgets` every step either
keeps the list, the login being edited and the delete to confirm, or clears
them, or leaves the session unlocked (`ScreenKeptOrCleared`).

`PairingProofs` proves, for every set of iPhones, sessions, logins and vaults,
from `PairingAssumption` (a vault has one login per id; nil is no session) and the
assumptions on spellings:

| Theorem | Property |
|---|---|
| `TypeCorrect` | `TypeOK` |
| `SessionsAreHandedOutOnce` | `OneHandoffPerSession` |
| `ImportsAreStored` | `ImportedIsStored` |
| `FileAlwaysLoads` | `FileLoads` |
| `AttemptsFailClosed` | `FailsClosed` |
| `PairingImplementsProtocol` | `ImplementsHandoffProtocol` |

The argument. `TypeInv` adds to `TypeOK` the shape of an attempt (`FlowShape`: an
iPhone that is ready has an invite; one that has received, or imported, holds a handoff
that was really sent). `Books` gives `OneHandoffPerSession`: every session handed out was
started, and is never pending again, because ids are fresh; a restart empties
`consumed`, so the argument must not, and does not, rest on it. `StoreInv` gives
`ImportedIsStored` and `FileLoads` together with `UniqueSources`: the open vault
and every handoff hold one login per id, and merging keeps that. In the
refinement a claim that makes a handoff is a `HandOut`, a refused one, an expiry
or a restart of the Mac a `Withdraw`, an import that got past the opener an
`Open`, a restart of the iPhone a `Forget`, and the rest stutters.

`VaultSyncProofs` proves, for every number of pages, clients, profiles, requests
and items, from `SyncAssumption` (every request has a client and every client a
profile; nil is no profile):

| Theorem | Property |
|---|---|
| `TypeCorrect` | `TypeOK` |
| `RowsKeepOwners` | `OwnersKept` |
| `DeletionsAreFinal` | `DeletionWins` |
| `AnswersHonourRequests` | `AnswerHonoursRequest` |
| `PagesShowOwnItems` | `ItemsAreOwn` |
| `PagesAreNeverStuck` | `NeverStuck` |

The argument. `TypeOK` is inductive. `Sound(r)` says what each call of request `r`
has made sure of - after the check its rows are its owner's or nobody's, after
the upsert they are its owner's, and so on - and `NewIdsApart` that two
requests name the same item only if it has a row. Without the latter `Sound` is
not inductive: another request could give an unowned row to its own profile
between check and upsert. `Books` puts both together with `ItemsAreOwn`, which
`NewIdsApart` needs in turn, because a page writes what it shows. `NeverStuck` is
inductive with `SealingHeard`: a write being sealed is one its page waits for.

`ExtensionSessionProofs` proves, for every number of messages under way, accounts,
passphrases and logins, from `ExtensionAssumption` (nil is none of the values, the
companion's logins are none of the vault's):

| Theorem | Property |
|---|---|
| `TypeCorrect` | `TypeOK` |
| `PassphraseVerified` | `PassphraseIsVerified` |
| `LockedForgets` | `LockedPopupForgets` |
| `SignInAlwaysSettles`, of `ProfileFirst` and `NeverStuck` | `SignInSettles` |
| `FillsAreOfOneLogin` | `FillsAgree` |

The argument. The properties speak of what is kept, the handlers of what they
captured, so `IInv` adds `MessageSound` of every message under way. `UnlockSound`
is the part that `PassphraseIsVerified` needs: the verifier an unlock has read is
still the stored one, up to its upgrade, and once its checks are passed the
stored verifier vouches for its passphrase; any step that writes a verifier keeps
that, or sets `replaced`. `SignInSound` says that a sign-in about to be stored has
its profile, `FillSound` that a picked login is still the only match, in the cache or
on the Mac, or the fill is in `moved`, and `ArgFits` that a message carries what its kind needs. A step
moves at most one message, so each action's lemma shows that its own message
stays sound and that it leaves the others' facts alone.

`DevSecretsProofs` proves, for every number of runs, ports, codes, accounts and
targets and every time to live, from `DevSecretsAssumption` (nil is none of the
values; times to live are positive):

| Theorem | Property |
|---|---|
| `TypeCorrect` | `TypeOK` |
| `SessionsAreOwn` | `SessionIsTheRunsLogin` |
| `SuccessesAreReal` | `SuccessIsReal` |
| `OnlyConfirmedIsStored` | `StoredWasConfirmed` |
| `AccessVouched` | `AccessIsVouchedFor` |

The argument. `StoreSound` (of `Vouched`) ties each entry of the API's memory to what its code
was made for: same account and target, and a deadline at most the times to live
after its making. `RunSound`, `PageSound` and `RequestSound` do the same for what a
run, its page and its request hold, and say at which of their steps; a request
agrees with its run only while the run waits for it, because an interrupted
run's request goes on. `RecordsSound` says that what is stored was confirmed and
is in `written`. What was made, confirmed or written stays so (`Grow`), so that a
step need only account for the one run, page or request it moves.

`WebVaultProofs` proves, for every number of logins, passphrases, handlers and calls
under way, and any lists the server may hold, from `WebVaultAssumption` (nil is
none of the values; no passphrase is one of the other seals):

| Theorem | Property |
|---|---|
| `TypeCorrect` | `TypeOK` |
| `BridgeAlwaysFollowsPage` | `BridgeFollowsPage` |
| `PassphraseVerified` | `PassphraseIsVerified` |
| `LockedForgets` | `LockedPageForgets` |
| `EditsEraseNothing` | `EditsKeepPasswords` |
| `LastCallIsCurrent` | `NewestIsPublication`: the newest call of a locked page is a clear |

The argument. The inductive invariant `IInv` adds facts of two kinds. The first is what is still true
of a value a handler captured before its await (`HandlersSound`): an unlock that
passed its checks agrees with the verifier, and where the edit form will have an empty
field there was no password that opens (`DoesNotOpen`), which `FormSound` then says of
the form itself and `EditsKeepPasswords` of what was saved. Only `AdoptVerifier`
writes the verifier, so only its lemma has to show that it changes none of these, or sets
`replaced`. The second is what the newest call says (`NewestIsPublication`): what
the page has unlocked *now*, because `Render` sends a call with every change of
the passphrase or the list; when it takes effect the bridge holds just that
(`BridgeHoldsPublication`), until an older one overtakes it. `StepKeeps` reduces
a step to the parts it touches: the page it leaves, the handler it moves and, through
`RenderStep`, the call it sends; `QuietStep` is for those that send none,
`ApiStep` for the calls.

`BrowserImportProofs` proves, for CSVs and limits of any length, any checks, any
number of posts and any body posted, from `BrowserImportAssumption`:

| Theorem | Property |
|---|---|
| `TypeCorrect` | `TypeOK` |
| `SortedAsDefined` | `RowsAreSorted` |
| `ReportsAreValid` | `ReportIsValid` |
| `PlansAreComplete` | `PlanCompletesReport` |
| `RecordingTrue`, of `JobsAccount` and `AnswersTrue` | `RecordingIsTrue` |

The argument. `Sorted` is the analyzer's loop invariant: the rows sorted so far
are split between the two lists in order, each refused with its first failing
check or as a repetition of an accepted row, and the map has exactly the accepted keys. From it
the sums of a report follow by counting (as many rows are listed as there are
issues, since the lists ascend), which the validator's rules turn out to be; the
converse, that a body which passes accounts for every row, is `JobsAccountForRows`
through `Validated`. `PlanFollows` and `Recorded` are the invariants of the plan
and of the posts, `Unsorted` and `Finished` say at which steps the lists are empty
or complete.

Only model-checked: liveness (`FillEnds`, `ViewCatchesUp`, `AttemptEnds`,
`LockedBridgeStaysEmpty`), as reasoning from fairness needs ENABLED, which is out of
the prover's reach. `NoLostUpdate` and `SessionServesStore` are proved without
imports only, and do not hold with them.

## 6. Not modelled

User interface, copy, styles, marketing and settings pages, smoke tests and
receipt hosts (scripts that drive the parts above), SQL migrations,
cryptographic primitives and key storage, DOM heuristics of the content script,
parsing of CSV files and of HTTP requests, the clipboard: I/O or data without
interleavings worth checking. The tables behind Supabase, Chrome's service
worker and the browser's storage are external services, modelled from how the
code uses them. The making of the iPhone's key pair is a step that succeeds or
fails. The companion's launch at login and the credential that development
builds start with do not touch what the properties are about.

## 7. Plan

Done: `CompanionRelease` with `FillProtocol`, `MacVault`, `Pairing` with
`HandoffProtocol`, `VaultSync`, `ExtensionSession`, `DevSecrets`,
`BrowserImport` and `WebVault`, each with proofs of all its safety properties.

Left, in order: two accounts and two pages, for the interleavings of section 4
that relate them; the pasteboard with the token of its delayed clearing; the
composition of `WebVault` with `VaultSync`, whose answers it now takes from a set.
