-------------------------- MODULE ExtensionSession --------------------------
(***************************************************************************)
(* The browser extension's own vault: what chrome.storage.local and the    *)
(* memory of the background worker hold, the handlers of the worker, which *)
(* interleave at their awaits, the popup, and the content script of a page *)
(* that fills it from two such handlers.                                   *)
(*                                                                         *)
(* A verifier is the passphrase it vouches for and whether it is of        *)
(* version 2.  A login is its seal and whether it is for the page; sign-in *)
(* state is the account.  A read of the storage that fails is taken by the *)
(* code for an absent value.                                               *)
(***************************************************************************)
EXTENDS FiniteSets

CONSTANTS
    Accounts,
    Passphrases,
    Logins,
    VaultOf,     \* the logins of each account
    SealOf,      \* the passphrase of each login, None if it is not protected
    OfPage,      \* the logins for the page, without the Mac companion's
    Companions,  \* what logins of the Mac companion for the page may be
    IdOf,        \* the id of each; an edited login keeps its id
    Requests,    \* messages to the worker that can be under way at once
    UsesOf,      \* bound: the kinds of message each of them may be
    None

Kinds == {"auth", "state", "unlock", "lock", "sign_in", "sign_out", "hydrate", "fill"}

ASSUME ExtensionAssumption ==
    /\ VaultOf \in [Accounts -> SUBSET Logins]
    /\ SealOf \in [Logins -> Passphrases \cup {None}]
    /\ Companions \cap Logins = {} /\ OfPage \subseteq Logins
    /\ DOMAIN IdOf = Companions
    /\ UsesOf \in [Requests -> SUBSET Kinds]
    /\ None \notin Accounts \cup Passphrases \cup Logins \cup Companions
    /\ None \notin [pass : Passphrases, secure : BOOLEAN]

VARIABLES
    auth,               \* storage: the account signed in, or None
    verifier,           \* storage: the master password verifier, or None
    cache,              \* storage: the vault items
    profiles,           \* accounts with a row in the API's users_profile
    mac,                \* the companion's logins for the page and the account
    unlockPassphrase,   \* worker: None while locked
    req,                \* the messages under way
    heard,              \* those whose answer the open popup waits for
    popup,              \* the popup's hooks
    replaced,           \* history: a set-up wrote over another verifier
    moved               \* history: fills whose two reads had different sources
                        \* or whose source changed between the two

storage == <<auth, verifier, cache, profiles, mac>>
history == <<replaced, moved>>
vars == <<auth, verifier, cache, profiles, mac, unlockPassphrase, req, heard, popup,
          replaced, moved>>

Verifiers == [pass : Passphrases, secure : BOOLEAN]

Credentials == Logins \cup Companions

MacLogins == {v \in SUBSET Companions : \A c, d \in v : IdOf[c] = IdOf[d] => c = d}

(* arg: passphrase or account; seen: the verifier read; found: items read, *)
(* or the login to be released; picked: the candidate whose username the   *)
(* page will get.                                                          *)
Idle == [kind |-> "none", step |-> "idle", arg |-> None, seen |-> None,
         found |-> {}, picked |-> None]

NoPopup == [mode |-> "closed", held |-> None, status |-> "closed",
            items |-> {}, hasLoaded |-> FALSE, revealed |-> {}, passwords |-> {}]

Init ==
    /\ auth = None /\ cache = {} /\ profiles = {} /\ mac \in MacLogins
    /\ verifier \in {None} \cup [pass : Passphrases, secure : {FALSE}]
    /\ unlockPassphrase = None
    /\ req = [r \in Requests |-> Idle] /\ heard = {}
    /\ popup = NoPopup
    /\ replaced = FALSE /\ moved = {}

-----------------------------------------------------------------------------
(* Reads of the storage. *)

ReadStoredAuthState == {auth, None}

ReadMasterPasswordVerifier == {verifier, None}

ReadPopupVaultItems == {cache, {}}

(* openStoredVaultPassword gives a password. *)
Opens(l, p) == SealOf[l] \in {None, p}

canUnlockProtectedCiphertexts(ls, p) == \A l \in ls : Opens(l, p)

-----------------------------------------------------------------------------
(* Messages. *)

Message(k, s, a) == [Idle EXCEPT !.kind = k, !.step = s, !.arg = a]

Free(r, k) == req[r] = Idle /\ k \in UsesOf[r]

At(r, k, s) == req[r].kind = k /\ req[r].step = s

Answered == {"signed_in", "signed_out", "needs_setup", "locked", "unlocked",
             "done", "error"}

(* Steps at which the worker is on the message. *)
Serving == {"read", "try", "write", "open", "refuse", "lock", "mode",
            "sign_in", "bootstrap", "store", "clear", "sync", "companion",
            "release", "check", "key", "items"}

(* A step of a handler that changes nothing but where it is. *)
Go(r, s) ==
    /\ req' = [req EXCEPT ![r].step = s]
    /\ UNCHANGED <<storage, unlockPassphrase, heard, popup, history>>

(* The content script stops: every answer but "ready" with one match. *)
StopFill(r) ==
    /\ req' = [req EXCEPT ![r] = Idle]
    /\ moved' = moved \ {r}
    /\ UNCHANGED <<storage, unlockPassphrase, heard, popup, replaced>>

(* An answer that carries nothing else. *)
Answer(r, s) == Message(req[r].kind, s, None)

(* A handler rejects: the listener's catch, or the handler's own, answers  *)
(* with an error.                                                          *)
FailRequest(r) ==
    /\ req[r].step \in Serving
    /\ \/ req[r].kind = "fill" /\ StopFill(r)
       \/ /\ req[r].kind # "fill"
          /\ req' = [req EXCEPT ![r] = Answer(r, "error")]
          /\ UNCHANGED <<storage, unlockPassphrase, heard, popup, history>>

(* Chrome stops the worker and starts it again: its memory is gone, and    *)
(* every message is answered with an error.                                *)
RestartWorker ==
    /\ unlockPassphrase' = None
    /\ req' = [r \in Requests |->
                 IF req[r].step \notin Serving THEN req[r]
                 ELSE IF req[r].kind = "fill" THEN Idle
                 ELSE Answer(r, "error")]
    /\ moved' = {r \in moved : req[r].step \notin Serving}
    /\ UNCHANGED <<storage, heard, popup, replaced>>

-----------------------------------------------------------------------------
(* unlockWithPassphrase, lock, readUnlockState. *)

verifyMasterPassword(v, p) == v.pass = p

(* With the verification of what was read: it awaits, and touches nothing  *)
(* that others see.                                                        *)
ReadVerifier(r) ==
    /\ At(r, "unlock", "read")
    /\ \E v \in ReadMasterPasswordVerifier :
          req' = [req EXCEPT
             ![r].seen = v,
             ![r].step = IF v = None \/ verifyMasterPassword(v, req[r].arg) THEN "try"
                         ELSE "refuse"]
    /\ UNCHANGED <<storage, unlockPassphrase, heard, popup, history>>

(* Seeded fault: a verifier of version 1 is left as it is. *)
RewritesNone(v) == v = None

(* A new verifier is written in a set-up, and for a verifier of version 1. *)
Rewrites(v) == v = None \/ ~v.secure

TryCiphertexts(r) ==
    /\ At(r, "unlock", "try")
    /\ \E ls \in ReadPopupVaultItems :
          req' = [req EXCEPT
             ![r].seen = None,
             ![r].step = IF ~canUnlockProtectedCiphertexts(ls, req[r].arg) THEN "refuse"
                         ELSE IF Rewrites(req[r].seen) THEN "write" ELSE "open"]
    /\ UNCHANGED <<storage, unlockPassphrase, heard, popup, history>>

WriteVerifier(r) ==
    /\ At(r, "unlock", "write")
    /\ verifier' = [pass |-> req[r].arg, secure |-> TRUE]
    /\ replaced' = (replaced \/ (verifier # None /\ verifier.pass # req[r].arg))
    /\ req' = [req EXCEPT ![r].step = "open"]
    /\ UNCHANGED <<auth, cache, profiles, mac, unlockPassphrase, heard, popup, moved>>

Refuse(r) ==
    /\ At(r, "unlock", "refuse")
    /\ unlockPassphrase' = None
    /\ req' = [req EXCEPT ![r] = Answer(r, "error")]
    /\ UNCHANGED <<storage, heard, popup, history>>

OpenVault(r) ==
    /\ At(r, "unlock", "open")
    /\ unlockPassphrase' = req[r].arg
    /\ req' = [req EXCEPT ![r].step = "unlocked"]
    /\ UNCHANGED <<storage, heard, popup, history>>

lock(r) ==
    /\ At(r, "lock", "lock")
    /\ unlockPassphrase' = None
    /\ req' = [req EXCEPT ![r].step = "mode"]
    /\ UNCHANGED <<storage, heard, popup, history>>

(* The mode for a verifier that has been read. *)
UnlockMode(v) ==
    IF v = None THEN "needs_setup"
    ELSE IF unlockPassphrase # None THEN "unlocked" ELSE "locked"

readUnlockState(r) ==
    /\ req[r].kind \in {"state", "lock"} /\ req[r].step = "mode"
    /\ \E v \in ReadMasterPasswordVerifier : Go(r, UnlockMode(v))

-----------------------------------------------------------------------------
(* Sign-in, sign-out, and the cache. *)

readExtensionAuthState(r) ==
    /\ At(r, "auth", "read")
    /\ \E a \in ReadStoredAuthState : Go(r, IF a = None THEN "signed_out" ELSE "signed_in")

(* Supabase accepts the password; otherwise FailRequest. *)
signInWithPassword(r) == At(r, "sign_in", "sign_in") /\ Go(r, "bootstrap")

(* POST /auth/bootstrap upserts the row. *)
bootstrapProfileFromToken(a) == profiles' = profiles \cup {a}

(* The answer may still be lost. *)
bootstrapProfile(r) ==
    /\ At(r, "sign_in", "bootstrap")
    /\ bootstrapProfileFromToken(req[r].arg)
    /\ \E s \in {"store", "error"} : req' = [req EXCEPT ![r].step = s]
    /\ UNCHANGED <<auth, verifier, cache, mac, unlockPassphrase, heard, popup, history>>

writeStoredAuthState(r) ==
    /\ At(r, "sign_in", "store")
    /\ auth' = req[r].arg
    /\ req' = [req EXCEPT ![r].step = "signed_in"]
    /\ UNCHANGED <<verifier, cache, profiles, mac, unlockPassphrase, heard, popup, history>>

(* Neither the passphrase nor the cached items are touched. *)
signOut(r) ==
    /\ At(r, "sign_out", "clear")
    /\ auth' = None
    /\ req' = [req EXCEPT ![r].step = "done"]
    /\ UNCHANGED <<verifier, cache, profiles, mac, unlockPassphrase, heard, popup, history>>

hydratePopupVaultCache(r) ==
    /\ At(r, "hydrate", "read")
    /\ \E a \in ReadStoredAuthState :
          req' = [req EXCEPT ![r].arg = a,
                             ![r].step = IF a = None THEN "done" ELSE "sync"]
    /\ UNCHANGED <<storage, unlockPassphrase, heard, popup, history>>

(* The vault of the account as it is by then; without a profile the API    *)
(* answers 404, which FailRequest is.                                      *)
syncVault(r) ==
    /\ At(r, "hydrate", "sync")
    /\ req[r].arg \in profiles
    /\ \E ls \in SUBSET VaultOf[req[r].arg] :
          req' = [req EXCEPT ![r].found = ls, ![r].step = "store"]
    /\ UNCHANGED <<storage, unlockPassphrase, heard, popup, history>>

(* Fills that are between their two reads. *)
BetweenReads == {q \in Requests : req[q].kind = "fill" /\ req[q].picked # None}

writePopupVaultItems(r) ==
    /\ At(r, "hydrate", "store")
    /\ cache' = req[r].found
    /\ moved' = IF cache' = cache THEN moved ELSE moved \cup BetweenReads
    /\ req' = [req EXCEPT ![r] = Answer(r, "done")]
    /\ UNCHANGED <<auth, verifier, profiles, mac, unlockPassphrase, heard, popup, replaced>>

-----------------------------------------------------------------------------
(* read_autofill_candidates, while nothing is picked, and then             *)
(* read_autofill_fill_data, on the content script's behalf.                *)

CheckSignedIn(r) ==
    /\ At(r, "fill", "read")
    /\ \E a \in ReadStoredAuthState :
          IF a = None THEN StopFill(r) ELSE Go(r, "companion")

(* One of the two reads has found the login l, with a password. *)
Found(r, l) ==
    /\ req' = [req EXCEPT ![r] =
                 IF @.picked = None THEN [Message("fill", "read", None) EXCEPT !.picked = l]
                 ELSE [@ EXCEPT !.step = "ready", !.found = {l}, !.arg = None]]
    /\ moved' = IF req[r].picked # None /\ (req[r].picked \in Companions) # (l \in Companions)
                THEN moved \cup {r} ELSE moved
    /\ UNCHANGED <<storage, unlockPassphrase, heard, popup, replaced>>

(* The companion is asked for its logins anew in each of the reads: it is  *)
(* not there, is locked or has not exactly one, or names the one it has,   *)
(* which the second read then wants released.                              *)
AskCompanion(r) ==
    /\ At(r, "fill", "companion")
    /\ \/ Go(r, "check")
       \/ StopFill(r)
       \/ \E l \in mac :
             /\ mac = {l}
             /\ IF req[r].picked = None THEN Found(r, l)
                ELSE /\ req' = [req EXCEPT ![r].step = "release", ![r].found = {l}]
                     /\ UNCHANGED <<storage, unlockPassphrase, heard, popup, history>>

(* requestCredentialRelease and the claims: the companion is gone, refuses *)
(* or is not approved, or hands over the login that has the id by then;    *)
(* its side of the protocol is CompanionRelease.                           *)
ReleaseLogin(r) ==
    /\ At(r, "fill", "release")
    /\ \/ /\ req' = [req EXCEPT ![r].step = "check", ![r].found = {}]
          /\ UNCHANGED <<storage, unlockPassphrase, heard, popup, history>>
       \/ StopFill(r)
       \/ \E l \in mac, m \in req[r].found : IdOf[l] = IdOf[m] /\ Found(r, l)

(* On the Mac: logins are edited, deleted, imported.  Another account that *)
(* signs in has other logins there, too.                                   *)
MacChanges ==
    /\ \E v \in MacLogins \ {mac} : mac' = v
    /\ moved' = moved \cup BetweenReads
    /\ UNCHANGED <<auth, verifier, cache, profiles, unlockPassphrase, req, heard, popup,
                   replaced>>

CheckUnlocked(r) ==
    /\ At(r, "fill", "check")
    /\ \E v \in ReadMasterPasswordVerifier :
          IF UnlockMode(v) = "unlocked" THEN Go(r, "key") ELSE StopFill(r)

(* readUnlockedLoginItems reads sign-in state and passphrase once more; if *)
(* one is gone it finds no items, and so no match.                         *)
ReadKey(r) ==
    /\ At(r, "fill", "key")
    /\ \E a \in ReadStoredAuthState :
          IF a = None \/ unlockPassphrase = None THEN StopFill(r)
          ELSE /\ req' = [req EXCEPT ![r].arg = unlockPassphrase, ![r].step = "items"]
               /\ UNCHANGED <<storage, unlockPassphrase, heard, popup, history>>

(* Seeded fault: of several logins for the page one is taken. *)
AnyMatch(ls, l) == l \in ls \cap OfPage

(* l is the only one of the items for the page. *)
OnlyMatch(ls, l) == ls \cap OfPage = {l}

(* One login for the page, whose password opens, or nothing to fill. *)
ReadItems(r) ==
    /\ At(r, "fill", "items")
    /\ \E ls \in ReadPopupVaultItems :
          \/ \E l \in Logins : OnlyMatch(ls, l) /\ Opens(l, req[r].arg) /\ Found(r, l)
          \/ /\ \A l \in Logins : OnlyMatch(ls, l) => ~Opens(l, req[r].arg)
             /\ StopFill(r)

(* The page gets the username of picked and the password of found. *)
FillFields(r) == At(r, "fill", "ready") /\ StopFill(r)

-----------------------------------------------------------------------------
(* The popup. *)

Ask(r, k, s, a) ==
    /\ Free(r, k)
    /\ req' = [req EXCEPT ![r] = Message(k, s, a)]
    /\ heard' = heard \cup {r}
    /\ UNCHANGED <<storage, unlockPassphrase, history>>

(* The two mount effects that ask the worker; the mode starts as           *)
(* needs_setup.                                                            *)
OpenPopup(r, q) ==
    /\ popup.mode = "closed" /\ r # q
    /\ Free(r, "state") /\ Free(q, "auth")
    /\ req' = [req EXCEPT ![r] = Message("state", "mode", None),
                          ![q] = Message("auth", "read", None)]
    /\ heard' = {r, q}
    /\ popup' = [NoPopup EXCEPT !.mode = "needs_setup", !.status = "loading"]
    /\ UNCHANGED <<storage, unlockPassphrase, history>>

(* The third effect of the mount: the list comes from the storage itself. *)
LoadItems ==
    /\ popup.mode # "closed" /\ ~popup.hasLoaded
    /\ \E ls \in ReadPopupVaultItems :
          popup' = [popup EXCEPT !.items = ls, !.hasLoaded = TRUE]
    /\ UNCHANGED <<storage, unlockPassphrase, req, heard, history>>

(* The worker goes on with what the popup asked for. *)
ClosePopup ==
    /\ popup.mode # "closed"
    /\ popup' = NoPopup /\ heard' = {}
    /\ UNCHANGED <<storage, unlockPassphrase, req, history>>

Shows(s) == popup.status = s /\ popup.mode # "closed"

(* The sign-in form is there while the status is loading, too. *)
signIn(r, a) ==
    /\ Shows("loading") \/ Shows("signed_out")
    /\ Ask(r, "sign_in", "sign_in", a)
    /\ popup' = [popup EXCEPT !.status = "signing_in"]

(* With a passphrase, and in a set-up the same one twice.  The button is   *)
(* not disabled while an answer is awaited.                                *)
submitUnlock(r, p) ==
    /\ Shows("signed_in") /\ popup.mode # "unlocked"
    /\ Ask(r, "unlock", "read", p)
    /\ UNCHANGED popup

PressLock(r) ==
    /\ Shows("signed_in") /\ popup.mode = "unlocked"
    /\ Ask(r, "lock", "lock", None)
    /\ UNCHANGED popup

(* Through the tab's content script, which asks the worker by itself. *)
AutofillPage(r) ==
    /\ Shows("signed_in") /\ popup.mode = "unlocked"
    /\ Free(r, "fill")
    /\ req' = [req EXCEPT ![r] = Message("fill", "read", None)]
    /\ UNCHANGED <<storage, unlockPassphrase, heard, popup, history>>

(* signOutInBackground has no caller in the popup. *)
SendSignOut(r) ==
    /\ popup.mode # "closed"
    /\ Ask(r, "sign_out", "clear", None)
    /\ UNCHANGED popup

(* Seeded fault: revealed passwords stay when the popup locks. *)
KeepRevealed(u, m) == [u EXCEPT !.mode = m]

(* A new mode; when it is not unlocked the effect of usePopupVaultSearch   *)
(* forgets what was revealed.                                              *)
WithMode(u, m) ==
    IF m = "unlocked" THEN [u EXCEPT !.mode = m]
    ELSE [u EXCEPT !.mode = m, !.revealed = {}, !.passwords = {}]

(* The rest of submitUnlock: the popup keeps the passphrase that opened.   *)
(* An error leaves the mode.                                               *)
AfterUnlock(r) ==
    IF req[r].step = "error" THEN [popup EXCEPT !.held = None]
    ELSE [WithMode(popup, "unlocked") EXCEPT !.held = req[r].arg]

(* The rest of lock. *)
AfterLock(r) ==
    IF req[r].step = "error" THEN popup
    ELSE [WithMode(popup, req[r].step) EXCEPT !.held = None]

(* The rest of usePopupUnlock's mount effect. *)
AfterState(r) ==
    CASE req[r].step = "unlocked" -> WithMode(popup, "unlocked")
      [] req[r].step = "error" -> [WithMode(popup, "needs_setup") EXCEPT !.held = None]
      [] OTHER -> [WithMode(popup, req[r].step) EXCEPT !.held = None]

(* Seeded fault: a sign-in that fails leaves the form as it is. *)
StatusIfSignedIn(r) == IF req[r].step = "signed_in" THEN "signed_in" ELSE popup.status

(* The rest of signIn and of loadAuthState. *)
StatusAfter(r) == IF req[r].step = "signed_in" THEN "signed_in" ELSE "signed_out"

(* The popup takes the answer to r. *)
Receive(r) ==
    /\ r \in heard /\ req[r].step \in Answered
    /\ popup' = CASE req[r].kind = "unlock" -> AfterUnlock(r)
                  [] req[r].kind = "lock" -> AfterLock(r)
                  [] req[r].kind = "state" -> AfterState(r)
                  [] req[r].kind \in {"auth", "sign_in"} ->
                        [popup EXCEPT !.status = StatusAfter(r)]
                  [] OTHER -> popup
    /\ IF req[r].step = "signed_in"
       THEN /\ req' = [req EXCEPT ![r] = Message("hydrate", "read", None)]
            /\ UNCHANGED heard
       ELSE /\ req' = [req EXCEPT ![r] = Idle]
            /\ heard' = heard \ {r}
    /\ UNCHANGED <<storage, unlockPassphrase, history>>

(* The answer to a popup that is closed. *)
Drop(r) ==
    /\ r \notin heard /\ req[r].kind # "fill" /\ req[r].step \in Answered
    /\ req' = [req EXCEPT ![r] = Idle]
    /\ UNCHANGED <<storage, unlockPassphrase, heard, popup, history>>

togglePasswordVisibility(l) ==
    /\ Shows("signed_in") /\ popup.mode = "unlocked" /\ l \in popup.items
    /\ popup' = [popup EXCEPT !.revealed = IF l \in @ THEN @ \ {l} ELSE @ \cup {l}]
    /\ UNCHANGED <<storage, unlockPassphrase, req, heard, history>>

(* readStoredPassword is done, and no dependency of the effect has changed *)
(* since it ran (isActive).                                                *)
RevealPassword(l) ==
    /\ popup.mode = "unlocked" /\ popup.held # None
    /\ l \in (popup.revealed \cap popup.items) \ popup.passwords
    /\ popup' = [popup EXCEPT !.passwords = @ \cup {l}]
    /\ UNCHANGED <<storage, unlockPassphrase, req, heard, history>>

-----------------------------------------------------------------------------
(* handleBackgroundRequest *)
Handle(r) ==
    \/ ReadVerifier(r) \/ TryCiphertexts(r)
    \/ WriteVerifier(r) \/ Refuse(r) \/ OpenVault(r) \/ lock(r) \/ readUnlockState(r)
    \/ readExtensionAuthState(r) \/ signInWithPassword(r) \/ bootstrapProfile(r)
    \/ writeStoredAuthState(r) \/ signOut(r) \/ hydratePopupVaultCache(r)
    \/ syncVault(r) \/ writePopupVaultItems(r)
    \/ CheckSignedIn(r) \/ AskCompanion(r) \/ ReleaseLogin(r) \/ CheckUnlocked(r)
    \/ ReadKey(r) \/ ReadItems(r)
    \/ FailRequest(r)

UsePopup ==
    \/ \E r, q \in Requests : OpenPopup(r, q)
    \/ LoadItems \/ ClosePopup
    \/ \E r \in Requests : PressLock(r) \/ AutofillPage(r) \/ SendSignOut(r)
    \/ \E r \in Requests, a \in Accounts : signIn(r, a)
    \/ \E r \in Requests, p \in Passphrases : submitUnlock(r, p)
    \/ \E l \in Logins : togglePasswordVisibility(l) \/ RevealPassword(l)

Next ==
    \/ RestartWorker \/ MacChanges
    \/ \E r \in Requests : Handle(r)
    \/ \E r \in Requests : FillFields(r) \/ Receive(r) \/ Drop(r)
    \/ UsePopup

Spec == Init /\ [][Next]_vars

-----------------------------------------------------------------------------
(* Every variable keeps its type. *)
TypeOK ==
    /\ auth \in Accounts \cup {None}
    /\ verifier \in Verifiers \cup {None}
    /\ cache \in SUBSET Logins
    /\ profiles \in SUBSET Accounts
    /\ mac \in MacLogins
    /\ unlockPassphrase \in Passphrases \cup {None}
    /\ req \in [Requests -> [kind : Kinds \cup {"none"},
                             step : Serving \cup Answered \cup {"idle", "ready"},
                             arg : Accounts \cup Passphrases \cup {None},
                             seen : Verifiers \cup {None},
                             found : SUBSET Credentials,
                             picked : Credentials \cup {None}]]
    /\ heard \in SUBSET Requests
    /\ popup \in [mode : {"closed", "needs_setup", "locked", "unlocked"},
                  held : Passphrases \cup {None},
                  status : {"closed", "loading", "signed_out", "signing_in", "signed_in"},
                  items : SUBSET Logins,
                  hasLoaded : BOOLEAN,
                  revealed : SUBSET Logins,
                  passwords : SUBSET Logins]
    /\ replaced \in BOOLEAN
    /\ moved \in SUBSET Requests

Vouches(p) == verifier = [pass |-> p, secure |-> TRUE]

(* A passphrase in memory, the worker's or the popup's, is the one that    *)
(* the stored verifier of version 2 vouches for: whatever set-ups,         *)
(* upgrades, failures and restarts interleave, the verifier is written     *)
(* before the vault opens.  Only a set-up that wrote over another verifier *)
(* can part them (unlock-session.ts, use-popup-unlock.ts).                 *)
PassphraseIsVerified ==
    ~replaced => \A p \in {unlockPassphrase, popup.held} \ {None} : Vouches(p)

(* A popup that is not unlocked holds no passphrase and no password that   *)
(* was revealed, also when one was just being opened (use-popup-unlock.ts, *)
(* use-popup-vault-search.ts).                                             *)
LockedPopupForgets ==
    popup.mode # "unlocked" =>
        popup.held = None /\ popup.revealed = {} /\ popup.passwords = {}

(* Who is stored as signed in has a profile row, without which the API     *)
(* refuses to sync: bootstrap comes first (auth.ts, signInWithPassword).   *)
SignedInHasProfile == auth # None => auth \in profiles

(* The sign-in form is disabled, and the state of sign-in unknown, only    *)
(* while a message that will settle it is under way, however the answers   *)
(* overlap and whatever stops the worker (use-popup-auth.ts).              *)
PopupNeverStuck ==
    /\ popup.status = "signing_in" => \E r \in heard : req[r].kind = "sign_in"
    /\ popup.status = "loading" => \E r \in heard : req[r].kind = "auth"

(* Sign-in settles: with a profile for whoever is stored, and without      *)
(* leaving the form disabled, whichever of its calls fails.                *)
SignInSettles == SignedInHasProfile /\ PopupNeverStuck

(* Username and password that the content script puts into a page are of   *)
(* one login, although they come from two messages, each with awaits       *)
(* inside, and the second asks the companion twice; unless between the two *)
(* the cache was rewritten, the companion came or went, or its logins      *)
(* changed (autofill.ts, attemptAutofillForCurrentPage).                   *)
FillsAgree ==
    \A r \in Requests \ moved : At(r, "fill", "ready") => req[r].found = {req[r].picked}
=============================================================================
