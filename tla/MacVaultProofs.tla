--------------------------- MODULE MacVaultProofs ---------------------------
(***************************************************************************)
(* Proofs about MacVault, for any number of logins, prompts and imports.   *)
(***************************************************************************)
EXTENDS MacVault, TLAPS

-----------------------------------------------------------------------------
(* The session's operators. *)

(* Reading the lock state keeps the session's type, only ever removes      *)
(* credentials, and changes neither an unlocked nor a locked session.      *)
LEMMA SettledFacts ==
    ASSUME NEW s \in Session
    PROVE  /\ Settled(s) \in Session
           /\ Settled(s).credentials \subseteq s.credentials
           /\ IsUnlocked(Settled(s)) => Settled(s) = s
           /\ IsLocked(Settled(s)) => Settled(s) = s
    BY DEF Session, Settled, AttentionSession, AttentionReasons, IsUnlocked, IsLocked

(* unlock() drops or normalises every origin (compactMap in unlock). *)
LEMMA NormalizeAllFacts ==
    ASSUME NEW v \in SUBSET Credential
    PROVE  /\ NormalizeAll(v) \in SUBSET Credential
           /\ \A c \in NormalizeAll(v) : c.origin \in Origins
  <1>1. ASSUME NEW c \in NormalizeAll(v)
        PROVE  c \in Credential /\ c.origin \in Origins
    <2>1. PICK d \in v : /\ Normalized[d.origin] # NoOrigin
                         /\ c = [d EXCEPT !.origin = Normalized[d.origin]]
      BY <1>1 DEF NormalizeAll
    <2>2. d \in Credential /\ Normalized[d.origin] \in Origins
      BY <2>1, SpellingsAssumption DEF Credential
    <2> QED
      BY <2>1, <2>2, SpellingsAssumption DEF Credential
  <1> QED
    BY <1>1

(* unlock() leaves a well-typed, unlocked session of normalised origins. *)
LEMMA UnlockedSessionFacts ==
    ASSUME NEW v \in SUBSET Credential
    PROVE  /\ UnlockedSession(v) \in Session
           /\ \A c \in UnlockedSession(v).credentials : c.origin \in Origins
           /\ ~IsLocked(UnlockedSession(v))
    BY NormalizeAllFacts DEF UnlockedSession, Session, IsLocked

(* Normalising drops or rewrites entries one by one: ids stay unique.      *)
LEMMA NormalizeAllUnique ==
    ASSUME NEW v \in SUBSET Credential, HasUniqueIds(v)
    PROVE  HasUniqueIds(NormalizeAll(v))
  <1> SUFFICES ASSUME NEW c \in NormalizeAll(v), NEW d \in NormalizeAll(v), c.id = d.id
               PROVE  c = d
    BY DEF HasUniqueIds
  <1>1. PICK a \in v : c = [a EXCEPT !.origin = Normalized[a.origin]]
    BY DEF NormalizeAll
  <1>2. PICK b \in v : d = [b EXCEPT !.origin = Normalized[b.origin]]
    BY DEF NormalizeAll
  <1>3. a.id = c.id /\ b.id = d.id
    BY <1>1, <1>2 DEF Credential
  <1>4. a = b
    BY <1>3 DEF HasUniqueIds
  <1> QED
    BY <1>1, <1>2, <1>4

(* More logins, more normalised logins. *)
LEMMA NormalizeAllMonotone ==
    ASSUME NEW v, NEW w, v \subseteq w
    PROVE  NormalizeAll(v) \subseteq NormalizeAll(w)
    BY DEF NormalizeAll

(* The importer's merge only ever yields logins. *)
LEMMA MergeType ==
    ASSUME NEW v \in SUBSET Credential, NEW w \in SUBSET Credential
    PROVE  Merge(v, w) \in SUBSET Credential
    BY DEF Merge

(* Replacing by id keeps ids unique. *)
LEMMA MergeUnique ==
    ASSUME NEW v, NEW w, HasUniqueIds(v), HasUniqueIds(w)
    PROVE  HasUniqueIds(Merge(v, w))
    BY DEF HasUniqueIds, Merge

-----------------------------------------------------------------------------
-----------------------------------------------------------------------------
(* Type correctness. *)

(* Every list of logins that is or may become the vault has one entry per  *)
(* id, and what was ever saved is remembered by the history.               *)
UniqueEverywhere ==
    /\ HasUniqueIds(session.credentials)
    /\ backup # None => HasUniqueIds(backup)
    /\ HasUniqueIds(main.next)
    /\ importer # None => HasUniqueIds(importer.merged)
    /\ store \subseteq durable

(* The main actor only writes for the operations that write. *)
WriteOps == main.pc = "write" => main.op \in {"add", "edit", "delete", "restore"}

(* What the screen holds. *)
FormType ==
    /\ form \in [route: {"overview", "addLogin", "editLogin"}, editing: Ids \cup {None},
                 origin: Spellings, password: Passwords]
    /\ rows \in SUBSET Ids
    /\ pendingDelete \in Ids \cup {None}
    /\ prompts \in SUBSET PromptState
    /\ clipboard \in {"other", "password"}

(* What the vault is made of. *)
VaultType ==
    /\ session \in Session
    /\ store \in SUBSET Credential /\ HasUniqueIds(store)
    /\ backup \in (SUBSET Credential) \cup {None}
    /\ main \in Main
    /\ importer \in Import \cup {None}
    /\ durable \in SUBSET Credential
    /\ intended \in SUBSET Credential
    /\ UniqueEverywhere
    /\ WriteOps

(* The inductive strengthening of TypeOK. *)
TypeInv == FormType /\ VaultType

(* The strengthening implies the type invariant.                           *)
LEMMA TypeInvTypeOK == TypeInv => TypeOK
    BY DEF TypeInv, TypeOK, FormType, VaultType

(* Reading the lock state keeps the vault's half. *)
LEMMA ReadSessionType ==
    ASSUME VaultType, ReadSession,
           UNCHANGED <<store, backup, main, importer, durable, intended>>
    PROVE  VaultType'
  <1>1. /\ Settled(session) \in Session
        /\ Settled(session).credentials \subseteq session.credentials
    BY SettledFacts DEF VaultType
  <1>2. HasUniqueIds(Settled(session).credentials)
    BY <1>1 DEF VaultType, UniqueEverywhere, HasUniqueIds
  <1> QED
    BY <1>1, <1>2 DEF ReadSession, VaultType, UniqueEverywhere, WriteOps

(* unlock() of a vault keeps ids unique. *)
LEMMA UnlockType ==
    ASSUME NEW v \in SUBSET Credential, HasUniqueIds(v)
    PROVE  UnlockedSession(v) \in Session /\ HasUniqueIds(UnlockedSession(v).credentials)
  <1>1. UnlockedSession(v).credentials = NormalizeAll(v)
    BY DEF UnlockedSession
  <1> QED
    BY <1>1, UnlockedSessionFacts, NormalizeAllUnique

(* A vault's ids are ids. *)
LEMMA IdsType ==
    ASSUME NEW v \in SUBSET Credential
    PROVE  IdsOf(v) \subseteq Ids
    BY DEF IdsOf, Credential

(* Initially the file holds at most one login. *)
LEMMA TypeInit == Init => TypeInv
  <1> SUFFICES ASSUME Init PROVE TypeInv
    OBVIOUS
  <1>1. FormType
    BY VaultAssumption DEF Init, FormType, ClosedForm
  <1>2. session \in Session /\ HasUniqueIds(session.credentials)
    BY DEF Init, LockedSession, Session, HasUniqueIds
  <1>3. store \in SUBSET Credential /\ HasUniqueIds(store)
    BY DEF Init, HasUniqueIds
  <1>4. main \in Main /\ main.next = {} /\ main.pc = "idle"
    BY DEF Init, IdleMain, Main
  <1>5. UniqueEverywhere /\ WriteOps
    BY <1>2, <1>4 DEF Init, UniqueEverywhere, WriteOps, HasUniqueIds
  <1>6. VaultType
    BY <1>2, <1>3, <1>4, <1>5 DEF Init, VaultType
  <1> QED
    BY <1>1, <1>6 DEF TypeInv

(* The list only shows ids of logins. *)
LEMMA ShowRowsType ==
    ASSUME ShowRows, store' \in SUBSET Credential
    PROVE  rows' \in SUBSET Ids
    BY IdsType DEF ShowRows

(* What is asked is a prompt. *)
LEMMA AskType ==
    ASSUME FormType, NEW p \in PromptState, Ask(p)
    PROVE  prompts' \in SUBSET PromptState
    BY DEF FormType, Ask

(* The prompts of operations on the whole vault or on one login. *)
LEMMA PromptType ==
    ASSUME NEW op \in {"unlock", "export", "restore", "copy", "delete"}, NEW i \in Ids
    PROVE  Prompt(op) \in PromptState /\ [Prompt(op) EXCEPT !.id = i] \in PromptState
    BY VaultAssumption DEF Prompt, PromptState

(* A fresh form is well formed. *)
LEMMA ClosedFormType ==
    ClosedForm \in [route: {"overview", "addLogin", "editLogin"}, editing: Ids \cup {None},
                    origin: Spellings, password: Passwords]
    BY VaultAssumption DEF ClosedForm

(* Steps that at most read the session. *)
VaultKept ==
    /\ UNCHANGED <<store, backup, main, importer, durable, intended>>
    /\ ReadSession \/ UNCHANGED session

(* Steps that at most read the session keep the vault well typed.          *)
LEMMA VaultKeptType ==
    ASSUME VaultType, VaultKept
    PROVE  VaultType'
  <1>1. CASE ReadSession
    BY <1>1, ReadSessionType DEF VaultKept
  <1>2. CASE UNCHANGED session
    BY <1>2 DEF VaultKept, VaultType, UniqueEverywhere, WriteOps
  <1> QED
    BY <1>1, <1>2 DEF VaultKept

(* Opening, filling in and closing the form. *)
LEMMA FormStepType ==
    ASSUME TypeInv,
           \/ showAddLogin \/ cancelAddLogin \/ saveLocalCredential
           \/ \E o \in Origins, p \in Typed : TypeInForm(o, p)
           \/ \E i \in Ids : showEditLogin(i)
    PROVE  TypeInv'
  <1>0. FormType /\ VaultType
    BY DEF TypeInv
  <1>1. VaultKept
    BY DEF showAddLogin, cancelAddLogin, saveLocalCredential, TypeInForm, showEditLogin, VaultKept
  <1>2. VaultType'
    BY <1>0, <1>1, VaultKeptType
  <1>3. FormType'
    <2>1. CASE showAddLogin
      BY <1>0, <2>1 DEF showAddLogin, FormType
    <2>2. CASE cancelAddLogin
      BY <1>0, <2>2, ClosedFormType DEF cancelAddLogin, FormType
    <2>3. CASE saveLocalCredential
      <3>1. [op |-> "save", id |-> form.editing, origin |-> form.origin] \in PromptState
        BY <1>0 DEF FormType, PromptState
      <3> QED
        BY <1>0, <2>3, <3>1, AskType DEF saveLocalCredential, FormType
    <2>4. ASSUME NEW o \in Origins, NEW p \in Typed, TypeInForm(o, p)
          PROVE  FormType'
      <3>1. o \in Spellings /\ p \in Passwords
        BY VaultAssumption, SpellingsAssumption
      <3> QED
        BY <1>0, <2>4, <3>1 DEF TypeInForm, FormType
    <2>5. ASSUME NEW i \in Ids, showEditLogin(i)
          PROVE  FormType'
      <3>1. ASSUME NEW c \in WithId(store, i),
                   form' = [route |-> "editLogin", editing |-> i,
                            origin |-> c.origin, password |-> c.password]
            PROVE  form' \in [route: {"overview", "addLogin", "editLogin"}, editing: Ids \cup {None},
                              origin: Spellings, password: Passwords]
        <4>1. c \in Credential
          BY <1>0 DEF WithId, VaultType
        <4> QED
          BY <3>1, <4>1 DEF Credential
      <3>2. ShowRows => rows' \in SUBSET Ids
        BY <1>2, ShowRowsType DEF VaultType
      <3> QED
        BY <1>0, <2>5, <3>1, <3>2 DEF showEditLogin, FormType
    <2> QED
      BY <2>1, <2>2, <2>3, <2>4, <2>5
  <1> QED
    BY <1>2, <1>3 DEF TypeInv

(* Asking for the user's presence, and what needs no presence.             *)
LEMMA AskStepType ==
    ASSUME TypeInv,
           \/ \E op \in {"unlock", "export", "restore"} : AskFirst(op)
           \/ \E i \in Ids : copyPassword(i) \/ copyUsername(i) \/ requestDeleteLocalCredential(i)
           \/ cancelDeleteLocalCredential \/ confirmDeleteLocalCredential
           \/ refresh \/ ClipboardChanges
    PROVE  TypeInv'
  <1>0. FormType /\ VaultType
    BY DEF TypeInv
  <1>1. VaultKept
    BY DEF AskFirst, copyPassword, copyUsername, requestDeleteLocalCredential, VaultKept,
           cancelDeleteLocalCredential, confirmDeleteLocalCredential, refresh, ClipboardChanges
  <1>2. VaultType'
    BY <1>0, <1>1, VaultKeptType
  <1>3. ShowRows => rows' \in SUBSET Ids
    BY <1>2, ShowRowsType DEF VaultType
  <1>4. FormType'
    <2>1. ASSUME NEW op \in {"unlock", "export", "restore"}, AskFirst(op)
          PROVE  FormType'
      <3>1. Prompt(op) \in PromptState
        BY VaultAssumption DEF Prompt, PromptState
      <3> QED
        BY <1>0, <2>1, <3>1, AskType DEF AskFirst, FormType
    <2>2. ASSUME NEW i \in Ids, copyPassword(i)
          PROVE  FormType'
      <3>1. [Prompt("copy") EXCEPT !.id = i] \in PromptState
        BY PromptType
      <3> QED
        BY <1>0, <1>3, <2>2, <3>1, AskType DEF copyPassword, FormType
    <2>3. ASSUME NEW i \in Ids, copyUsername(i) \/ requestDeleteLocalCredential(i)
          PROVE  FormType'
      BY <1>0, <1>3, <2>3 DEF copyUsername, requestDeleteLocalCredential, FormType
    <2>4. CASE confirmDeleteLocalCredential
      <3>1. pendingDelete \in Ids
        BY <1>0, <2>4 DEF confirmDeleteLocalCredential, FormType
      <3>2. [Prompt("delete") EXCEPT !.id = pendingDelete] \in PromptState
        BY <3>1, PromptType
      <3> QED
        BY <1>0, <1>3, <2>4, <3>2, AskType DEF confirmDeleteLocalCredential, FormType
    <2>5. CASE cancelDeleteLocalCredential \/ refresh \/ ClipboardChanges
      BY <1>0, <1>3, <2>5 DEF cancelDeleteLocalCredential, refresh, ClipboardChanges, FormType
    <2> QED
      BY <2>1, <2>2, <2>3, <2>4, <2>5
  <1> QED
    BY <1>2, <1>4 DEF TypeInv

(* A granted operation goes on with well-typed locals. *)
LEMMA RunType ==
    ASSUME VaultType,
           NEW prompt, NEW op \in {"add", "edit", "delete", "restore", "unlock"},
           NEW pc \in {"write", "publish"}, pc = "write" => op # "unlock",
           NEW loaded \in SUBSET Credential,
           NEW next \in SUBSET Credential, HasUniqueIds(next),
           Run(prompt, op, pc, loaded, next),
           UNCHANGED <<store, backup, importer, durable, intended>>,
           ReadSession \/ UNCHANGED session
    PROVE  VaultType'
  <1>1. main' \in Main /\ main'.op = op /\ main'.pc = pc /\ main'.next = next
    BY DEF Run, Main
  <1>2. session' \in Session /\ HasUniqueIds(session'.credentials)
    <2>1. CASE ReadSession
      BY <2>1, SettledFacts DEF ReadSession, VaultType, UniqueEverywhere, HasUniqueIds
    <2>2. CASE UNCHANGED session
      BY <2>2 DEF VaultType, UniqueEverywhere
    <2> QED
      BY <2>1, <2>2
  <1>3. UniqueEverywhere' /\ WriteOps'
    BY <1>1, <1>2 DEF VaultType, UniqueEverywhere, WriteOps
  <1> QED
    BY <1>1, <1>2, <1>3 DEF VaultType

(* Removing logins, or replacing one by id, keeps ids unique. *)
LEMMA EditUnique ==
    ASSUME NEW v \in SUBSET Credential, HasUniqueIds(v), NEW c \in Credential
    PROVE  /\ Merge(v, {c}) \in SUBSET Credential
           /\ HasUniqueIds(Merge(v, {c}))
           /\ \A i : HasUniqueIds(v \ WithId(v, i))
  <1>1. HasUniqueIds({c})
    BY DEF HasUniqueIds
  <1> QED
    BY <1>1, MergeType, MergeUnique DEF HasUniqueIds

(* From the granted prompt on: the operations that go on to write or to    *)
(* publish.                                                                *)
LEMMA GrantRunType ==
    ASSUME TypeInv, NEW prompt \in prompts,
           \/ GrantEdit(prompt) \/ \E c \in Credential : GrantAdd(prompt, c)
           \/ GrantDelete(prompt) \/ GrantRestore(prompt) \/ GrantUnlock(prompt)
    PROVE  TypeInv'
  <1>0. FormType /\ VaultType
    BY DEF TypeInv
  <1>1. prompt \in PromptState
    BY <1>0 DEF FormType
  <1>2. ReadSession /\ UNCHANGED <<store, backup, main, importer, durable, intended>> => VaultType'
    BY <1>0, ReadSessionType
  <1>3. ShowRows /\ UNCHANGED store => rows' \in SUBSET Ids
    BY <1>0, ShowRowsType DEF VaultType
  <1>4. prompts \ {prompt} \in SUBSET PromptState
    BY <1>0 DEF FormType
  <1>5. CASE GrantEdit(prompt)
    <2>1. ASSUME NEW c \in WithId(store, prompt.id),
                 Run(prompt, "edit", "write", store,
                     Merge(store, {[c EXCEPT !.origin = prompt.origin,
                                             !.password = form.password]}))
          PROVE  VaultType'
      <3>1. c \in Credential
        BY <1>0 DEF WithId, VaultType
      <3>2. [c EXCEPT !.origin = prompt.origin, !.password = form.password] \in Credential
        BY <1>0, <1>1, <3>1 DEF Credential, PromptState, FormType
      <3> DEFINE next == Merge(store, {[c EXCEPT !.origin = prompt.origin,
                                                 !.password = form.password]})
      <3>3. next \in SUBSET Credential /\ HasUniqueIds(next)
        BY <1>0, <3>2, EditUnique DEF VaultType
      <3>4. ReadSession /\ UNCHANGED <<store, backup, importer, durable, intended>>
        BY <1>5 DEF GrantEdit
      <3>5. store \in SUBSET Credential
        BY <1>0 DEF VaultType
      <3>6. Run(prompt, "edit", "write", store, next)
        BY <2>1
      <3> HIDE DEF next
      <3> QED
        BY <1>0, <3>3, <3>4, <3>5, <3>6, RunType
    <2>2. VaultType'
      BY <1>2, <1>5, <2>1 DEF GrantEdit, Stop
    <2>3. FormType'
      BY <1>0, <1>3, <1>4, <1>5 DEF GrantEdit, Stop, Run, FormType
    <2> QED
      BY <2>2, <2>3 DEF TypeInv
  <1>6. ASSUME NEW c \in Credential, GrantAdd(prompt, c)
        PROVE  TypeInv'
    <2>1. \A d \in store : d.id # c.id
      BY <1>0, <1>6 DEF GrantAdd, GivenOut, IdsOf, VaultType, UniqueEverywhere
    <2>2. store \cup {c} \in SUBSET Credential /\ HasUniqueIds(store \cup {c})
      BY <1>0, <2>1 DEF VaultType, HasUniqueIds
    <2>3. store \in SUBSET Credential
      BY <1>0 DEF VaultType
    <2>4. VaultType'
      BY <1>0, <1>6, <2>2, <2>3, RunType DEF GrantAdd
    <2>5. FormType'
      BY <1>0, <1>4, <1>6 DEF GrantAdd, Run, FormType
    <2> QED
      BY <2>4, <2>5 DEF TypeInv
  <1>7. CASE GrantDelete(prompt)
    <2>1. /\ store \in SUBSET Credential
          /\ store \ WithId(store, prompt.id) \in SUBSET Credential
          /\ HasUniqueIds(store \ WithId(store, prompt.id))
      BY <1>0 DEF VaultType, HasUniqueIds
    <2>2. VaultType'
      BY <1>0, <1>2, <1>7, <2>1, RunType DEF GrantDelete, Stop
    <2>3. FormType'
      BY <1>0, <1>3, <1>4, <1>7 DEF GrantDelete, Stop, Run, FormType
    <2> QED
      BY <2>2, <2>3 DEF TypeInv
  <1>8. CASE GrantRestore(prompt)
    <2>1. backup \in SUBSET Credential /\ HasUniqueIds(backup)
      BY <1>0, <1>8 DEF GrantRestore, VaultType, UniqueEverywhere
    <2>2. VaultType'
      BY <1>0, <1>8, <2>1, RunType DEF GrantRestore
    <2>3. FormType'
      BY <1>0, <1>4, <1>8 DEF GrantRestore, Run, FormType
    <2> QED
      BY <2>2, <2>3 DEF TypeInv
  <1>9. CASE GrantUnlock(prompt)
    <2>1. store \in SUBSET Credential /\ HasUniqueIds(store)
      BY <1>0 DEF VaultType
    <2>2. VaultType'
      BY <1>0, <1>2, <1>9, <2>1, RunType DEF GrantUnlock, Stop
    <2>3. FormType'
      BY <1>0, <1>3, <1>4, <1>9 DEF GrantUnlock, Stop, Run, FormType
    <2> QED
      BY <2>2, <2>3 DEF TypeInv
  <1> QED
    BY <1>5, <1>6, <1>7, <1>8, <1>9

(* From the granted prompt on: the operations that end at once. *)
LEMMA GrantStopType ==
    ASSUME TypeInv, NEW prompt \in prompts,
           GiveUp(prompt) \/ GrantExport(prompt) \/ GrantCopy(prompt)
    PROVE  TypeInv'
  <1>0. FormType /\ VaultType
    BY DEF TypeInv
  <1>1. ShowRows /\ UNCHANGED store => rows' \in SUBSET Ids
    BY <1>0, ShowRowsType DEF VaultType
  <1>2. FormType'
    BY <1>0, <1>1 DEF GiveUp, GrantExport, GrantCopy, Stop, FormType
  <1>3. CASE GiveUp(prompt) \/ GrantCopy(prompt)
    <2>1. VaultKept
      BY <1>3 DEF GiveUp, GrantCopy, Stop, VaultKept
    <2> QED
      BY <1>0, <1>2, <2>1, VaultKeptType DEF TypeInv
  <1>4. CASE GrantExport(prompt)
    <2>1. session' \in Session /\ HasUniqueIds(session'.credentials)
      BY <1>0, <1>4, SettledFacts DEF GrantExport, ReadSession, VaultType, UniqueEverywhere, HasUniqueIds
    <2>2. UniqueEverywhere' /\ WriteOps'
      BY <1>0, <1>4, <2>1 DEF GrantExport, Stop, VaultType, UniqueEverywhere, WriteOps
    <2>3. VaultType'
      BY <1>0, <1>4, <2>1, <2>2 DEF GrantExport, Stop, VaultType
    <2> QED
      BY <1>2, <2>3 DEF TypeInv
  <1> QED
    BY <1>3, <1>4

(* What an operation means for a vault is a vault. *)
LEMMA MeantType ==
    ASSUME VaultType, main.pc = "write", NEW v \in SUBSET Credential
    PROVE  Meant(v) \in SUBSET Credential
  <1>1. /\ main.loaded \in SUBSET Credential /\ main.next \in SUBSET Credential
        /\ main.op \in {"add", "edit", "delete", "restore"}
    BY DEF VaultType, Main, WriteOps
  <1>2. Merge(v, main.next \ main.loaded) \in SUBSET Credential
    BY <1>1, MergeType
  <1>3. CASE main.op = "add"
    BY <1>1, <1>3 DEF Meant
  <1>4. CASE main.op = "edit"
    BY <1>2, <1>4 DEF Meant
  <1>5. CASE main.op = "delete"
    BY <1>5 DEF Meant
  <1>6. CASE main.op = "restore"
    BY <1>1, <1>6 DEF Meant
  <1> QED
    BY <1>1, <1>3, <1>4, <1>5, <1>6

(* Writing the file, published afterwards or not. *)
LEMMA WriteVaultType ==
    ASSUME TypeInv, WriteVault
    PROVE  TypeInv'
  <1>0. FormType /\ VaultType
    BY DEF TypeInv
  <1>1. /\ IdleMain \in Main /\ IdleMain.pc = "idle" /\ IdleMain.next = {}
        /\ main \in Main /\ main.next \in SUBSET Credential /\ HasUniqueIds(main.next)
    BY <1>0 DEF IdleMain, Main, VaultType, UniqueEverywhere
  <1>2. main' = IdleMain \/ main' = [main EXCEPT !.pc = "publish"]
    BY DEF WriteVault
  <1>3. main' \in Main /\ HasUniqueIds(main'.next) /\ main'.pc # "write"
    BY <1>1, <1>2 DEF Main, HasUniqueIds
  <1>4. store' \in SUBSET Credential /\ HasUniqueIds(store')
    BY <1>0, <1>1 DEF WriteVault, VaultType
  <1>5. durable' \in SUBSET Credential /\ store' \subseteq durable'
    BY <1>0, <1>4 DEF WriteVault, VaultType, UniqueEverywhere
  <1>6. intended' \in SUBSET Credential
    BY <1>0, MeantType DEF WriteVault, VaultType
  <1>7. session' \in Session /\ HasUniqueIds(session'.credentials)
    BY <1>0, SettledFacts DEF WriteVault, ReadSession, VaultType, UniqueEverywhere, HasUniqueIds
  <1>8. UniqueEverywhere' /\ WriteOps'
    BY <1>0, <1>3, <1>5, <1>7 DEF WriteVault, VaultType, UniqueEverywhere, WriteOps
  <1>9. VaultType'
    BY <1>0, <1>3, <1>4, <1>5, <1>6, <1>7, <1>8 DEF WriteVault, VaultType
  <1>10. FormType'
    <2>1. ShowRows => rows' \in SUBSET Ids
      BY <1>4, ShowRowsType
    <2> QED
      BY <1>0, <2>1, ClosedFormType DEF WriteVault, FormType
  <1> QED
    BY <1>9, <1>10 DEF TypeInv

(* Publishing what was written, and locking. *)
LEMMA PublishType ==
    ASSUME TypeInv, Publish \/ lock
    PROVE  TypeInv'
  <1>0. FormType /\ VaultType
    BY DEF TypeInv
  <1>1. /\ IdleMain \in Main /\ IdleMain.pc = "idle" /\ HasUniqueIds(IdleMain.next)
        /\ main.next \in SUBSET Credential /\ HasUniqueIds(main.next)
    BY <1>0 DEF IdleMain, Main, VaultType, UniqueEverywhere, HasUniqueIds
  <1>2. CASE Publish
    <2>1. session' \in Session /\ HasUniqueIds(session'.credentials)
      BY <1>1, <1>2, UnlockType DEF Publish
    <2>2. UniqueEverywhere' /\ WriteOps'
      BY <1>0, <1>1, <1>2, <2>1 DEF Publish, VaultType, UniqueEverywhere, WriteOps
    <2>3. VaultType'
      BY <1>0, <1>1, <1>2, <2>1, <2>2 DEF Publish, VaultType
    <2>4. rows' \in SUBSET Ids
      BY <1>2, <2>3, ShowRowsType DEF Publish, VaultType
    <2>5. FormType'
      BY <1>0, <1>2, <2>4, ClosedFormType DEF Publish, FormType
    <2> QED
      BY <2>3, <2>5 DEF TypeInv
  <1>3. CASE lock
    <2>1. session' \in Session /\ HasUniqueIds(session'.credentials)
      BY <1>3 DEF lock, LockedSession, Session, HasUniqueIds
    <2>2. VaultType'
      BY <1>0, <1>3, <2>1 DEF lock, VaultType, UniqueEverywhere, WriteOps
    <2>3. FormType'
      BY <1>0, <1>3, ClosedFormType DEF lock, FormType
    <2> QED
      BY <2>2, <2>3 DEF TypeInv
  <1> QED
    BY <1>2, <1>3

(* The importer's three calls. *)
LEMMA ImportType ==
    ASSUME TypeInv, (\E w \in Batches : StartImport(w)) \/ SaveImport \/ UnlockImport
    PROVE  TypeInv'
  <1>0. FormType /\ VaultType
    BY DEF TypeInv
  <1>1. FormType'
    BY <1>0 DEF StartImport, SaveImport, UnlockImport, FormType
  <1>2. ASSUME NEW w \in Batches, StartImport(w)
        PROVE  VaultType'
    <2>1. session' \in Session /\ HasUniqueIds(session'.credentials)
      BY <1>0, <1>2, SettledFacts DEF StartImport, ReadSession, VaultType, UniqueEverywhere, HasUniqueIds
    <2>2. w \in SUBSET Credential /\ HasUniqueIds(w)
      BY VaultAssumption
    <2>3. NormalizeAll(w) \in SUBSET Credential /\ HasUniqueIds(NormalizeAll(w))
      BY <2>2, NormalizeAllFacts, NormalizeAllUnique
    <2>4. session'.credentials \in SUBSET Credential
      BY <2>1 DEF Session
    <2> DEFINE merged == Merge(session'.credentials, NormalizeAll(w))
    <2>5. merged \in SUBSET Credential /\ HasUniqueIds(merged)
      BY <2>1, <2>3, <2>4, MergeType, MergeUnique
    <2>6. \/ importer' = None
          \/ importer' = [pc |-> "save", batch |-> NormalizeAll(w), merged |-> merged]
      BY <1>2 DEF StartImport
    <2> HIDE DEF merged
    <2>7. importer' \in Import \cup {None} /\ (importer' # None => HasUniqueIds(importer'.merged))
      BY <2>3, <2>5, <2>6 DEF Import
    <2>8. UniqueEverywhere' /\ WriteOps'
      BY <1>0, <1>2, <2>1, <2>7 DEF StartImport, VaultType, UniqueEverywhere, WriteOps
    <2> QED
      BY <1>0, <1>2, <2>1, <2>7, <2>8 DEF StartImport, VaultType
  <1>3. CASE SaveImport
    <2>1. /\ importer \in Import /\ importer.merged \in SUBSET Credential
          /\ importer.batch \in SUBSET Credential /\ HasUniqueIds(importer.merged)
      BY <1>0, <1>3 DEF SaveImport, VaultType, Import, UniqueEverywhere
    <2>2. Merge(intended, importer.batch) \in SUBSET Credential
      BY <1>0, <2>1, MergeType DEF VaultType
    <2>3. [importer EXCEPT !.pc = "unlock"] \in Import
      BY <2>1 DEF Import
    <2>4. [importer EXCEPT !.pc = "unlock"].merged = importer.merged
      BY <2>1 DEF Import
    <2>5. UniqueEverywhere' /\ WriteOps'
      BY <1>0, <1>3, <2>1, <2>4 DEF SaveImport, VaultType, UniqueEverywhere, WriteOps
    <2>6. VaultType'
      BY <1>0, <1>3, <2>1, <2>2, <2>3, <2>5 DEF SaveImport, VaultType
    <2> QED
      BY <1>1, <2>6 DEF TypeInv
  <1>4. CASE UnlockImport
    <2>1. importer.merged \in SUBSET Credential /\ HasUniqueIds(importer.merged)
      BY <1>0, <1>4 DEF UnlockImport, VaultType, Import, UniqueEverywhere
    <2>2. session' \in Session /\ HasUniqueIds(session'.credentials)
      BY <1>4, <2>1, UnlockType DEF UnlockImport
    <2>3. UniqueEverywhere' /\ WriteOps'
      BY <1>0, <1>4, <2>2 DEF UnlockImport, VaultType, UniqueEverywhere, WriteOps
    <2>4. VaultType'
      BY <1>0, <1>4, <2>2, <2>3 DEF UnlockImport, VaultType
    <2> QED
      BY <1>1, <2>4 DEF TypeInv
  <1> QED
    BY <1>1, <1>2, <1>3, <1>4 DEF TypeInv

(* Time and restarts. *)
LEMMA EnvironmentType ==
    ASSUME TypeInv, DeadlinePasses \/ Restart
    PROVE  TypeInv'
  <1>0. FormType /\ VaultType
    BY DEF TypeInv
  <1>1. session' \in Session /\ HasUniqueIds(session'.credentials)
    BY <1>0 DEF DeadlinePasses, Restart, Overdue, LockedSession, Session, VaultType,
                UniqueEverywhere, HasUniqueIds
  <1>2. IdleMain \in Main /\ IdleMain.pc = "idle" /\ HasUniqueIds(IdleMain.next)
    BY DEF IdleMain, Main, HasUniqueIds
  <1>3. UniqueEverywhere' /\ WriteOps'
    BY <1>0, <1>1, <1>2 DEF DeadlinePasses, Restart, VaultType, UniqueEverywhere, WriteOps
  <1>4. VaultType'
    BY <1>0, <1>1, <1>2, <1>3 DEF DeadlinePasses, Restart, VaultType
  <1>5. FormType'
    BY <1>0, ClosedFormType DEF DeadlinePasses, Restart, FormType
  <1> QED
    BY <1>4, <1>5 DEF TypeInv

(* Every step keeps the types and the unique ids. *)
LEMMA TypeStep == TypeInv /\ [Next]_vars => TypeInv'
  <1> SUFFICES ASSUME TypeInv, [Next]_vars PROVE TypeInv'
    OBVIOUS
  <1>1. CASE UNCHANGED vars
    <2>1. VaultKept /\ VaultType
      BY <1>1 DEF vars, VaultKept, TypeInv
    <2>2. FormType'
      BY <1>1 DEF vars, FormType, TypeInv
    <2> QED
      BY <2>1, <2>2, VaultKeptType DEF TypeInv
  <1>2. ASSUME NEW prompt \in prompts, Grant(prompt) \/ GiveUp(prompt)
        PROVE  TypeInv'
    BY <1>2, GrantRunType, GrantStopType DEF Grant
  <1>3. CASE \/ showAddLogin \/ cancelAddLogin \/ saveLocalCredential
             \/ \E o \in Origins, p \in Typed : TypeInForm(o, p)
             \/ \E i \in Ids : showEditLogin(i)
    BY <1>3, FormStepType
  <1>4. CASE \/ \E op \in {"unlock", "export", "restore"} : AskFirst(op)
             \/ \E i \in Ids : copyPassword(i) \/ copyUsername(i) \/ requestDeleteLocalCredential(i)
             \/ cancelDeleteLocalCredential \/ confirmDeleteLocalCredential
             \/ refresh \/ ClipboardChanges
    BY <1>4, AskStepType
  <1>5. CASE WriteVault \/ Publish \/ lock
    BY <1>5, WriteVaultType, PublishType
  <1>6. CASE (\E w \in Batches : StartImport(w)) \/ SaveImport \/ UnlockImport
    BY <1>6, ImportType
  <1>7. CASE DeadlinePasses \/ Restart
    BY <1>7, EnvironmentType
  <1> QED
    BY <1>1, <1>2, <1>3, <1>4, <1>5, <1>6, <1>7 DEF Next

(* Every variable keeps its type, and no sequence of edits, restores and   *)
(* imports leaves two logins with one id in the vault file, which          *)
(* CompanionViewModel finds, replaces and deletes by id.                   *)
THEOREM TypeCorrect == Spec => []TypeOK
    BY TypeInit, TypeStep, TypeInvTypeOK, PTL DEF Spec

(* TypeOK together with what makes it inductive. *)
LEMMA TypeInvariant == Spec => []TypeInv
    BY TypeInit, TypeStep, PTL DEF Spec

-----------------------------------------------------------------------------
(* A locked companion shows and remembers nothing. *)

(* What a step that may leave the session locked does to the screen.       *)
ScreenKeptOrCleared ==
    /\ IsLocked(session') => IsLocked(session)
    /\ rows' = rows \/ rows' = {} \/ (IsUnlocked(session') /\ ShowRows)
    /\ form'.editing = form.editing \/ form'.editing = None \/ IsUnlocked(session')
    /\ pendingDelete' = pendingDelete \/ pendingDelete' = None \/ IsUnlocked(session')

(* Such a step shows nothing on a locked screen.                           *)
LEMMA ScreenStep ==
    ASSUME LockForgets, ScreenKeptOrCleared
    PROVE  LockForgets'
    BY DEF LockForgets, ScreenKeptOrCleared, IsLocked, IsUnlocked

(* Reading the state does not lock an unlocked session: it leaves it with  *)
(* attention.                                                              *)
LEMMA ReadKeepsUnlocked ==
    ASSUME TypeInv, ReadSession \/ UNCHANGED session, IsLocked(session')
    PROVE  IsLocked(session)
    BY SettledFacts DEF ReadSession, TypeInv, VaultType

(* Every step keeps a locked companion's screen empty.                     *)
LEMMA LockForgetsStep == TypeInv /\ LockForgets /\ [Next]_vars => LockForgets'
  <1> SUFFICES ASSUME TypeInv, LockForgets, [Next]_vars PROVE LockForgets'
    OBVIOUS
  <1>1. CASE UNCHANGED vars
    BY <1>1 DEF vars, LockForgets
  <1>2. CASE \/ showAddLogin \/ cancelAddLogin \/ saveLocalCredential
             \/ \E o \in Origins, p \in Typed : TypeInForm(o, p)
             \/ \E op \in {"unlock", "export", "restore"} : AskFirst(op)
             \/ cancelDeleteLocalCredential \/ ClipboardChanges
             \/ (\E w \in Batches : StartImport(w)) \/ SaveImport
    <2>1. ReadSession \/ UNCHANGED session
      BY <1>2 DEF showAddLogin, cancelAddLogin, saveLocalCredential, TypeInForm, AskFirst,
                  cancelDeleteLocalCredential, ClipboardChanges, StartImport, SaveImport
    <2>2. form'.editing = form.editing \/ form'.editing = None
      <3>1. CASE showAddLogin \/ \E o \in Origins, p \in Typed : TypeInForm(o, p)
        BY <3>1 DEF showAddLogin, TypeInForm, TypeInv, FormType
      <3>2. CASE cancelAddLogin
        BY <3>2 DEF cancelAddLogin, ClosedForm
      <3> QED
        BY <1>2, <3>1, <3>2 DEF saveLocalCredential, AskFirst, cancelDeleteLocalCredential,
                  ClipboardChanges, StartImport, SaveImport
    <2>3. rows' = rows /\ (pendingDelete' = pendingDelete \/ pendingDelete' = None)
      BY <1>2 DEF showAddLogin, cancelAddLogin, saveLocalCredential, TypeInForm, AskFirst,
                  cancelDeleteLocalCredential, ClipboardChanges, StartImport, SaveImport
    <2> QED
      BY <2>1, <2>2, <2>3, ReadKeepsUnlocked, ScreenStep DEF ScreenKeptOrCleared
  <1>3. CASE \/ \E i \in Ids : showEditLogin(i) \/ copyPassword(i) \/ copyUsername(i)
             \/ \E i \in Ids : requestDeleteLocalCredential(i)
             \/ confirmDeleteLocalCredential \/ refresh
    <2>1. ReadSession
      BY <1>3 DEF showEditLogin, copyPassword, copyUsername, requestDeleteLocalCredential,
                  confirmDeleteLocalCredential, refresh
    <2>2. form' = form \/ IsUnlocked(session')
      BY <1>3 DEF showEditLogin, copyPassword, copyUsername, requestDeleteLocalCredential,
                  confirmDeleteLocalCredential, refresh
    <2>3. pendingDelete' = pendingDelete \/ pendingDelete' = None \/ IsUnlocked(session')
      BY <1>3 DEF showEditLogin, copyPassword, copyUsername, requestDeleteLocalCredential,
                  confirmDeleteLocalCredential, refresh
    <2>4. rows' = rows \/ ShowRows
      BY <1>3 DEF showEditLogin, copyPassword, copyUsername, requestDeleteLocalCredential,
                  confirmDeleteLocalCredential, refresh
    <2> QED
      BY <2>1, <2>2, <2>3, <2>4, ReadKeepsUnlocked, ScreenStep DEF ScreenKeptOrCleared, ShowRows
  <1>4. ASSUME NEW prompt \in prompts, Grant(prompt) \/ GiveUp(prompt)
        PROVE  LockForgets'
    <2>1. /\ ReadSession \/ UNCHANGED session
          /\ rows' = rows \/ ShowRows
          /\ form' = form
          /\ pendingDelete' = pendingDelete \/ pendingDelete' = None
      BY <1>4 DEF Grant, GiveUp, GrantEdit, GrantAdd, GrantDelete, GrantRestore, GrantUnlock,
                  GrantExport, GrantCopy
    <2> QED
      BY <2>1, ReadKeepsUnlocked, ScreenStep DEF ScreenKeptOrCleared, ShowRows
  <1>5. CASE WriteVault
    <2>1. /\ ReadSession \/ UNCHANGED session
          /\ rows' = rows \/ ShowRows
          /\ form' = form \/ form'.editing = None
          /\ pendingDelete' = pendingDelete
      BY <1>5 DEF WriteVault, ClosedForm
    <2> QED
      BY <2>1, ReadKeepsUnlocked, ScreenStep DEF ScreenKeptOrCleared, ShowRows
  <1>6. CASE Publish \/ UnlockImport
    BY <1>6 DEF Publish, UnlockImport, UnlockedSession, LockForgets, IsLocked
  <1>7. CASE lock \/ Restart
    BY <1>7 DEF lock, Restart, ClosedForm, LockForgets
  <1>8. CASE DeadlinePasses
    BY <1>8 DEF DeadlinePasses, Overdue, LockForgets, IsLocked, TypeInv, VaultType, Session
  <1> QED
    BY <1>1, <1>2, <1>3, <1>4, <1>5, <1>6, <1>7, <1>8 DEF Next

(* lock() forgets the list, the login being edited and the delete to be    *)
(* confirmed, and nothing that was going on - prompts, an import, a write  *)
(* - brings any of it back while the vault is locked                       *)
(* (CompanionViewModel.lock and its isUnlocked checks).                    *)
THEOREM LockAlwaysForgets == Spec => []LockForgets
  <1>1. Init => LockForgets
    BY DEF Init, ClosedForm, LockForgets
  <1> QED
    BY <1>1, LockForgetsStep, TypeInvariant, PTL DEF Spec

-----------------------------------------------------------------------------
(* Nothing is served that was not saved. *)

(* Whoever is about to unlock the session has saved what it will serve.    *)
SavedBeforeServed ==
    /\ ServedWasSaved
    /\ main.pc = "publish" => main.next \subseteq durable
    /\ importer # None /\ importer.pc = "unlock" => importer.merged \subseteq durable

(* Steps that unlock nothing and save nothing. *)
LEMMA SavedKept ==
    ASSUME TypeInv, SavedBeforeServed,
           ReadSession \/ UNCHANGED session,
           main' = main \/ main'.pc # "publish" \/ (main'.next = store),
           importer' = importer \/ importer' = None \/ importer'.pc = "save",
           durable' = durable
    PROVE  SavedBeforeServed'
  <1>1. session'.credentials \subseteq session.credentials
    BY SettledFacts DEF ReadSession, TypeInv, VaultType
  <1> QED
    BY <1>1 DEF SavedBeforeServed, ServedWasSaved, TypeInv, VaultType, UniqueEverywhere

(* Every step saves before it serves.                                      *)
LEMMA SavedStep == TypeInv /\ SavedBeforeServed /\ [Next]_vars => SavedBeforeServed'
  <1> SUFFICES ASSUME TypeInv, SavedBeforeServed, [Next]_vars PROVE SavedBeforeServed'
    OBVIOUS
  <1>1. CASE UNCHANGED vars
    BY <1>1, SavedKept DEF vars
  <1>2. CASE \/ showAddLogin \/ cancelAddLogin \/ saveLocalCredential
             \/ \E o \in Origins, p \in Typed : TypeInForm(o, p)
             \/ \E i \in Ids : showEditLogin(i)
    BY <1>2, SavedKept DEF showAddLogin, cancelAddLogin, saveLocalCredential, TypeInForm, showEditLogin
  <1>3. CASE \/ \E op \in {"unlock", "export", "restore"} : AskFirst(op)
             \/ \E i \in Ids : copyPassword(i) \/ copyUsername(i) \/ requestDeleteLocalCredential(i)
             \/ cancelDeleteLocalCredential \/ confirmDeleteLocalCredential
             \/ refresh \/ ClipboardChanges
    BY <1>3, SavedKept DEF AskFirst, copyPassword, copyUsername, requestDeleteLocalCredential,
       cancelDeleteLocalCredential, confirmDeleteLocalCredential, refresh, ClipboardChanges
  <1>4. ASSUME NEW prompt \in prompts, Grant(prompt) \/ GiveUp(prompt)
        PROVE  SavedBeforeServed'
    <2>1. UNCHANGED <<importer, durable>> /\ (ReadSession \/ UNCHANGED session)
      BY <1>4 DEF Grant, GiveUp, GrantEdit, GrantAdd, GrantDelete, GrantRestore,
         GrantUnlock, GrantExport, GrantCopy
    <2>2. main' = main \/ main'.pc # "publish" \/ main'.next = store
      <3>1. CASE GrantUnlock(prompt)
        BY <3>1 DEF GrantUnlock, Run, Stop
      <3>2. CASE GrantEdit(prompt) \/ GrantDelete(prompt) \/ GrantRestore(prompt)
        <4>1. main' = main \/ \E op, v, w : main' = [op |-> op, pc |-> "write", loaded |-> v, next |-> w]
          BY <3>2 DEF GrantEdit, GrantDelete, GrantRestore, Run, Stop
        <4> QED
          BY <4>1
      <3>3. ASSUME NEW c \in Credential, GrantAdd(prompt, c)
            PROVE  main'.pc # "publish"
        BY <3>3 DEF GrantAdd, Run
      <3> QED
        BY <1>4, <3>1, <3>2, <3>3 DEF Grant, GiveUp, GrantExport, GrantCopy, Stop
    <2> QED
      BY <2>1, <2>2, SavedKept
  <1>5. CASE WriteVault
    <2>1. session'.credentials \subseteq session.credentials
      BY <1>5, SettledFacts DEF WriteVault, ReadSession, TypeInv, VaultType
    <2>2. durable \subseteq durable' /\ NormalizeAll(durable) \subseteq NormalizeAll(durable')
      BY <1>5, NormalizeAllMonotone DEF WriteVault
    <2>3. main'.pc = "publish" => main'.next \subseteq durable'
      BY <1>5 DEF WriteVault, IdleMain, TypeInv, VaultType, Main
    <2> QED
      BY <1>5, <2>1, <2>2, <2>3 DEF WriteVault, SavedBeforeServed, ServedWasSaved
  <1>6. CASE Publish
    <2>1. NormalizeAll(main.next) \subseteq NormalizeAll(durable)
      BY <1>6, NormalizeAllMonotone DEF Publish, SavedBeforeServed
    <2> QED
      BY <1>6, <2>1 DEF Publish, UnlockedSession, IdleMain, SavedBeforeServed, ServedWasSaved
  <1>7. CASE lock \/ Restart
    BY <1>7 DEF lock, Restart, LockedSession, IdleMain, SavedBeforeServed, ServedWasSaved
  <1>8. ASSUME NEW w \in Batches, StartImport(w)
        PROVE  SavedBeforeServed'
    BY <1>8, SavedKept DEF StartImport
  <1>9. CASE SaveImport
    <2>1. durable \subseteq durable' /\ NormalizeAll(durable) \subseteq NormalizeAll(durable')
      BY <1>9, NormalizeAllMonotone DEF SaveImport
    <2>2. importer \in Import
      BY <1>9 DEF SaveImport, TypeInv, VaultType
    <2>3. importer' # None => importer'.merged \subseteq durable'
      BY <1>9, <2>2 DEF SaveImport, Import
    <2> QED
      BY <1>9, <2>1, <2>3 DEF SaveImport, SavedBeforeServed, ServedWasSaved
  <1>10. CASE UnlockImport
    <2>1. NormalizeAll(importer.merged) \subseteq NormalizeAll(durable)
      BY <1>10, NormalizeAllMonotone DEF UnlockImport, SavedBeforeServed
    <2> QED
      BY <1>10, <2>1 DEF UnlockImport, UnlockedSession, SavedBeforeServed, ServedWasSaved
  <1>11. CASE DeadlinePasses
    <2>1. session'.credentials = session.credentials
      BY <1>11 DEF DeadlinePasses, Overdue, TypeInv, VaultType, Session
    <2> QED
      BY <1>11, <2>1 DEF DeadlinePasses, SavedBeforeServed, ServedWasSaved
  <1> QED
    BY <1>1, <1>2, <1>3, <1>4, <1>5, <1>6, <1>7, <1>8, <1>9, <1>10, <1>11 DEF Next

(* The session never serves a login the vault file has never held, however *)
(* saves fail and whatever the main actor and the importer have in flight: *)
(* both save before they unlock.                                           *)
THEOREM OnlySavedLoginsServed == Spec => []ServedWasSaved
  <1>1. Init => SavedBeforeServed
    BY DEF Init, LockedSession, IdleMain, SavedBeforeServed, ServedWasSaved
  <1>2. SavedBeforeServed => ServedWasSaved
    BY DEF SavedBeforeServed
  <1> QED
    BY <1>1, <1>2, SavedStep, TypeInvariant, PTL DEF Spec

-----------------------------------------------------------------------------
(* Without imports, no completed change is undone and the session follows  *)
(* the file.  (With imports the runs find both violated.)                  *)

(* The operation in flight started from the file as it is, so writing it   *)
(* now is what it means for the file.                                      *)
WritesWhatItMeans ==
    /\ importer = None
    /\ main.pc = "write" => Meant(store) = main.next
    /\ main.pc = "write" /\ main.op = "add" => store \subseteq main.next
    /\ main.pc = "publish" => main.next = store

(* Only while a write waits to be published may the session be behind.     *)
SessionFollows == main.pc # "publish" => session.credentials \subseteq NormalizeAll(store)

NoImportInv == NoLostUpdate /\ WritesWhatItMeans /\ SessionFollows

(* Replacing a login by one with the same id twice is replacing it once.   *)
LEMMA EditMeant ==
    ASSUME NEW v \in SUBSET Credential, HasUniqueIds(v), NEW c \in v,
           NEW d \in Credential, d.id = c.id
    PROVE  Merge(v, Merge(v, {d}) \ v) = Merge(v, {d})
  <1>1. Merge(v, {d}) = {e \in v : e.id # d.id} \cup {d}
    BY DEF Merge
  <1>2. CASE d \in v
    <2>1. Merge(v, {d}) = v
      BY <1>1, <1>2 DEF HasUniqueIds
    <2> QED
      BY <2>1 DEF Merge
  <1>3. CASE d \notin v
    <2>1. Merge(v, {d}) \ v = {d}
      BY <1>1, <1>3
    <2> QED
      BY <2>1
  <1> QED
    BY <1>2, <1>3

(* Steps that write nothing and start nothing.                             *)
LEMMA NoImportKept ==
    ASSUME TypeInv, NoImportInv, ReadSession \/ UNCHANGED session,
           UNCHANGED <<store, main, importer, intended>>
    PROVE  NoImportInv'
  <1>1. session'.credentials \subseteq session.credentials
    BY SettledFacts DEF ReadSession, TypeInv, VaultType
  <1>2. Meant(store)' = Meant(store)
    BY DEF Meant
  <1> QED
    BY <1>1, <1>2 DEF NoImportInv, NoLostUpdate, WritesWhatItMeans, SessionFollows

(* A granted operation starts from the file as it is now.                  *)
LEMMA NoImportRun ==
    ASSUME TypeInv, NoImportInv, ReadSession \/ UNCHANGED session, main.pc = "idle",
           UNCHANGED <<store, importer, intended>>,
           main'.pc = "write" => Meant(store)' = main'.next,
           main'.pc = "write" /\ main'.op = "add" => store \subseteq main'.next,
           main'.pc = "publish" => main'.next = store
    PROVE  NoImportInv'
  <1>1. session'.credentials \subseteq session.credentials
    BY SettledFacts DEF ReadSession, TypeInv, VaultType
  <1> QED
    BY <1>1 DEF NoImportInv, NoLostUpdate, WritesWhatItMeans, SessionFollows

(* Whatever prompt is answered, the operation starts from the file.        *)
LEMMA NoImportGrant ==
    ASSUME TypeInv, NoImportInv, NEW prompt \in prompts, Grant(prompt) \/ GiveUp(prompt)
    PROVE  NoImportInv'
  <1>0. /\ store \in SUBSET Credential /\ HasUniqueIds(store)
        /\ form.password \in Passwords /\ prompt.origin \in Spellings
    BY DEF TypeInv, FormType, VaultType, PromptState
  <1>1. /\ ReadSession \/ UNCHANGED session
        /\ main.pc = "idle"
        /\ UNCHANGED <<store, importer, intended>>
    BY DEF Grant, GiveUp, GrantEdit, GrantAdd, GrantDelete, GrantRestore,
       GrantUnlock, GrantExport, GrantCopy, MainIdle
  <1>2. CASE UNCHANGED main
    BY <1>1, <1>2, NoImportKept
  <1>3. ASSUME NEW c \in WithId(store, prompt.id),
               Run(prompt, "edit", "write", store,
                   Merge(store, {[c EXCEPT !.origin = prompt.origin,
                                           !.password = form.password]}))
        PROVE  NoImportInv'
    <2> DEFINE d == [c EXCEPT !.origin = prompt.origin, !.password = form.password]
    <2>1. c \in store /\ d \in Credential /\ d.id = c.id
      BY <1>0 DEF WithId, Credential
    <2>2. Merge(store, Merge(store, {d}) \ store) = Merge(store, {d})
      BY <1>0, <2>1, EditMeant
    <2> DEFINE next == Merge(store, {d})
    <2>3. main' = [op |-> "edit", pc |-> "write", loaded |-> store, next |-> next]
      BY <1>3 DEF Run
    <2> HIDE DEF next
    <2>4. Meant(store)' = Merge(store', next \ store)
      BY <2>3 DEF Meant
    <2>5. Meant(store)' = next
      BY <1>1, <2>2, <2>4 DEF next
    <2>6. main'.pc = "write" /\ main'.op = "edit" /\ main'.next = next
      BY <2>3
    <2> QED
      BY <1>1, <2>5, <2>6, NoImportRun
  <1>4. ASSUME NEW c \in Credential, GrantAdd(prompt, c)
        PROVE  NoImportInv'
    <2>1. main' = [op |-> "add", pc |-> "write", loaded |-> store, next |-> store \cup {c}]
      BY <1>4 DEF GrantAdd, Run
    <2>2. Meant(store)' = store' \cup ((store \cup {c}) \ store)
      BY <2>1 DEF Meant
    <2>3. Meant(store)' = store \cup {c}
      BY <1>1, <2>2
    <2>4. main'.pc = "write" /\ main'.op = "add" /\ main'.next = store \cup {c}
      BY <2>1
    <2> QED
      BY <1>1, <2>3, <2>4, NoImportRun
  <1>5. ASSUME Run(prompt, "delete", "write", store, store \ WithId(store, prompt.id))
        PROVE  NoImportInv'
    <2> DEFINE next == store \ WithId(store, prompt.id)
    <2>1. main' = [op |-> "delete", pc |-> "write", loaded |-> store, next |-> next]
      BY <1>5 DEF Run
    <2> HIDE DEF next
    <2>2. Meant(store)' = {c \in store' : c.id \notin IdsOf(store) \ IdsOf(next)}
      BY <2>1 DEF Meant
    <2>3. \A c \in store : c.id \in IdsOf(store) \ IdsOf(next) <=> c.id = prompt.id
      BY DEF IdsOf, WithId, next
    <2>4. Meant(store)' = next
      BY <1>1, <2>2, <2>3 DEF next, WithId
    <2>5. main'.pc = "write" /\ main'.op = "delete" /\ main'.next = next
      BY <2>1
    <2> QED
      BY <1>1, <2>4, <2>5, NoImportRun
  <1>6. CASE GrantRestore(prompt)
    <2>1. main' = [op |-> "restore", pc |-> "write", loaded |-> {}, next |-> backup]
      BY <1>6 DEF GrantRestore, Run
    <2>2. Meant(store)' = backup
      BY <2>1 DEF Meant
    <2>3. main'.pc = "write" /\ main'.op = "restore" /\ main'.next = backup
      BY <2>1
    <2> QED
      BY <1>1, <2>2, <2>3, NoImportRun
  <1>7. ASSUME Run(prompt, "unlock", "publish", store, store)
        PROVE  NoImportInv'
    <2>1. main'.pc = "publish" /\ main'.next = store
      BY <1>7 DEF Run
    <2> QED
      BY <1>1, <2>1, NoImportRun
  <1>8. CASE GrantEdit(prompt)
    BY <1>2, <1>3, <1>8 DEF GrantEdit, Stop
  <1>9. CASE GrantDelete(prompt)
    BY <1>2, <1>5, <1>9 DEF GrantDelete, Stop
  <1>10. CASE GrantUnlock(prompt)
    BY <1>2, <1>7, <1>10 DEF GrantUnlock, Stop
  <1>11. CASE GiveUp(prompt) \/ GrantExport(prompt) \/ GrantCopy(prompt)
    BY <1>2, <1>11 DEF GiveUp, GrantExport, GrantCopy, Stop
  <1> QED
    BY <1>4, <1>6, <1>8, <1>9, <1>10, <1>11 DEF Grant

(* Every step keeps the file at what the completed operations mean.        *)
LEMMA NoImportStep ==
    ASSUME Batches = {}
    PROVE  TypeInv /\ NoImportInv /\ [Next]_vars => NoImportInv'
  <1> SUFFICES ASSUME TypeInv, NoImportInv, [Next]_vars PROVE NoImportInv'
    OBVIOUS
  <1>1. CASE UNCHANGED vars
    BY <1>1, NoImportKept DEF vars
  <1>2. CASE \/ showAddLogin \/ cancelAddLogin \/ saveLocalCredential
             \/ \E o \in Origins, p \in Typed : TypeInForm(o, p)
             \/ \E i \in Ids : showEditLogin(i)
    BY <1>2, NoImportKept DEF showAddLogin, cancelAddLogin, saveLocalCredential, TypeInForm, showEditLogin
  <1>3. CASE \/ \E op \in {"unlock", "export", "restore"} : AskFirst(op)
             \/ \E i \in Ids : copyPassword(i) \/ copyUsername(i) \/ requestDeleteLocalCredential(i)
             \/ cancelDeleteLocalCredential \/ confirmDeleteLocalCredential
             \/ refresh \/ ClipboardChanges
    BY <1>3, NoImportKept DEF AskFirst, copyPassword, copyUsername, requestDeleteLocalCredential,
       cancelDeleteLocalCredential, confirmDeleteLocalCredential, refresh, ClipboardChanges
  <1>4. ASSUME NEW prompt \in prompts, Grant(prompt) \/ GiveUp(prompt)
        PROVE  NoImportInv'
    BY <1>4, NoImportGrant
  <1>5. CASE WriteVault
    <2>0. /\ session'.credentials \subseteq session.credentials
          /\ main.pc = "write" /\ main.pc # "publish"
          /\ session.credentials \subseteq NormalizeAll(store)
      BY <1>5, SettledFacts DEF WriteVault, ReadSession, TypeInv, VaultType, NoImportInv, SessionFollows
    <2>1. CASE store' = main.next /\ intended' = Meant(intended)
      <3>1. store' = intended' /\ importer' = None
        BY <1>5, <2>0, <2>1 DEF NoImportInv, NoLostUpdate, WritesWhatItMeans, WriteVault
      <3>2. main' = IdleMain \/ main' = [main EXCEPT !.pc = "publish"]
        BY <1>5 DEF WriteVault
      <3>3. main'.pc # "write" /\ (main'.pc = "publish" => main'.next = store')
        BY <2>1, <3>2 DEF IdleMain, TypeInv, VaultType, Main
      <3>4. CASE main.op = "add"
        <4>1. store \subseteq store'
          BY <2>0, <2>1, <3>4 DEF NoImportInv, WritesWhatItMeans
        <4>2. session'.credentials \subseteq NormalizeAll(store')
          BY <2>0, <4>1, NormalizeAllMonotone
        <4> QED
          BY <3>1, <3>3, <4>2 DEF NoImportInv, NoLostUpdate, WritesWhatItMeans, SessionFollows
      <3>5. CASE main.op # "add" /\ main'.pc = "publish"
        BY <3>1, <3>3, <3>5 DEF NoImportInv, NoLostUpdate, WritesWhatItMeans, SessionFollows
      <3>6. CASE main.op # "add" /\ main'.pc # "publish"
        <4>1. UNCHANGED store
          BY <1>5, <3>6 DEF WriteVault, TypeInv, VaultType, Main
        <4> QED
          BY <2>0, <3>1, <3>3, <4>1 DEF NoImportInv, NoLostUpdate, WritesWhatItMeans, SessionFollows
      <3> QED
        BY <3>4, <3>5, <3>6
    <2>2. CASE main' = IdleMain /\ UNCHANGED <<store, intended>>
      <3>1. main'.pc = "idle" /\ importer' = None
        BY <1>5, <2>2 DEF WriteVault, IdleMain, NoImportInv, WritesWhatItMeans
      <3> QED
        BY <2>0, <2>2, <3>1 DEF NoImportInv, NoLostUpdate, WritesWhatItMeans, SessionFollows
    <2> QED
      BY <1>5, <2>1, <2>2 DEF WriteVault
  <1>6. CASE Publish
    <2>1. /\ session'.credentials = NormalizeAll(store) /\ main'.pc = "idle"
          /\ UNCHANGED <<store, intended, importer>>
      BY <1>6 DEF Publish, UnlockedSession, IdleMain, NoImportInv, WritesWhatItMeans
    <2> QED
      BY <2>1 DEF NoImportInv, NoLostUpdate, WritesWhatItMeans, SessionFollows
  <1>7. CASE Restart
    <2>1. /\ session'.credentials = {} /\ main'.pc = "idle" /\ importer' = None
          /\ UNCHANGED <<store, intended>>
      BY <1>7 DEF Restart, LockedSession, IdleMain
    <2> QED
      BY <2>1 DEF NoImportInv, NoLostUpdate, WritesWhatItMeans, SessionFollows
  <1>8. CASE lock \/ DeadlinePasses
    <2>1. session'.credentials \subseteq session.credentials /\ UNCHANGED <<store, main, importer, intended>>
      BY <1>8 DEF lock, LockedSession, DeadlinePasses, Overdue, TypeInv, VaultType, Session
    <2>2. Meant(store)' = Meant(store)
      BY <2>1 DEF Meant
    <2> QED
      BY <2>1, <2>2 DEF NoImportInv, NoLostUpdate, WritesWhatItMeans, SessionFollows
  <1>9. CASE SaveImport \/ UnlockImport
    BY <1>9 DEF SaveImport, UnlockImport, NoImportInv, WritesWhatItMeans
  <1> QED
    BY <1>1, <1>2, <1>3, <1>4, <1>5, <1>6, <1>7, <1>8, <1>9 DEF Next

(* It holds of a fresh companion.                                          *)
LEMMA NoImportInit == Init => NoImportInv
  <1> SUFFICES ASSUME Init PROVE NoImportInv
    OBVIOUS
  <1>1. main.pc = "idle" /\ session.credentials = {}
    BY DEF Init, IdleMain, LockedSession
  <1> QED
    BY <1>1 DEF Init, NoImportInv, NoLostUpdate, WritesWhatItMeans, SessionFollows

(* However the user's operations overlap at their prompts, fail or are cut *)
(* off by a crash, each completed one survives the others: the file is     *)
(* loaded after the prompt (saveLocalCredential,                           *)
(* confirmDeleteLocalCredential), so no write starts from an old copy.     *)
THEOREM NoUpdateLostWithoutImports ==
    ASSUME Batches = {}
    PROVE  Spec => []NoLostUpdate
  <1>1. Init => NoImportInv
    BY NoImportInit
  <1>2. TypeInv /\ NoImportInv /\ [Next]_vars => NoImportInv'
    BY NoImportStep
  <1>3. NoImportInv => NoLostUpdate
    BY DEF NoImportInv
  <1> QED
    BY <1>1, <1>2, <1>3, TypeInvariant, PTL DEF Spec

(* An unlocked session serves nothing the file no longer holds once the    *)
(* operation that changed the file has published it.                       *)
THEOREM SessionServesStoreWithoutImports ==
    ASSUME Batches = {}
    PROVE  Spec => []SessionServesStore
  <1>1. Init => NoImportInv
    BY NoImportInit
  <1>2. TypeInv /\ NoImportInv /\ [Next]_vars => NoImportInv'
    BY NoImportStep
  <1>3. NoImportInv => SessionServesStore
    BY DEF NoImportInv, SessionFollows, SessionServesStore, MainIdle
  <1> QED
    BY <1>1, <1>2, <1>3, TypeInvariant, PTL DEF Spec
=============================================================================
