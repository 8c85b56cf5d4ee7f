--------------------------- MODULE WebVaultProofs ---------------------------
(***************************************************************************)
(* Proofs about WebVault, for any number of logins, passphrases, handlers  *)
(* and calls to the bridge, and any lists the server may hold.             *)
(***************************************************************************)
EXTENDS WebVault, SequenceTheorems, TLAPS

Edits == [id : Ids \cup {None}, from : Seals, password : BOOLEAN, touched : BOOLEAN]

Pages == [view : {"closed", "loading", "failed", "open"},
          stored : Verifiers \cup {None},
          mode : {"needs_setup", "locked", "unlocked"},
          pass : Passphrases \cup {None},
          items : [Ids -> Seals],
          isSyncing : BOOLEAN,
          revealed : SUBSET Ids,
          selected : Ids \cup {None},
          detail : {"item", "create"},
          editing : Edits]

Steps == {"idle", "sync", "seal", "open", "check", "import", "adopt", "unlock", "refuse"}

Handlers == [kind : Kinds \cup {"idle"}, step : Steps, id : Ids \cup {None},
             seal : Seals, ok : BOOLEAN]

Calls == [kind : {"publish", "clear"}, ids : SUBSET Ids, valid : BOOLEAN, newest : BOOLEAN]

(* A password sealed as s opens neither with any passphrase nor with the   *)
(* one that the verifier vouches for.                                      *)
DoesNotOpen(s) ==
    /\ s # "plain"
    /\ s \in Passphrases => verifier # None /\ verifier.pass # s

(* What a suspended handler captured: it fits its kind; an unlock that has *)
(* passed its checks still agrees with the verifier; and where the edit    *)
(* form is to show no password there was none that opens.                  *)
Sound(m) ==
    /\ m.kind = "submit" => m.seal \in Passphrases
    /\ m.kind = "reveal" => m.id \in Ids
    /\ ~replaced =>
         /\ m.kind = "submit" /\ m.step = "unlock" =>
              verifier = [pass |-> m.seal, secure |-> TRUE]
         /\ m.kind = "edit" /\ m.step = "open" /\ ~m.ok => DoesNotOpen(m.seal)

HandlersSound == \A o \in Ops : Sound(op[o])

(* A closed page has no handlers. *)
ClosedIsIdle == page.view = "closed" => \A o \in Ops : op[o] = NoOp

(* The page's verifier is the stored one, which nobody else writes. *)
StoredIsCurrent == page.view # "closed" => page.stored = verifier

(* Where the password field is empty, and was so from the start, the login *)
(* had no password that opens.                                             *)
EditSound(e) == ~replaced /\ ~e.password /\ ~e.touched => DoesNotOpen(e.from)

FormSound == EditSound(page.editing)

(* The newest call says what the page has unlocked now. *)
CallSound(c, u) ==
    c.newest =>
        /\ c.kind = IF Unlocked(u) THEN "publish" ELSE "clear"
        /\ c.kind = "publish" => c.ids = Publishable(u)

NewestIsPublication ==
    page.view # "closed" => \A n \in DOMAIN calls : CallSound(calls[n], page)

(* Once it has taken effect the bridge holds just that. *)
BridgeHoldsPublication ==
    page.view # "closed" /\ current /\ ~overtaken /\ bridge.fresh =>
        Unlocked(page) /\ bridge.ids = Publishable(page)

IInv ==
    /\ TypeOK /\ HandlersSound /\ ClosedIsIdle
    /\ StoredIsCurrent /\ PassphraseIsVerified
    /\ LockedPageForgets /\ FormSound /\ EditsKeepPasswords
    /\ NewestIsPublication /\ BridgeHoldsPublication

-----------------------------------------------------------------------------
(* Types. *)

(* The records of TypeOK, under their names here. *)
LEMMA Types ==
    TypeOK <=>
      /\ verifier \in Verifiers \cup {None} /\ page \in Pages /\ importing \in BOOLEAN
      /\ op \in [Ops -> Handlers] /\ bridge \in [ids : SUBSET Ids, fresh : BOOLEAN]
      /\ calls \in Seq(Calls) /\ current \in BOOLEAN /\ overtaken \in BOOLEAN
      /\ late \in BOOLEAN /\ replaced \in BOOLEAN /\ erased \in SUBSET Ids
  BY DEF TypeOK, Pages, Edits, Steps, Handlers, Calls

LEMMA NoneApart ==
    /\ None \notin Ids /\ None \notin Passphrases /\ None \notin Verifiers
    /\ \A p \in Passphrases : [pass |-> p, secure |-> TRUE] \in Verifiers
    /\ \A p \in Passphrases : p \notin {"plain", "none", "absent"}
  BY WebVaultAssumption DEF Verifiers

LEMMA NoPageType == NoPage \in Pages /\ NoEdit \in Edits
  BY DEF NoPage, NoEdit, Pages, Edits, Seals

LEMMA NoOpSound == NoOp \in Handlers /\ Sound(NoOp)
  BY DEF NoOp, Handlers, Steps, Seals, Sound

(* An absent password does not open. *)
LEMMA NoEditSound == EditSound(NoEdit)
  BY NoneApart DEF NoEdit, EditSound, DoesNotOpen

(* Saved verifiers of any kind, a closed page. *)
LEMMA InitIInv == Init => IInv
  <1> SUFFICES ASSUME Init PROVE IInv
    OBVIOUS
  <1>1. TypeOK
    <2>1. calls \in Seq(Calls)
      BY DEF Init
    <2>2. verifier \in Verifiers \cup {None}
      BY DEF Init, Verifiers
    <2> QED
      BY <2>1, <2>2, NoPageType, NoOpSound, Types DEF Init
  <1>2. HandlersSound /\ ClosedIsIdle
    BY NoOpSound DEF Init, HandlersSound, ClosedIsIdle
  <1>3. FormSound
    BY NoEditSound DEF Init, FormSound, NoPage
  <1>4. /\ StoredIsCurrent /\ PassphraseIsVerified /\ LockedPageForgets
        /\ NewestIsPublication /\ BridgeHoldsPublication
    BY DEF Init, NoPage, StoredIsCurrent, PassphraseIsVerified, LockedPageForgets,
           NewestIsPublication, BridgeHoldsPublication, Unlocked
  <1>5. EditsKeepPasswords
    BY DEF Init, EditsKeepPasswords
  <1> QED
    BY <1>1, <1>2, <1>3, <1>4, <1>5 DEF IInv

-----------------------------------------------------------------------------
(* Handlers. *)

(* One handler moves, and what the others captured stays true. *)
LEMMA HandlerMoves ==
    ASSUME IInv, NEW o \in Ops, NEW m \in Handlers, op' = [op EXCEPT ![o] = m],
           Sound(m), verifier' = verifier, replaced' = replaced
    PROVE  op' \in [Ops -> Handlers] /\ HandlersSound'
  <1>1. op \in [Ops -> Handlers] /\ HandlersSound
    BY Types DEF IInv
  <1>2. op' \in [Ops -> Handlers] /\ \A q \in Ops : Sound(op'[q])
    BY <1>1 DEF HandlersSound
  <1>3. \A q \in Ops : Sound(op[q])'
    BY <1>2 DEF Sound, DoesNotOpen
  <1> QED
    BY <1>2, <1>3 DEF HandlersSound

LEMMA HandlersStay ==
    ASSUME IInv, op' = op, verifier' = verifier, replaced' = replaced
    PROVE  op' \in [Ops -> Handlers] /\ HandlersSound'
  BY Types DEF IInv, HandlersSound, Sound, DoesNotOpen

LEMMA SuspendKeeps ==
    ASSUME IInv, NEW o \in Ops, NEW k, NEW s \in Steps, NEW i \in Ids \cup {None},
           NEW a \in Seals, NEW b \in BOOLEAN, Suspend(o, k, s, i, a, b),
           verifier' = verifier, replaced' = replaced,
           k = "submit" => a \in Passphrases, k = "reveal" => i \in Ids,
           k = "submit" /\ s = "unlock" /\ ~replaced =>
               verifier = [pass |-> a, secure |-> TRUE],
           k = "edit" /\ ~b /\ ~replaced => DoesNotOpen(a)
    PROVE  op' \in [Ops -> Handlers] /\ HandlersSound'
  <1> DEFINE m == [kind |-> k, step |-> s, id |-> i, seal |-> a, ok |-> b]
  <1>1. k \in Kinds /\ op' = [op EXCEPT ![o] = m]
    BY WebVaultAssumption DEF Suspend
  <1>2. m \in Handlers
    BY <1>1 DEF Handlers
  <1>3. Sound(m)
    BY DEF Sound
  <1> QED
    BY <1>1, <1>2, <1>3, HandlerMoves

LEMMA EndOpKeeps ==
    ASSUME IInv, NEW o \in Ops, EndOp(o), verifier' = verifier, replaced' = replaced
    PROVE  op' \in [Ops -> Handlers] /\ HandlersSound'
  BY NoOpSound, HandlerMoves DEF EndOp

LEMMA GoOnKeeps ==
    ASSUME IInv, NEW o \in Ops, NEW s \in Steps, GoOn(o, s),
           op[o].kind \notin {"submit", "edit"}, verifier' = verifier, replaced' = replaced
    PROVE  op' \in [Ops -> Handlers] /\ HandlersSound'
  <1>1. op \in [Ops -> Handlers] /\ Sound(op[o])
    BY Types DEF IInv, HandlersSound
  <1> DEFINE m == [op[o] EXCEPT !.step = s]
  <1>2. m \in Handlers /\ Sound(m)
    BY <1>1 DEF Handlers, Sound
  <1>3. op' = [op EXCEPT ![o] = m]
    BY <1>1 DEF GoOn
  <1> HIDE DEF m
  <1> QED
    BY <1>2, <1>3, HandlerMoves

(* A handler under way belongs to a page that is not closed. *)
LEMMA AtOpen ==
    ASSUME IInv, NEW o \in Ops, op[o] # NoOp
    PROVE  page.view # "closed"
  BY DEF IInv, ClosedIsIdle

-----------------------------------------------------------------------------
(* The page and the bridge. *)

(* What is published depends on the passphrase and the list alone. *)
SameSecrets(u, v) == u.pass = v.pass /\ u.items = v.items

LEMMA SecretsDecide ==
    ASSUME NEW u, NEW v, SameSecrets(u, v)
    PROVE  /\ Unlocked(u) <=> Unlocked(v)
           /\ Publishable(u) = Publishable(v)
           /\ \A c : CallSound(c, u) <=> CallSound(c, v)
  <1>1. Unlocked(u) <=> Unlocked(v)
    BY DEF SameSecrets, Unlocked
  <1>2. Publishable(u) = Publishable(v)
    BY <1>1 DEF SameSecrets, Publishable, Opens
  <1> QED
    BY <1>1, <1>2 DEF CallSound

(* As long as nothing is sent and both stay, what was sent stays right. *)
LEMMA BridgeKept ==
    ASSUME IInv, UNCHANGED calling,
           page'.view # "closed" => page.view # "closed" /\ SameSecrets(page', page)
    PROVE  NewestIsPublication' /\ BridgeHoldsPublication'
  <1>1. CASE page'.view = "closed"
    BY <1>1 DEF NewestIsPublication, BridgeHoldsPublication
  <1>2. CASE page'.view # "closed"
    <2>1. /\ Unlocked(page') <=> Unlocked(page)
          /\ Publishable(page') = Publishable(page)
          /\ \A c : CallSound(c, page') <=> CallSound(c, page)
      BY <1>2, SecretsDecide
    <2>2. Unlocked(page)' <=> Unlocked(page')
      BY DEF Unlocked
    <2>3. Publishable(page)' = Publishable(page')
      BY DEF Publishable, Unlocked, Opens
    <2>4. \A c : CallSound(c, page)' <=> CallSound(c, page')
      BY <2>2, <2>3 DEF CallSound
    <2>5. NewestIsPublication'
      BY <1>2, <2>1, <2>4 DEF IInv, NewestIsPublication, calling
    <2>6. BridgeHoldsPublication'
      BY <1>2, <2>1, <2>2, <2>3 DEF IInv, BridgeHoldsPublication, calling
    <2> QED
      BY <2>5, <2>6
  <1> QED
    BY <1>1, <1>2

(* A publication is a call of its page. *)
LEMMA PublicationSound ==
    ASSUME NEW u \in Pages
    PROVE  Publication(u) \in Calls /\ CallSound(Publication(u), u)
  <1>1. Publishable(u) \in SUBSET Ids
    BY DEF Publishable
  <1>2. Valid(Publishable(u)) \in BOOLEAN
    BY DEF Valid
  <1> QED
    BY <1>1, <1>2 DEF Publication, Calls, CallSound

(* What is sent speaks of the page as it is now, and is the newest. *)
LEMMA BridgeTold ==
    ASSUME TypeOK, NEW u \in Pages, TellBridge(u), SameSecrets(page', u)
    PROVE  /\ calls' \in Seq(Calls) /\ current' = FALSE /\ overtaken' = FALSE /\ bridge' = bridge
           /\ NewestIsPublication' /\ BridgeHoldsPublication'
  <1> DEFINE aged == [n \in DOMAIN calls |-> [calls[n] EXCEPT !.newest = FALSE]]
  <1>1. calls \in Seq(Calls)
    BY Types
  <1>2. aged \in Seq(Calls) /\ \A n \in DOMAIN aged : ~aged[n].newest
    <2>1. \A n \in DOMAIN calls : calls[n] \in Calls
      BY <1>1
    <2>2. \A n \in DOMAIN calls : [calls[n] EXCEPT !.newest = FALSE] \in Calls
      BY <2>1 DEF Calls
    <2>3. DOMAIN calls = 1 .. Len(calls) /\ Len(calls) \in Nat
      BY <1>1
    <2>4. aged \in [1 .. Len(calls) -> Calls]
      BY <2>2, <2>3
    <2>5. aged \in Seq(Calls)
      BY <2>3, <2>4
    <2> QED
      BY <2>1, <2>5 DEF Calls
  <1>3. calls' = Append(aged, Publication(u)) /\ current' = FALSE /\ overtaken' = FALSE
    BY DEF TellBridge
  <1> HIDE DEF aged
  <1>4. Publication(u) \in Calls /\ CallSound(Publication(u), u)
    BY PublicationSound
  <1>5. /\ calls' \in Seq(Calls)
        /\ \A n \in DOMAIN calls' : calls'[n] = Publication(u) \/ ~calls'[n].newest
    BY <1>2, <1>3, <1>4
  <1>6. \A n \in DOMAIN calls' : CallSound(calls'[n], page')
    <2>1. \A c : CallSound(c, page') <=> CallSound(c, u)
      BY SecretsDecide
    <2> QED
      BY <1>4, <1>5, <2>1 DEF CallSound
  <1>7. \A c : CallSound(c, page') <=> CallSound(c, page)'
    BY DEF CallSound, Unlocked, Publishable, Opens
  <1> QED
    BY <1>3, <1>5, <1>6, <1>7 DEF NewestIsPublication, BridgeHoldsPublication, TellBridge

(* The selection moves and nothing else. *)
LEMMA SelectionsKeep ==
    ASSUME NEW u \in Pages, NEW w \in Selections(u)
    PROVE  /\ w \in Pages /\ w.view = u.view /\ w.stored = u.stored /\ SameSecrets(w, u)
           /\ w.revealed = u.revealed /\ w.editing = u.editing
  <1>1. CASE w = u
    BY <1>1 DEF SameSecrets
  <1>2. CASE w = [u EXCEPT !.selected = None, !.detail = "create"]
    BY <1>2 DEF SameSecrets, Pages
  <1>3. ASSUME NEW i \in Ids, w = [u EXCEPT !.selected = i, !.detail = "item"]
        PROVE  /\ w \in Pages /\ w.view = u.view /\ w.stored = u.stored /\ SameSecrets(w, u)
               /\ w.revealed = u.revealed /\ w.editing = u.editing
    BY <1>3 DEF SameSecrets, Pages
  <1> QED
    BY <1>1, <1>2, <1>3 DEF Selections, Listed

LEMMA ForgetKeeps ==
    ASSUME NEW u \in Pages
    PROVE  /\ Forget(u) \in Pages /\ Forget(u).view = u.view /\ Forget(u).stored = u.stored
           /\ SameSecrets(Forget(u), u)
           /\ Forget(u).revealed = {} /\ Forget(u).editing = NoEdit
  BY NoPageType DEF Forget, cancelEditing, Pages, SameSecrets

(* A page is rendered with its effects: it is told about what changed, and *)
(* forgets if it locks.                                                    *)
LEMMA Rendered ==
    ASSUME IInv, NEW u \in Pages, NEW new \in BOOLEAN, Render(u, new),
           new \/ (page.view # "closed" /\ u.items = page.items)
    PROVE  /\ page' \in Pages /\ page'.view = u.view /\ page'.stored = u.stored
           /\ SameSecrets(page', u)
           /\ bridge' = bridge /\ calls' \in Seq(Calls)
           /\ current' \in BOOLEAN /\ overtaken' \in BOOLEAN
           /\ IF Unlocked(page) /\ ~Unlocked(u)
              THEN page'.revealed = {} /\ page'.editing = NoEdit
              ELSE page'.revealed = u.revealed /\ page'.editing = u.editing
           /\ NewestIsPublication' /\ BridgeHoldsPublication'
  <1> DEFINE v == IF Unlocked(page) /\ ~Unlocked(u) THEN Forget(u) ELSE u
  <1>1. page' \in Selections(v)
    BY DEF Render
  <1>2. /\ v \in Pages /\ v.view = u.view /\ v.stored = u.stored /\ SameSecrets(v, u)
        /\ IF Unlocked(page) /\ ~Unlocked(u)
           THEN v.revealed = {} /\ v.editing = NoEdit
           ELSE v.revealed = u.revealed /\ v.editing = u.editing
    BY ForgetKeeps DEF SameSecrets
  <1> HIDE DEF v
  <1>3. /\ page' \in Pages /\ page'.view = u.view /\ page'.stored = u.stored
        /\ SameSecrets(page', u)
        /\ page'.revealed = v.revealed /\ page'.editing = v.editing
    BY <1>1, <1>2, SelectionsKeep DEF SameSecrets
  <1>4. CASE Changes(u, new)
    <2>1. TellBridge(u) /\ TypeOK
      BY <1>4 DEF Render, IInv
    <2> QED
      BY <1>2, <1>3, <2>1, BridgeTold
  <1>5. CASE ~Changes(u, new)
    <2>1. UNCHANGED calling
      BY <1>5 DEF Render
    <2>2. page.view # "closed" /\ SameSecrets(page', page)
      BY <1>3, <1>5 DEF Changes, SameSecrets
    <2>3. NewestIsPublication' /\ BridgeHoldsPublication'
      BY <2>1, <2>2, BridgeKept
    <2> QED
      BY <1>2, <1>3, <2>1, <2>3, Types DEF IInv, calling
  <1> QED
    BY <1>4, <1>5

-----------------------------------------------------------------------------
(* Steps of an open page that leave the verifier alone. *)

(* What an unlocked page holds stays, goes, or is vouched for. *)
Vouched(p) == p \in {page.pass, None} \/ (~replaced => verifier = [pass |-> p, secure |-> TRUE])

LEMMA StepKeeps ==
    ASSUME IInv, verifier' = verifier, replaced' = replaced,
           op' \in [Ops -> Handlers], HandlersSound',
           page' \in Pages, page'.view # "closed", page'.stored = verifier,
           page.view = "closed" => page'.pass = None,
           Vouched(page'.pass), EditSound(page'.editing),
           ~late' /\ ~Unlocked(page') => page'.revealed = {} /\ page'.editing = NoEdit,
           importing' \in BOOLEAN, late' \in BOOLEAN,
           erased' = erased \/ (replaced /\ erased' \in SUBSET Ids),
           bridge' \in [ids : SUBSET Ids, fresh : BOOLEAN], calls' \in Seq(Calls),
           current' \in BOOLEAN, overtaken' \in BOOLEAN,
           NewestIsPublication', BridgeHoldsPublication'
    PROVE  IInv'
  <1>1. TypeOK'
    BY Types DEF IInv, TypeOK, Pages, Edits, Steps, Handlers, Calls
  <1>2. ClosedIsIdle' /\ StoredIsCurrent'
    BY DEF ClosedIsIdle, StoredIsCurrent
  <1>3. PassphraseIsVerified'
    BY DEF IInv, PassphraseIsVerified, Unlocked, Vouched, StoredIsCurrent
  <1>4. LockedPageForgets'
    BY DEF LockedPageForgets, Unlocked
  <1>5. FormSound'
    BY DEF FormSound, EditSound, DoesNotOpen
  <1>6. EditsKeepPasswords'
    BY DEF IInv, EditsKeepPasswords
  <1> QED
    BY <1>1, <1>2, <1>3, <1>4, <1>5, <1>6 DEF IInv

(* What is known of an open page. *)
LEMMA OpenFacts ==
    ASSUME IInv, page.view # "closed"
    PROVE  /\ page \in Pages /\ page.stored = verifier /\ EditSound(page.editing)
           /\ ~late /\ ~Unlocked(page) => page.revealed = {} /\ page.editing = NoEdit
           /\ late \in BOOLEAN /\ importing \in BOOLEAN
           /\ verifier \in Verifiers \cup {None}
  BY Types DEF IInv, StoredIsCurrent, FormSound, LockedPageForgets

(* Neither what the page has unlocked nor its list changes. *)
LEMMA QuietStep ==
    ASSUME IInv, UNCHANGED <<verifier, replaced, calling>>, page.view # "closed",
           op' \in [Ops -> Handlers], HandlersSound',
           page' \in Pages, page'.view # "closed", page'.stored = page.stored,
           SameSecrets(page', page), EditSound(page'.editing),
           ~late' /\ ~Unlocked(page) => page'.revealed = {} /\ page'.editing = NoEdit,
           importing' \in BOOLEAN, late' \in BOOLEAN,
           erased' = erased \/ (replaced /\ erased' \in SUBSET Ids)
    PROVE  IInv'
  <1>1. NewestIsPublication' /\ BridgeHoldsPublication'
    BY BridgeKept
  <1>2. page'.stored = verifier /\ Vouched(page'.pass)
    BY OpenFacts DEF Vouched, SameSecrets
  <1>3. Unlocked(page') <=> Unlocked(page)
    BY DEF SameSecrets, Unlocked
  <1> QED
    BY <1>1, <1>2, <1>3, StepKeeps, Types DEF IInv, calling

(* The page stays as it is. *)
LEMMA SamePageStep ==
    ASSUME IInv, UNCHANGED <<verifier, page, replaced, calling, late>>, page.view # "closed",
           op' \in [Ops -> Handlers], HandlersSound', importing' \in BOOLEAN,
           erased' = erased \/ (replaced /\ erased' \in SUBSET Ids)
    PROVE  IInv'
  <1>1. SameSecrets(page', page)
    BY DEF SameSecrets
  <1> QED
    BY <1>1, QuietStep, OpenFacts

(* The page is rendered. *)
LEMMA RenderStep ==
    ASSUME IInv, verifier' = verifier, replaced' = replaced, erased' = erased,
           op' \in [Ops -> Handlers], HandlersSound',
           NEW u \in Pages, NEW new \in BOOLEAN, Render(u, new),
           new \/ (page.view # "closed" /\ u.items = page.items),
           u.view # "closed", u.stored = verifier, Vouched(u.pass), EditSound(u.editing),
           page.view = "closed" => u.pass = None,
           ~late' /\ ~Unlocked(u) =>
               Unlocked(page) \/ (u.revealed = {} /\ u.editing = NoEdit),
           importing' \in BOOLEAN, late' \in BOOLEAN
    PROVE  IInv'
  <1>1. /\ page' \in Pages /\ page'.view = u.view /\ page'.stored = u.stored
        /\ SameSecrets(page', u)
        /\ bridge' = bridge /\ calls' \in Seq(Calls)
        /\ current' \in BOOLEAN /\ overtaken' \in BOOLEAN
        /\ IF Unlocked(page) /\ ~Unlocked(u)
           THEN page'.revealed = {} /\ page'.editing = NoEdit
           ELSE page'.revealed = u.revealed /\ page'.editing = u.editing
        /\ NewestIsPublication' /\ BridgeHoldsPublication'
    BY Rendered
  <1>2. page'.pass = u.pass /\ (Unlocked(page') <=> Unlocked(u))
    BY <1>1 DEF SameSecrets, Unlocked
  <1>3. EditSound(page'.editing)
    BY <1>1, NoEditSound
  <1> QED
    BY <1>1, <1>2, <1>3, StepKeeps, Types DEF IInv

-----------------------------------------------------------------------------
(* Loading, closing, and the answers of vault/sync. *)

LEMMA OpenPageStep ==
    ASSUME IInv, NEW o \in Ops, OpenPage(o)
    PROVE  IInv'
  <1> DEFINE u == [NoPage EXCEPT !.view = "loading", !.stored = verifier, !.isSyncing = TRUE,
                      !.mode = IF verifier = None THEN "needs_setup" ELSE "locked"]
  <1>1. /\ u \in Pages /\ u.view = "loading" /\ u.stored = verifier /\ u.pass = None
        /\ u.revealed = {} /\ u.editing = NoEdit
    BY NoPageType, Types DEF IInv, Pages, NoPage
  <1>2. op' \in [Ops -> Handlers] /\ HandlersSound'
    <2>1. Suspend(o, "load", "sync", None, "none", FALSE) /\ UNCHANGED <<verifier, replaced>>
      BY DEF OpenPage
    <2>2. "sync" \in Steps /\ "none" \in Seals
      BY DEF Steps, Seals
    <2> QED
      BY <2>1, <2>2, SuspendKeeps
  <1>3. Render(u, TRUE) /\ UNCHANGED <<verifier, importing, late, replaced, erased>>
    BY DEF OpenPage
  <1>4. Vouched(u.pass) /\ EditSound(u.editing)
    BY <1>1, NoEditSound DEF Vouched
  <1> HIDE DEF u
  <1> QED
    BY <1>1, <1>2, <1>3, <1>4, RenderStep, Types DEF IInv

LEMMA ClosePageStep ==
    ASSUME IInv, ClosePage
    PROVE  IInv'
  <1>1. page' = NoPage /\ op' = [o \in Ops |-> NoOp] /\ importing' = FALSE /\ late' = FALSE
        /\ UNCHANGED <<verifier, calling, replaced, erased>>
    BY DEF ClosePage
  <1>2. TypeOK'
    <2>1. page' \in Pages /\ op' \in [Ops -> Handlers] /\ importing' \in BOOLEAN /\ late' \in BOOLEAN
      BY <1>1, NoPageType, NoOpSound
    <2>2. /\ verifier \in Verifiers \cup {None} /\ bridge \in [ids : SUBSET Ids, fresh : BOOLEAN]
          /\ calls \in Seq(Calls) /\ current \in BOOLEAN /\ overtaken \in BOOLEAN
          /\ replaced \in BOOLEAN /\ erased \in SUBSET Ids
      BY Types DEF IInv
    <2> QED
      BY <1>1, <2>1, <2>2 DEF calling, TypeOK, Pages, Edits, Steps, Handlers, Calls
  <1>3. HandlersSound' /\ ClosedIsIdle'
    <2>1. \A o \in Ops : op'[o] = NoOp
      BY <1>1
    <2>2. Sound(NoOp)'
      BY DEF Sound, NoOp
    <2> QED
      BY <2>1, <2>2 DEF HandlersSound, ClosedIsIdle, Sound
  <1>4. /\ page'.view = "closed" /\ page'.pass = None /\ page'.revealed = {}
        /\ page'.editing = NoEdit
    BY <1>1 DEF NoPage
  <1>5. /\ StoredIsCurrent' /\ PassphraseIsVerified' /\ LockedPageForgets'
        /\ NewestIsPublication' /\ BridgeHoldsPublication'
    BY <1>4 DEF StoredIsCurrent, PassphraseIsVerified, LockedPageForgets, Unlocked,
                NewestIsPublication, BridgeHoldsPublication
  <1>6. FormSound'
    BY <1>1, <1>4, NoEditSound DEF FormSound, EditSound, DoesNotOpen
  <1>7. EditsKeepPasswords'
    BY <1>1 DEF IInv, EditsKeepPasswords
  <1> QED
    BY <1>2, <1>3, <1>5, <1>6, <1>7 DEF IInv

(* A handler that is neither idle nor of a closed page. *)
LEMMA Busy ==
    ASSUME IInv, NEW o \in Ops, op[o].step # "idle"
    PROVE  page.view # "closed" /\ op[o] \in Handlers /\ Sound(op[o])
  <1>1. op[o] # NoOp
    BY DEF NoOp
  <1> QED
    BY <1>1, AtOpen, Types DEF IInv, HandlersSound

(* The list asked for is a list. *)
LEMMA WrittenType ==
    ASSUME NEW o \in Ops, op[o] \in Handlers, NEW l \in Lists
    PROVE  Written(o, l) \in [Ids -> Seals]
  <1>1. l \in [Ids -> Seals] /\ op[o].seal \in Seals /\ "absent" \in Seals
    BY WebVaultAssumption DEF Handlers, Seals
  <1> QED
    BY <1>1 DEF Written

LEMMA ReceiveItemsStep ==
    ASSUME IInv, NEW o \in Ops, ReceiveItems(o)
    PROVE  IInv'
  <1>1. page.view # "closed" /\ op[o] \in Handlers
    BY Busy DEF ReceiveItems
  <1>2. op' \in [Ops -> Handlers] /\ HandlersSound'
    BY EndOpKeeps DEF ReceiveItems
  <1>3. PICK l \in Lists :
          LET u == [page EXCEPT !.view = "open", !.items = Written(o, l), !.isSyncing = FALSE]
          IN  IF op[o].kind # "write" THEN Render(u, TRUE)
              ELSE IF op[o].ok THEN Render(cancelEditing(u), TRUE)
              ELSE Render([u EXCEPT !.detail = "item"], TRUE)
    BY DEF ReceiveItems
  <1> DEFINE u == [page EXCEPT !.view = "open", !.items = Written(o, l), !.isSyncing = FALSE]
  <1>4. /\ u \in Pages /\ u.view = "open" /\ u.stored = page.stored /\ u.pass = page.pass
        /\ u.revealed = page.revealed /\ u.editing = page.editing
    BY <1>1, WrittenType, OpenFacts DEF Pages
  <1>5. PICK w : /\ Render(w, TRUE)
                 /\ w \in {u, cancelEditing(u), [u EXCEPT !.detail = "item"]}
    BY <1>3
  <1> HIDE DEF u
  <1>6. /\ w \in Pages /\ w.view = "open" /\ w.stored = page.stored /\ w.pass = page.pass
        /\ w.revealed = page.revealed /\ w.editing \in {page.editing, NoEdit}
    BY <1>4, <1>5, NoPageType DEF Pages, cancelEditing
  <1>7. Vouched(w.pass) /\ EditSound(w.editing)
    BY <1>1, <1>6, OpenFacts, NoEditSound DEF Vouched
  <1>8. Unlocked(w) <=> Unlocked(page)
    BY <1>6 DEF Unlocked
  <1>9. UNCHANGED <<verifier, importing, late, replaced, erased>>
    BY DEF ReceiveItems
  <1> QED
    BY <1>1, <1>2, <1>5, <1>6, <1>7, <1>8, <1>9, RenderStep, OpenFacts

LEMMA SyncFailsStep ==
    ASSUME IInv, NEW o \in Ops, SyncFails(o)
    PROVE  IInv'
  <1>1. page.view # "closed" /\ page \in Pages
    BY Busy, OpenFacts DEF SyncFails
  <1>2. op' \in [Ops -> Handlers] /\ HandlersSound'
    BY EndOpKeeps DEF SyncFails
  <1>3. /\ page' \in Pages /\ page'.view # "closed" /\ page'.stored = page.stored
        /\ SameSecrets(page', page) /\ page'.revealed = page.revealed
        /\ page'.editing = page.editing
    BY <1>1 DEF SyncFails, Pages, SameSecrets
  <1>4. UNCHANGED <<verifier, importing, calling, late, replaced, erased>>
    BY DEF SyncFails
  <1> QED
    BY <1>1, <1>2, <1>3, <1>4, QuietStep, OpenFacts

LEMMA SendWriteStep ==
    ASSUME IInv, NEW o \in Ops, SendWrite(o)
    PROVE  IInv'
  <1>1. page.view # "closed" /\ page \in Pages
    BY Busy, OpenFacts DEF SendWrite, At
  <1>2. op' \in [Ops -> Handlers] /\ HandlersSound'
    BY GoOnKeeps DEF SendWrite, At, Steps
  <1>3. /\ page' \in Pages /\ page'.view # "closed" /\ page'.stored = page.stored
        /\ SameSecrets(page', page) /\ page'.revealed = page.revealed
        /\ page'.editing = page.editing
    BY <1>1 DEF SendWrite, Pages, SameSecrets
  <1>4. UNCHANGED <<verifier, importing, calling, late, replaced, erased>>
    BY DEF SendWrite
  <1> QED
    BY <1>1, <1>2, <1>3, <1>4, QuietStep, OpenFacts

-----------------------------------------------------------------------------
(* useVaultUnlock. *)

(* Only what the stored verifier vouches for, in version 2, unlocks. *)
LEMMA OutcomeFacts ==
    ASSUME NEW u \in Pages, NEW p \in Passphrases
    PROVE  /\ Outcome(u, p) \in {"refuse", "adopt", "unlock"}
           /\ Outcome(u, p) = "unlock" => u.stored = [pass |-> p, secure |-> TRUE]
  <1>1. u.stored \in Verifiers \cup {None}
    BY DEF Pages
  <1> QED
    BY <1>1 DEF Outcome, Verifiers

LEMMA SubmitUnlockStep ==
    ASSUME IInv, NEW o \in Ops, NEW p \in Passphrases, submitUnlock(o, p)
    PROVE  IInv'
  <1>1. page.view # "closed" /\ page \in Pages /\ page.stored = verifier
    BY OpenFacts DEF submitUnlock, UnlockFormShown
  <1>2. Suspend(o, "submit", Outcome(page, p), None, p, FALSE)
    BY DEF submitUnlock
  <1>3. UNCHANGED <<verifier, page, importing, calling, late, replaced, erased>>
    BY DEF submitUnlock
  <1>4. /\ Outcome(page, p) \in Steps /\ p \in Seals
        /\ Outcome(page, p) = "unlock" => verifier = [pass |-> p, secure |-> TRUE]
    BY <1>1, OutcomeFacts DEF Steps, Seals
  <1>5. op' \in [Ops -> Handlers] /\ HandlersSound'
    BY <1>2, <1>3, <1>4, SuspendKeeps
  <1> QED
    BY <1>1, <1>3, <1>5, SamePageStep, OpenFacts

(* A page without its passphrase. *)
LEMMA LockStep ==
    ASSUME IInv, page.view # "closed", UNCHANGED <<verifier, late, replaced, erased>>,
           op' \in [Ops -> Handlers], HandlersSound',
           NEW u \in Pages, Render(u, FALSE), importing' = ImportingAfter(u),
           u.view = page.view, u.stored = page.stored, u.pass = None, u.items = page.items,
           u.revealed = page.revealed, u.editing = page.editing
    PROVE  IInv'
  <1>1. Vouched(u.pass) /\ EditSound(u.editing)
    BY OpenFacts DEF Vouched
  <1>2. importing' \in BOOLEAN
    BY OpenFacts DEF ImportingAfter
  <1> QED
    BY <1>1, <1>2, RenderStep, OpenFacts

LEMMA RefuseUnlockStep ==
    ASSUME IInv, NEW o \in Ops, RefuseUnlock(o)
    PROVE  IInv'
  <1>1. page.view # "closed" /\ page \in Pages
    BY Busy, OpenFacts DEF RefuseUnlock, At
  <1>2. op' \in [Ops -> Handlers] /\ HandlersSound'
    BY EndOpKeeps DEF RefuseUnlock
  <1> DEFINE u == [page EXCEPT !.pass = None]
  <1>3. /\ u \in Pages /\ u.view = page.view /\ u.stored = page.stored /\ u.pass = None
        /\ u.items = page.items /\ u.revealed = page.revealed /\ u.editing = page.editing
    BY <1>1 DEF Pages
  <1>4. /\ Render(u, FALSE) /\ importing' = ImportingAfter(u)
        /\ UNCHANGED <<verifier, late, replaced, erased>>
    BY DEF RefuseUnlock
  <1> HIDE DEF u
  <1> QED
    BY <1>1, <1>2, <1>3, <1>4, LockStep

LEMMA PressLockStep ==
    ASSUME IInv, lock
    PROVE  IInv'
  <1>1. page.view # "closed" /\ page \in Pages
    BY OpenFacts DEF lock
  <1>2. op' \in [Ops -> Handlers] /\ HandlersSound'
    BY HandlersStay DEF lock
  <1> DEFINE u == Locked(page)
  <1>3. /\ u \in Pages /\ u.view = page.view /\ u.stored = page.stored /\ u.pass = None
        /\ u.items = page.items /\ u.revealed = page.revealed /\ u.editing = page.editing
    BY <1>1 DEF Pages, Locked
  <1>4. /\ Render(u, FALSE) /\ importing' = ImportingAfter(u)
        /\ UNCHANGED <<verifier, late, replaced, erased>>
    BY DEF lock
  <1> HIDE DEF u
  <1> QED
    BY <1>1, <1>2, <1>3, <1>4, LockStep

LEMMA UnlockStep ==
    ASSUME IInv, NEW o \in Ops, Unlock(o)
    PROVE  IInv'
  <1>1. page.view # "closed" /\ page \in Pages /\ op[o] \in Handlers /\ Sound(op[o])
    BY Busy, OpenFacts DEF Unlock, At
  <1>2. op' \in [Ops -> Handlers] /\ HandlersSound'
    BY EndOpKeeps DEF Unlock
  <1> DEFINE u == [page EXCEPT !.pass = op[o].seal, !.mode = "unlocked"]
  <1>3. /\ op[o].seal \in Passphrases
        /\ ~replaced => verifier = [pass |-> op[o].seal, secure |-> TRUE]
    BY <1>1 DEF Unlock, At, Sound
  <1>4. /\ u \in Pages /\ u.view = page.view /\ u.stored = page.stored
        /\ u.pass = op[o].seal /\ u.items = page.items /\ u.revealed = page.revealed
        /\ u.editing = page.editing
    BY <1>1, <1>3 DEF Pages
  <1>5. Render(u, FALSE) /\ UNCHANGED <<verifier, importing, late, replaced, erased>>
    BY DEF Unlock
  <1> HIDE DEF u
  <1>6. Unlocked(u) /\ Vouched(u.pass) /\ EditSound(u.editing)
    BY <1>1, <1>3, <1>4, OpenFacts, NoneApart DEF Vouched, Unlocked
  <1> QED
    BY <1>1, <1>2, <1>4, <1>5, <1>6, RenderStep, OpenFacts

(* The one step that writes the verifier: for the passphrase that it       *)
(* already vouches for, the first one, or over another one.                *)
LEMMA AdoptVerifierStep ==
    ASSUME IInv, NEW o \in Ops, AdoptVerifier(o)
    PROVE  IInv'
  <1>1. page.view # "closed" /\ page \in Pages /\ op[o] \in Handlers /\ Sound(op[o])
    BY Busy, OpenFacts DEF AdoptVerifier, At
  <1> PICK p : p = op[o].seal
    OBVIOUS
  <1> PICK v : v = [pass |-> p, secure |-> TRUE]
    OBVIOUS
  <1>2. p \in Passphrases /\ v \in Verifiers /\ v # None /\ p # None
    BY <1>1, NoneApart DEF AdoptVerifier, At, Sound
  <1> DEFINE u == [page EXCEPT !.stored = v, !.pass = p, !.mode = "unlocked"]
  <1>3. /\ EndOp(o) /\ verifier' = v
        /\ replaced' = (replaced \/ (verifier # None /\ verifier.pass # p))
        /\ Render(u, FALSE) /\ UNCHANGED <<importing, late, erased>>
    BY DEF AdoptVerifier
  <1>4. /\ u \in Pages /\ u.view = page.view /\ u.stored = v /\ u.pass = p
        /\ u.items = page.items /\ u.revealed = page.revealed /\ u.editing = page.editing
    BY <1>1, <1>2 DEF Pages
  <1> HIDE DEF u
  <1>5. Unlocked(u)
    BY <1>2, <1>4 DEF Unlocked
  <1>6. /\ page' \in Pages /\ page'.view = u.view /\ page'.stored = u.stored
        /\ page'.pass = u.pass /\ page'.editing = u.editing
        /\ bridge' = bridge /\ calls' \in Seq(Calls)
        /\ current' \in BOOLEAN /\ overtaken' \in BOOLEAN
        /\ NewestIsPublication' /\ BridgeHoldsPublication'
    BY <1>1, <1>3, <1>4, <1>5, Rendered DEF SameSecrets
  <1>7. ASSUME ~replaced'
        PROVE  /\ ~replaced /\ verifier' # None /\ verifier'.pass = p
               /\ verifier # None => verifier.pass = p
               /\ \A q \in Passphrases :
                    verifier = [pass |-> q, secure |-> TRUE] => verifier' = verifier
    <2>1. ~replaced /\ (verifier # None => verifier.pass = p)
      BY <1>3, <1>7
    <2>2. ASSUME NEW q \in Passphrases, verifier = [pass |-> q, secure |-> TRUE]
          PROVE  verifier' = verifier
      <3>1. verifier # None
        BY <2>2, NoneApart
      <3> QED
        BY <1>3, <2>1, <2>2, <3>1
    <2> QED
      BY <1>2, <1>3, <2>1, <2>2
  <1>8. op' \in [Ops -> Handlers] /\ HandlersSound'
    <2>1. /\ op \in [Ops -> Handlers] /\ \A q \in Ops : Sound(op[q])
          /\ op' = [op EXCEPT ![o] = NoOp]
      BY <1>3, Types DEF IInv, HandlersSound, EndOp
    <2>2. op' \in [Ops -> Handlers] /\ \A q \in Ops : Sound(op'[q])
      BY <2>1, NoOpSound
    <2>3. ASSUME NEW m, Sound(m) PROVE Sound(m)'
      BY <1>7, <2>3 DEF Sound, DoesNotOpen
    <2>4. \A q \in Ops : Sound(op[q])'
      BY <2>2, <2>3 DEF Sound
    <2> QED
      BY <2>2, <2>4 DEF HandlersSound
  <1>9. TypeOK'
    BY <1>2, <1>3, <1>6, <1>8, Types DEF IInv, TypeOK, Pages, Edits, Steps, Handlers, Calls
  <1>10. ClosedIsIdle' /\ StoredIsCurrent' /\ PassphraseIsVerified' /\ LockedPageForgets'
    BY <1>1, <1>2, <1>3, <1>4, <1>6
       DEF ClosedIsIdle, StoredIsCurrent, PassphraseIsVerified, LockedPageForgets, Unlocked
  <1>11. FormSound'
    BY <1>4, <1>6, <1>7 DEF IInv, FormSound, EditSound, DoesNotOpen
  <1>12. EditsKeepPasswords'
    BY <1>3 DEF IInv, EditsKeepPasswords
  <1> QED
    BY <1>6, <1>8, <1>9, <1>10, <1>11, <1>12 DEF IInv

-----------------------------------------------------------------------------
(* VaultPanel. *)

LEMMA HidePasswordStep ==
    ASSUME IInv, NEW i \in Ids, HidePassword(i)
    PROVE  IInv'
  <1>1. page.view # "closed" /\ page \in Pages /\ Unlocked(page)
    BY OpenFacts DEF HidePassword, CanPress
  <1>2. op' \in [Ops -> Handlers] /\ HandlersSound'
    BY HandlersStay DEF HidePassword
  <1>3. /\ page' \in Pages /\ page'.view # "closed" /\ page'.stored = page.stored
        /\ SameSecrets(page', page) /\ page'.editing = page.editing
    BY <1>1 DEF HidePassword, Pages, SameSecrets
  <1>4. UNCHANGED <<verifier, importing, calling, late, replaced, erased>>
    BY DEF HidePassword
  <1> QED
    BY <1>1, <1>2, <1>3, <1>4, QuietStep, OpenFacts

LEMMA TogglePasswordStep ==
    ASSUME IInv, NEW o \in Ops, NEW i \in Ids, togglePasswordVisibility(o, i)
    PROVE  IInv'
  <1>1. page.view # "closed"
    BY DEF togglePasswordVisibility, CanPress
  <1>2. /\ Suspend(o, "reveal", "open", i, "none", TRUE)
        /\ UNCHANGED <<verifier, page, importing, calling, late, replaced, erased>>
    BY DEF togglePasswordVisibility
  <1>3. "open" \in Steps /\ "none" \in Seals
    BY DEF Steps, Seals
  <1>4. op' \in [Ops -> Handlers] /\ HandlersSound'
    BY <1>2, <1>3, SuspendKeeps
  <1> QED
    BY <1>1, <1>2, <1>4, SamePageStep, OpenFacts

(* Shown after a lock, it counts as late. *)
LEMMA RevealPasswordStep ==
    ASSUME IInv, NEW o \in Ops, RevealPassword(o)
    PROVE  IInv'
  <1>1. page.view # "closed" /\ page \in Pages /\ op[o] \in Handlers /\ Sound(op[o])
    BY Busy, OpenFacts DEF RevealPassword, At
  <1>2. op' \in [Ops -> Handlers] /\ HandlersSound'
    BY EndOpKeeps DEF RevealPassword
  <1>3. op[o].id \in Ids
    BY <1>1 DEF RevealPassword, At, Sound
  <1>4. /\ page' \in Pages /\ page'.view # "closed" /\ page'.stored = page.stored
        /\ SameSecrets(page', page) /\ page'.editing = page.editing
    BY <1>1, <1>3 DEF RevealPassword, Pages, SameSecrets
  <1>5. /\ late' = (late \/ ~Unlocked(page))
        /\ UNCHANGED <<verifier, importing, calling, replaced, erased>>
    BY DEF RevealPassword
  <1> QED
    BY <1>1, <1>2, <1>4, <1>5, QuietStep, OpenFacts

(* Where the form is to show no password, none opens: the page's           *)
(* passphrase is the one that the verifier vouches for.                    *)
LEMMA StartEditingStep ==
    ASSUME IInv, NEW o \in Ops, NEW i \in Ids, startEditing(o, i)
    PROVE  IInv'
  <1> PICK b \in BOOLEAN : b = (hasSavedPassword(page, i) /\ Opens(page, i, page.pass))
    OBVIOUS
  <1>1. page.view # "closed" /\ page \in Pages /\ Unlocked(page)
    BY OpenFacts DEF startEditing, CanPress
  <1>2. /\ Suspend(o, "edit", "open", i, page.items[i], b)
        /\ UNCHANGED <<verifier, page, importing, calling, late, replaced, erased>>
    BY DEF startEditing
  <1>3. page.items[i] \in Seals /\ "open" \in Steps
    BY <1>1 DEF Pages, Steps
  <1>4. ASSUME ~b, ~replaced PROVE DoesNotOpen(page.items[i])
    <2>1. /\ page.items[i] \in {"none", "absent"}
             \/ (page.items[i] # page.pass /\ page.items[i] # "plain")
      BY <1>4 DEF hasSavedPassword, Opens
    <2>2. verifier = [pass |-> page.pass, secure |-> TRUE] /\ page.pass \in Passphrases
      BY <1>1, <1>4 DEF IInv, PassphraseIsVerified, Unlocked, Pages
    <2>3. verifier # None /\ verifier.pass = page.pass
      BY <2>2, NoneApart
    <2> QED
      BY <2>1, <2>3, NoneApart DEF DoesNotOpen
  <1>5. op' \in [Ops -> Handlers] /\ HandlersSound'
    BY <1>2, <1>3, <1>4, SuspendKeeps
  <1> QED
    BY <1>1, <1>2, <1>5, SamePageStep, OpenFacts

LEMMA ShowEditFormStep ==
    ASSUME IInv, NEW o \in Ops, ShowEditForm(o)
    PROVE  IInv'
  <1>1. page.view # "closed" /\ page \in Pages /\ op[o] \in Handlers /\ Sound(op[o])
    BY Busy, OpenFacts DEF ShowEditForm, At
  <1>2. op' \in [Ops -> Handlers] /\ HandlersSound'
    BY EndOpKeeps DEF ShowEditForm
  <1> DEFINE e == [id |-> op[o].id, from |-> op[o].seal, password |-> op[o].ok,
                   touched |-> FALSE]
             u == [page EXCEPT !.selected = op[o].id, !.detail = "item", !.editing = e]
  <1>3. e \in Edits /\ EditSound(e)
    BY <1>1 DEF Handlers, Edits, ShowEditForm, At, Sound, EditSound
  <1>4. /\ Render(u, FALSE) /\ late' = (late \/ ~Unlocked(page))
        /\ UNCHANGED <<verifier, importing, replaced, erased>>
    BY DEF ShowEditForm
  <1>5. op[o].id \in Ids \cup {None}
    BY <1>1 DEF Handlers
  <1> HIDE DEF e
  <1>6. /\ u \in Pages /\ u.view = page.view /\ u.stored = page.stored
        /\ u.pass = page.pass /\ u.items = page.items /\ u.editing = e
    BY <1>1, <1>3, <1>5 DEF Pages
  <1> HIDE DEF u
  <1>7. Vouched(u.pass) /\ (Unlocked(u) <=> Unlocked(page))
    BY <1>6 DEF Vouched, Unlocked
  <1> QED
    BY <1>1, <1>2, <1>3, <1>4, <1>6, <1>7, RenderStep, OpenFacts

(* The panel shows something else. *)
LEMMA SelectStep ==
    ASSUME IInv, page.view # "closed", Unlocked(page),
           UNCHANGED <<verifier, importing, op, late, replaced, erased>>,
           NEW u \in Pages, Render(u, FALSE),
           u.view = page.view, u.stored = page.stored, u.pass = page.pass,
           u.items = page.items, u.editing = NoEdit
    PROVE  IInv'
  <1>1. op' \in [Ops -> Handlers] /\ HandlersSound'
    BY HandlersStay
  <1>2. Vouched(u.pass) /\ EditSound(u.editing) /\ Unlocked(u)
    BY NoEditSound DEF Vouched, Unlocked
  <1> QED
    BY <1>1, <1>2, RenderStep, OpenFacts

LEMMA SelectSteps ==
    ASSUME IInv, openCreatePanel \/ \E i \in Ids : selectItem(i)
    PROVE  IInv'
  <1>1. page \in Pages /\ page.view # "closed" /\ Unlocked(page)
    BY OpenFacts DEF openCreatePanel, selectItem, CanPress
  <1>2. PICK u : /\ Render(u, FALSE)
                 /\ \/ u = [cancelEditing(page) EXCEPT !.detail = "create"]
                    \/ \E i \in Ids : u = [cancelEditing(page) EXCEPT !.selected = i,
                                                                      !.detail = "item"]
    BY DEF openCreatePanel, selectItem
  <1>3. /\ u \in Pages /\ u.view = page.view /\ u.stored = page.stored /\ u.pass = page.pass
        /\ u.items = page.items /\ u.editing = NoEdit
    BY <1>1, <1>2, NoPageType DEF cancelEditing, Pages
  <1>4. UNCHANGED <<verifier, importing, op, late, replaced, erased>>
    BY DEF openCreatePanel, selectItem
  <1> QED
    BY <1>1, <1>2, <1>3, <1>4, SelectStep

LEMMA TypePasswordStep ==
    ASSUME IInv, NEW b \in BOOLEAN, TypePassword(b)
    PROVE  IInv'
  <1>1. page.view # "closed" /\ page \in Pages /\ Unlocked(page) /\ page.editing \in Edits
    BY OpenFacts DEF TypePassword, EditFormShown, Pages
  <1>2. op' \in [Ops -> Handlers] /\ HandlersSound'
    BY HandlersStay DEF TypePassword
  <1> DEFINE e == [page.editing EXCEPT !.password = b, !.touched = TRUE]
  <1>3. e \in Edits /\ EditSound(e)
    BY <1>1 DEF Edits, EditSound
  <1>4. page' = [page EXCEPT !.editing = e]
    BY <1>1 DEF TypePassword, Pages, Edits
  <1> HIDE DEF e
  <1>5. /\ page' \in Pages /\ page'.view # "closed" /\ page'.stored = page.stored
        /\ SameSecrets(page', page) /\ page'.editing = e
    BY <1>1, <1>3, <1>4 DEF Pages, SameSecrets
  <1>6. UNCHANGED <<verifier, importing, calling, late, replaced, erased>>
    BY DEF TypePassword
  <1> QED
    BY <1>1, <1>2, <1>3, <1>5, <1>6, QuietStep, OpenFacts

LEMMA PressCancelStep ==
    ASSUME IInv, PressCancel
    PROVE  IInv'
  <1>1. page.view # "closed" /\ page \in Pages /\ Unlocked(page)
    BY OpenFacts DEF PressCancel, EditFormShown
  <1>2. op' \in [Ops -> Handlers] /\ HandlersSound'
    BY HandlersStay DEF PressCancel
  <1>3. /\ page' \in Pages /\ page'.view # "closed" /\ page'.stored = page.stored
        /\ SameSecrets(page', page) /\ page'.editing = NoEdit
    BY <1>1, NoPageType DEF PressCancel, cancelEditing, Pages, SameSecrets
  <1>4. UNCHANGED <<verifier, importing, calling, late, replaced, erased>>
    BY DEF PressCancel
  <1> QED
    BY <1>1, <1>2, <1>3, <1>4, NoEditSound, QuietStep, OpenFacts

(* A form whose password field was left alone erases no password that the  *)
(* page opens.                                                             *)
LEMMA NoErasure ==
    ASSUME IInv, EditFormShown, ~replaced
    PROVE  ~Erases(page.editing)
  <1>1. page.view # "closed" /\ page \in Pages /\ Unlocked(page) /\ EditSound(page.editing)
    BY OpenFacts DEF EditFormShown
  <1>2. verifier = [pass |-> page.pass, secure |-> TRUE] /\ page.pass \in Passphrases
    BY <1>1 DEF IInv, PassphraseIsVerified, Unlocked, Pages
  <1>3. verifier.pass = page.pass
    BY <1>2
  <1> QED
    BY <1>1, <1>2, <1>3 DEF Erases, EditSound, DoesNotOpen

LEMMA SaveEditingStep ==
    ASSUME IInv, NEW o \in Ops, saveEditing(o)
    PROVE  IInv'
  <1> PICK a : a = IF page.editing.password THEN page.pass ELSE "none"
    OBVIOUS
  <1>1. page.view # "closed" /\ page \in Pages /\ Unlocked(page) /\ page.editing.id \in Ids
    BY OpenFacts DEF saveEditing, EditFormShown, Listed
  <1>2. /\ Suspend(o, "write", "seal", page.editing.id, a, TRUE)
        /\ UNCHANGED <<verifier, page, importing, calling, late, replaced>>
    BY DEF saveEditing
  <1>3. a \in Seals /\ "seal" \in Steps
    BY <1>1 DEF Pages, Unlocked, Seals, Steps
  <1>4. op' \in [Ops -> Handlers] /\ HandlersSound'
    BY <1>1, <1>2, <1>3, SuspendKeeps
  <1>5. erased' = erased \/ (replaced /\ erased' \in SUBSET Ids)
    <2>1. erased \in SUBSET Ids /\ replaced \in BOOLEAN
      BY Types DEF IInv
    <2> QED
      BY <1>1, <2>1, NoErasure DEF saveEditing
  <1> QED
    BY <1>1, <1>2, <1>4, <1>5, SamePageStep, OpenFacts

LEMMA HandleSubmitStep ==
    ASSUME IInv, NEW o \in Ops, NEW i \in Ids, handleSubmit(o, i)
    PROVE  IInv'
  <1>1. page.view # "closed" /\ page \in Pages /\ Unlocked(page)
    BY OpenFacts DEF handleSubmit, CreateFormShown
  <1>2. PICK s \in {page.pass, "none"} : Suspend(o, "write", "seal", i, s, FALSE)
    BY DEF handleSubmit
  <1>3. UNCHANGED <<verifier, page, importing, calling, late, replaced, erased>>
    BY DEF handleSubmit
  <1>4. s \in Seals /\ "seal" \in Steps
    BY <1>1 DEF Pages, Unlocked, Seals, Steps
  <1>5. op' \in [Ops -> Handlers] /\ HandlersSound'
    BY <1>2, <1>3, <1>4, SuspendKeeps
  <1> QED
    BY <1>1, <1>3, <1>5, SamePageStep, OpenFacts

LEMMA DeleteItemStep ==
    ASSUME IInv, NEW o \in Ops, deleteItem(o)
    PROVE  IInv'
  <1>1. page.view # "closed" /\ page \in Pages /\ Unlocked(page)
    BY OpenFacts DEF deleteItem, DetailsShown
  <1>2. Suspend(o, "delete", "sync", page.selected, "none", FALSE)
    BY DEF deleteItem
  <1>3. UNCHANGED <<verifier, importing, calling, late, replaced, erased>>
    BY DEF deleteItem
  <1>4. page.selected \in Ids \cup {None} /\ "none" \in Seals /\ "sync" \in Steps
    BY <1>1 DEF Pages, Seals, Steps
  <1>5. op' \in [Ops -> Handlers] /\ HandlersSound'
    BY <1>2, <1>3, <1>4, SuspendKeeps
  <1>6. /\ page' \in Pages /\ page'.view # "closed" /\ page'.stored = page.stored
        /\ SameSecrets(page', page) /\ page'.editing = page.editing
    BY <1>1 DEF deleteItem, Pages, SameSecrets
  <1> QED
    BY <1>1, <1>3, <1>5, <1>6, QuietStep, OpenFacts

-----------------------------------------------------------------------------
(* Save to this Mac. *)

LEMMA SaveToMacStep ==
    ASSUME IInv, NEW o \in Ops, saveToMac(o)
    PROVE  IInv'
  <1> PICK b \in BOOLEAN :
        b = \E i \in Ids : hasSavedPassword(page, i) /\ Opens(page, i, page.pass)
    OBVIOUS
  <1>1. page.view # "closed"
    BY DEF saveToMac
  <1>2. /\ Suspend(o, "save", "check", None, "none", b)
        /\ UNCHANGED <<verifier, page, importing, calling, late, replaced, erased>>
    BY DEF saveToMac
  <1>3. "check" \in Steps /\ "none" \in Seals
    BY DEF Steps, Seals
  <1>4. op' \in [Ops -> Handlers] /\ HandlersSound'
    BY <1>2, <1>3, SuspendKeeps
  <1> QED
    BY <1>1, <1>2, <1>4, SamePageStep, OpenFacts

LEMMA ImportSteps ==
    ASSUME IInv, NEW o \in Ops, CheckCompanion(o) \/ EndImport(o)
    PROVE  IInv'
  <1>1. page.view # "closed"
    BY Busy DEF CheckCompanion, EndImport, At
  <1>2. /\ UNCHANGED <<verifier, page, calling, late, replaced, erased>>
        /\ importing' \in BOOLEAN
    BY <1>1, OpenFacts DEF CheckCompanion, EndImport
  <1>3. GoOn(o, "import") \/ EndOp(o)
    BY DEF CheckCompanion, EndImport
  <1>4. op[o].kind \notin {"submit", "edit"} /\ "import" \in Steps
    BY DEF CheckCompanion, EndImport, At, Steps
  <1>5. op' \in [Ops -> Handlers] /\ HandlersSound'
    BY <1>2, <1>3, <1>4, GoOnKeeps, EndOpKeeps
  <1> QED
    BY <1>1, <1>2, <1>5, SamePageStep

-----------------------------------------------------------------------------
(* The bridge. *)

(* What is left are calls that were under way before. *)
LEMMA RemoveAtFacts ==
    ASSUME NEW S, NEW s \in Seq(S), NEW n \in DOMAIN s
    PROVE  /\ RemoveAt(s, n) \in Seq(S)
           /\ \A k \in DOMAIN RemoveAt(s, n) :
                \E j \in DOMAIN s : RemoveAt(s, n)[k] = s[j]
  <1> PICK len \in Nat : len = Len(s) /\ DOMAIN s = 1 .. len
    OBVIOUS
  <1> DEFINE a == SubSeq(s, 1, n - 1)
             b == SubSeq(s, n + 1, len)
  <1>1. n \in 1 .. len
    OBVIOUS
  <1>2. a \in Seq(S) /\ Len(a) = n - 1 /\ \A k \in 1 .. n - 1 : a[k] = s[k]
    BY <1>1
  <1>3. b \in Seq(S) /\ Len(b) = len - n /\ \A k \in 1 .. len - n : b[k] = s[n + k]
    BY <1>1
  <1>4. RemoveAt(s, n) = a \o b
    BY DEF RemoveAt
  <1> HIDE DEF a, b
  <1>5. /\ a \o b \in Seq(S) /\ Len(a \o b) = len - 1
        /\ \A k \in 1 .. len - 1 : (a \o b)[k] = IF k <= n - 1 THEN a[k] ELSE b[k - (n - 1)]
    <2>1. /\ a \o b \in Seq(S) /\ Len(a \o b) = Len(a) + Len(b)
          /\ \A k \in 1 .. Len(a) + Len(b) :
               (a \o b)[k] = IF k <= Len(a) THEN a[k] ELSE b[k - Len(a)]
      BY <1>2, <1>3, ConcatProperties
    <2>2. n \in Nat /\ Len(a) = n - 1 /\ Len(a) + Len(b) = len - 1
      BY <1>1, <1>2, <1>3
    <2> QED
      BY <2>1, <2>2
  <1>6. ASSUME NEW k \in 1 .. len - 1
        PROVE  \E j \in 1 .. len : (a \o b)[k] = s[j]
    <2>1. CASE k <= n - 1
      <3>1. k \in 1 .. n - 1 /\ k \in 1 .. len
        BY <1>1, <2>1
      <3>2. (a \o b)[k] = s[k]
        BY <1>2, <1>5, <2>1, <3>1
      <3> QED
        BY <3>1, <3>2
    <2>2. CASE k > n - 1
      <3>1. k - (n - 1) \in 1 .. len - n /\ n + (k - (n - 1)) = k + 1 /\ k + 1 \in 1 .. len
        BY <1>1, <2>2
      <3>2. (a \o b)[k] = s[k + 1]
        BY <1>3, <1>5, <2>2, <3>1
      <3> QED
        BY <3>1, <3>2
    <2>3. n \in Int /\ k \in Int
      BY <1>1
    <2>4. k <= n - 1 \/ k > n - 1
      BY <2>3
    <2> QED
      BY <2>1, <2>2, <2>4
  <1>7. DOMAIN (a \o b) = 1 .. len - 1
    BY <1>5
  <1> QED
    BY <1>4, <1>5, <1>6, <1>7

(* A step of the API alone. *)
LEMMA ApiStep ==
    ASSUME IInv, UNCHANGED <<verifier, page, importing, op, late, replaced, erased>>,
           bridge' \in [ids : SUBSET Ids, fresh : BOOLEAN], calls' \in Seq(Calls),
           current' \in BOOLEAN, overtaken' \in BOOLEAN,
           \A k \in DOMAIN calls' : \E j \in DOMAIN calls : calls'[k] = calls[j],
           page.view # "closed" /\ current' /\ ~overtaken' /\ bridge'.fresh =>
               Unlocked(page) /\ bridge'.ids = Publishable(page)
    PROVE  IInv'
  <1>1. TypeOK'
    BY Types DEF IInv, TypeOK, Pages, Edits, Steps, Handlers, Calls
  <1>2. HandlersSound'
    BY HandlersStay
  <1>3. ClosedIsIdle' /\ StoredIsCurrent' /\ PassphraseIsVerified' /\ LockedPageForgets'
    BY DEF IInv, ClosedIsIdle, StoredIsCurrent, PassphraseIsVerified, LockedPageForgets, Unlocked
  <1>4. FormSound' /\ EditsKeepPasswords'
    BY DEF IInv, FormSound, EditSound, DoesNotOpen, EditsKeepPasswords
  <1>5. NewestIsPublication'
    <2>1. \A c : CallSound(c, page)' <=> CallSound(c, page)
      BY DEF CallSound, Unlocked, Publishable, Opens
    <2> QED
      BY <2>1 DEF IInv, NewestIsPublication
  <1>6. BridgeHoldsPublication'
    BY DEF BridgeHoldsPublication, Unlocked, Publishable, Opens
  <1> QED
    BY <1>1, <1>2, <1>3, <1>4, <1>5, <1>6 DEF IInv

(* The newest call leaves the bridge as the page is; an older one that     *)
(* comes after it is noticed.                                              *)
LEMMA TakeEffectStep ==
    ASSUME IInv, NEW n \in DOMAIN calls,
           publishUnlockedCredentialSession(n) \/ clearUnlockedCredentialSession(n)
    PROVE  IInv'
  <1> PICK c : c = calls[n]
    OBVIOUS
  <1>1. calls \in Seq(Calls) /\ c \in Calls
    BY Types DEF IInv
  <1>2. TakeEffect(n)
    BY DEF publishUnlockedCredentialSession, clearUnlockedCredentialSession
  <1>3. /\ calls' = RemoveAt(calls, n) /\ current' = (current \/ c.newest)
        /\ overtaken' = (overtaken \/ (current /\ ~c.newest))
        /\ UNCHANGED <<verifier, page, importing, op, late, replaced, erased>>
    BY <1>2 DEF TakeEffect
  <1>4. /\ calls' \in Seq(Calls)
        /\ \A k \in DOMAIN calls' : \E j \in DOMAIN calls : calls'[k] = calls[j]
    BY <1>1, <1>3, RemoveAtFacts
  <1>5. \/ c.kind = "publish" /\ bridge' = [ids |-> c.ids, fresh |-> TRUE]
        \/ c.kind = "clear" /\ bridge' = [ids |-> {}, fresh |-> FALSE]
    BY DEF publishUnlockedCredentialSession, clearUnlockedCredentialSession,
           replaceUnlockedCredentials
  <1>6. bridge' \in [ids : SUBSET Ids, fresh : BOOLEAN] /\ c.newest \in BOOLEAN
    <2>1. c.ids \in SUBSET Ids /\ c.newest \in BOOLEAN
      BY <1>1 DEF Calls
    <2>2. CASE bridge' = [ids |-> c.ids, fresh |-> TRUE]
      BY <2>1, <2>2
    <2>3. CASE bridge' = [ids |-> {}, fresh |-> FALSE]
      BY <2>1, <2>3
    <2> QED
      BY <1>5, <2>2, <2>3
  <1>7. current' \in BOOLEAN /\ overtaken' \in BOOLEAN
    BY <1>3, <1>6, Types DEF IInv
  <1>8. ASSUME page.view # "closed", current', ~overtaken', bridge'.fresh
        PROVE  Unlocked(page) /\ bridge'.ids = Publishable(page)
    <2>1. c.newest
      BY <1>3, <1>6, <1>8, Types DEF IInv
    <2>2. CallSound(c, page)
      BY <1>8 DEF IInv, NewestIsPublication
    <2> QED
      BY <1>5, <1>8, <2>1, <2>2 DEF CallSound
  <1> QED
    BY <1>3, <1>4, <1>6, <1>7, <1>8, ApiStep

LEMMA EndCallStep ==
    ASSUME IInv, NEW n \in DOMAIN calls, EndCall(n)
    PROVE  IInv'
  <1>1. calls \in Seq(Calls)
    BY Types DEF IInv
  <1>2. /\ calls' = RemoveAt(calls, n)
        /\ UNCHANGED <<verifier, page, importing, op, bridge, current, overtaken, late,
                       replaced, erased>>
    BY DEF EndCall
  <1>3. /\ calls' \in Seq(Calls)
        /\ \A k \in DOMAIN calls' : \E j \in DOMAIN calls : calls'[k] = calls[j]
    BY <1>1, <1>2, RemoveAtFacts
  <1> QED
    BY <1>2, <1>3, ApiStep, Types DEF IInv, BridgeHoldsPublication

(* The credentials run out, are dropped when somebody asks, or are lost.   *)
LEMMA BridgeEmptiesStep ==
    ASSUME IInv, Expire \/ readUnlockedCredentials \/ RestartApi
    PROVE  IInv'
  <1>1. UNCHANGED <<verifier, page, importing, op, calls, overtaken, late, replaced, erased>>
    BY DEF Expire, readUnlockedCredentials, RestartApi
  <1>2. bridge \in [ids : SUBSET Ids, fresh : BOOLEAN]
    BY Types DEF IInv
  <1>3. bridge' \in [ids : SUBSET Ids, fresh : BOOLEAN] /\ ~bridge'.fresh
    <2>1. CASE Expire
      BY <1>2, <2>1 DEF Expire
    <2>2. CASE readUnlockedCredentials
      BY <1>2, <2>2 DEF readUnlockedCredentials
    <2>3. CASE RestartApi
      <3>1. bridge' = [ids |-> {}, fresh |-> FALSE]
        BY <2>3 DEF RestartApi
      <3> QED
        BY <3>1
    <2> QED
      BY <2>1, <2>2, <2>3
  <1>4. current' \in BOOLEAN /\ overtaken' \in BOOLEAN /\ calls' \in Seq(Calls)
    BY <1>1, Types DEF IInv, Expire, readUnlockedCredentials, RestartApi
  <1> QED
    BY <1>1, <1>3, <1>4, ApiStep

-----------------------------------------------------------------------------
LEMMA SuspendedStep ==
    ASSUME IInv, NEW o \in Ops, Suspended(o)
    PROVE  IInv'
  BY ReceiveItemsStep, SyncFailsStep, SendWriteStep, RefuseUnlockStep, AdoptVerifierStep,
     UnlockStep, RevealPasswordStep, ShowEditFormStep, ImportSteps DEF Suspended

LEMMA UserStep ==
    ASSUME IInv, User
    PROVE  IInv'
  <1>1. CASE ClosePage \/ lock \/ openCreatePanel \/ PressCancel
    BY <1>1, ClosePageStep, PressLockStep, SelectSteps, PressCancelStep
  <1>2. CASE \E b \in BOOLEAN : TypePassword(b)
    BY <1>2, TypePasswordStep
  <1>3. CASE \E i \in Ids : HidePassword(i) \/ selectItem(i)
    BY <1>3, HidePasswordStep, SelectSteps
  <1>4. CASE \E o \in Ops : OpenPage(o) \/ saveEditing(o) \/ deleteItem(o) \/ saveToMac(o)
    BY <1>4, OpenPageStep, SaveEditingStep, DeleteItemStep, SaveToMacStep
  <1>5. CASE \E o \in Ops, p \in Passphrases : submitUnlock(o, p)
    BY <1>5, SubmitUnlockStep
  <1>6. CASE \E o \in Ops, i \in Ids :
               togglePasswordVisibility(o, i) \/ startEditing(o, i) \/ handleSubmit(o, i)
    BY <1>6, TogglePasswordStep, StartEditingStep, HandleSubmitStep
  <1> QED
    BY <1>1, <1>2, <1>3, <1>4, <1>5, <1>6 DEF User

LEMMA IdleStep ==
    ASSUME IInv, UNCHANGED vars
    PROVE  IInv'
  <1>1. UNCHANGED <<verifier, page, importing, op, bridge, calls, current, overtaken, late,
                    replaced, erased>>
    BY DEF vars
  <1> QED
    BY <1>1, ApiStep, Types DEF IInv, BridgeHoldsPublication

LEMMA NextIInv == IInv /\ [Next]_vars => IInv'
  <1> SUFFICES ASSUME IInv, [Next]_vars PROVE IInv'
    OBVIOUS
  <1>1. CASE \E o \in Ops : Suspended(o)
    BY <1>1, SuspendedStep
  <1>2. CASE User
    BY <1>2, UserStep
  <1>3. CASE Api
    BY <1>3, TakeEffectStep, EndCallStep, BridgeEmptiesStep DEF Api
  <1>4. CASE Expire
    BY <1>4, BridgeEmptiesStep
  <1>5. CASE UNCHANGED vars
    BY <1>5, IdleStep
  <1> QED
    BY <1>1, <1>2, <1>3, <1>4, <1>5 DEF Next

LEMMA Inductive == Spec => []IInv
  BY InitIInv, NextIInv, PTL DEF Spec

(* Every variable keeps its type, for any number of handlers and calls     *)
(* under way.                                                              *)
THEOREM TypeCorrect == Spec => []TypeOK
  <1>1. IInv => TypeOK
    BY DEF IInv
  <1> QED
    BY <1>1, Inductive, PTL

(* Once its newest call has taken effect and no older one after it, the    *)
(* bridge gives exactly what the page has unlocked (vault-panel.tsx,       *)
(* bridge-session.ts), whatever was lost, refused or overtaken before.     *)
THEOREM BridgeAlwaysFollowsPage == Spec => []BridgeFollowsPage
  <1>1. IInv => BridgeFollowsPage
    BY DEF IInv, BridgeFollowsPage, BridgeHoldsPublication, UnlockedCredentials, Publishable
  <1> QED
    BY <1>1, Inductive, PTL

(* However submissions, locks and reloads overlap, the passphrase of an    *)
(* unlocked page is the one its verifier and the stored one vouch for      *)
(* (use-vault-unlock.ts, submitUnlock).                                    *)
THEOREM PassphraseVerified == Spec => []PassphraseIsVerified
  <1>1. IInv => PassphraseIsVerified
    BY DEF IInv
  <1> QED
    BY <1>1, Inductive, PTL

(* A locked page has forgotten what it showed and edited, but for handlers *)
(* that end after the lock (vault-panel.tsx).                              *)
THEOREM LockedForgets == Spec => []LockedPageForgets
  <1>1. IInv => LockedPageForgets
    BY DEF IInv
  <1> QED
    BY <1>1, Inductive, PTL

(* No edit erases a password that was left alone (vault-panel.tsx,         *)
(* startEditing and saveEditing).                                          *)
THEOREM EditsEraseNothing == Spec => []EditsKeepPasswords
  <1>1. IInv => EditsKeepPasswords
    BY DEF IInv
  <1> QED
    BY <1>1, Inductive, PTL

(* The last word of an open page to the bridge is about what it has        *)
(* unlocked now: of a locked page it is a clear, so that nothing but the   *)
(* loss of that call, or an older call that overtakes it, can keep a       *)
(* locked page's passwords there until their deadline (vault-panel.tsx,    *)
(* the effect that publishes).                                             *)
THEOREM LastCallIsCurrent == Spec => []NewestIsPublication
  <1>1. IInv => NewestIsPublication
    BY DEF IInv
  <1> QED
    BY <1>1, Inductive, PTL
=============================================================================
