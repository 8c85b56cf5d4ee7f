----------------------- MODULE ExtensionSessionProofs -----------------------
(***************************************************************************)
(* Proofs about ExtensionSession, for any number of accounts, passphrases, *)
(* logins and messages under way.                                          *)
(***************************************************************************)
EXTENDS ExtensionSession, TLAPS

Steps == Serving \cup Answered \cup {"idle", "ready"}

Messages == [kind : Kinds \cup {"none"}, step : Steps,
             arg : Accounts \cup Passphrases \cup {None},
             seen : Verifiers \cup {None},
             found : SUBSET Credentials,
             picked : Credentials \cup {None}]

Popups == [mode : {"closed", "needs_setup", "locked", "unlocked"},
           held : Passphrases \cup {None},
           status : {"closed", "loading", "signed_out", "signing_in", "signed_in"},
           items : SUBSET Logins, hasLoaded : BOOLEAN,
           revealed : SUBSET Logins, passwords : SUBSET Logins]

(* What a message carries fits its kind and how far it is. *)
ArgFits(m) ==
    /\ m.kind = "unlock" /\ m.step # "error" => m.arg \in Passphrases
    /\ m.kind = "sign_in" /\ m.step # "error" => m.arg \in Accounts
    /\ m.kind = "hydrate" => m.found \subseteq Logins
    /\ m.kind = "hydrate" /\ m.step = "sync" => m.arg \in Accounts
    /\ m.kind = "unlock" /\ m.step = "try" /\ m.seen # None => m.seen.pass = m.arg
    /\ m.picked # None => m.kind = "fill"
    /\ m.step = "release" => m.picked # None
    /\ m.kind = "unlock" /\ m.step \in Answered => m.step \in {"unlocked", "error"}
    /\ m.kind \in {"lock", "state"} /\ m.step \in Answered =>
           m.step \in {"unlocked", "locked", "needs_setup", "error"}

(* What an unlock has read of the verifier still holds, and once it has    *)
(* passed all its checks the verifier vouches for its passphrase.          *)
UnlockSound(m) ==
    ~replaced =>
        /\ m.seen # None =>
             /\ verifier # None /\ verifier.pass = m.seen.pass
             /\ m.seen.secure => verifier.secure
        /\ m.kind = "unlock" /\ m.step \in {"open", "unlocked"} => Vouches(m.arg)

SignInSound(m) == m.kind = "sign_in" /\ m.step = "store" => m.arg \in profiles

(* The login that a fill has picked is still the one for the page, in the  *)
(* cache or on the Mac.                                                    *)
FillSound(r, m) ==
    r \notin moved /\ m.kind = "fill" =>
        /\ m.picked \in Logins => OnlyMatch(cache, m.picked)
        /\ m.picked \in Companions => mac = {m.picked}
        /\ m.step = "ready" => m.found = {m.picked}

MessageSound(r, m) == ArgFits(m) /\ UnlockSound(m) /\ SignInSound(m) /\ FillSound(r, m)

IInv ==
    /\ TypeOK
    /\ \A r \in Requests : MessageSound(r, req[r])
    /\ PassphraseIsVerified /\ LockedPopupForgets /\ SignedInHasProfile /\ PopupNeverStuck

-----------------------------------------------------------------------------
(* The records of TypeOK, under their names here. *)
LEMMA Types ==
    TypeOK <=>
      /\ auth \in Accounts \cup {None} /\ verifier \in Verifiers \cup {None}
      /\ cache \in SUBSET Logins /\ profiles \in SUBSET Accounts /\ mac \in MacLogins
      /\ unlockPassphrase \in Passphrases \cup {None}
      /\ req \in [Requests -> Messages] /\ heard \in SUBSET Requests
      /\ popup \in Popups /\ replaced \in BOOLEAN /\ moved \in SUBSET Requests
  BY DEF TypeOK, Messages, Popups, Steps

LEMMA MessageType ==
    ASSUME IInv, NEW r \in Requests
    PROVE  req[r] \in Messages /\ MessageSound(r, req[r])
  BY Types DEF IInv

LEMMA VerifierType ==
    \A p \in Passphrases :
        [pass |-> p, secure |-> TRUE] \in Verifiers /\ [pass |-> p, secure |-> TRUE] # None
  <1>1. None \notin Verifiers
    BY ExtensionAssumption DEF Verifiers
  <1>2. \A p \in Passphrases : [pass |-> p, secure |-> TRUE] \in Verifiers
    BY DEF Verifiers
  <1> QED
    BY <1>1, <1>2

LEMMA IdleSound == Idle \in Messages /\ \A r : MessageSound(r, Idle)
  <1>1. Idle \in Messages
    BY DEF Idle, Messages, Steps
  <1>2. ArgFits(Idle) /\ UnlockSound(Idle) /\ SignInSound(Idle)
    BY DEF Idle, ArgFits, UnlockSound, SignInSound, Answered
  <1>3. \A r : FillSound(r, Idle)
    BY DEF Idle, FillSound
  <1> QED
    BY <1>1, <1>2, <1>3 DEF MessageSound

(* An answer that carries nothing needs nothing. *)
LEMMA AnswerSound ==
    ASSUME NEW k \in Kinds \cup {"none"}, NEW s \in {"error", "done"},
           k \in {"unlock", "sign_in"} => s = "error",
           k \in {"lock", "state"} => s = "error"
    PROVE  /\ Message(k, s, None) \in Messages
           /\ Message(k, s, None).kind = k
           /\ \A r : MessageSound(r, Message(k, s, None)) /\ MessageSound(r, Message(k, s, None))'
  <1> PICK m : m = [kind |-> k, step |-> s, arg |-> None, seen |-> None, found |-> {}, picked |-> None]
    OBVIOUS
  <1>1. Message(k, s, None) = m
    <2>1. Idle = [kind |-> "none", step |-> "idle", arg |-> None, seen |-> None, found |-> {},
                  picked |-> None]
      BY DEF Idle
    <2> PICK i : i = Idle
      OBVIOUS
    <2>2. Message(k, s, None) = [i EXCEPT !.kind = k, !.step = s, !.arg = None]
      BY DEF Message
    <2> QED
      BY <2>1, <2>2
  <1>2. m \in Messages
    BY DEF Messages, Steps, Answered
  <1>3. /\ m.kind = k /\ m.step = s /\ m.arg = None /\ m.seen = None /\ m.found = {} /\ m.picked = None
    OBVIOUS
  <1>4. ArgFits(m) /\ UnlockSound(m) /\ SignInSound(m) /\ \A r : FillSound(r, m)
    BY <1>3, ExtensionAssumption DEF ArgFits, UnlockSound, SignInSound, FillSound
  <1>5. ArgFits(m)' /\ UnlockSound(m)' /\ SignInSound(m)' /\ \A r : FillSound(r, m)'
    BY <1>3, ExtensionAssumption DEF ArgFits, UnlockSound, SignInSound, FillSound
  <1> QED
    BY <1>1, <1>2, <1>3, <1>4, <1>5
    DEF MessageSound, ArgFits, UnlockSound, SignInSound, FillSound

(* The verifier stays, or is written anew for the same passphrase. *)
VerifierStays ==
    ~replaced' =>
        /\ ~replaced
        /\ verifier # None =>
             /\ verifier' # None /\ verifier'.pass = verifier.pass
             /\ verifier.secure => verifier'.secure
        /\ \A p \in Passphrases :
             verifier = [pass |-> p, secure |-> TRUE] => verifier' = [pass |-> p, secure |-> TRUE]

(* What the messages other than r rely on stays. *)
OthersStay(r) ==
    /\ VerifierStays /\ profiles \subseteq profiles'
    /\ \A q \in Requests \ {r} : q \notin moved' =>
         /\ q \notin moved
         /\ (cache' = cache /\ mac' = mac) \/ req[q].kind # "fill" \/ req[q].picked = None

LEMMA MessagesKept ==
    ASSUME IInv, NEW r \in Requests, NEW m \in Messages, req' = [req EXCEPT ![r] = m],
           MessageSound(r, m)', OthersStay(r)
    PROVE  /\ req' \in [Requests -> Messages]
           /\ \A q \in Requests : MessageSound(q, req[q])'
           /\ req'[r] = m /\ \A q \in Requests \ {r} : req'[q] = req[q]
  <1>1. req \in [Requests -> Messages]
    BY Types DEF IInv
  <1>2. /\ req' \in [Requests -> Messages] /\ req'[r] = m
        /\ \A q \in Requests \ {r} : req'[q] = req[q]
    BY <1>1
  <1>3. MessageSound(r, req[r])'
    BY <1>2 DEF MessageSound, ArgFits, UnlockSound, SignInSound, FillSound
  <1>4. ASSUME NEW q \in Requests \ {r}
        PROVE  MessageSound(q, req[q])'
    <2> PICK n : n = req[q]
      OBVIOUS
    <2>1. n \in Messages /\ MessageSound(q, n) /\ req'[q] = n
      BY <1>2, MessageType
    <2>2. ArgFits(n)'
      BY <2>1 DEF MessageSound, ArgFits
    <2>3. UnlockSound(n)'
      <3> SUFFICES ASSUME ~replaced'
                   PROVE  /\ n.seen # None =>
                               /\ verifier' # None /\ verifier'.pass = n.seen.pass
                               /\ n.seen.secure => verifier'.secure
                          /\ n.kind = "unlock" /\ n.step \in {"open", "unlocked"} =>
                               verifier' = [pass |-> n.arg, secure |-> TRUE]
        BY DEF UnlockSound, Vouches
      <3>1. UnlockSound(n) /\ ArgFits(n)
        BY <2>1 DEF MessageSound
      <3> QED
        BY <3>1 DEF UnlockSound, ArgFits, Vouches, OthersStay, VerifierStays
    <2>4. SignInSound(n)'
      BY <2>1 DEF MessageSound, SignInSound, OthersStay
    <2>5. FillSound(q, n)'
      <3>1. FillSound(q, n)
        BY <2>1 DEF MessageSound
      <3>2. n.picked \in Logins \cup Companions => n.picked # None
        BY ExtensionAssumption
      <3> QED
        BY <2>1, <3>1, <3>2 DEF FillSound, OthersStay, OnlyMatch
    <2> QED
      BY <2>1, <2>2, <2>3, <2>4, <2>5 DEF MessageSound, ArgFits, UnlockSound, SignInSound, FillSound
  <1> QED
    BY <1>2, <1>3, <1>4

(* The passphrases in memory stay, or are forgotten, or are vouched for. *)
LEMMA PassphraseKept ==
    ASSUME IInv, VerifierStays,
           \/ unlockPassphrase' \in {unlockPassphrase, None}
           \/ ~replaced' => verifier' = [pass |-> unlockPassphrase', secure |-> TRUE],
           \/ popup'.held \in {popup.held, None}
           \/ ~replaced' => verifier' = [pass |-> popup'.held, secure |-> TRUE]
    PROVE  PassphraseIsVerified'
  <1> SUFFICES ASSUME ~replaced', NEW p \in {unlockPassphrase', popup'.held} \ {None}
               PROVE  verifier' = [pass |-> p, secure |-> TRUE]
    BY DEF PassphraseIsVerified, Vouches
  <1>1. unlockPassphrase \in Passphrases \cup {None} /\ popup.held \in Passphrases \cup {None}
    BY Types DEF IInv, Popups
  <1>2. \A o \in {unlockPassphrase, popup.held} \ {None} : verifier = [pass |-> o, secure |-> TRUE]
    BY DEF IInv, PassphraseIsVerified, Vouches, VerifierStays
  <1> QED
    BY <1>1, <1>2 DEF VerifierStays

(* The popup's status stays true to the messages it waits for. *)
LEMMA StatusKept ==
    ASSUME IInv, NEW r \in Requests, heard' = heard, popup' = popup,
           \A q \in Requests \ {r} : req'[q] = req[q],
           req[r].kind \in {"sign_in", "auth"} => req'[r].kind = req[r].kind
    PROVE  PopupNeverStuck'
  BY Types DEF IInv, PopupNeverStuck

-----------------------------------------------------------------------------
(* A step of the worker on message r, which the popup does not see. *)
LEMMA WorkerStep ==
    ASSUME IInv, NEW r \in Requests, NEW m \in Messages, req' = [req EXCEPT ![r] = m],
           heard' = heard, popup' = popup,
           MessageSound(r, m)', OthersStay(r),
           req[r].kind \in {"sign_in", "auth"} => m.kind = req[r].kind,
           auth' \in Accounts \cup {None}, verifier' \in Verifiers \cup {None},
           cache' \in SUBSET Logins, profiles' \in SUBSET Accounts, mac' \in MacLogins,
           unlockPassphrase' \in Passphrases \cup {None},
           replaced' \in BOOLEAN, moved' \in SUBSET Requests,
           auth' \in {auth, None} \/ auth' \in profiles',
           \/ unlockPassphrase' \in {unlockPassphrase, None}
           \/ ~replaced' => verifier' = [pass |-> unlockPassphrase', secure |-> TRUE]
    PROVE  IInv'
  <1>1. /\ req' \in [Requests -> Messages]
        /\ \A q \in Requests : MessageSound(q, req[q])'
        /\ req'[r] = m /\ \A q \in Requests \ {r} : req'[q] = req[q]
    BY MessagesKept
  <1>2. PassphraseIsVerified'
    BY PassphraseKept DEF OthersStay
  <1>3. LockedPopupForgets'
    BY DEF IInv, LockedPopupForgets
  <1>4. SignedInHasProfile'
    BY DEF IInv, SignedInHasProfile, OthersStay
  <1>5. PopupNeverStuck'
    BY <1>1, StatusKept
  <1>6. TypeOK'
    BY <1>1, Types DEF IInv, TypeOK, Messages, Popups, Steps
  <1> QED
    BY <1>1, <1>2, <1>3, <1>4, <1>5, <1>6 DEF IInv

(* A step of the worker that changes nothing but its message. *)
LEMMA QuietStep ==
    ASSUME IInv, NEW r \in Requests, NEW m \in Messages, req' = [req EXCEPT ![r] = m],
           UNCHANGED <<storage, unlockPassphrase, heard, popup, history>>,
           MessageSound(r, m), req[r].kind \in {"sign_in", "auth"} => m.kind = req[r].kind
    PROVE  IInv'
  <1>1. MessageSound(r, m)'
    BY DEF storage, history, MessageSound, ArgFits, UnlockSound, Vouches, SignInSound, FillSound
  <1>2. OthersStay(r)
    BY DEF storage, history, OthersStay, VerifierStays
  <1> QED
    BY <1>1, <1>2, WorkerStep, Types DEF IInv, storage, history

(* Where a message goes. *)
LEMMA GoStep ==
    ASSUME IInv, NEW r \in Requests, NEW s \in Steps, Go(r, s),
           NEW old, old = req[r],
           old.kind \notin {"unlock", "hydrate"},
           old.kind \in {"lock", "state"} => s \in {"unlocked", "locked", "needs_setup"},
           old.kind = "sign_in" => old.step # "error" /\ s = "bootstrap",
           s \notin {"ready", "release"}
    PROVE  IInv'
  <1>1. old \in Messages /\ MessageSound(r, old)
    BY MessageType
  <1> PICK m : m = [old EXCEPT !.step = s]
    OBVIOUS
  <1>2. /\ m \in Messages /\ m.step = s /\ m.kind = old.kind /\ m.arg = old.arg /\ m.seen = old.seen
        /\ m.found = old.found /\ m.picked = old.picked
    BY <1>1 DEF Messages
  <1>3. req' = [req EXCEPT ![r] = m]
    <2>1. req \in [Requests -> Messages]
      BY Types DEF IInv
    <2> QED
      BY <2>1 DEF Go, Messages
  <1>4. ArgFits(m)
    BY <1>1, <1>2 DEF MessageSound, ArgFits, Answered
  <1>5. UnlockSound(m) /\ SignInSound(m) /\ FillSound(r, m)
    BY <1>1, <1>2 DEF MessageSound, UnlockSound, SignInSound, FillSound
  <1>6. MessageSound(r, m)
    BY <1>4, <1>5 DEF MessageSound
  <1> QED
    BY <1>2, <1>3, <1>6, QuietStep DEF Go

(* The steps that only go on. *)
LEMMA GoSteps ==
    ASSUME IInv, NEW r \in Requests,
           readUnlockState(r) \/ readExtensionAuthState(r) \/ signInWithPassword(r)
    PROVE  IInv'
  <1> PICK old : old = req[r]
    OBVIOUS
  <1>0. old \in Messages /\ ArgFits(old)
    BY MessageType DEF MessageSound
  <1>2. CASE readUnlockState(r)
    <2>1. PICK v \in ReadMasterPasswordVerifier : Go(r, UnlockMode(v))
      BY <1>2 DEF readUnlockState
    <2> PICK s : s = UnlockMode(v)
      OBVIOUS
    <2>2. s \in {"unlocked", "locked", "needs_setup"} /\ s \in Steps /\ old.kind \in {"state", "lock"}
      BY <1>2 DEF readUnlockState, UnlockMode, Steps, Answered
    <2> QED
      BY <2>1, <2>2, GoStep
  <1>3. CASE readExtensionAuthState(r)
    <2>1. PICK s \in {"signed_out", "signed_in"} : Go(r, s)
      BY <1>3 DEF readExtensionAuthState
    <2>2. old.kind = "auth" /\ s \in Steps
      BY <1>3 DEF readExtensionAuthState, At, Steps, Answered
    <2> QED
      BY <2>1, <2>2, GoStep
  <1>4. CASE signInWithPassword(r)
    <2>1. /\ Go(r, "bootstrap") /\ old.kind = "sign_in" /\ old.step # "error"
          /\ "bootstrap" \in Steps
      BY <1>4 DEF signInWithPassword, At, Steps, Serving
    <2> QED
      BY <2>1, GoStep
  <1> QED
    BY <1>2, <1>3, <1>4

-----------------------------------------------------------------------------
(* ReadVerifier keeps the invariant. *)
LEMMA ReadVerifierStep ==
    ASSUME IInv, NEW r \in Requests, ReadVerifier(r)
    PROVE  IInv'
  <1> PICK old : old = req[r]
    OBVIOUS
  <1>0. old \in Messages /\ MessageSound(r, old) /\ old.kind = "unlock" /\ old.step = "read"
    BY MessageType DEF ReadVerifier, At
  <1>1. PICK v \in {verifier, None} :
           req' = [req EXCEPT
             ![r].seen = v,
             ![r].step = IF v = None \/ v.pass = old.arg THEN "try" ELSE "refuse"]
    BY DEF ReadVerifier, ReadMasterPasswordVerifier, verifyMasterPassword
  <1> PICK s : s = IF v = None \/ v.pass = old.arg THEN "try" ELSE "refuse"
    OBVIOUS
  <1> PICK m : m = [old EXCEPT !.seen = v, !.step = s]
    OBVIOUS
  <1>2. v \in Verifiers \cup {None}
    BY Types DEF IInv
  <1>3. /\ m \in Messages /\ m.step = s /\ m.kind = "unlock"
        /\ m.arg = old.arg /\ m.seen = v /\ m.picked = old.picked
        /\ s \in {"try", "refuse"} /\ (s = "try" /\ v # None => v.pass = old.arg)
    <2>1. s \in {"try", "refuse"} /\ (s = "try" /\ v # None => v.pass = old.arg)
      OBVIOUS
    <2>2. s \in Steps
      BY <2>1 DEF Steps, Serving
    <2>3. /\ m \in Messages /\ m.step = s /\ m.kind = old.kind
          /\ m.arg = old.arg /\ m.seen = v /\ m.picked = old.picked
      BY <1>0, <1>2, <2>2 DEF Messages
    <2> QED
      BY <1>0, <2>1, <2>3
  <1>4. req' = [req EXCEPT ![r] = m]
    BY <1>1, Types DEF IInv, Messages
  <1>5. MessageSound(r, m)
    BY <1>0, <1>3 DEF MessageSound, ArgFits, UnlockSound, SignInSound, FillSound, Answered
  <1> QED
    BY <1>0, <1>3, <1>4, <1>5, QuietStep DEF ReadVerifier

(* TryCiphertexts keeps the invariant. *)
LEMMA TryStep ==
    ASSUME IInv, NEW r \in Requests, TryCiphertexts(r)
    PROVE  IInv'
  <1> PICK old : old = req[r]
    OBVIOUS
  <1>0. old \in Messages /\ MessageSound(r, old) /\ old.kind = "unlock" /\ old.step = "try"
    BY MessageType DEF TryCiphertexts, At
  <1>1. PICK ls \in ReadPopupVaultItems :
           req' = [req EXCEPT
             ![r].seen = None,
             ![r].step = IF ~canUnlockProtectedCiphertexts(ls, old.arg) THEN "refuse"
                         ELSE IF Rewrites(old.seen) THEN "write" ELSE "open"]
    BY DEF TryCiphertexts
  <1> PICK s : s = IF ~canUnlockProtectedCiphertexts(ls, old.arg) THEN "refuse"
                   ELSE IF Rewrites(old.seen) THEN "write" ELSE "open"
    OBVIOUS
  <1> PICK m : m = [old EXCEPT !.seen = None, !.step = s]
    OBVIOUS
  <1>2. s \in {"refuse", "write", "open"} /\ (s = "open" => old.seen # None /\ old.seen.secure)
    BY DEF Rewrites
  <1>3. /\ m \in Messages /\ m.step = s /\ m.kind = "unlock" /\ m.arg = old.arg /\ m.seen = None
        /\ m.picked = old.picked
    BY <1>0, <1>2 DEF Messages, Steps, Serving
  <1>4. req' = [req EXCEPT ![r] = m]
    BY <1>1, Types DEF IInv, Messages
  <1>5. UnlockSound(m)
    <2> SUFFICES ASSUME ~replaced, m.step = "open"
                 PROVE  Vouches(m.arg)
      BY <1>2, <1>3 DEF UnlockSound
    <2>1. /\ old.seen # None /\ old.seen.secure /\ old.seen.pass = old.arg
          /\ verifier # None /\ verifier.pass = old.arg /\ verifier.secure
      BY <1>0, <1>2, <1>3 DEF MessageSound, ArgFits, UnlockSound
    <2>2. verifier \in Verifiers
      BY <2>1, Types DEF IInv
    <2> QED
      BY <1>3, <2>1, <2>2 DEF Vouches, Verifiers
  <1>6. MessageSound(r, m)
    BY <1>0, <1>2, <1>3, <1>5 DEF MessageSound, ArgFits, SignInSound, FillSound, Answered
  <1> QED
    BY <1>0, <1>3, <1>4, <1>6, QuietStep DEF TryCiphertexts

(* WriteVerifier keeps the invariant. *)
LEMMA WriteStep ==
    ASSUME IInv, NEW r \in Requests, WriteVerifier(r)
    PROVE  IInv'
  <1> PICK old : old = req[r]
    OBVIOUS
  <1>0. old \in Messages /\ MessageSound(r, old) /\ old.kind = "unlock" /\ old.step = "write"
        /\ old.arg \in Passphrases
    BY MessageType DEF WriteVerifier, At, MessageSound, ArgFits
  <1> PICK m : m = [old EXCEPT !.step = "open"]
    OBVIOUS
  <1> PICK v : v = [pass |-> old.arg, secure |-> TRUE]
    OBVIOUS
  <1>1. /\ m \in Messages /\ m.step = "open" /\ m.kind = "unlock" /\ m.arg = old.arg
        /\ m.seen = old.seen /\ m.picked = old.picked
    BY <1>0 DEF Messages, Steps, Serving
  <1>2. req' = [req EXCEPT ![r] = m]
    BY Types DEF WriteVerifier, IInv, Messages
  <1>3. /\ verifier' = v /\ v \in Verifiers /\ v # None /\ v.pass = old.arg /\ v.secure
        /\ UNCHANGED <<auth, cache, profiles, mac, unlockPassphrase, heard, popup, moved>>
    <2>1. v \in Verifiers /\ v # None
      BY <1>0, VerifierType
    <2>2. v.pass = old.arg /\ v.secure
      OBVIOUS
    <2> QED
      BY <2>1, <2>2 DEF WriteVerifier
  <1>4. replaced' = (replaced \/ (verifier # None /\ verifier.pass # old.arg))
    BY DEF WriteVerifier
  <1>5. VerifierStays
    <2> SUFFICES ASSUME ~replaced'
                 PROVE  /\ ~replaced
                        /\ verifier # None => /\ verifier' # None /\ verifier'.pass = verifier.pass
                                              /\ verifier.secure => verifier'.secure
                        /\ \A p \in Passphrases :
                             verifier = [pass |-> p, secure |-> TRUE] => verifier' = [pass |-> p, secure |-> TRUE]
      BY DEF VerifierStays
    <2>1. ~replaced /\ (verifier # None => verifier.pass = old.arg)
      BY <1>4
    <2>2. ASSUME NEW p \in Passphrases, verifier = [pass |-> p, secure |-> TRUE]
          PROVE  verifier' = [pass |-> p, secure |-> TRUE]
      <3>1. verifier # None /\ verifier.pass = p
        BY <2>2, VerifierType
      <3>2. old.arg = p
        BY <2>1, <3>1
      <3> QED
        BY <1>3, <3>2
    <2> QED
      BY <1>3, <2>1, <2>2
  <1>6. OthersStay(r)
    BY <1>3, <1>5 DEF OthersStay
  <1>7. MessageSound(r, m)'
    <2>1. UnlockSound(m)'
      <3> SUFFICES ASSUME ~replaced', m.seen # None
                   PROVE  verifier'.pass = m.seen.pass
        BY <1>1, <1>3 DEF UnlockSound, Vouches
      <3> QED
        BY <1>0, <1>1, <1>3, <1>4 DEF MessageSound, UnlockSound
    <2> QED
      BY <1>0, <1>1, <2>1 DEF MessageSound, ArgFits, SignInSound, FillSound, Answered
  <1>8. replaced' \in BOOLEAN
    BY <1>4, Types DEF IInv
  <1> QED
    BY <1>0, <1>1, <1>2, <1>3, <1>6, <1>7, <1>8, WorkerStep, Types DEF IInv

(* Refuse and lock keep the invariant: the passphrase is forgotten. *)
LEMMA ForgetStep ==
    ASSUME IInv, NEW r \in Requests, Refuse(r) \/ lock(r)
    PROVE  IInv'
  <1> PICK old : old = req[r]
    OBVIOUS
  <1>0. old \in Messages /\ MessageSound(r, old)
    BY MessageType
  <1>1. /\ unlockPassphrase' = None /\ UNCHANGED <<storage, heard, popup, history>>
        /\ old.kind \in {"unlock", "lock"}
    BY DEF Refuse, lock, At
  <1>2. \E m \in Messages : req' = [req EXCEPT ![r] = m] /\ m.kind = old.kind /\ MessageSound(r, m)'
    <2>1. CASE Refuse(r)
      <3> PICK m : m = Message("unlock", "error", None)
        OBVIOUS
      <3>1. old.kind = "unlock" /\ req' = [req EXCEPT ![r] = m]
        BY <2>1 DEF Refuse, At, Answer
      <3>2. m \in Messages /\ m.kind = "unlock" /\ MessageSound(r, Message("unlock", "error", None))'
        BY AnswerSound DEF Kinds
      <3>3. MessageSound(r, m)'
        BY <3>2 DEF MessageSound, ArgFits, UnlockSound, SignInSound, FillSound
      <3> QED
        BY <3>1, <3>2, <3>3
    <2>2. CASE lock(r)
      <3> PICK m : m = [old EXCEPT !.step = "mode"]
        OBVIOUS
      <3>1. req' = [req EXCEPT ![r] = m] /\ old.kind = "lock"
        BY <2>2, Types DEF IInv, lock, At, Messages
      <3>2. /\ m \in Messages /\ m.step = "mode" /\ m.kind = "lock" /\ m.arg = old.arg
            /\ m.seen = old.seen /\ m.picked = old.picked
        BY <1>0, <3>1 DEF Messages, Steps, Serving
      <3>3. MessageSound(r, m)
        BY <1>0, <3>1, <3>2 DEF MessageSound, ArgFits, UnlockSound, SignInSound, FillSound, Answered
      <3>4. MessageSound(r, m)'
        BY <1>1, <3>3 DEF storage, history, MessageSound, ArgFits, UnlockSound, Vouches, SignInSound,
                          FillSound
      <3> QED
        BY <3>1, <3>2, <3>4
    <2> QED
      BY <2>1, <2>2
  <1>3. OthersStay(r)
    BY <1>1 DEF storage, history, OthersStay, VerifierStays
  <1> QED
    BY <1>1, <1>2, <1>3, WorkerStep, Types DEF IInv, storage, history

(* OpenVault keeps the invariant. *)
LEMMA OpenStep ==
    ASSUME IInv, NEW r \in Requests, OpenVault(r)
    PROVE  IInv'
  <1> PICK old : old = req[r]
    OBVIOUS
  <1>0. old \in Messages /\ MessageSound(r, old) /\ old.kind = "unlock" /\ old.step = "open"
        /\ old.arg \in Passphrases
    BY MessageType DEF OpenVault, At, MessageSound, ArgFits
  <1> PICK m : m = [old EXCEPT !.step = "unlocked"]
    OBVIOUS
  <1>1. /\ m \in Messages /\ m.step = "unlocked" /\ m.kind = "unlock" /\ m.arg = old.arg
        /\ m.seen = old.seen /\ m.picked = old.picked
    BY <1>0 DEF Messages, Steps, Answered
  <1>2. req' = [req EXCEPT ![r] = m]
    BY Types DEF OpenVault, IInv, Messages
  <1>3. /\ unlockPassphrase' = old.arg /\ UNCHANGED <<storage, heard, popup, history>>
        /\ ~replaced => verifier = [pass |-> old.arg, secure |-> TRUE]
    BY <1>0 DEF OpenVault, MessageSound, UnlockSound, Vouches
  <1>4. MessageSound(r, m)'
    <2>1. MessageSound(r, m)
      BY <1>0, <1>1 DEF MessageSound, ArgFits, UnlockSound, SignInSound, FillSound, Answered
    <2> QED
      BY <1>3, <2>1 DEF storage, history, MessageSound, ArgFits, UnlockSound, Vouches, SignInSound, FillSound
  <1>5. OthersStay(r)
    BY <1>3 DEF storage, history, OthersStay, VerifierStays
  <1> QED
    BY <1>0, <1>1, <1>2, <1>3, <1>4, <1>5, WorkerStep, Types DEF IInv, storage, history

-----------------------------------------------------------------------------
(* bootstrapProfile keeps the invariant. *)
LEMMA BootstrapStep ==
    ASSUME IInv, NEW r \in Requests, bootstrapProfile(r)
    PROVE  IInv'
  <1> PICK old : old = req[r]
    OBVIOUS
  <1>0. old \in Messages /\ MessageSound(r, old) /\ old.kind = "sign_in" /\ old.arg \in Accounts
    BY MessageType DEF bootstrapProfile, At, MessageSound, ArgFits
  <1>1. PICK s \in {"store", "error"} : req' = [req EXCEPT ![r].step = s]
    BY DEF bootstrapProfile
  <1> PICK m : m = [old EXCEPT !.step = s]
    OBVIOUS
  <1>2. /\ m \in Messages /\ m.step = s /\ m.kind = old.kind /\ m.arg = old.arg
        /\ m.seen = old.seen /\ m.picked = old.picked
    BY <1>0, <1>1 DEF Messages, Steps, Serving, Answered
  <1>3. req' = [req EXCEPT ![r] = m]
    BY <1>1, Types DEF IInv, Messages
  <1>4. /\ profiles' = profiles \cup {old.arg}
        /\ UNCHANGED <<auth, verifier, cache, mac, unlockPassphrase, heard, popup, history>>
    BY DEF bootstrapProfile, bootstrapProfileFromToken
  <1>5. MessageSound(r, m)'
    BY <1>0, <1>1, <1>2, <1>4 DEF history, MessageSound, ArgFits, UnlockSound, Vouches, SignInSound, FillSound
  <1>6. OthersStay(r)
    BY <1>4 DEF history, OthersStay, VerifierStays
  <1> QED
    BY <1>0, <1>2, <1>3, <1>4, <1>5, <1>6, WorkerStep, Types DEF IInv, history

(* writeStoredAuthState and signOut keep the invariant. *)
LEMMA AuthStep ==
    ASSUME IInv, NEW r \in Requests, writeStoredAuthState(r) \/ signOut(r)
    PROVE  IInv'
  <1> PICK old : old = req[r]
    OBVIOUS
  <1>0. old \in Messages /\ MessageSound(r, old)
    BY MessageType
  <1> PICK s : s = IF old.kind = "sign_in" THEN "signed_in" ELSE "done"
    OBVIOUS
  <1> PICK m : m = [old EXCEPT !.step = s]
    OBVIOUS
  <1>1. /\ auth' = None \/ (auth' = old.arg /\ old.arg \in profiles /\ old.arg \in Accounts)
        /\ req' = [req EXCEPT ![r].step = s] /\ old.kind \in {"sign_in", "sign_out"}
        /\ old.step # "error"
        /\ UNCHANGED <<verifier, cache, profiles, mac, unlockPassphrase, heard, popup, history>>
    BY <1>0 DEF writeStoredAuthState, signOut, At, MessageSound, ArgFits, SignInSound
  <1>2. /\ m \in Messages /\ m.step = s /\ m.kind = old.kind /\ m.arg = old.arg
        /\ m.seen = old.seen /\ m.picked = old.picked
    BY <1>0 DEF Messages, Steps, Answered
  <1>3. req' = [req EXCEPT ![r] = m]
    BY <1>1, Types DEF IInv, Messages
  <1>4. MessageSound(r, m)'
    BY <1>0, <1>1, <1>2 DEF history, MessageSound, ArgFits, UnlockSound, Vouches, SignInSound, FillSound, Answered
  <1>5. OthersStay(r)
    BY <1>1 DEF history, OthersStay, VerifierStays
  <1> QED
    BY <1>1, <1>2, <1>3, <1>4, <1>5, WorkerStep, Types DEF IInv, history

(* hydratePopupVaultCache keeps the invariant. *)
LEMMA HydrateStep ==
    ASSUME IInv, NEW r \in Requests, hydratePopupVaultCache(r)
    PROVE  IInv'
  <1> PICK old : old = req[r]
    OBVIOUS
  <1>0. old \in Messages /\ MessageSound(r, old) /\ old.kind = "hydrate"
    BY MessageType DEF hydratePopupVaultCache, At
  <1>1. PICK a \in {auth, None} :
           req' = [req EXCEPT ![r].arg = a, ![r].step = IF a = None THEN "done" ELSE "sync"]
    BY DEF hydratePopupVaultCache, ReadStoredAuthState
  <1> PICK m : m = [old EXCEPT !.arg = a, !.step = IF a = None THEN "done" ELSE "sync"]
    OBVIOUS
  <1>2. a \in Accounts \cup {None}
    BY Types DEF IInv
  <1>3. /\ m \in Messages /\ m.step = (IF a = None THEN "done" ELSE "sync") /\ m.kind = "hydrate"
        /\ m.arg = a /\ m.seen = old.seen /\ m.picked = old.picked /\ m.found = old.found
    <2> PICK s : s = IF a = None THEN "done" ELSE "sync"
      OBVIOUS
    <2>1. s \in Steps
      BY DEF Steps, Serving, Answered
    <2>2. m = [old EXCEPT !.arg = a, !.step = s]
      OBVIOUS
    <2> QED
      BY <1>0, <1>2, <2>1, <2>2 DEF Messages
  <1>4. req' = [req EXCEPT ![r] = m]
    BY <1>1, Types DEF IInv, Messages
  <1>5. MessageSound(r, m)
    BY <1>0, <1>2, <1>3 DEF MessageSound, ArgFits, UnlockSound, SignInSound, FillSound
  <1> QED
    BY <1>0, <1>3, <1>4, <1>5, QuietStep DEF hydratePopupVaultCache

(* syncVault keeps the invariant. *)
LEMMA SyncStep ==
    ASSUME IInv, NEW r \in Requests, syncVault(r)
    PROVE  IInv'
  <1> PICK old : old = req[r]
    OBVIOUS
  <1>0. old \in Messages /\ MessageSound(r, old) /\ old.kind = "hydrate" /\ old.arg \in Accounts
    BY MessageType DEF syncVault, At, MessageSound, ArgFits
  <1>1. PICK ls \in SUBSET VaultOf[old.arg] : req' = [req EXCEPT ![r].found = ls, ![r].step = "store"]
    BY DEF syncVault
  <1> PICK m : m = [old EXCEPT !.found = ls, !.step = "store"]
    OBVIOUS
  <1>2. ls \subseteq Logins
    BY <1>0, <1>1, ExtensionAssumption
  <1>3. /\ m \in Messages /\ m.step = "store" /\ m.kind = "hydrate"
        /\ m.arg = old.arg /\ m.seen = old.seen /\ m.picked = old.picked /\ m.found = ls
    BY <1>0, <1>2 DEF Messages, Steps, Serving, Credentials
  <1>4. req' = [req EXCEPT ![r] = m]
    BY <1>1, Types DEF IInv, Messages
  <1>5. MessageSound(r, m)
    BY <1>0, <1>2, <1>3 DEF MessageSound, ArgFits, UnlockSound, SignInSound, FillSound
  <1> QED
    BY <1>0, <1>3, <1>4, <1>5, QuietStep DEF syncVault

(* writePopupVaultItems keeps the invariant: fills between their two reads *)
(* no longer count on the cache.                                           *)
LEMMA StoreStep ==
    ASSUME IInv, NEW r \in Requests, writePopupVaultItems(r)
    PROVE  IInv'
  <1> PICK old : old = req[r]
    OBVIOUS
  <1>0. old \in Messages /\ MessageSound(r, old) /\ old.kind = "hydrate" /\ old.found \subseteq Logins
    BY MessageType DEF writePopupVaultItems, At, MessageSound, ArgFits
  <1> PICK m : m = Message("hydrate", "done", None)
    OBVIOUS
  <1>1. m \in Messages /\ m.kind = "hydrate" /\ MessageSound(r, Message("hydrate", "done", None))'
    BY AnswerSound DEF Kinds
  <1>2. req' = [req EXCEPT ![r] = m]
    BY <1>0 DEF writePopupVaultItems, Answer
  <1>3. /\ cache' = old.found
        /\ UNCHANGED <<auth, verifier, profiles, mac, unlockPassphrase, heard, popup, replaced>>
    BY DEF writePopupVaultItems
  <1>4. /\ moved \subseteq moved' /\ moved' \in SUBSET Requests
        /\ cache' = cache \/ BetweenReads \subseteq moved'
    BY Types DEF writePopupVaultItems, BetweenReads, IInv
  <1>5. OthersStay(r)
    BY <1>3, <1>4 DEF OthersStay, VerifierStays, BetweenReads
  <1>6. MessageSound(r, m)'
    BY <1>1 DEF MessageSound, ArgFits, UnlockSound, SignInSound, FillSound
  <1> QED
    BY <1>0, <1>1, <1>2, <1>3, <1>4, <1>5, <1>6, WorkerStep, Types DEF IInv

-----------------------------------------------------------------------------
(* A fill that stops. *)
LEMMA StopFillStep ==
    ASSUME IInv, NEW r \in Requests, req[r].kind = "fill", StopFill(r)
    PROVE  IInv'
  <1> PICK m : m = Idle
    OBVIOUS
  <1>1. m \in Messages /\ MessageSound(r, m)' /\ req' = [req EXCEPT ![r] = m]
    BY IdleSound DEF StopFill, Idle, MessageSound, ArgFits, UnlockSound, SignInSound, FillSound
  <1>2. /\ UNCHANGED <<storage, unlockPassphrase, heard, popup, replaced>> /\ moved' = moved \ {r}
    BY DEF StopFill
  <1>3. OthersStay(r)
    BY <1>2 DEF storage, OthersStay, VerifierStays
  <1> QED
    BY <1>1, <1>2, <1>3, WorkerStep, Types DEF IInv, storage

(* What the first read of a fill leaves. *)
LEMMA PickedType ==
    ASSUME NEW l \in Credentials, NEW m,
           m = [kind |-> "fill", step |-> "read", arg |-> None, seen |-> None, found |-> {},
                picked |-> l]
    PROVE  m \in Messages /\ m.kind = "fill" /\ m.step = "read" /\ m.seen = None /\ m.picked = l
  <1>1. "read" \in Steps /\ "fill" \in Kinds
    BY DEF Steps, Serving, Kinds
  <1>2. m \in Messages
    BY <1>1 DEF Messages
  <1> QED
    BY <1>2

(* A read of a fill that found the login l, which for a second read is the *)
(* one picked unless one of the two is the companion's.                    *)
LEMMA FoundStep ==
    ASSUME IInv, NEW r \in Requests, NEW l \in Credentials, Found(r, l), req[r].kind = "fill",
           l \in Logins => OnlyMatch(cache, l),
           l \in Companions => l \in mac /\ (req[r].picked = None => mac = {l})
    PROVE  IInv'
  <1> PICK old : old = req[r]
    OBVIOUS
  <1>0. old \in Messages /\ MessageSound(r, old) /\ old.kind = "fill"
    BY MessageType
  <1> PICK m : m = IF old.picked = None THEN [Message("fill", "read", None) EXCEPT !.picked = l]
                   ELSE [old EXCEPT !.step = "ready", !.found = {l}, !.arg = None]
    OBVIOUS
  <1>1. /\ req' = [req EXCEPT ![r] = m]
        /\ UNCHANGED <<storage, unlockPassphrase, heard, popup, replaced>>
    BY DEF Found
  <1>2. moved' = IF old.picked # None /\ (old.picked \in Companions) # (l \in Companions)
                 THEN moved \cup {r} ELSE moved
    BY DEF Found
  <1>3. CASE old.picked = None
    <2>1. /\ m \in Messages /\ m.kind = "fill" /\ m.step = "read" /\ m.seen = None /\ m.picked = l
      <3>1. m = [kind |-> "fill", step |-> "read", arg |-> None, seen |-> None, found |-> {},
                 picked |-> l]
        BY <1>3 DEF Message, Idle
      <3> QED
        BY <3>1, PickedType
    <2>2. MessageSound(r, m)'
      BY <1>1, <2>1 DEF storage, MessageSound, ArgFits, UnlockSound, SignInSound, FillSound, OnlyMatch
    <2>3. moved' = moved
      BY <1>2, <1>3
    <2>4. OthersStay(r)
      BY <1>1, <2>3 DEF storage, OthersStay, VerifierStays
    <2> QED
      BY <1>0, <1>1, <2>1, <2>2, <2>3, <2>4, WorkerStep, Types DEF IInv, storage
  <1>4. CASE old.picked # None
    <2>1. /\ m \in Messages /\ m.kind = "fill" /\ m.step = "ready" /\ m.seen = old.seen
          /\ m.picked = old.picked /\ m.found = {l}
      BY <1>0, <1>4 DEF Messages, Steps
    <2>2. moved \subseteq moved' /\ moved' \subseteq moved \cup {r}
      BY <1>2
    <2>3. r \notin moved' => l = old.picked
      <3> SUFFICES ASSUME r \notin moved'
                   PROVE  l = old.picked
        OBVIOUS
      <3>1. r \notin moved /\ ((old.picked \in Companions) <=> (l \in Companions))
        BY <1>2, <1>4
      <3>2. old.picked \in Logins \cup Companions /\ l \in Logins \cup Companions
        BY <1>0, <1>4 DEF Messages, Credentials
      <3>3. CASE l \in Logins /\ old.picked \in Logins
        BY <1>0, <3>1, <3>3 DEF MessageSound, FillSound, OnlyMatch
      <3>4. CASE l \in Companions /\ old.picked \in Companions
        BY <1>0, <3>1, <3>4 DEF MessageSound, FillSound
      <3> QED
        BY <3>1, <3>2, <3>3, <3>4
    <2>4. MessageSound(r, m)'
      BY <1>0, <1>1, <2>1, <2>2, <2>3
         DEF storage, MessageSound, ArgFits, UnlockSound, SignInSound, FillSound, OnlyMatch
    <2>5. OthersStay(r)
      BY <1>1, <2>2 DEF storage, OthersStay, VerifierStays
    <2> QED
      BY <1>0, <1>1, <2>1, <2>2, <2>4, <2>5, WorkerStep, Types DEF IInv, storage
  <1> QED
    BY <1>3, <1>4

(* The steps of a fill keep the invariant. *)
LEMMA FillSteps ==
    ASSUME IInv, NEW r \in Requests,
           \/ CheckSignedIn(r) \/ AskCompanion(r) \/ ReleaseLogin(r) \/ CheckUnlocked(r)
           \/ ReadKey(r) \/ ReadItems(r) \/ FillFields(r)
    PROVE  IInv'
  <1> PICK old : old = req[r]
    OBVIOUS
  <1>0. old \in Messages /\ MessageSound(r, old) /\ old.kind = "fill"
    BY MessageType DEF CheckSignedIn, AskCompanion, ReleaseLogin, CheckUnlocked, ReadKey,
                       ReadItems, FillFields, At
  <1>1. ASSUME StopFill(r) PROVE IInv'
    BY <1>0, <1>1, StopFillStep
  <1>2. ASSUME NEW s \in {"companion", "check", "key"}, Go(r, s) PROVE IInv'
    <2>1. s \in Steps
      BY DEF Steps, Serving
    <2> QED
      BY <1>0, <1>2, <2>1, GoStep
  <1>3. CASE CheckSignedIn(r)
    BY <1>1, <1>2, <1>3 DEF CheckSignedIn
  <1>m. mac \subseteq Credentials /\ mac \subseteq Companions /\ Companions \cap Logins = {}
    BY Types, ExtensionAssumption DEF IInv, MacLogins, Credentials
  <1>f. ASSUME NEW l \in mac, Found(r, l), old.picked = None => mac = {l} PROVE IInv'
    <2>1. l \in Credentials /\ l \in Companions /\ l \notin Logins
      BY <1>m
    <2> QED
      BY <1>0, <1>f, <2>1, FoundStep
  <1>g. ASSUME NEW s \in {"release", "check"}, NEW f \in SUBSET mac, old.picked # None,
               req' = [req EXCEPT ![r].step = s, ![r].found = f],
               UNCHANGED <<storage, unlockPassphrase, heard, popup, history>>
        PROVE  IInv'
    <2> PICK m : m = [old EXCEPT !.step = s, !.found = f]
      OBVIOUS
    <2>1. f \in SUBSET Credentials /\ s \in Steps
      BY <1>m DEF Steps, Serving
    <2>2. /\ m \in Messages /\ m.kind = "fill" /\ m.step = s /\ m.seen = old.seen
          /\ m.picked = old.picked
      BY <1>0, <2>1 DEF Messages
    <2>3. req' = [req EXCEPT ![r] = m]
      BY <1>g, Types DEF IInv, Messages
    <2>4. MessageSound(r, m)
      BY <1>0, <1>g, <2>2 DEF MessageSound, ArgFits, UnlockSound, SignInSound, FillSound, Answered
    <2> QED
      BY <1>0, <1>g, <2>2, <2>3, <2>4, QuietStep
  <1>4. CASE AskCompanion(r) \/ ReleaseLogin(r)
    <2>1. CASE StopFill(r) \/ Go(r, "check")
      BY <1>1, <1>2, <2>1
    <2>2. CASE AskCompanion(r)
      <3>1. ASSUME NEW l \in mac, mac = {l}, Found(r, l) PROVE IInv'
        BY <1>f, <3>1
      <3>2. ASSUME NEW l \in mac, old.picked # None,
                   req' = [req EXCEPT ![r].step = "release", ![r].found = {l}],
                   UNCHANGED <<storage, unlockPassphrase, heard, popup, history>>
            PROVE  IInv'
        BY <1>g, <3>2
      <3> QED
        BY <2>1, <2>2, <3>1, <3>2 DEF AskCompanion
    <2>3. CASE ReleaseLogin(r)
      <3>0. old.picked # None
        BY <1>0, <2>3 DEF ReleaseLogin, At, MessageSound, ArgFits
      <3>1. CASE /\ req' = [req EXCEPT ![r].step = "check", ![r].found = {}]
                 /\ UNCHANGED <<storage, unlockPassphrase, heard, popup, history>>
        <4> PICK f : f = {}
          OBVIOUS
        <4>1. f \in SUBSET mac /\ req' = [req EXCEPT ![r].step = "check", ![r].found = f]
          BY <3>1
        <4> QED
          BY <1>g, <3>0, <3>1, <4>1
      <3>2. ASSUME NEW l \in mac, Found(r, l) PROVE IInv'
        BY <1>f, <3>0, <3>2
      <3> QED
        BY <2>1, <2>3, <3>1, <3>2 DEF ReleaseLogin
    <2> QED
      BY <1>4, <2>2, <2>3
  <1>5. CASE CheckUnlocked(r)
    BY <1>1, <1>2, <1>5 DEF CheckUnlocked
  <1>6. CASE ReadKey(r)
    <2>1. CASE StopFill(r)
      BY <1>1, <2>1
    <2>2. CASE ~StopFill(r)
      <3>1. /\ req' = [req EXCEPT ![r].arg = unlockPassphrase, ![r].step = "items"]
            /\ UNCHANGED <<storage, unlockPassphrase, heard, popup, history>>
        BY <1>6, <2>2 DEF ReadKey
      <3> PICK m : m = [old EXCEPT !.arg = unlockPassphrase, !.step = "items"]
        OBVIOUS
      <3>2. unlockPassphrase \in Passphrases \cup {None}
        BY Types DEF IInv
      <3>3. /\ m \in Messages /\ m.kind = "fill" /\ m.step = "items" /\ m.seen = old.seen
            /\ m.picked = old.picked
        BY <1>0, <3>2 DEF Messages, Steps, Serving
      <3>4. req' = [req EXCEPT ![r] = m]
        BY <3>1, Types DEF IInv, Messages
      <3>5. MessageSound(r, m)
        BY <1>0, <3>3 DEF MessageSound, ArgFits, UnlockSound, SignInSound, FillSound
      <3> QED
        BY <1>0, <3>1, <3>3, <3>4, <3>5, QuietStep
    <2> QED
      BY <2>1, <2>2
  <1>7. CASE ReadItems(r)
    <2>1. PICK ls \in {cache, {}} :
             StopFill(r) \/ \E l \in Logins : OnlyMatch(ls, l) /\ Found(r, l)
      BY <1>7 DEF ReadItems, ReadPopupVaultItems
    <2>2. ASSUME NEW l \in Logins, OnlyMatch(ls, l), Found(r, l)
          PROVE  IInv'
      <3>1. OnlyMatch(cache, l) /\ l \in Credentials
        BY <2>2 DEF OnlyMatch, Credentials
      <3> QED
        BY <1>0, <1>m, <2>2, <3>1, FoundStep
    <2> QED
      BY <1>1, <2>1, <2>2
  <1>8. CASE FillFields(r)
    BY <1>1, <1>8 DEF FillFields
  <1> QED
    BY <1>3, <1>4, <1>5, <1>6, <1>7, <1>8

-----------------------------------------------------------------------------
(* A step of the popup: the storage and the worker's passphrase stay. *)
LEMMA PopupStep ==
    ASSUME IInv, UNCHANGED <<storage, unlockPassphrase, history>>,
           req' \in [Requests -> Messages], \A q \in Requests : MessageSound(q, req[q])',
           heard' \in SUBSET Requests, popup' \in Popups,
           \/ popup'.held \in {popup.held, None}
           \/ ~replaced => verifier = [pass |-> popup'.held, secure |-> TRUE],
           LockedPopupForgets', PopupNeverStuck'
    PROVE  IInv'
  <1>1. VerifierStays
    BY DEF VerifierStays, storage, history
  <1>2. PassphraseIsVerified'
    BY <1>1, PassphraseKept DEF storage, history
  <1>3. SignedInHasProfile'
    BY DEF IInv, SignedInHasProfile, storage
  <1>4. TypeOK'
    BY Types DEF IInv, storage, history, TypeOK, Messages, Popups, Steps
  <1> QED
    BY <1>2, <1>3, <1>4 DEF IInv

(* Messages stay sound while neither they nor what they rely on moves. *)
LEMMA MessagesStay ==
    ASSUME IInv, UNCHANGED <<storage, history>>, NEW q \in Requests, req'[q] = req[q]
    PROVE  MessageSound(q, req[q])'
  BY MessageType DEF storage, history, MessageSound, ArgFits, UnlockSound, Vouches, SignInSound,
                     FillSound, OnlyMatch

LEMMA MessageMoved ==
    ASSUME UNCHANGED <<storage, history>>, NEW q, NEW m, MessageSound(q, m), req'[q] = m
    PROVE  MessageSound(q, req[q])'
  BY DEF storage, history, MessageSound, ArgFits, UnlockSound, Vouches, SignInSound, FillSound, OnlyMatch

(* A new message. *)
LEMMA NewMessage ==
    ASSUME NEW k \in Kinds, NEW s \in Serving, NEW a \in Accounts \cup Passphrases \cup {None},
           k = "unlock" => a \in Passphrases /\ s = "read",
           k = "sign_in" => a \in Accounts /\ s = "sign_in",
           k = "hydrate" => s = "read", s # "release"
    PROVE  /\ Message(k, s, a) \in Messages /\ Message(k, s, a).kind = k
           /\ \A r : MessageSound(r, Message(k, s, a))
  <1> PICK m : m = [kind |-> k, step |-> s, arg |-> a, seen |-> None, found |-> {}, picked |-> None]
    OBVIOUS
  <1>1. Message(k, s, a) = m
    <2>1. Idle = [kind |-> "none", step |-> "idle", arg |-> None, seen |-> None, found |-> {},
                  picked |-> None]
      BY DEF Idle
    <2> PICK i : i = Idle
      OBVIOUS
    <2>2. Message(k, s, a) = [i EXCEPT !.kind = k, !.step = s, !.arg = a]
      BY DEF Message
    <2> QED
      BY <2>1, <2>2
  <1>2. m \in Messages
    BY DEF Messages, Steps
  <1>3. /\ m.kind = k /\ m.step = s /\ m.arg = a /\ m.seen = None /\ m.found = {} /\ m.picked = None
    OBVIOUS
  <1>4. s \notin Answered /\ s # "ready"
    BY DEF Serving, Answered
  <1>5. ArgFits(m) /\ UnlockSound(m) /\ SignInSound(m) /\ \A r : FillSound(r, m)
    BY <1>3, <1>4, ExtensionAssumption DEF ArgFits, UnlockSound, SignInSound, FillSound
  <1> QED
    BY <1>1, <1>2, <1>3, <1>5 DEF MessageSound

(* A message that the popup sends, while its form may turn to signing in. *)
LEMMA AskStep ==
    ASSUME IInv, NEW r \in Requests, NEW m \in Messages, \A q : MessageSound(q, m),
           req[r] = Idle, req' = [req EXCEPT ![r] = m], heard' = heard \cup {r},
           UNCHANGED <<storage, unlockPassphrase, history>>,
           \/ popup' = popup
           \/ m.kind = "sign_in" /\ popup' = [popup EXCEPT !.status = "signing_in"]
    PROVE  IInv'
  <1>1. /\ req' \in [Requests -> Messages] /\ req'[r] = m
        /\ \A q \in Requests \ {r} : req'[q] = req[q]
    BY Types DEF IInv
  <1>2. \A q \in Requests : MessageSound(q, req[q])'
    <2>1. ASSUME NEW q \in Requests \ {r} PROVE MessageSound(q, req[q])'
      BY <1>1, MessagesStay
    <2>2. MessageSound(r, req[r])'
      <3>1. MessageSound(r, m)
        OBVIOUS
      <3> QED
        BY <1>1, <3>1 DEF storage, history, MessageSound, ArgFits, UnlockSound, Vouches, SignInSound,
                          FillSound, OnlyMatch
    <2> QED
      BY <2>1, <2>2
  <1>3. /\ popup' \in Popups /\ popup'.held = popup.held /\ popup'.mode = popup.mode
        /\ popup'.revealed = popup.revealed /\ popup'.passwords = popup.passwords
        /\ popup'.status = popup.status \/ (popup'.status = "signing_in" /\ m.kind = "sign_in")
    BY Types DEF IInv, Popups
  <1>4. LockedPopupForgets'
    BY <1>3 DEF IInv, LockedPopupForgets
  <1>5. PopupNeverStuck'
    <2>1. req[r].kind = "none"
      BY DEF Idle
    <2> QED
      BY <1>1, <1>3, <2>1, Types DEF IInv, PopupNeverStuck
  <1>6. heard' \in SUBSET Requests
    BY Types DEF IInv
  <1> QED
    BY <1>1, <1>2, <1>3, <1>4, <1>5, <1>6, PopupStep

(* The popup's messages keep the invariant. *)
LEMMA AskSteps ==
    ASSUME IInv, NEW r \in Requests,
           \/ PressLock(r) \/ SendSignOut(r) \/ (\E a \in Accounts : signIn(r, a))
           \/ \E p \in Passphrases : submitUnlock(r, p)
    PROVE  IInv'
  <1>1. CASE PressLock(r)
    <2> PICK m : m = Message("lock", "lock", None)
      OBVIOUS
    <2>1. m \in Messages /\ \A q : MessageSound(q, m)
      BY NewMessage DEF Kinds, Serving
    <2> QED
      BY <1>1, <2>1, AskStep DEF PressLock, Ask, Free
  <1>2. CASE SendSignOut(r)
    <2> PICK m : m = Message("sign_out", "clear", None)
      OBVIOUS
    <2>1. m \in Messages /\ \A q : MessageSound(q, m)
      BY NewMessage DEF Kinds, Serving
    <2> QED
      BY <1>2, <2>1, AskStep DEF SendSignOut, Ask, Free
  <1>3. ASSUME NEW a \in Accounts, signIn(r, a) PROVE IInv'
    <2> PICK m : m = Message("sign_in", "sign_in", a)
      OBVIOUS
    <2>1. m \in Messages /\ m.kind = "sign_in" /\ \A q : MessageSound(q, m)
      BY NewMessage DEF Kinds, Serving
    <2> QED
      BY <1>3, <2>1, AskStep DEF signIn, Ask, Free
  <1>4. ASSUME NEW p \in Passphrases, submitUnlock(r, p) PROVE IInv'
    <2> PICK m : m = Message("unlock", "read", p)
      OBVIOUS
    <2>1. m \in Messages /\ \A q : MessageSound(q, m)
      BY NewMessage DEF Kinds, Serving
    <2> QED
      BY <1>4, <2>1, AskStep DEF submitUnlock, Ask, Free
  <1> QED
    BY <1>1, <1>2, <1>3, <1>4

(* AutofillPage and Drop keep the invariant. *)
LEMMA UnseenSteps ==
    ASSUME IInv, NEW r \in Requests, AutofillPage(r) \/ Drop(r)
    PROVE  IInv'
  <1> PICK m : m = IF req[r] = Idle THEN Message("fill", "read", None) ELSE Idle
    OBVIOUS
  <1>1. m \in Messages /\ \A q : MessageSound(q, m)
    <2>1. Message("fill", "read", None) \in Messages
          /\ \A q : MessageSound(q, Message("fill", "read", None))
      BY NewMessage DEF Kinds, Serving
    <2> QED
      BY <2>1, IdleSound
  <1>2. /\ req' = [req EXCEPT ![r] = m]
        /\ r \notin heard \/ req[r] = Idle
        /\ UNCHANGED <<storage, unlockPassphrase, heard, popup, history>>
    BY DEF AutofillPage, Drop, Free, Idle, Answered
  <1>3. /\ req' \in [Requests -> Messages] /\ req'[r] = m
        /\ \A q \in Requests \ {r} : req'[q] = req[q]
    BY <1>1, <1>2, Types DEF IInv
  <1>4. \A q \in Requests : MessageSound(q, req[q])'
    <2>1. ASSUME NEW q \in Requests \ {r} PROVE MessageSound(q, req[q])'
      BY <1>2, <1>3, MessagesStay
    <2>2. MessageSound(r, req[r])'
      <3>1. MessageSound(r, m)
        BY <1>1
      <3> QED
        BY <1>2, <1>3, <3>1, MessageMoved
    <2> QED
      BY <2>1, <2>2
  <1>5. PopupNeverStuck'
    BY <1>2, <1>3, Types DEF IInv, PopupNeverStuck, Idle
  <1>6. LockedPopupForgets' /\ popup' \in Popups /\ heard' \in SUBSET Requests /\ popup'.held = popup.held
    BY <1>2, Types DEF IInv, LockedPopupForgets
  <1> QED
    BY <1>2, <1>3, <1>4, <1>5, <1>6, PopupStep

(* RestartWorker keeps the invariant. *)
LEMMA RestartStep ==
    ASSUME IInv, RestartWorker
    PROVE  IInv'
  <1>1. req \in [Requests -> Messages] /\ moved \in SUBSET Requests
    BY Types DEF IInv
  <1>2. UNCHANGED <<storage, heard, popup, replaced>> /\ unlockPassphrase' = None
    BY DEF RestartWorker
  <1>3. ASSUME NEW q \in Requests
        PROVE  /\ req'[q] \in Messages /\ MessageSound(q, req[q])'
               /\ req[q].kind # "fill" => req'[q].kind = req[q].kind
    <2> PICK old : old = req[q]
      OBVIOUS
    <2>1. old \in Messages /\ MessageSound(q, old)
      BY MessageType
    <2>2. CASE old.step \notin Serving
      <3>1. req'[q] = old /\ (q \notin moved' => q \notin moved)
        BY <2>2 DEF RestartWorker
      <3> QED
        BY <1>2, <2>1, <3>1 DEF storage, MessageSound, ArgFits, UnlockSound, Vouches, SignInSound,
                                FillSound, OnlyMatch
    <2>3. CASE old.step \in Serving /\ old.kind = "fill"
      <3> PICK m : m = Idle
        OBVIOUS
      <3>1. m \in Messages /\ MessageSound(q, m)' /\ req'[q] = m
        BY <2>3, IdleSound
           DEF RestartWorker, Idle, MessageSound, ArgFits, UnlockSound, SignInSound, FillSound
      <3> QED
        BY <2>3, <3>1 DEF MessageSound, ArgFits, UnlockSound, SignInSound, FillSound
    <2>4. CASE old.step \in Serving /\ old.kind # "fill"
      <3> PICK m : m = Message(old.kind, "error", None)
        OBVIOUS
      <3>1. req'[q] = m
        BY <2>4 DEF RestartWorker, Answer
      <3>2. m \in Messages /\ m.kind = old.kind /\ MessageSound(q, Message(old.kind, "error", None))'
        <4>1. old.kind \in Kinds \cup {"none"}
          BY <2>1 DEF Messages
        <4> QED
          BY <4>1, AnswerSound
      <3>3. MessageSound(q, m)'
        BY <3>2 DEF MessageSound, ArgFits, UnlockSound, SignInSound, FillSound
      <3> QED
        BY <3>1, <3>2, <3>3 DEF MessageSound, ArgFits, UnlockSound, SignInSound, FillSound
    <2> QED
      BY <2>2, <2>3, <2>4
  <1>4. req' \in [Requests -> Messages]
    <2>1. req' = [q \in Requests |-> req'[q]]
      BY DEF RestartWorker
    <2> QED
      BY <1>3, <2>1
  <1>5. PassphraseIsVerified'
    <2>1. VerifierStays
      BY <1>2 DEF VerifierStays, storage
    <2> QED
      BY <1>2, <2>1, PassphraseKept
  <1>6. LockedPopupForgets' /\ SignedInHasProfile'
    BY <1>2 DEF IInv, LockedPopupForgets, SignedInHasProfile, storage
  <1>7. PopupNeverStuck'
    BY <1>2, <1>3, Types DEF IInv, PopupNeverStuck
  <1>8. TypeOK'
    <2>1. moved' \in SUBSET Requests
      BY <1>1 DEF RestartWorker
    <2> QED
      BY <1>2, <1>4, <2>1, Types DEF IInv, storage, TypeOK, Messages, Popups, Steps
  <1> QED
    BY <1>3, <1>5, <1>6, <1>7, <1>8 DEF IInv

(* MacChanges keeps the invariant: fills between their two reads no longer *)
(* count on the companion.                                                 *)
LEMMA MacStep ==
    ASSUME IInv, MacChanges
    PROVE  IInv'
  <1>1. /\ UNCHANGED <<auth, verifier, cache, profiles, unlockPassphrase, req, heard, popup,
                       replaced>>
        /\ mac' \in MacLogins /\ moved' = moved \cup BetweenReads
    BY DEF MacChanges
  <1>2. ASSUME NEW q \in Requests PROVE MessageSound(q, req[q])'
    <2> PICK old : old = req[q]
      OBVIOUS
    <2>1. MessageSound(q, old)
      BY MessageType
    <2>2. ArgFits(old)' /\ UnlockSound(old)' /\ SignInSound(old)'
      BY <1>1, <2>1 DEF MessageSound, ArgFits, UnlockSound, Vouches, SignInSound
    <2>3. FillSound(q, old)'
      <3>1. q \in moved' \/ old.kind # "fill" \/ (q \notin moved /\ old.picked = None)
        BY <1>1 DEF BetweenReads
      <3>2. old.picked = None => old.picked \notin Logins \cup Companions
        BY ExtensionAssumption
      <3> QED
        BY <1>1, <2>1, <3>1, <3>2 DEF MessageSound, FillSound
    <2> QED
      BY <1>1, <2>2, <2>3 DEF MessageSound, ArgFits, UnlockSound, SignInSound, FillSound
  <1>3. PassphraseIsVerified' /\ LockedPopupForgets' /\ SignedInHasProfile' /\ PopupNeverStuck'
    BY <1>1 DEF IInv, PassphraseIsVerified, Vouches, LockedPopupForgets, SignedInHasProfile,
                PopupNeverStuck
  <1>4. TypeOK'
    BY <1>1, Types DEF IInv, BetweenReads, TypeOK, Messages, Popups, Steps
  <1> QED
    BY <1>2, <1>3, <1>4 DEF IInv

-----------------------------------------------------------------------------
(* LoadItems, ClosePopup and what shows a password keep the invariant. *)
LEMMA ViewSteps ==
    ASSUME IInv,
           LoadItems \/ ClosePopup
             \/ \E l \in Logins : togglePasswordVisibility(l) \/ RevealPassword(l)
    PROVE  IInv'
  <1> PICK old : old = popup
    OBVIOUS
  <1>0. /\ old \in Popups /\ cache \in SUBSET Logins /\ heard \in SUBSET Requests
        /\ req \in [Requests -> Messages]
    BY Types DEF IInv
  <1>1. UNCHANGED <<storage, unlockPassphrase, req, history>>
    BY DEF LoadItems, ClosePopup, togglePasswordVisibility, RevealPassword
  <1>2. \A q \in Requests : MessageSound(q, req[q])'
    <2>1. req' = req /\ UNCHANGED <<storage, history>>
      BY <1>1
    <2> QED
      BY <2>1, MessagesStay
  <1>3. CASE ClosePopup
    <2>1. popup' = NoPopup /\ heard' = {}
      BY <1>3 DEF ClosePopup
    <2>2. /\ NoPopup \in Popups /\ NoPopup.held = None /\ NoPopup.revealed = {}
          /\ NoPopup.passwords = {} /\ NoPopup.status = "closed"
      BY DEF NoPopup, Popups
    <2>3. LockedPopupForgets' /\ PopupNeverStuck'
      BY <2>1, <2>2 DEF LockedPopupForgets, PopupNeverStuck
    <2> QED
      BY <1>0, <1>1, <1>2, <2>1, <2>2, <2>3, PopupStep
  <1>4. ASSUME /\ popup' \in Popups /\ popup'.held = old.held /\ popup'.mode = old.mode
               /\ popup'.status = old.status,
               heard' = heard,
               \/ old.mode = "unlocked"
               \/ popup'.revealed = old.revealed /\ popup'.passwords = old.passwords
        PROVE  IInv'
    <2>1. LockedPopupForgets'
      BY <1>4 DEF IInv, LockedPopupForgets
    <2>2. PopupNeverStuck'
      BY <1>1, <1>4 DEF IInv, PopupNeverStuck
    <2> QED
      BY <1>0, <1>1, <1>2, <1>4, <2>1, <2>2, PopupStep
  <1>5. CASE LoadItems
    <2>1. PICK ls \in {cache, {}} : popup' = [old EXCEPT !.items = ls, !.hasLoaded = TRUE]
      BY <1>5 DEF LoadItems, ReadPopupVaultItems
    <2>2. ls \in SUBSET Logins
      BY <1>0
    <2>3. /\ popup' \in Popups /\ popup'.held = old.held /\ popup'.mode = old.mode
          /\ popup'.status = old.status /\ popup'.revealed = old.revealed
          /\ popup'.passwords = old.passwords
      BY <1>0, <2>1, <2>2 DEF Popups
    <2> QED
      BY <1>4, <1>5, <2>3 DEF LoadItems
  <1>6. ASSUME NEW l \in Logins, togglePasswordVisibility(l) PROVE IInv'
    <2>1. popup' = [old EXCEPT !.revealed = IF l \in @ THEN @ \ {l} ELSE @ \cup {l}]
          /\ old.mode = "unlocked" /\ heard' = heard
      BY <1>6 DEF togglePasswordVisibility
    <2>2. /\ popup' \in Popups /\ popup'.held = old.held /\ popup'.mode = old.mode
          /\ popup'.status = old.status
      BY <1>0, <2>1 DEF Popups
    <2> QED
      BY <1>4, <2>1, <2>2
  <1>7. ASSUME NEW l \in Logins, RevealPassword(l) PROVE IInv'
    <2>1. popup' = [old EXCEPT !.passwords = @ \cup {l}] /\ old.mode = "unlocked" /\ heard' = heard
      BY <1>7 DEF RevealPassword
    <2>2. /\ popup' \in Popups /\ popup'.held = old.held /\ popup'.mode = old.mode
          /\ popup'.status = old.status
      BY <1>0, <2>1 DEF Popups
    <2> QED
      BY <1>4, <2>1, <2>2
  <1> QED
    BY <1>3, <1>5, <1>6, <1>7

(* OpenPopup keeps the invariant. *)
LEMMA OpenPopupStep ==
    ASSUME IInv, NEW r \in Requests, NEW q \in Requests, OpenPopup(r, q)
    PROVE  IInv'
  <1> PICK m : m = Message("state", "mode", None)
    OBVIOUS
  <1> PICK n : n = Message("auth", "read", None)
    OBVIOUS
  <1>1. /\ m \in Messages /\ (\A o : MessageSound(o, m))
        /\ n \in Messages /\ n.kind = "auth" /\ (\A o : MessageSound(o, n))
    BY NewMessage DEF Kinds, Serving
  <1>2. /\ req' = [req EXCEPT ![r] = m, ![q] = n] /\ r # q /\ heard' = {r, q}
        /\ UNCHANGED <<storage, unlockPassphrase, history>>
    BY DEF OpenPopup
  <1>3. /\ req' \in [Requests -> Messages] /\ req'[r] = m /\ req'[q] = n
        /\ \A o \in Requests \ {r, q} : req'[o] = req[o]
    BY <1>1, <1>2, Types DEF IInv
  <1>4. ASSUME NEW o \in Requests PROVE MessageSound(o, req[o])'
    <2>1. CASE o \notin {r, q}
      BY <1>2, <1>3, <2>1, MessagesStay
    <2>2. CASE o = r
      <3>1. MessageSound(o, m)
        BY <1>1
      <3> QED
        BY <1>2, <1>3, <2>2, <3>1, MessageMoved
    <2>3. CASE o = q
      <3>1. MessageSound(o, n)
        BY <1>1
      <3> QED
        BY <1>2, <1>3, <2>3, <3>1, MessageMoved
    <2> QED
      BY <2>1, <2>2, <2>3
  <1>5. popup' = [NoPopup EXCEPT !.mode = "needs_setup", !.status = "loading"]
    BY DEF OpenPopup
  <1>6. /\ popup' \in Popups /\ popup'.held = None /\ popup'.status = "loading"
        /\ popup'.revealed = {} /\ popup'.passwords = {}
    BY <1>5 DEF NoPopup, Popups
  <1>7. LockedPopupForgets' /\ PopupNeverStuck'
    BY <1>1, <1>2, <1>3, <1>6 DEF LockedPopupForgets, PopupNeverStuck
  <1> QED
    BY <1>2, <1>3, <1>4, <1>6, <1>7, PopupStep

(* A mode for the popup keeps what a popup that is not unlocked may hold. *)
LEMMA ModeType ==
    ASSUME NEW u \in Popups, NEW m \in {"needs_setup", "locked", "unlocked"}
    PROVE  /\ WithMode(u, m) \in Popups /\ WithMode(u, m).mode = m /\ WithMode(u, m).held = u.held
           /\ WithMode(u, m).status = u.status
           /\ m # "unlocked" => WithMode(u, m).revealed = {} /\ WithMode(u, m).passwords = {}
  BY DEF WithMode, Popups

(* What the answer to an unlock, a lock or a read of the mode makes of the *)
(* popup.                                                                  *)
LEMMA AnswerToMode ==
    ASSUME IInv, NEW r \in Requests, req[r].step \in Answered, NEW v,
           \/ req[r].kind = "unlock" /\ v = AfterUnlock(r)
           \/ req[r].kind = "lock" /\ v = AfterLock(r)
           \/ req[r].kind = "state" /\ v = AfterState(r)
    PROVE  /\ v \in Popups /\ v.status = popup.status
           /\ v.mode # "unlocked" => v.held = None /\ v.revealed = {} /\ v.passwords = {}
           /\ \/ v.held \in {popup.held, None}
              \/ ~replaced => verifier = [pass |-> v.held, secure |-> TRUE]
  <1> PICK u \in Popups : u = popup
    BY Types DEF IInv
  <1> PICK m : m = req[r]
    OBVIOUS
  <1>1. m \in Messages /\ ArgFits(m) /\ UnlockSound(m)
    BY MessageType DEF MessageSound
  <1>2. u.mode # "unlocked" => u.held = None /\ u.revealed = {} /\ u.passwords = {}
    BY DEF IInv, LockedPopupForgets
  <1>3. CASE m.kind = "unlock"
    <2>1. v = IF m.step = "error" THEN [u EXCEPT !.held = None]
              ELSE [WithMode(u, "unlocked") EXCEPT !.held = m.arg]
      BY <1>3 DEF AfterUnlock
    <2>2. m.step \in {"unlocked", "error"} /\ (m.step # "error" => m.arg \in Passphrases)
      BY <1>1, <1>3 DEF ArgFits
    <2>3. CASE m.step = "error"
      BY <1>2, <2>1, <2>3 DEF Popups
    <2>4. CASE m.step = "unlocked"
      <3> PICK w : w = WithMode(u, "unlocked")
        OBVIOUS
      <3>1. w \in Popups /\ w.mode = "unlocked" /\ w.status = u.status
        BY ModeType
      <3>2. v = [w EXCEPT !.held = m.arg]
        BY <2>1, <2>4
      <3>3. v \in Popups /\ v.mode = "unlocked" /\ v.status = u.status /\ v.held = m.arg
        BY <2>2, <2>4, <3>1, <3>2 DEF Popups
      <3>4. ~replaced => verifier = [pass |-> v.held, secure |-> TRUE]
        BY <1>1, <1>3, <2>4, <3>3 DEF UnlockSound, Vouches
      <3> QED
        BY <3>3, <3>4
    <2> QED
      BY <2>2, <2>3, <2>4
  <1>4. CASE m.kind = "lock"
    <2>1. v = IF m.step = "error" THEN u ELSE [WithMode(u, m.step) EXCEPT !.held = None]
      BY <1>4 DEF AfterLock
    <2>2. m.step \in {"unlocked", "locked", "needs_setup", "error"}
      BY <1>1, <1>4 DEF ArgFits
    <2>3. CASE m.step = "error"
      BY <1>2, <2>1, <2>3
    <2>4. CASE m.step # "error"
      <3> PICK w : w = WithMode(u, m.step)
        OBVIOUS
      <3>1. /\ w \in Popups /\ w.status = u.status
            /\ w.mode # "unlocked" => w.revealed = {} /\ w.passwords = {}
        BY <2>2, <2>4, ModeType
      <3>2. v = [w EXCEPT !.held = None]
        BY <2>1, <2>4
      <3> QED
        BY <3>1, <3>2 DEF Popups
    <2> QED
      BY <2>3, <2>4
  <1>5. CASE m.kind = "state"
    <2>1. v = CASE m.step = "unlocked" -> WithMode(u, "unlocked")
                [] m.step = "error" -> [WithMode(u, "needs_setup") EXCEPT !.held = None]
                [] OTHER -> [WithMode(u, m.step) EXCEPT !.held = None]
      BY <1>5 DEF AfterState
    <2>2. m.step \in {"unlocked", "locked", "needs_setup", "error"}
      BY <1>1, <1>5 DEF ArgFits
    <2>3. CASE m.step = "unlocked"
      <3> PICK w : w = WithMode(u, "unlocked")
        OBVIOUS
      <3>1. w \in Popups /\ w.mode = "unlocked" /\ w.status = u.status /\ w.held = u.held
        BY ModeType
      <3> QED
        BY <2>1, <2>3, <3>1
    <2>4. CASE m.step # "unlocked"
      <3> PICK s : s = IF m.step = "error" THEN "needs_setup" ELSE m.step
        OBVIOUS
      <3> PICK w : w = WithMode(u, s)
        OBVIOUS
      <3>1. /\ w \in Popups /\ w.status = u.status
            /\ w.mode # "unlocked" => w.revealed = {} /\ w.passwords = {}
        BY <2>2, <2>4, ModeType
      <3>2. v = [w EXCEPT !.held = None]
        BY <2>1, <2>2, <2>4
      <3> QED
        BY <3>1, <3>2 DEF Popups
    <2> QED
      BY <2>3, <2>4
  <1> QED
    BY <1>3, <1>4, <1>5

(* Receive keeps the invariant. *)
LEMMA ReceiveStep ==
    ASSUME IInv, NEW r \in Requests, Receive(r)
    PROVE  IInv'
  <1> PICK old : old = req[r]
    OBVIOUS
  <1>0. old \in Messages /\ old.step \in Answered /\ popup \in Popups
    BY MessageType, Types DEF Receive, IInv
  <1>1. PICK m : /\ m \in Messages /\ (\A q : MessageSound(q, m))
                 /\ req' = [req EXCEPT ![r] = m]
                 /\ heard' \in {heard, heard \ {r}}
    <2>1. CASE old.step = "signed_in"
      <3> PICK m : m = Message("hydrate", "read", None)
        OBVIOUS
      <3>1. m \in Messages /\ \A q : MessageSound(q, m)
        BY NewMessage DEF Kinds, Serving
      <3> QED
        BY <2>1, <3>1 DEF Receive
    <2>2. CASE old.step # "signed_in"
      <3> PICK m : m = Idle
        OBVIOUS
      <3>1. m \in Messages /\ \A q : MessageSound(q, m)
        BY IdleSound
      <3> QED
        BY <2>2, <3>1 DEF Receive
    <2> QED
      BY <2>1, <2>2
  <1>2. UNCHANGED <<storage, unlockPassphrase, history>>
    BY DEF Receive
  <1>3. /\ req' \in [Requests -> Messages] /\ req'[r] = m
        /\ \A q \in Requests \ {r} : req'[q] = req[q]
    BY <1>1, Types DEF IInv
  <1>4. \A q \in Requests : MessageSound(q, req[q])'
    <2>1. ASSUME NEW q \in Requests \ {r} PROVE MessageSound(q, req[q])'
      BY <1>2, <1>3, MessagesStay
    <2>2. MessageSound(r, req[r])'
      <3>1. MessageSound(r, m)
        BY <1>1
      <3> QED
        BY <1>2, <1>3, <3>1, MessageMoved
    <2> QED
      BY <2>1, <2>2
  <1>5. /\ popup' \in Popups
        /\ popup'.mode # "unlocked" =>
             popup'.held = None /\ popup'.revealed = {} /\ popup'.passwords = {}
        /\ \/ popup'.held \in {popup.held, None}
           \/ ~replaced => verifier = [pass |-> popup'.held, secure |-> TRUE]
        /\ \/ popup'.status \in {"signed_in", "signed_out"}
           \/ popup'.status = popup.status /\ old.kind \notin {"auth", "sign_in"}
    <2> PICK v : v = popup'
      OBVIOUS
    <2>1. CASE old.kind \in {"unlock", "lock", "state"}
      <3>1. \/ old.kind = "unlock" /\ v = AfterUnlock(r)
            \/ old.kind = "lock" /\ v = AfterLock(r)
            \/ old.kind = "state" /\ v = AfterState(r)
        BY <2>1 DEF Receive
      <3> QED
        BY <1>0, <2>1, <3>1, AnswerToMode
    <2>2. CASE old.kind \in {"auth", "sign_in"}
      <3>1. v = [popup EXCEPT !.status = StatusAfter(r)]
        BY <2>2 DEF Receive
      <3>2. StatusAfter(r) \in {"signed_in", "signed_out"}
        BY DEF StatusAfter
      <3> QED
        BY <1>0, <3>1, <3>2 DEF IInv, LockedPopupForgets, Popups
    <2>3. CASE old.kind \notin {"unlock", "lock", "state", "auth", "sign_in"}
      <3>1. v = popup
        BY <2>3 DEF Receive
      <3> QED
        BY <1>0, <2>3, <3>1 DEF IInv, LockedPopupForgets
    <2> QED
      BY <2>1, <2>2, <2>3
  <1>6. LockedPopupForgets'
    BY <1>5 DEF LockedPopupForgets
  <1>7. PopupNeverStuck'
    BY <1>1, <1>3, <1>5, Types DEF IInv, PopupNeverStuck
  <1>8. heard' \in SUBSET Requests
    BY <1>1, Types DEF IInv
  <1> QED
    BY <1>2, <1>3, <1>4, <1>5, <1>6, <1>7, <1>8, PopupStep

-----------------------------------------------------------------------------
LEMMA InitIInv == Init => IInv
  <1> SUFFICES ASSUME Init PROVE IInv
    OBVIOUS
  <1>1. \A r \in Requests : req[r] = Idle
    BY DEF Init
  <1>2. \A r \in Requests : req[r] \in Messages /\ MessageSound(r, req[r])
    BY <1>1, IdleSound
  <1>3. req \in [Requests -> Messages]
    BY IdleSound DEF Init
  <1>4. popup \in Popups /\ verifier \in Verifiers \cup {None}
    BY DEF Init, NoPopup, Popups, Verifiers
  <1>5. TypeOK
    BY <1>3, <1>4, Types DEF Init
  <1>6. PassphraseIsVerified /\ LockedPopupForgets /\ SignedInHasProfile /\ PopupNeverStuck
    BY DEF Init, NoPopup, PassphraseIsVerified, LockedPopupForgets, SignedInHasProfile, PopupNeverStuck
  <1> QED
    BY <1>2, <1>5, <1>6 DEF IInv

(* A handler that rejects keeps the invariant. *)
LEMMA FailStep ==
    ASSUME IInv, NEW r \in Requests, FailRequest(r)
    PROVE  IInv'
  <1>1. CASE req[r].kind = "fill"
    BY <1>1, StopFillStep DEF FailRequest
  <1>2. CASE req[r].kind # "fill"
    <2> PICK k : k = req[r].kind
      OBVIOUS
    <2> PICK m : m = Message(k, "error", None)
      OBVIOUS
    <2>1. k \in Kinds \cup {"none"}
      BY MessageType DEF Messages
    <2>2. m \in Messages /\ m.kind = k /\ MessageSound(r, m)
      BY <2>1, AnswerSound
    <2>3. /\ req' = [req EXCEPT ![r] = m]
          /\ UNCHANGED <<storage, unlockPassphrase, heard, popup, history>>
      BY <1>2 DEF FailRequest, Answer
    <2> QED
      BY <2>2, <2>3, QuietStep
  <1> QED
    BY <1>1, <1>2

LEMMA HandleStep ==
    ASSUME IInv, NEW r \in Requests, Handle(r)
    PROVE  IInv'
  BY FailStep, ReadVerifierStep, GoSteps, TryStep, WriteStep, ForgetStep, OpenStep, BootstrapStep,
     AuthStep, HydrateStep, SyncStep, StoreStep, FillSteps DEF Handle

LEMMA UsePopupStep ==
    ASSUME IInv, UsePopup
    PROVE  IInv'
  <1>1. ASSUME NEW r \in Requests, NEW q \in Requests, OpenPopup(r, q) PROVE IInv'
    BY <1>1, OpenPopupStep
  <1>2. ASSUME NEW r \in Requests, PressLock(r) \/ SendSignOut(r) PROVE IInv'
    BY <1>2, AskSteps
  <1>3. ASSUME NEW r \in Requests, AutofillPage(r) PROVE IInv'
    BY <1>3, UnseenSteps
  <1>4. ASSUME NEW r \in Requests, NEW a \in Accounts, signIn(r, a) PROVE IInv'
    BY <1>4, AskSteps
  <1>5. ASSUME NEW r \in Requests, NEW p \in Passphrases, submitUnlock(r, p) PROVE IInv'
    BY <1>5, AskSteps
  <1>6. ASSUME NEW l \in Logins, togglePasswordVisibility(l) \/ RevealPassword(l) PROVE IInv'
    BY <1>6, ViewSteps
  <1>7. CASE LoadItems \/ ClosePopup
    BY <1>7, ViewSteps
  <1> QED
    BY <1>1, <1>2, <1>3, <1>4, <1>5, <1>6, <1>7 DEF UsePopup

LEMMA NextIInv == IInv /\ [Next]_vars => IInv'
  <1> SUFFICES ASSUME IInv, [Next]_vars PROVE IInv'
    OBVIOUS
  <1>1. CASE UNCHANGED vars
    <2>1. /\ UNCHANGED <<storage, unlockPassphrase, history>> /\ req' = req /\ heard' = heard
          /\ popup' = popup
      BY <1>1 DEF vars, storage, history
    <2>2. \A q \in Requests : MessageSound(q, req[q])'
      BY <2>1, MessagesStay
    <2>3. LockedPopupForgets' /\ PopupNeverStuck'
      BY <2>1 DEF IInv, LockedPopupForgets, PopupNeverStuck
    <2> QED
      BY <2>1, <2>2, <2>3, PopupStep, Types DEF IInv
  <1>2. ASSUME NEW r \in Requests, FillFields(r) PROVE IInv'
    BY <1>2, FillSteps
  <1>3. ASSUME NEW r \in Requests, Receive(r) PROVE IInv'
    BY <1>3, ReceiveStep
  <1>4. ASSUME NEW r \in Requests, Drop(r) PROVE IInv'
    BY <1>4, UnseenSteps
  <1> QED
    BY <1>1, <1>2, <1>3, <1>4, HandleStep, RestartStep, MacStep, UsePopupStep DEF Next

-----------------------------------------------------------------------------
LEMMA Inductive == Spec => []IInv
  BY InitIInv, NextIInv, PTL DEF Spec

(* Every variable keeps its type, for any number of messages under way.    *)
THEOREM TypeCorrect == Spec => []TypeOK
  <1>1. IInv => TypeOK
    BY DEF IInv
  <1> QED
    BY <1>1, Inductive, PTL

(* However many unlocks and set-ups interleave with failures and restarts, *)
(* a passphrase in memory is the one that the stored verifier vouches for. *)
THEOREM PassphraseVerified == Spec => []PassphraseIsVerified
  <1>1. IInv => PassphraseIsVerified
    BY DEF IInv
  <1> QED
    BY <1>1, Inductive, PTL

(* A popup that is not unlocked holds nothing secret, however its answers  *)
(* overlap.                                                                *)
THEOREM LockedForgets == Spec => []LockedPopupForgets
  <1>1. IInv => LockedPopupForgets
    BY DEF IInv
  <1> QED
    BY <1>1, Inductive, PTL

(* Who is stored as signed in has a profile row. *)
THEOREM ProfileFirst == Spec => []SignedInHasProfile
  <1>1. IInv => SignedInHasProfile
    BY DEF IInv
  <1> QED
    BY <1>1, Inductive, PTL

(* The sign-in form waits only for a message that will settle it. *)
THEOREM NeverStuck == Spec => []PopupNeverStuck
  <1>1. IInv => PopupNeverStuck
    BY DEF IInv
  <1> QED
    BY <1>1, Inductive, PTL

(* The two together. *)
THEOREM SignInAlwaysSettles == Spec => []SignInSettles
  <1>1. SignedInHasProfile /\ PopupNeverStuck => SignInSettles
    BY DEF SignInSettles
  <1> QED
    BY <1>1, ProfileFirst, NeverStuck, PTL

(* Username and password of a fill are of one login, for any number of     *)
(* fills, logins and cache refreshes.                                      *)
THEOREM FillsAreOfOneLogin == Spec => []FillsAgree
  <1>1. IInv => FillsAgree
    BY DEF IInv, MessageSound, FillSound, FillsAgree, At
  <1> QED
    BY <1>1, Inductive, PTL
=============================================================================
