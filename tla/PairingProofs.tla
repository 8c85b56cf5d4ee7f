--------------------------- MODULE PairingProofs ---------------------------
(***************************************************************************)
(* Proofs about Pairing, for any number of devices, pairing sessions and   *)
(* logins.                                                                 *)
(***************************************************************************)
EXTENDS Pairing, TLAPS

-----------------------------------------------------------------------------
(* The session's operators. *)

(* Reading the lock state keeps the session's type, only ever removes      *)
(* credentials, and changes neither an unlocked nor a locked session.      *)
LEMMA SettledFacts ==
    ASSUME NEW s \in Session
    PROVE  /\ Settled(s) \in Session
           /\ Settled(s).credentials \subseteq s.credentials
           /\ IsUnlocked(Settled(s)) => Settled(s) = s
           /\ IsLocked(Settled(s)) => Settled(s) = s
    BY DEF Session, Settled, AttentionSession, AttentionReasons, IsUnlocked, IsLocked

(* unlock() drops or normalises every origin (compactMap in unlock). *)
LEMMA NormalizeAllFacts ==
    ASSUME NEW v \in SUBSET Credential
    PROVE  /\ NormalizeAll(v) \in SUBSET Credential
           /\ \A c \in NormalizeAll(v) : c.origin \in Origins
  <1>1. ASSUME NEW c \in NormalizeAll(v)
        PROVE  c \in Credential /\ c.origin \in Origins
    <2>1. PICK d \in v : /\ Normalized[d.origin] # NoOrigin
                         /\ c = [d EXCEPT !.origin = Normalized[d.origin]]
      BY <1>1 DEF NormalizeAll
    <2>2. d \in Credential /\ Normalized[d.origin] \in Origins
      BY <2>1, SpellingsAssumption DEF Credential
    <2> QED
      BY <2>1, <2>2, SpellingsAssumption DEF Credential
  <1> QED
    BY <1>1

(* unlock() leaves a well-typed, unlocked session of normalised origins. *)
LEMMA UnlockedSessionFacts ==
    ASSUME NEW v \in SUBSET Credential
    PROVE  /\ UnlockedSession(v) \in Session
           /\ \A c \in UnlockedSession(v).credentials : c.origin \in Origins
           /\ ~IsLocked(UnlockedSession(v))
    BY NormalizeAllFacts DEF UnlockedSession, Session, IsLocked

(* Normalising drops or rewrites entries one by one: ids stay unique.      *)
LEMMA NormalizeAllUnique ==
    ASSUME NEW v \in SUBSET Credential, HasUniqueIds(v)
    PROVE  HasUniqueIds(NormalizeAll(v))
  <1> SUFFICES ASSUME NEW c \in NormalizeAll(v), NEW d \in NormalizeAll(v), c.id = d.id
               PROVE  c = d
    BY DEF HasUniqueIds
  <1>1. PICK a \in v : c = [a EXCEPT !.origin = Normalized[a.origin]]
    BY DEF NormalizeAll
  <1>2. PICK b \in v : d = [b EXCEPT !.origin = Normalized[b.origin]]
    BY DEF NormalizeAll
  <1>3. a.id = c.id /\ b.id = d.id
    BY <1>1, <1>2 DEF Credential
  <1>4. a = b
    BY <1>3 DEF HasUniqueIds
  <1> QED
    BY <1>1, <1>2, <1>4

(* The importer's merge only ever yields logins. *)
LEMMA MergeType ==
    ASSUME NEW v \in SUBSET Credential, NEW w \in SUBSET Credential
    PROVE  Merge(v, w) \in SUBSET Credential
    BY DEF Merge

(* Replacing by id keeps ids unique. *)
LEMMA MergeUnique ==
    ASSUME NEW v, NEW w, HasUniqueIds(v), HasUniqueIds(w)
    PROVE  HasUniqueIds(Merge(v, w))
    BY DEF HasUniqueIds, Merge

-----------------------------------------------------------------------------
(* An iPhone that is ready has an invite, and one that received or         *)
(* imported a handoff has one the Mac made.                                *)
FlowShape ==
    \A p \in Phones :
        /\ device[p].state = "ready" => device[p].invite \in Sessions
        /\ device[p].state \in {"received", "imported"} => device[p].handoff \in answers

(* The inductive strengthening of TypeOK. *)
TypeInv == TypeOK /\ FlowShape

-----------------------------------------------------------------------------
(* Types. *)

(* A fresh Mac and fresh iPhones satisfy the invariant. *)
LEMMA TypeInit == Init => TypeInv
  <1> SUFFICES ASSUME Init PROVE TypeInv
    OBVIOUS
  <1>1. FreshDevice \in Device
    BY DEF FreshDevice, Device
  <1>2. LockedSession \in Session
    BY DEF LockedSession, Session
  <1>3. TypeOK
    BY <1>1, <1>2 DEF Init, TypeOK
  <1>4. FlowShape
    BY DEF Init, FlowShape, FreshDevice
  <1> QED
    BY <1>3, <1>4 DEF TypeInv

(* The shape of an iPhone's flow survives steps that only send answers. *)
LEMMA ShapeKept ==
    ASSUME TypeInv, UNCHANGED device, answers \subseteq answers'
    PROVE  FlowShape'
    BY DEF TypeInv, FlowShape

(* Completing a claim keeps the types. *)
LEMMA ClaimType ==
    ASSUME TypeInv, NEW c \in claims, completeSession(c)
    PROVE  TypeInv'
  <1>1. c \in Claim /\ session \in Session /\ session.credentials \in SUBSET Credential
    BY DEF TypeInv, TypeOK, Session
  <1>2. c.session \in Sessions /\ c.target \in Phones
    BY <1>1 DEF Claim
  <1>3. /\ session' \in Session
        /\ pending' \in SUBSET Sessions
        /\ consumed' \in SUBSET Sessions
        /\ answers \subseteq answers'
    BY <1>1, <1>2, SettledFacts DEF completeSession, RefuseClaim, MakeHandoff, TypeInv, TypeOK
  <1>4. answers' \in SUBSET Handoff
    BY <1>1, <1>2 DEF completeSession, RefuseClaim, MakeHandoff, TypeInv, TypeOK, Handoff
  <1>5. TypeOK'
    BY <1>3, <1>4 DEF completeSession, phoneVars, TypeInv, TypeOK
  <1>6. FlowShape'
    BY <1>3, ShapeKept DEF completeSession, phoneVars
  <1> QED
    BY <1>5, <1>6 DEF TypeInv

(* The Mac's steps keep the types. *)
LEMMA MacType ==
    ASSUME TypeInv, MacActs
    PROVE  TypeInv'
  <1>1. CASE \E v \in Vaults : UnlockVault(v)
    <2>1. session' \in Session
      BY <1>1, PairingAssumption, UnlockedSessionFacts DEF UnlockVault
    <2>2. TypeOK'
      BY <1>1, <2>1 DEF UnlockVault, phoneVars, TypeInv, TypeOK
    <2> QED
      BY <1>1, <2>2, ShapeKept DEF UnlockVault, phoneVars, TypeInv
  <1>2. CASE lock \/ SessionEnds \/ RefusePairing
    <2>1. session' \in Session
      BY <1>2, SettledFacts
      DEF lock, SessionEnds, RefusePairing, LockedSession, AttentionSession, AttentionReasons,
          Overdue, Session, TypeInv, TypeOK
    <2>2. UNCHANGED <<pending, consumed, started, macLate, claims, answers, phoneVars>>
      BY <1>2 DEF lock, SessionEnds, RefusePairing
    <2>3. TypeOK'
      BY <2>1, <2>2 DEF phoneVars, TypeInv, TypeOK
    <2> QED
      BY <2>2, <2>3, ShapeKept DEF phoneVars, TypeInv
  <1>3. CASE \E s \in Sessions : startSession(s)
    <2>1. TypeOK'
      BY <1>3 DEF startSession, phoneVars, TypeInv, TypeOK
    <2> QED
      BY <1>3, <2>1, ShapeKept DEF startSession, phoneVars, TypeInv
  <1>4. CASE \E s \in Sessions : MacClockPasses(s)
    <2>1. TypeOK'
      BY <1>4 DEF MacClockPasses, phoneVars, TypeInv, TypeOK
    <2> QED
      BY <1>4, <2>1, ShapeKept DEF MacClockPasses, phoneVars, TypeInv
  <1>5. CASE RestartMac
    <2>1. LockedSession \in Session
      BY DEF LockedSession, Session
    <2>2. TypeOK'
      BY <1>5, <2>1 DEF RestartMac, phoneVars, TypeInv, TypeOK
    <2> QED
      BY <1>5, <2>2, ShapeKept DEF RestartMac, phoneVars, TypeInv
  <1> QED
    BY <1>1, <1>2, <1>3, <1>4, <1>5, ClaimType DEF MacActs, pairIPhone

(* A step of one iPhone's flow keeps the types if it leaves that iPhone in *)
(* a well-formed state.                                                    *)
LEMMA DeviceStep ==
    ASSUME TypeInv, NEW p \in Phones, NEW d \in Device,
           device' = [device EXCEPT ![p] = d],
           d.state = "ready" => d.invite \in Sessions,
           d.state \in {"received", "imported"} => d.handoff \in answers,
           UNCHANGED macVars, UNCHANGED <<answers, late>>,
           claims' \in SUBSET Claim, received' \in [Phones -> SUBSET Credential]
    PROVE  TypeInv'
  <1>1. device' \in [Phones -> Device]
    BY DEF TypeInv, TypeOK
  <1>2. TypeOK'
    BY <1>1 DEF macVars, TypeInv, TypeOK
  <1>3. FlowShape'
    BY DEF TypeInv, TypeOK, FlowShape
  <1> QED
    BY <1>2, <1>3 DEF TypeInv

(* A failed attempt leaves a well-formed iPhone. *)
LEMMA DiscardedType ==
    ASSUME NEW d \in Device
    PROVE  /\ Discarded(d) \in Device
           /\ Discarded(d).state = "failed"
           /\ Discarded(d).opened = d.opened
           /\ Discarded(d).cache = d.cache
    BY DEF Discarded, Device

(* The store an import starts from holds logins. *)
LEMMA ImportStoreType ==
    ASSUME TypeInv, NEW p \in Phones
    PROVE  ImportStore(p) \in SUBSET Credential
  <1>1. device[p].cache \in (SUBSET Credential) \cup {None} /\ received[p] \in SUBSET Credential
    BY DEF TypeInv, TypeOK, Device
  <1> QED
    BY <1>1 DEF ImportStore

(* The iPhone's steps keep the types. *)
LEMMA PhoneType ==
    ASSUME TypeInv, NEW p \in Phones, PhoneActs(p)
    PROVE  TypeInv'
  <1> DEFINE d == device[p]
  <1>0. d \in Device /\ claims \in SUBSET Claim /\ received \in [Phones -> SUBSET Credential]
    BY DEF TypeInv, TypeOK
  <1>1. ASSUME NEW s \in Sessions, PasteInvite(p, s)
        PROVE  TypeInv'
    <2> DEFINE e == [d EXCEPT !.state = IF s \in late[p] THEN "failed" ELSE "ready",
                              !.invite = IF s \in late[p] THEN None ELSE s,
                              !.handoff = None]
    <2>1. e \in Device /\ (e.state = "ready" => e.invite \in Sessions)
                       /\ e.state \notin {"received", "imported"}
      BY <1>0 DEF Device
    <2>2. device' = [device EXCEPT ![p] = e]
      BY <1>1 DEF PasteInvite
    <2> QED
      BY <1>0, <1>1, <2>1, <2>2, DeviceStep DEF PasteInvite
  <1>2. ASSUME NEW state \in {"empty", "failed"},
               device' = [device EXCEPT ![p].state = state, ![p].invite = None,
                                        ![p].handoff = None],
               UNCHANGED macVars, UNCHANGED <<claims, answers, late, received>>
        PROVE  TypeInv'
    <2> DEFINE e == [d EXCEPT !.state = state, !.invite = None, !.handoff = None]
    <2>1. e \in Device /\ e.state = state
      BY <1>0 DEF Device
    <2>2. device' = [device EXCEPT ![p] = e]
      BY <1>2
    <2> QED
      BY <1>0, <1>2, <2>1, <2>2, DeviceStep
  <1>3. CASE pair(p)
    <2> DEFINE e == [d EXCEPT !.state = "pairing"]
    <2>1. e \in Device /\ e.state = "pairing"
      BY <1>0 DEF Device
    <2>2. device' = [device EXCEPT ![p] = e]
      BY <1>3 DEF pair
    <2>3. claims' \in SUBSET Claim
      BY <1>0, <1>3 DEF pair, TypeInv, FlowShape, Claim
    <2> QED
      BY <1>0, <1>3, <2>1, <2>2, <2>3, DeviceStep DEF pair
  <1>4. ASSUME NEW h \in answers, device' = [device EXCEPT ![p].state = "received", ![p].handoff = h],
               UNCHANGED macVars, UNCHANGED <<claims, answers, late, received>>
        PROVE  TypeInv'
    <2> DEFINE e == [d EXCEPT !.state = "received", !.handoff = h]
    <2>1. e \in Device /\ e.state = "received" /\ e.handoff = h
      BY <1>0, <1>4 DEF Device, TypeInv, TypeOK
    <2>2. device' = [device EXCEPT ![p] = e]
      BY <1>4
    <2> QED
      BY <1>0, <1>4, <2>1, <2>2, DeviceStep
  <1>5. CASE ExchangeFails(p)
    BY <1>0, <1>5, DeviceStep, DiscardedType DEF ExchangeFails
  <1>6. CASE ImportFails(p)
    <2>1. d.handoff \in Handoff
      BY <1>6 DEF ImportFails, TypeInv, TypeOK, FlowShape
    <2>2. d.handoff.session \in Sessions
      BY <2>1 DEF Handoff
    <2>3. Discarded(d) \in Device /\ Discarded(d).state = "failed"
      BY <1>0, DiscardedType
    <2>4. Spent(d) \in Device /\ Spent(d).state = "failed"
      BY <1>0, <2>2, <2>3 DEF Spent, Device
    <2>5. device' = [device EXCEPT ![p] = Discarded(d)] \/ device' = [device EXCEPT ![p] = Spent(d)]
      BY <1>6 DEF ImportFails
    <2>6. UNCHANGED macVars /\ UNCHANGED <<claims, answers, late, received>>
      BY <1>6 DEF ImportFails
    <2> QED
      BY <1>0, <2>3, <2>4, <2>5, <2>6, DeviceStep
  <1>7. CASE ImportHandoff(p)
    <2> DEFINE m == Merge(ImportStore(p), d.handoff.items)
               e == [d EXCEPT !.state = "imported", !.opened = @ \cup {d.handoff.session},
                              !.cache = m]
    <2>1. d.handoff \in Handoff /\ d.handoff \in answers
      BY <1>7 DEF ImportHandoff, TypeInv, TypeOK, FlowShape
    <2>2. d.handoff.session \in Sessions /\ d.handoff.items \in SUBSET Credential
      BY <2>1 DEF Handoff
    <2>3. m \in SUBSET Credential
      BY <2>2, ImportStoreType, MergeType
    <2>4. e \in Device /\ e.state = "imported" /\ e.handoff = d.handoff
      BY <1>0, <2>2, <2>3 DEF Device
    <2>5. device' = [device EXCEPT ![p] = e] /\ received' = [received EXCEPT ![p] = m]
      BY <1>7 DEF ImportHandoff
    <2>6. UNCHANGED macVars /\ UNCHANGED <<claims, answers, late>>
      BY <1>7 DEF ImportHandoff
    <2>7. received' \in [Phones -> SUBSET Credential]
      BY <1>0, <2>3, <2>5
    <2> QED
      BY <1>0, <2>1, <2>4, <2>5, <2>6, <2>7, DeviceStep
  <1>8. ASSUME NEW s \in Sessions, PhoneClockPasses(p, s)
        PROVE  TypeInv'
    <2>1. late' \in [Phones -> SUBSET Sessions]
      BY <1>8 DEF PhoneClockPasses, TypeInv, TypeOK
    <2>2. TypeOK'
      BY <1>8, <2>1 DEF PhoneClockPasses, macVars, TypeInv, TypeOK
    <2> QED
      BY <1>8, <2>2, ShapeKept DEF PhoneClockPasses, TypeInv
  <1>9. CASE RestartPhone(p)
    <2>1. FreshDevice \in Device /\ FreshDevice.state = "empty"
      BY DEF FreshDevice, Device
    <2> QED
      BY <1>0, <1>9, <2>1, DeviceStep DEF RestartPhone
  <1> QED
    BY <1>1, <1>2, <1>3, <1>4, <1>5, <1>6, <1>7, <1>8, <1>9
    DEF PhoneActs, PasteOther, ReceiveHandoff

(* Every step keeps the types. *)
LEMMA TypeStep == TypeInv /\ [Next]_vars => TypeInv'
  <1>1. TypeInv /\ UNCHANGED vars => TypeInv'
    BY DEF vars, TypeInv, TypeOK, FlowShape
  <1> QED
    BY <1>1, MacType, PhoneType DEF Next

(* Every variable keeps its type, for any number of devices, sessions and  *)
(* logins; an iPhone that shows an import has a handoff the Mac made.      *)
THEOREM TypeCorrect == Spec => []TypeOK
  <1>1. TypeInv => TypeOK
    BY DEF TypeInv
  <1> QED
    BY <1>1, TypeInit, TypeStep, PTL DEF Spec

(* TypeOK together with what makes it inductive. *)
LEMMA TypeInvariant == Spec => []TypeInv
    BY TypeInit, TypeStep, PTL DEF Spec

-----------------------------------------------------------------------------
(* One handoff per session. *)

(* A session that was handed out is started and pends no more, also after  *)
(* a restart has emptied consumedSessionIds: ids are not given out twice.  *)
Books ==
    /\ OneHandoffPerSession
    /\ pending \subseteq started
    /\ \A h \in answers : h.session \in started /\ h.session \notin pending

(* Every step keeps the books. *)
LEMMA BooksStep == TypeInv /\ Books /\ [Next]_vars => Books'
  <1> SUFFICES ASSUME TypeInv, Books, [Next]_vars PROVE Books'
    OBVIOUS
  <1>1. CASE /\ UNCHANGED <<answers, started>>
             /\ pending' \subseteq pending
    BY <1>1 DEF Books, OneHandoffPerSession
  <1>2. CASE \E s \in Sessions : startSession(s)
    BY <1>2 DEF startSession, Books, OneHandoffPerSession
  <1>3. ASSUME NEW c \in claims, completeSession(c)
        PROVE  Books'
    <2>1. CASE RefuseClaim(c)
      BY <1>1, <1>3, <2>1 DEF completeSession, RefuseClaim
    <2>2. CASE MakeHandoff(c)
      BY <1>3, <2>2 DEF completeSession, MakeHandoff, Books, OneHandoffPerSession
    <2> QED
      BY <1>3, <2>1, <2>2 DEF completeSession
  <1>4. CASE UNCHANGED vars
    BY <1>1, <1>4 DEF vars
  <1>5. CASE \E p \in Phones : PhoneActs(p)
    BY <1>1, <1>5
    DEF PhoneActs, PasteInvite, PasteOther, pair, ReceiveHandoff, ExchangeFails, ImportFails,
        ImportHandoff, PhoneClockPasses, RestartPhone, macVars
  <1>6. CASE \/ \E v \in Vaults : UnlockVault(v)
             \/ lock \/ SessionEnds \/ RefusePairing
             \/ \E s \in Sessions : MacClockPasses(s)
             \/ RestartMac
    BY <1>1, <1>6 DEF UnlockVault, lock, SessionEnds, RefusePairing, MacClockPasses, RestartMac
  <1> QED
    BY <1>2, <1>3, <1>4, <1>5, <1>6 DEF Next, MacActs, pairIPhone

(* The invariant of the books holds throughout. *)
LEMMA BooksInvariant == Spec => []Books
  <1>1. Init => Books
    BY DEF Init, Books, OneHandoffPerSession
  <1> QED
    BY <1>1, BooksStep, TypeInvariant, PTL DEF Spec

(* Replay protection on the Mac: whatever claims arrive, how often and     *)
(* from how many devices, and whether or not the Mac restarted, a pairing  *)
(* session is handed out once, to one device (completeSession).            *)
THEOREM SessionsAreHandedOutOnce == Spec => []OneHandoffPerSession
  <1>1. Books => OneHandoffPerSession
    BY DEF Books
  <1> QED
    BY <1>1, BooksInvariant, PTL

-----------------------------------------------------------------------------
(* The iPhone's store. *)

(* Ids are unique wherever a list of logins waits to be merged. *)
UniqueSources ==
    /\ HasUniqueIds(session.credentials)
    /\ \A h \in answers : HasUniqueIds(h.items)

(* What makes ImportedIsStored and FileLoads inductive. *)
StoreInv == ImportedIsStored /\ FileLoads /\ UniqueSources

(* Settling a session keeps ids unique. *)
LEMMA SettledUnique ==
    ASSUME NEW s, HasUniqueIds(s.credentials)
    PROVE  HasUniqueIds(Settled(s).credentials)
    BY DEF Settled, AttentionSession, HasUniqueIds

(* The Mac's steps keep the sources unique and touch no iPhone. *)
LEMMA MacStore ==
    ASSUME TypeInv, StoreInv, MacActs
    PROVE  StoreInv'
  <1>1. UNCHANGED phoneVars
    BY DEF MacActs, UnlockVault, lock, SessionEnds, pairIPhone, startSession, RefusePairing,
           completeSession, MacClockPasses, RestartMac
  <1>2. ImportedIsStored' /\ FileLoads'
    BY <1>1 DEF phoneVars, StoreInv, ImportedIsStored, FileLoads
  <1>3. CASE \E v \in Vaults : UnlockVault(v)
    <2>1. PICK v \in Vaults : UnlockVault(v)
      BY <1>3
    <2>2. HasUniqueIds(NormalizeAll(v))
      BY PairingAssumption, NormalizeAllUnique
    <2> QED
      BY <1>2, <2>1, <2>2 DEF UnlockVault, UnlockedSession, StoreInv, UniqueSources
  <1>4. CASE lock \/ SessionEnds \/ RefusePairing \/ RestartMac
    <2>1. UNCHANGED answers
      BY <1>4 DEF lock, SessionEnds, RefusePairing, RestartMac
    <2>2. HasUniqueIds(session'.credentials)
      BY <1>4, SettledUnique
      DEF lock, SessionEnds, RefusePairing, RestartMac, LockedSession, AttentionSession, Overdue,
          HasUniqueIds, StoreInv, UniqueSources, TypeInv, TypeOK, Session
    <2> QED
      BY <1>2, <2>1, <2>2 DEF StoreInv, UniqueSources
  <1>5. CASE (\E s \in Sessions : startSession(s)) \/ \E s \in Sessions : MacClockPasses(s)
    BY <1>2, <1>5 DEF startSession, MacClockPasses, StoreInv, UniqueSources
  <1>6. ASSUME NEW c \in claims, completeSession(c)
        PROVE  StoreInv'
    <2>1. CASE RefuseClaim(c)
      BY <1>2, <2>1, SettledUnique DEF RefuseClaim, StoreInv, UniqueSources
    <2>2. CASE MakeHandoff(c)
      BY <1>2, <2>2 DEF MakeHandoff, StoreInv, UniqueSources
    <2> QED
      BY <1>6, <2>1, <2>2 DEF completeSession
  <1> QED
    BY <1>3, <1>4, <1>5, <1>6 DEF MacActs, pairIPhone

(* A step of an iPhone that stores nothing and shows no import. *)
LEMMA NothingStored ==
    ASSUME TypeInv, StoreInv, NEW p \in Phones, NEW d,
           device' = [device EXCEPT ![p] = d],
           d.state # "imported", d.cache \in {device[p].cache, None},
           UNCHANGED macVars, UNCHANGED <<answers, received>>
    PROVE  StoreInv'
  <1>1. ImportedIsStored'
    BY DEF TypeInv, TypeOK, StoreInv, ImportedIsStored
  <1> QED
    BY <1>1 DEF macVars, StoreInv, FileLoads, UniqueSources

(* An iPhone's steps: only ImportHandoff stores, and then what it shows.   *)
LEMMA PhoneStore ==
    ASSUME TypeInv, StoreInv, NEW p \in Phones, PhoneActs(p)
    PROVE  StoreInv'
  <1> DEFINE d == device[p]
  <1>0. d \in Device
    BY DEF TypeInv, TypeOK
  <1>1. CASE ImportHandoff(p)
    <2> DEFINE m == Merge(ImportStore(p), d.handoff.items)
    <2>1. ImportStore(p) = received[p]
      BY DEF ImportStore, StoreInv, ImportedIsStored
    <2>2. d.handoff \in answers
      BY <1>1 DEF ImportHandoff, TypeInv, FlowShape
    <2>3. HasUniqueIds(m) /\ d.handoff.items \subseteq m
      <3>1. HasUniqueIds(received[p]) /\ HasUniqueIds(d.handoff.items)
        BY <2>2 DEF StoreInv, FileLoads, UniqueSources
      <3>2. HasUniqueIds(m)
        BY <2>1, <3>1, MergeUnique
      <3>3. d.handoff.items \subseteq m
        BY DEF Merge
      <3> QED
        BY <3>2, <3>3
    <2>4. received' = [received EXCEPT ![p] = m]
      BY <1>1 DEF ImportHandoff
    <2>5. \A q \in Phones : q # p => device'[q] = device[q] /\ received'[q] = received[q]
      BY <1>1, <2>4 DEF ImportHandoff, TypeInv, TypeOK
    <2>6. received'[p] = m /\ device'[p].cache = m /\ device'[p].handoff = d.handoff
      BY <1>0, <1>1, <2>4 DEF ImportHandoff, TypeInv, TypeOK, Device
    <2>7. ImportedIsStored' /\ FileLoads'
      BY <2>3, <2>5, <2>6 DEF StoreInv, ImportedIsStored, FileLoads
    <2> QED
      BY <1>1, <2>7 DEF ImportHandoff, macVars, StoreInv, UniqueSources
  <1>2. ASSUME NEW s \in Sessions, PasteInvite(p, s)
        PROVE  StoreInv'
    <2> DEFINE e == [d EXCEPT !.state = IF s \in late[p] THEN "failed" ELSE "ready",
                              !.invite = IF s \in late[p] THEN None ELSE s,
                              !.handoff = None]
    <2>1. device' = [device EXCEPT ![p] = e]
      BY <1>2 DEF PasteInvite
    <2>2. e.state # "imported" /\ e.cache = d.cache
      BY <1>0 DEF Device
    <2> QED
      BY <1>2, <2>1, <2>2, NothingStored DEF PasteInvite
  <1>3. ASSUME NEW state \in {"empty", "failed"},
               device' = [device EXCEPT ![p].state = state, ![p].invite = None,
                                        ![p].handoff = None],
               UNCHANGED macVars, UNCHANGED <<claims, answers, late, received>>
        PROVE  StoreInv'
    <2> DEFINE e == [d EXCEPT !.state = state, !.invite = None, !.handoff = None]
    <2>1. device' = [device EXCEPT ![p] = e]
      BY <1>3
    <2>2. e.state # "imported" /\ e.cache = d.cache
      BY <1>0 DEF Device
    <2> QED
      BY <1>3, <2>1, <2>2, NothingStored
  <1>4. CASE pair(p)
    <2>1. device' = [device EXCEPT ![p] = [d EXCEPT !.state = "pairing"]]
      BY <1>4 DEF pair
    <2>2. [d EXCEPT !.state = "pairing"].state # "imported"
          /\ [d EXCEPT !.state = "pairing"].cache = d.cache
      BY <1>0 DEF Device
    <2> QED
      BY <1>4, <2>1, <2>2, NothingStored DEF pair
  <1>5. ASSUME NEW h \in answers, device' = [device EXCEPT ![p].state = "received", ![p].handoff = h],
               UNCHANGED macVars, UNCHANGED <<claims, answers, late, received>>
        PROVE  StoreInv'
    <2> DEFINE e == [d EXCEPT !.state = "received", !.handoff = h]
    <2>1. device' = [device EXCEPT ![p] = e]
      BY <1>5
    <2>2. e.state # "imported" /\ e.cache = d.cache
      BY <1>0 DEF Device
    <2> QED
      BY <1>5, <2>1, <2>2, NothingStored
  <1>6. CASE ExchangeFails(p) \/ ImportFails(p)
    <2>1. /\ Discarded(d).state # "imported" /\ Discarded(d).cache = d.cache
          /\ Spent(d).state # "imported" /\ Spent(d).cache = d.cache
      BY <1>0, DiscardedType DEF Spent, Device
    <2>2. device' = [device EXCEPT ![p] = Discarded(d)] \/ device' = [device EXCEPT ![p] = Spent(d)]
      BY <1>6 DEF ExchangeFails, ImportFails
    <2>3. UNCHANGED macVars /\ UNCHANGED <<claims, answers, late, received>>
      BY <1>6 DEF ExchangeFails, ImportFails
    <2> QED
      BY <2>1, <2>2, <2>3, NothingStored
  <1>7. CASE \E s \in Sessions : PhoneClockPasses(p, s)
    BY <1>7
    DEF PhoneClockPasses, macVars, StoreInv, ImportedIsStored, FileLoads, UniqueSources
  <1>8. CASE RestartPhone(p)
    <2>1. FreshDevice.state # "imported" /\ FreshDevice.cache = None
      BY DEF FreshDevice
    <2> QED
      BY <1>8, <2>1, NothingStored DEF RestartPhone
  <1> QED
    BY <1>1, <1>2, <1>3, <1>4, <1>5, <1>6, <1>7, <1>8 DEF PhoneActs, PasteOther, ReceiveHandoff

(* The invariant of the store holds throughout. *)
LEMMA StoreInvariant == Spec => []StoreInv
  <1>1. Init => StoreInv
    BY DEF Init, LockedSession, FreshDevice, HasUniqueIds,
           StoreInv, ImportedIsStored, FileLoads, UniqueSources
  <1>2. StoreInv /\ UNCHANGED vars => StoreInv'
    BY DEF vars, StoreInv, ImportedIsStored, FileLoads, UniqueSources
  <1>3. TypeInv /\ StoreInv /\ [Next]_vars => StoreInv'
    BY <1>2, MacStore, PhoneStore DEF Next
  <1> QED
    BY <1>1, <1>3, TypeInvariant, PTL DEF Spec

(* What an iPhone shows as imported is in its file, and the store it keeps *)
(* is the file, wherever an import failed (importPayload on a copy).       *)
THEOREM ImportsAreStored == Spec => []ImportedIsStored
  <1>1. StoreInv => ImportedIsStored
    BY DEF StoreInv
  <1> QED
    BY <1>1, StoreInvariant, PTL

(* The received-vault file always has one login per id, so that loading it *)
(* never traps (loadEncryptedStore).                                       *)
THEOREM FileAlwaysLoads == Spec => []FileLoads
  <1>1. StoreInv => FileLoads
    BY DEF StoreInv
  <1> QED
    BY <1>1, StoreInvariant, PTL

-----------------------------------------------------------------------------
(* What a step can store. *)

(* Only ImportHandoff changes an iPhone's stored logins. *)
LEMMA StoredOnlyByImport ==
    ASSUME TypeInv, Next, NEW p \in Phones, received'[p] # received[p]
    PROVE  ImportHandoff(p)
  <1>1. MacActs => UNCHANGED received
    BY DEF MacActs, UnlockVault, lock, SessionEnds, pairIPhone, startSession, RefusePairing,
           completeSession, MacClockPasses, RestartMac, phoneVars
  <1>2. PICK q \in Phones : PhoneActs(q)
    BY <1>1 DEF Next
  <1>3. ImportHandoff(q)
    BY <1>2 DEF PhoneActs, PasteInvite, PasteOther, pair, ReceiveHandoff, ExchangeFails,
                ImportFails, PhoneClockPasses, RestartPhone
  <1>4. q = p
    BY <1>3 DEF ImportHandoff, TypeInv, TypeOK
  <1> QED
    BY <1>3, <1>4

(* An import shows the handoff it stored, one for this device which it had *)
(* not opened.                                                             *)
LEMMA ImportShows ==
    ASSUME TypeInv, NEW p \in Phones, ImportHandoff(p)
    PROVE  /\ device'[p].state = "imported"
           /\ device'[p].handoff = device[p].handoff
           /\ device'[p].opened = device[p].opened \cup {device[p].handoff.session}
           /\ device[p].handoff \in answers
           /\ device[p].handoff.target = p
           /\ device[p].handoff.session \notin device[p].opened
  <1>1. device[p] \in Device /\ device \in [Phones -> Device]
    BY DEF TypeInv, TypeOK
  <1> QED
    BY <1>1 DEF ImportHandoff, CanOpen, TypeInv, FlowShape, Device

(* Pairing attempts fail closed: logins are stored only by the step that   *)
(* reports it, from a handoff made for this device and not opened before   *)
(* (PairingHandoffOpener.open, PairingInviteViewModel.pair).               *)
THEOREM AttemptsFailClosed == Spec => FailsClosed
  <1>1. TypeInv /\ [Next]_vars =>
          [\A p \in Phones : received'[p] # received[p] =>
              /\ device'[p].state = "imported"
              /\ device'[p].handoff \in answers
              /\ device'[p].handoff.target = p
              /\ device'[p].handoff.session \notin device[p].opened]_vars
    BY StoredOnlyByImport, ImportShows
  <1> QED
    BY <1>1, TypeInvariant, PTL DEF Spec, FailsClosed

-----------------------------------------------------------------------------
(* The implementation of the one-time handoff. *)

allOpened == [p \in Phones |-> device[p].opened]

(* Initial states map to initial states. *)
LEMMA ProtocolInit == Init => Protocol!Init
    BY DEF Init, FreshDevice, Protocol!Init

(* The Mac offers, withdraws and hands out sessions. *)
LEMMA ProtocolMac ==
    ASSUME TypeInv, Books, MacActs
    PROVE  [Protocol!Next]_Protocol!vars
  <1>1. UNCHANGED <<device, received>>
    BY DEF MacActs, UnlockVault, lock, SessionEnds, pairIPhone, startSession, RefusePairing,
           completeSession, MacClockPasses, RestartMac, phoneVars
  <1>2. allOpened' = allOpened
    BY <1>1 DEF allOpened
  <1>3. ASSUME UNCHANGED answers, pending' \subseteq pending
        PROVE  [Protocol!Next]_Protocol!vars
    <2>1. Protocol!Withdraw
      BY <1>1, <1>2, <1>3 DEF allOpened, Protocol!Withdraw
    <2> QED
      BY <2>1 DEF Protocol!Next
  <1>4. ASSUME NEW s \in Sessions, startSession(s)
        PROVE  [Protocol!Next]_Protocol!vars
    <2>1. s \notin Protocol!HandedOut
      BY <1>4 DEF startSession, Books, Protocol!HandedOut
    <2>2. Protocol!Offer(s)
      BY <1>1, <1>2, <1>4, <2>1 DEF startSession, allOpened, Protocol!Offer
    <2> QED
      BY <2>2 DEF Protocol!Next
  <1>5. ASSUME NEW c \in claims, completeSession(c)
        PROVE  [Protocol!Next]_Protocol!vars
    <2>1. CASE RefuseClaim(c)
      BY <1>3, <2>1 DEF RefuseClaim
    <2>2. CASE MakeHandoff(c)
      <3>1. c \in Claim /\ session.credentials \in SUBSET Credential
        BY DEF TypeInv, TypeOK, Session
      <3>2. c.session \in Sessions /\ c.target \in Phones
        BY <3>1 DEF Claim
      <3>3. c.session \in pending /\ c.session \notin Protocol!HandedOut
        BY <1>5 DEF completeSession, Books, Protocol!HandedOut
      <3>4. Protocol!HandOut(c.session, c.target, session.credentials)
        BY <1>1, <1>2, <2>2, <3>3 DEF MakeHandoff, allOpened, Protocol!HandOut
      <3> QED
        BY <3>1, <3>2, <3>4 DEF Protocol!Next, Protocol!Credential, Credential
    <2> QED
      BY <1>5, <2>1, <2>2 DEF completeSession
  <1>6. CASE \/ \E v \in Vaults : UnlockVault(v)
             \/ lock \/ SessionEnds \/ RefusePairing
             \/ \E s \in Sessions : MacClockPasses(s)
             \/ RestartMac
    <2>1. UNCHANGED answers /\ pending' \subseteq pending
      BY <1>6 DEF UnlockVault, lock, SessionEnds, RefusePairing, MacClockPasses, RestartMac
    <2> QED
      BY <1>3, <2>1
  <1> QED
    BY <1>4, <1>5, <1>6 DEF MacActs, pairIPhone

(* An iPhone that keeps what it opened and stored is not seen.             *)
LEMMA ProtocolStutter ==
    ASSUME TypeInv, NEW p \in Phones, NEW d,
           device' = [device EXCEPT ![p] = d], d.opened = device[p].opened,
           UNCHANGED macVars, UNCHANGED <<answers, received>>
    PROVE  UNCHANGED Protocol!vars
  <1>1. allOpened' = allOpened
    BY DEF allOpened, TypeInv, TypeOK
  <1> QED
    BY <1>1 DEF allOpened, macVars, Protocol!vars

(* Opening a handoff, whether its logins are stored or not. *)
LEMMA ProtocolOpen ==
    ASSUME TypeInv, NEW p \in Phones, NEW d,
           device' = [device EXCEPT ![p] = d],
           d.opened = device[p].opened \cup {device[p].handoff.session},
           device[p].handoff \in answers, CanOpen(p, device[p].handoff),
           UNCHANGED macVars, UNCHANGED answers,
           \/ received' = [received EXCEPT ![p] = Merge(@, device[p].handoff.items)]
           \/ UNCHANGED received
    PROVE  Protocol!Next
  <1>1. PICK h \in answers : h = device[p].handoff
    OBVIOUS
  <1>2. h.target = p /\ h.session \notin allOpened[p]
    BY <1>1 DEF CanOpen, allOpened
  <1>3. allOpened' = [allOpened EXCEPT ![p] = allOpened[p] \cup {h.session}]
    BY <1>1 DEF allOpened, TypeInv, TypeOK
  <1>4. \/ received' = [received EXCEPT ![p] = Merge(received[p], h.items)]
        \/ UNCHANGED received
    BY <1>1
  <1>5. UNCHANGED <<pending, answers>>
    BY DEF macVars
  <1>6. Protocol!Open(h)
    BY <1>2, <1>3, <1>4, <1>5 DEF allOpened, Protocol!Open, Protocol!Merge, Merge
  <1> QED
    BY <1>6 DEF Protocol!Next

(* The iPhone opens, forgets, or is not seen. *)
LEMMA ProtocolPhone ==
    ASSUME TypeInv, StoreInv, NEW p \in Phones, PhoneActs(p)
    PROVE  [Protocol!Next]_Protocol!vars
  <1> DEFINE d == device[p]
  <1>0. d \in Device
    BY DEF TypeInv, TypeOK
  <1>1. ASSUME NEW s \in Sessions, PasteInvite(p, s)
        PROVE  UNCHANGED Protocol!vars
    <2> DEFINE e == [d EXCEPT !.state = IF s \in late[p] THEN "failed" ELSE "ready",
                              !.invite = IF s \in late[p] THEN None ELSE s,
                              !.handoff = None]
    <2>1. device' = [device EXCEPT ![p] = e]
      BY <1>1 DEF PasteInvite
    <2>2. e.opened = d.opened
      BY <1>0 DEF Device
    <2> QED
      BY <1>1, <2>1, <2>2, ProtocolStutter DEF PasteInvite
  <1>2. ASSUME NEW state, device' = [device EXCEPT ![p].state = state, ![p].invite = None,
                                                  ![p].handoff = None],
               UNCHANGED macVars, UNCHANGED <<claims, answers, late, received>>
        PROVE  UNCHANGED Protocol!vars
    <2> DEFINE e == [d EXCEPT !.state = state, !.invite = None, !.handoff = None]
    <2>1. device' = [device EXCEPT ![p] = e]
      BY <1>2
    <2>2. e.opened = d.opened
      BY <1>0 DEF Device
    <2> QED
      BY <1>2, <2>1, <2>2, ProtocolStutter
  <1>3. CASE pair(p)
    <2>1. device' = [device EXCEPT ![p] = [d EXCEPT !.state = "pairing"]]
      BY <1>3 DEF pair
    <2>2. [d EXCEPT !.state = "pairing"].opened = d.opened
      BY <1>0 DEF Device
    <2> QED
      BY <1>3, <2>1, <2>2, ProtocolStutter DEF pair
  <1>4. ASSUME NEW h \in answers, device' = [device EXCEPT ![p].state = "received", ![p].handoff = h],
               UNCHANGED macVars, UNCHANGED <<claims, answers, late, received>>
        PROVE  UNCHANGED Protocol!vars
    <2> DEFINE e == [d EXCEPT !.state = "received", !.handoff = h]
    <2>1. device' = [device EXCEPT ![p] = e]
      BY <1>4
    <2>2. e.opened = d.opened
      BY <1>0 DEF Device
    <2> QED
      BY <1>4, <2>1, <2>2, ProtocolStutter
  <1>5. ASSUME device' = [device EXCEPT ![p] = Discarded(d)],
               UNCHANGED macVars, UNCHANGED <<claims, answers, late, received>>
        PROVE  UNCHANGED Protocol!vars
    BY <1>0, <1>5, DiscardedType, ProtocolStutter
  <1>6. ASSUME d.state = "received", CanOpen(p, d.handoff),
               device' = [device EXCEPT ![p] = Spent(d)],
               UNCHANGED macVars, UNCHANGED <<claims, answers, late, received>>
        PROVE  Protocol!Next
    <2>1. Discarded(d) \in Device
      BY <1>0, DiscardedType
    <2>2. Spent(d).opened = d.opened \cup {d.handoff.session}
      BY <2>1 DEF Spent, Device
    <2>3. d.handoff \in answers
      BY <1>6 DEF TypeInv, FlowShape
    <2> QED
      BY <1>6, <2>2, <2>3, ProtocolOpen
  <1>7. CASE ImportHandoff(p)
    <2> DEFINE m == Merge(ImportStore(p), d.handoff.items)
               e == [d EXCEPT !.state = "imported", !.opened = @ \cup {d.handoff.session},
                              !.cache = m]
    <2>1. ImportStore(p) = received[p]
      BY DEF ImportStore, StoreInv, ImportedIsStored
    <2>2. device' = [device EXCEPT ![p] = e]
      BY <1>7 DEF ImportHandoff
    <2>3. e.opened = d.opened \cup {d.handoff.session}
      BY <1>0 DEF Device
    <2>4. received' = [received EXCEPT ![p] = Merge(@, d.handoff.items)]
      BY <1>7, <2>1 DEF ImportHandoff
    <2>5. d.handoff \in answers /\ CanOpen(p, d.handoff)
      BY <1>7 DEF ImportHandoff, TypeInv, FlowShape
    <2>6. UNCHANGED macVars /\ UNCHANGED answers
      BY <1>7 DEF ImportHandoff
    <2> QED
      BY <2>2, <2>3, <2>4, <2>5, <2>6, ProtocolOpen
  <1>8. CASE \E s \in Sessions : PhoneClockPasses(p, s)
    BY <1>8 DEF PhoneClockPasses, macVars, Protocol!vars
  <1>9. CASE RestartPhone(p)
    <2>1. allOpened' = [allOpened EXCEPT ![p] = {}]
      BY <1>9 DEF RestartPhone, FreshDevice, allOpened, TypeInv, TypeOK
    <2>2. Protocol!Forget(p)
      BY <1>9, <2>1 DEF RestartPhone, macVars, allOpened, Protocol!Forget
    <2> QED
      BY <2>2 DEF Protocol!Next
  <1> QED
    BY <1>1, <1>2, <1>3, <1>4, <1>5, <1>6, <1>7, <1>8, <1>9
    DEF PhoneActs, PasteOther, ReceiveHandoff, ExchangeFails, ImportFails

(* Lost, late, repeated and misdirected messages, failing files and        *)
(* restarts included, pairing implements the one-time handoff.             *)
THEOREM PairingImplementsProtocol == Spec => ImplementsHandoffProtocol
  <1>1. UNCHANGED vars => UNCHANGED Protocol!vars
    BY DEF vars, Protocol!vars
  <1>2. TypeInv /\ Books /\ StoreInv /\ [Next]_vars => [Protocol!Next]_Protocol!vars
    BY <1>1, ProtocolMac, ProtocolPhone DEF Next
  <1> QED
    BY <1>2, ProtocolInit, TypeInvariant, BooksInvariant, StoreInvariant, PTL
    DEF Spec, ImplementsHandoffProtocol, Protocol!Spec
=============================================================================
