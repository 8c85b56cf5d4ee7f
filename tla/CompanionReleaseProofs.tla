----------------------- MODULE CompanionReleaseProofs -----------------------
(***************************************************************************)
(* Proofs about CompanionRelease, for any number of tabs, pages, logins    *)
(* and polls.                                                              *)
(***************************************************************************)
EXTENDS CompanionRelease, Integers, TLAPS

-----------------------------------------------------------------------------
(* The session's operators. *)

(* Reading the lock state keeps the session's type, only ever removes      *)
(* credentials, and changes neither an unlocked nor a locked session.      *)
LEMMA SettledFacts ==
    ASSUME NEW s \in Session
    PROVE  /\ Settled(s) \in Session
           /\ Settled(s).credentials \subseteq s.credentials
           /\ IsUnlocked(Settled(s)) => Settled(s) = s
           /\ IsLocked(Settled(s)) => Settled(s) = s
    BY DEF Session, Settled, AttentionSession, AttentionReasons, IsUnlocked, IsLocked

(* unlock() drops or normalises every origin (compactMap in unlock). *)
LEMMA NormalizeAllFacts ==
    ASSUME NEW v \in SUBSET Credential
    PROVE  /\ NormalizeAll(v) \in SUBSET Credential
           /\ \A c \in NormalizeAll(v) : c.origin \in Origins
  <1>1. ASSUME NEW c \in NormalizeAll(v)
        PROVE  c \in Credential /\ c.origin \in Origins
    <2>1. PICK d \in v : /\ Normalized[d.origin] # NoOrigin
                         /\ c = [d EXCEPT !.origin = Normalized[d.origin]]
      BY <1>1 DEF NormalizeAll
    <2>2. d \in Credential /\ Normalized[d.origin] \in Origins
      BY <2>1, SpellingsAssumption DEF Credential
    <2> QED
      BY <2>1, <2>2, SpellingsAssumption DEF Credential
  <1> QED
    BY <1>1

(* unlock() leaves a well-typed, unlocked session of normalised origins. *)
LEMMA UnlockedSessionFacts ==
    ASSUME NEW v \in SUBSET Credential
    PROVE  /\ UnlockedSession(v) \in Session
           /\ \A c \in UnlockedSession(v).credentials : c.origin \in Origins
           /\ ~IsLocked(UnlockedSession(v))
    BY NormalizeAllFacts DEF UnlockedSession, Session, IsLocked

(* What credential(id:origin:profileId:) returns is nil or an entry of an  *)
(* unlocked session for that page.                                         *)
LEMMA LookupFacts ==
    ASSUME NEW s \in Session, NEW i, NEW o
    PROVE  /\ Lookup(s, i, o) \in Credential \cup {None}
           /\ Lookup(s, i, o) # None =>
                /\ IsUnlocked(s)
                /\ Lookup(s, i, o) \in s.credentials
                /\ Lookup(s, i, o).origin = Normalized[o]
  <1>1. Matches(s, o) \subseteq s.credentials /\ s.credentials \subseteq Credential
    BY DEF Matches, Session
  <1>2. \A c \in Matches(s, o) : IsUnlocked(s) /\ c.origin = Normalized[o]
    BY DEF Matches
  <1>3. Lookup(s, i, o) # None => Lookup(s, i, o) \in Matches(s, o)
    BY DEF Lookup
  <1> QED
    BY <1>1, <1>2, <1>3

(* The importer's merge only ever yields logins. *)
LEMMA MergeType ==
    ASSUME NEW v \in SUBSET Credential, NEW w \in SUBSET Credential
    PROVE  Merge(v, w) \in SUBSET Credential
    BY DEF Merge

-----------------------------------------------------------------------------
(* The unlocked session only holds normalised origins: unlock is the only  *)
(* writer of credentials, and it normalises.                               *)
SessionNormalized == \A c \in session.credentials : c.origin \in Origins

-----------------------------------------------------------------------------
(* Types. *)

(* The request shown for a normalised credential is well formed. *)
LEMMA ApprovalOfType ==
    ASSUME NEW c \in Credential, c.origin \in Origins
    PROVE  ApprovalOf(c) \in Approval
    BY DEF Credential, Approval, ApprovalOf

-----------------------------------------------------------------------------
(* Type correctness. *)

(* Posting a callback keeps the counts in their range. *)
LEMMA PostType ==
    ASSUME posted \in [Approval \cup {None} -> 0 .. MaxPosted],
           NEW a \in Approval \cup {None}, Post(a)
    PROVE  posted' \in [Approval \cup {None} -> 0 .. MaxPosted]
    BY ReleaseAssumption DEF Post

TypeInv == TypeOK /\ SessionNormalized

(* isSessionUnlocked leaves every variable it touches in its type. *)
LEMMA RequireUnlockedType ==
    ASSUME TypeInv, RequireUnlocked
    PROVE  /\ session' \in Session
           /\ SessionNormalized'
           /\ pendingApproval' \in Approval \cup {None}
           /\ pendingCredential' \in Credential \cup {None}
           /\ approvedCredential' \in Credential \cup {None}
           /\ posted' \in [Approval \cup {None} -> 0 .. MaxPosted]
  <1>1. session' \in Session /\ SessionNormalized'
    BY SettledFacts DEF TypeInv, TypeOK, RequireUnlocked, SessionNormalized
  <1>2. CASE KeepBridge
    BY <1>1, <1>2 DEF TypeInv, TypeOK, KeepBridge, bridge
  <1>3. CASE ClearReleaseMaterial
    BY <1>1, <1>3, PostType DEF TypeInv, TypeOK, ClearReleaseMaterial
  <1> QED
    BY <1>2, <1>3 DEF RequireUnlocked

(* Moving a tab to another program counter keeps its other fields. *)
LEMMA TabAtType ==
    ASSUME TypeInv, NEW t \in Tabs, NEW pc \in TabPcs, TabAt(t, pc)
    PROVE  tabs' \in [Tabs -> TabState]
    BY DEF TypeInv, TypeOK, TabAt, TabState

(* A fresh companion, with any vault file, satisfies the invariant. *)
LEMMA TypeInit == Init => TypeInv
  <1> SUFFICES ASSUME Init PROVE TypeInv
    OBVIOUS
  <1>1. session \in Session /\ SessionNormalized
    BY DEF Init, LockedSession, Session, SessionNormalized
  <1>2. store \in SUBSET Credential
    BY ReleaseAssumption DEF Init, Vaults
  <1>3. posted \in [Approval \cup {None} -> 0 .. MaxPosted]
    BY ReleaseAssumption DEF Init
  <1>4. tabs \in [Tabs -> TabState]
    BY ReleaseAssumption DEF Init, IdleTab, TabState, TabPcs
  <1> QED
    BY <1>1, <1>2, <1>3, <1>4 DEF Init, TypeInv, TypeOK, IdleMain

(* A step of the handlers that serve one tab. *)
LEMMA HandleType ==
    ASSUME TypeInv, NEW t \in Tabs, Handle(t)
    PROVE  TypeInv'
  <1>0. /\ Settled(session) \in Session
        /\ \A c \in Settled(session).credentials : c.origin \in Origins
    BY SettledFacts DEF TypeInv, TypeOK, SessionNormalized
  <1>p. HoldingPcs \cup {"idle", "metadata", "release", "claim"} = TabPcs
    BY DEF TabPcs
  <1>1. CASE ReadMetadata(t)
    <2>1. tabs' \in [Tabs -> TabState]
      <3>1. CASE TabAt(t, "metadataCheck") \/ EndFill(t)
        BY <3>1, TabAtType DEF EndFill, TabPcs, HoldingPcs
      <3>2. ASSUME NEW c \in Matches(Settled(session), tabs[t].page),
                   tabs' = [tabs EXCEPT ![t].pc = "release", ![t].id = c.id]
            PROVE  tabs' \in [Tabs -> TabState]
        <4>1. c.id \in Ids
          BY <1>0 DEF Matches, Session, Credential
        <4>2. [tabs[t] EXCEPT !.pc = "release", !.id = c.id] \in TabState
          BY <4>1 DEF TypeInv, TypeOK, TabState, TabPcs
        <4>3. tabs' = [tabs EXCEPT ![t] = [tabs[t] EXCEPT !.pc = "release", !.id = c.id]]
          BY <3>2 DEF TypeInv, TypeOK, TabState
        <4> QED
          BY <4>2, <4>3 DEF TypeInv, TypeOK
      <3> QED
        BY <1>1, <3>1, <3>2 DEF ReadMetadata
    <2> QED
      BY <1>0, <1>1, <2>1 DEF ReadMetadata, KeepBridge, bridge, TypeInv, TypeOK, SessionNormalized
  <1>2. CASE CheckMetadata(t)
    BY <1>2, RequireUnlockedType, TabAtType DEF CheckMetadata, EndFill, TabPcs, TypeInv, TypeOK
  <1>3. CASE CheckRelease(t)
    <2>1. tabs' \in [Tabs -> TabState]
      BY <1>3, TabAtType DEF CheckRelease, EndFill, TabPcs, HoldingPcs
    <2> QED
      BY <1>3, <2>1, RequireUnlockedType DEF CheckRelease, TypeInv, TypeOK
  <1>4. CASE LookupRelease(t)
    <2> DEFINE c == Lookup(Settled(session), tabs[t].id, tabs[t].page)
    <2>1. tabs' \in [Tabs -> TabState]
      BY <1>4, TabAtType DEF LookupRelease, EndFill, TabPcs
    <2>2. CASE c = None
      BY <1>0, <1>4, <2>1, <2>2 DEF LookupRelease, KeepBridge, bridge, TypeInv, TypeOK, SessionNormalized
    <2>3. CASE c # None
      <3>1. c \in Credential /\ c.origin \in Origins
        BY <1>0, <2>3, LookupFacts
      <3>2. ApprovalOf(c) \in Approval
        BY <3>1, ApprovalOfType
      <3>3. posted' \in [Approval \cup {None} -> 0 .. MaxPosted]
        BY <1>4, <2>3, <3>2, PostType DEF LookupRelease, TypeInv, TypeOK
      <3> QED
        BY <1>0, <1>4, <2>1, <2>3, <3>1, <3>2, <3>3
        DEF LookupRelease, TypeInv, TypeOK, SessionNormalized
    <2> QED
      BY <2>2, <2>3
  <1>5. CASE CheckClaim(t)
    <2>1. tabs' \in [Tabs -> TabState]
      BY <1>5, TabAtType DEF CheckClaim, EndFill, TabPcs, HoldingPcs
    <2> QED
      BY <1>5, <2>1, RequireUnlockedType DEF CheckClaim, TypeInv, TypeOK
  <1>6. CASE LookupClaim(t)
    <2>1. session' \in Session /\ SessionNormalized'
      BY <1>0, <1>6 DEF LookupClaim, TypeInv, TypeOK, SessionNormalized
    <2>2. tabs' \in [Tabs -> TabState]
      <3>1. CASE EndFill(t)
        BY <3>1, TabAtType DEF EndFill, TabPcs
      <3>2. CASE tabs' = [tabs EXCEPT ![t].pc = "idle", ![t].filled = approvedCredential]
        <4>1. [tabs[t] EXCEPT !.pc = "idle", !.filled = approvedCredential] \in TabState
          BY DEF TypeInv, TypeOK, TabState, TabPcs
        <4>2. tabs' = [tabs EXCEPT ![t] = [tabs[t] EXCEPT !.pc = "idle", !.filled = approvedCredential]]
          BY <3>2 DEF TypeInv, TypeOK, TabState
        <4> QED
          BY <4>1, <4>2 DEF TypeInv, TypeOK
      <3>3. CASE /\ tabs[t].claims + 1 < MaxClaims
                 /\ tabs' = [tabs EXCEPT ![t].pc = "claim", ![t].claims = @ + 1]
        <4>1. tabs[t].claims + 1 \in 0 .. MaxClaims - 1
          BY <3>3, ReleaseAssumption DEF TypeInv, TypeOK, TabState
        <4>2. [tabs[t] EXCEPT !.pc = "claim", !.claims = @ + 1] \in TabState
          BY <4>1 DEF TypeInv, TypeOK, TabState, TabPcs
        <4>3. tabs' = [tabs EXCEPT ![t] = [tabs[t] EXCEPT !.pc = "claim", !.claims = @ + 1]]
          BY <3>3 DEF TypeInv, TypeOK, TabState
        <4> QED
          BY <4>2, <4>3 DEF TypeInv, TypeOK
      <3> QED
        BY <1>6, <3>1, <3>2, <3>3 DEF LookupClaim
    <2> QED
      BY <1>6, <2>1, <2>2 DEF LookupClaim, KeepBridge, bridge, TypeInv, TypeOK
  <1> QED
    BY <1>1, <1>2, <1>3, <1>4, <1>5, <1>6 DEF Handle

(* A step of the importer's thread. *)
LEMMA ImportType ==
    ASSUME TypeInv, (\E w \in Imports : StartImport(w)) \/ SaveImport \/ UnlockImport
    PROVE  TypeInv'
  <1>0. /\ Settled(session) \in Session
        /\ \A c \in Settled(session).credentials : c.origin \in Origins
    BY SettledFacts DEF TypeInv, TypeOK, SessionNormalized
  <1>1. ASSUME NEW w \in Imports, StartImport(w)
        PROVE  TypeInv'
    <2>1. NormalizeAll(w) \in SUBSET Credential
      BY NormalizeAllFacts, ReleaseAssumption DEF Vaults
    <2>2. Merge(Settled(session).credentials, NormalizeAll(w)) \in SUBSET Credential
      BY <1>0, <2>1, MergeType DEF Session
    <2>3. importer' \in ImportState \cup {None}
      BY <1>1, <2>2 DEF StartImport, ImportState
    <2> QED
      BY <1>0, <1>1, <2>3 DEF StartImport, bridge, TypeInv, TypeOK, SessionNormalized
  <1>2. CASE SaveImport
    BY <1>2 DEF SaveImport, bridge, ImportState, TypeInv, TypeOK, SessionNormalized
  <1>3. CASE UnlockImport
    BY <1>3, UnlockedSessionFacts
    DEF UnlockImport, bridge, ImportState, TypeInv, TypeOK, SessionNormalized
  <1> QED
    BY <1>1, <1>2, <1>3

(* A step of the main actor that goes on with a running method. *)
LEMMA MainType ==
    ASSUME TypeInv, MainContinues \/ UserActs
    PROVE  TypeInv'
  <1>0. /\ Settled(session) \in Session
        /\ \A c \in Settled(session).credentials : c.origin \in Origins
    BY SettledFacts DEF TypeInv, TypeOK, SessionNormalized
  <1>1. CASE LookupApprove
    <2>1. /\ pendingApproval' \in Approval \cup {None}
          /\ pendingCredential' \in Credential \cup {None}
          /\ approvedCredential' \in Credential \cup {None}
          /\ Post(None)
      BY <1>1 DEF LookupApprove, ClearReleaseMaterial, TypeInv, TypeOK
    <2>2. posted' \in [Approval \cup {None} -> 0 .. MaxPosted]
      BY <2>1, PostType DEF TypeInv, TypeOK
    <2> QED
      BY <1>0, <1>1, <2>1, <2>2
      DEF LookupApprove, MainAt, IdleMain, TypeInv, TypeOK, SessionNormalized
  <1>2. CASE ClearPendingApproval
    BY <1>2, PostType
    DEF ClearPendingApproval, ClearReleaseMaterial, MainAt, IdleMain, TypeInv, TypeOK, SessionNormalized
  <1>3. CASE Refresh
    BY <1>0, <1>3 DEF Refresh, bridge, MainAt, IdleMain, TypeInv, TypeOK, SessionNormalized
  <1>4. CASE ClickApprove
    <2>1. CASE ~ShownIsPending
      BY <1>4, <2>1
      DEF ClickApprove, KeepBridge, bridge, MainAt, IdleMain, TypeInv, TypeOK, SessionNormalized
    <2>2. CASE ShownIsPending
      <3>1. view' \in Approval \cup {None}
            /\ main' \in [pc: {"idle", "approve", "clear", "refresh"}, request: Approval \cup {None}]
        BY <1>4, <2>2 DEF ClickApprove, MainAt, IdleMain, TypeInv, TypeOK
      <3> QED
        BY <1>4, <2>2, <3>1, RequireUnlockedType DEF ClickApprove, TypeInv, TypeOK
    <2> QED
      BY <2>1, <2>2
  <1>5. CASE ClickDeny
    <2>1. CASE ShownIsPending
      BY <1>5, <2>1, PostType
      DEF ClickDeny, ClearReleaseMaterial, MainAt, IdleMain, TypeInv, TypeOK, SessionNormalized
    <2>2. CASE ~ShownIsPending
      BY <1>5, <2>2
      DEF ClickDeny, KeepBridge, bridge, MainAt, IdleMain, TypeInv, TypeOK, SessionNormalized
    <2> QED
      BY <2>1, <2>2
  <1>6. CASE Lock
    BY <1>6
    DEF Lock, LockedSession, Session, bridge, MainAt, IdleMain,
        TypeInv, TypeOK, SessionNormalized
  <1>7. CASE Unlock
    BY <1>7, UnlockedSessionFacts
    DEF Unlock, bridge, MainAt, IdleMain, TypeInv, TypeOK, SessionNormalized
  <1>8. ASSUME NEW v \in Vaults, ReplaceVault(v)
        PROVE  TypeInv'
    <2>1. v \in SUBSET Credential
      BY ReleaseAssumption DEF Vaults
    <2> QED
      BY <1>8, <2>1, UnlockedSessionFacts
      DEF ReplaceVault, bridge, MainAt, IdleMain, TypeInv, TypeOK, SessionNormalized
  <1>9. ASSUME NEW c \in Pool, AddLogin(c)
        PROVE  TypeInv'
    BY <1>9, ReleaseAssumption
    DEF AddLogin, bridge, MainAt, IdleMain, TypeInv, TypeOK, SessionNormalized
  <1> QED
    BY <1>1, <1>2, <1>3, <1>4, <1>5, <1>6, <1>7, <1>8, <1>9 DEF MainContinues, UserActs

(* A step of the environment, of the extension alone or of a callback. *)
LEMMA EnvironmentType ==
    ASSUME TypeInv,
           \/ \E t \in Tabs : FetchFails(t) \/ \E p \in Pages : StartFill(t, p)
           \/ ProbeStatus
           \/ \E a \in Approval \cup {None} : RunPosted(a)
           \/ DeadlinePasses
           \/ \E r \in {"lostDevice", "revoked"} : MarkAttention(r)
           \/ Restart
    PROVE  TypeInv'
  <1>1. ASSUME NEW t \in Tabs, FetchFails(t)
        PROVE  TypeInv'
    <2>1. tabs' \in [Tabs -> TabState]
      BY <1>1, TabAtType DEF FetchFails, EndFill, TabPcs
    <2> QED
      BY <1>1, <2>1 DEF FetchFails, bridge, TypeInv, TypeOK, SessionNormalized
  <1>2. ASSUME NEW t \in Tabs, NEW p \in Pages, StartFill(t, p)
        PROVE  TypeInv'
    <2>1. 0 \in 0 .. MaxClaims - 1
      BY ReleaseAssumption
    <2>2. IdleTab \in TabState
      BY <2>1 DEF IdleTab, TabState, TabPcs
    <2>3. [IdleTab EXCEPT !.pc = "metadata", !.page = p] \in TabState
      BY <2>2 DEF TabState, TabPcs
    <2> QED
      BY <1>2, <2>3 DEF StartFill, bridge, TypeInv, TypeOK, SessionNormalized
  <1>3. CASE ProbeStatus
    BY <1>3, RequireUnlockedType DEF ProbeStatus, TypeInv, TypeOK
  <1>4. ASSUME NEW a \in Approval \cup {None}, RunPosted(a)
        PROVE  TypeInv'
    <2>1. posted' \in [Approval \cup {None} -> 0 .. MaxPosted]
      BY <1>4, ReleaseAssumption DEF RunPosted, TypeInv, TypeOK
    <2> QED
      BY <1>4, <2>1 DEF RunPosted, bridge, TypeInv, TypeOK, SessionNormalized
  <1>5. CASE DeadlinePasses
    BY <1>5
    DEF DeadlinePasses, Overdue, bridge, Session, TypeInv, TypeOK, SessionNormalized
  <1>6. ASSUME NEW r \in {"lostDevice", "revoked"}, MarkAttention(r)
        PROVE  TypeInv'
    BY <1>6
    DEF MarkAttention, AttentionSession, AttentionReasons, bridge, Session,
        TypeInv, TypeOK, SessionNormalized
  <1>7. CASE Restart
    <2>1. posted' \in [Approval \cup {None} -> 0 .. MaxPosted]
      BY <1>7, ReleaseAssumption DEF Restart
    <2>2. \A t \in Tabs : [tabs[t] EXCEPT !.pc = "idle"] \in TabState
      BY DEF TypeInv, TypeOK, TabState, TabPcs
    <2>3. tabs' \in [Tabs -> TabState]
      BY <1>7, <2>2 DEF Restart
    <2> QED
      BY <1>7, <2>1, <2>3
      DEF Restart, LockedSession, Session, IdleMain, TypeInv, TypeOK, SessionNormalized
  <1> QED
    BY <1>1, <1>2, <1>3, <1>4, <1>5, <1>6, <1>7

(* Every step keeps the types and the normalised origins. *)
LEMMA TypeStep == TypeInv /\ [Next]_vars => TypeInv'
  <1> SUFFICES ASSUME TypeInv, [Next]_vars PROVE TypeInv'
    OBVIOUS
  <1>1. CASE UNCHANGED vars
    BY <1>1 DEF vars, bridge, TypeInv, TypeOK, SessionNormalized
  <1>2. CASE Next
    BY <1>2, HandleType, ImportType, MainType, EnvironmentType DEF Next
  <1> QED
    BY <1>1, <1>2

(* Every variable keeps its type, for any number of tabs, pages, logins,   *)
(* polls and queued callbacks; in particular the extension never polls     *)
(* more than MaxClaims times (the claim loop of runtime.ts) and the slot   *)
(* never holds a request with an origin that was not normalised.           *)
THEOREM TypeCorrect == Spec => []TypeOK
  <1>1. Init => TypeInv
    BY TypeInit
  <1>2. TypeInv /\ [Next]_vars => TypeInv'
    BY TypeStep
  <1>3. TypeInv => TypeOK
    BY DEF TypeInv
  <1> QED
    BY <1>1, <1>2, <1>3, PTL DEF Spec

(* TypeOK together with what makes it inductive. *)
LEMMA TypeInvariant == Spec => []TypeInv
    BY TypeInit, TypeStep, PTL DEF Spec

-----------------------------------------------------------------------------
(* What a step can do to the release slot and to what tabs were handed.    *)

FilledKept == \A t \in Tabs : tabs'[t].filled = tabs[t].filled

SlotEmptied ==
    /\ pendingApproval' = None
    /\ pendingCredential' = None
    /\ approvedCredential' = None

(* All but five actions leave the slot as it was or empty it, and hand     *)
(* nothing to a tab.                                                       *)
QuietStep == FilledKept /\ (UNCHANGED bridge \/ SlotEmptied)

(* Moving a tab on does not hand it anything. *)
LEMMA TabAtKeepsFilled ==
    ASSUME TypeInv, NEW t \in Tabs, NEW pc, TabAt(t, pc)
    PROVE  FilledKept
    BY DEF TypeInv, TypeOK, TabAt, TabState, FilledKept

(* isSessionUnlocked either leaves the bridge alone or empties the slot. *)
LEMMA RequireUnlockedQuiet ==
    RequireUnlocked => UNCHANGED bridge \/ SlotEmptied
    BY DEF RequireUnlocked, KeepBridge, ClearReleaseMaterial, SlotEmptied, bridge

(* All handler steps but requestRelease's and the claim's last are quiet. *)
LEMMA HandleQuiet ==
    ASSUME TypeInv, NEW t \in Tabs,
           \/ ReadMetadata(t) \/ CheckMetadata(t) \/ CheckRelease(t) \/ CheckClaim(t)
           \/ FetchFails(t)
    PROVE  QuietStep
  <1>1. CASE ReadMetadata(t)
    <2>1. FilledKept
      <3>1. CASE TabAt(t, "metadataCheck") \/ EndFill(t)
        BY <3>1, TabAtKeepsFilled DEF EndFill
      <3>2. ASSUME NEW c, tabs' = [tabs EXCEPT ![t].pc = "release", ![t].id = c.id]
            PROVE  FilledKept
        BY <3>2 DEF TypeInv, TypeOK, TabState, FilledKept
      <3> QED
        BY <1>1, <3>1, <3>2 DEF ReadMetadata
    <2> QED
      BY <1>1, <2>1 DEF ReadMetadata, KeepBridge, QuietStep
  <1>2. CASE CheckMetadata(t)
    BY <1>2, TabAtKeepsFilled, RequireUnlockedQuiet DEF CheckMetadata, EndFill, QuietStep
  <1>3. CASE CheckRelease(t)
    BY <1>3, TabAtKeepsFilled, RequireUnlockedQuiet DEF CheckRelease, EndFill, QuietStep
  <1>4. CASE CheckClaim(t)
    BY <1>4, TabAtKeepsFilled, RequireUnlockedQuiet DEF CheckClaim, EndFill, QuietStep
  <1>5. CASE FetchFails(t)
    BY <1>5, TabAtKeepsFilled DEF FetchFails, EndFill, QuietStep
  <1> QED
    BY <1>1, <1>2, <1>3, <1>4, <1>5

(* All main-actor steps but the approval are quiet. *)
LEMMA MainQuiet ==
    ASSUME ClearPendingApproval \/ Refresh \/ UserActs
    PROVE  QuietStep
  <1>1. UNCHANGED tabs => FilledKept
    BY DEF FilledKept
  <1>2. CASE ClearPendingApproval
    BY <1>1, <1>2 DEF ClearPendingApproval, ClearReleaseMaterial, SlotEmptied, QuietStep
  <1>3. CASE Refresh
    BY <1>1, <1>3 DEF Refresh, QuietStep
  <1>4. CASE ClickApprove
    BY <1>1, <1>4, RequireUnlockedQuiet DEF ClickApprove, KeepBridge, QuietStep
  <1>5. CASE ClickDeny
    BY <1>1, <1>5 DEF ClickDeny, KeepBridge, ClearReleaseMaterial, SlotEmptied, QuietStep
  <1>6. CASE Lock \/ Unlock \/ (\E v \in Vaults : ReplaceVault(v)) \/ \E c \in Pool : AddLogin(c)
    BY <1>1, <1>6 DEF Lock, Unlock, ReplaceVault, AddLogin, QuietStep
  <1> QED
    BY <1>2, <1>3, <1>4, <1>5, <1>6 DEF UserActs

(* The case split the invariants and the refinement below go through.      *)
LEMMA StepKinds ==
    ASSUME TypeInv, Next
    PROVE  \/ QuietStep
           \/ LookupApprove
           \/ \E t \in Tabs : LookupRelease(t) \/ LookupClaim(t) \/ \E p \in Pages : StartFill(t, p)
  <1>1. UNCHANGED tabs => FilledKept
    BY DEF FilledKept
  <1>2. ASSUME NEW t \in Tabs, Handle(t) \/ FetchFails(t)
        PROVE  QuietStep \/ LookupRelease(t) \/ LookupClaim(t)
    BY <1>2, HandleQuiet DEF Handle
  <1>3. CASE ProbeStatus
    BY <1>1, <1>3, RequireUnlockedQuiet DEF ProbeStatus, QuietStep
  <1>4. CASE (\E w \in Imports : StartImport(w)) \/ SaveImport \/ UnlockImport
    BY <1>1, <1>4 DEF StartImport, SaveImport, UnlockImport, QuietStep
  <1>5. CASE MainContinues \/ UserActs
    BY <1>5, MainQuiet DEF MainContinues
  <1>6. CASE \/ \E a \in Approval \cup {None} : RunPosted(a)
             \/ DeadlinePasses
             \/ \E r \in {"lostDevice", "revoked"} : MarkAttention(r)
    BY <1>1, <1>6 DEF RunPosted, DeadlinePasses, MarkAttention, QuietStep
  <1>7. CASE Restart
    <2>1. FilledKept
      BY <1>7 DEF Restart, TypeInv, TypeOK, TabState, FilledKept
    <2> QED
      BY <1>7, <2>1 DEF Restart, SlotEmptied, QuietStep
  <1> QED
    BY <1>2, <1>3, <1>4, <1>5, <1>6, <1>7 DEF Next

-----------------------------------------------------------------------------
(* The slot's consistency. *)

(* In the bridge, what is pending describes the credential that approving  *)
(* would release, and a new request ends the approval before it            *)
(* (requestRelease drops approvedCredential).  This says nothing of the    *)
(* request the view model shows, which lags behind.                        *)
SlotConsistent ==
    /\ pendingCredential = None <=> pendingApproval = None
    /\ pendingCredential # None => pendingApproval = ApprovalOf(pendingCredential)
    /\ pendingCredential # None => approvedCredential = None

(* Every step keeps the slot consistent. *)
LEMMA SlotStep == TypeInv /\ SlotConsistent /\ [Next]_vars => SlotConsistent'
  <1> SUFFICES ASSUME TypeInv, SlotConsistent, [Next]_vars PROVE SlotConsistent'
    OBVIOUS
  <1>0. /\ Settled(session) \in Session
        /\ \A c \in Settled(session).credentials : c.origin \in Origins
    BY SettledFacts DEF TypeInv, TypeOK, SessionNormalized
  <1>1. CASE UNCHANGED vars \/ QuietStep
    BY <1>1 DEF vars, bridge, QuietStep, SlotEmptied, SlotConsistent
  <1>2. CASE LookupApprove
    BY <1>2 DEF LookupApprove, ClearReleaseMaterial, SlotConsistent
  <1>3. ASSUME NEW t \in Tabs, LookupRelease(t)
        PROVE  SlotConsistent'
    <2> DEFINE c == Lookup(Settled(session), tabs[t].id, tabs[t].page)
    <2>1. CASE c = None
      BY <1>3, <2>1 DEF LookupRelease, KeepBridge, bridge, SlotConsistent
    <2>2. CASE c # None
      <3>1. c \in Credential /\ c.origin \in Origins
        BY <1>0, <2>2, LookupFacts
      <3>2. ApprovalOf(c) # None
        BY <3>1, ApprovalOfType, ReleaseAssumption
      <3> QED
        BY <1>3, <2>2, <3>2 DEF LookupRelease, SlotConsistent
    <2> QED
      BY <2>1, <2>2
  <1>4. ASSUME NEW t \in Tabs, LookupClaim(t)
        PROVE  SlotConsistent'
    BY <1>4 DEF LookupClaim, KeepBridge, bridge, SlotConsistent
  <1>5. ASSUME NEW t \in Tabs, NEW p \in Pages, StartFill(t, p)
        PROVE  SlotConsistent'
    BY <1>5 DEF StartFill, bridge, SlotConsistent
  <1> QED
    BY <1>1, <1>2, <1>3, <1>4, <1>5, StepKinds

(* The slot is consistent in every state. *)
LEMMA SlotInvariant == Spec => []SlotConsistent
  <1>1. Init => SlotConsistent
    BY DEF Init, SlotConsistent
  <1> QED
    BY <1>1, SlotStep, TypeInvariant, PTL DEF Spec

-----------------------------------------------------------------------------
(* Locking empties the slot.  The invariant is inductive: a handler caught *)
(* half way finds the session locked and cannot fill the slot, and the one *)
(* method that could carry an approval across, approvePendingRelease,      *)
(* keeps the main actor from locking while it runs.                        *)

(* A handler half way through a release or a claim cannot refill the slot  *)
(* of a locked vault: it looks the credential up again.                    *)
LEMMA HandleLock ==
    ASSUME TypeInv, LockEmptiesSlot, NEW t \in Tabs, Handle(t)
    PROVE  LockEmptiesSlot'
  <1>0. /\ session \in Session
        /\ Settled(session) \in Session
        /\ IsLocked(Settled(session)) => IsLocked(session)
    BY SettledFacts DEF TypeInv, TypeOK
  <1>1. CASE ReadMetadata(t)
    BY <1>0, <1>1 DEF ReadMetadata, KeepBridge, bridge, LockEmptiesSlot
  <1>2. CASE CheckMetadata(t) \/ CheckRelease(t) \/ CheckClaim(t)
    <2>1. RequireUnlocked /\ UNCHANGED main
      BY <1>2 DEF CheckMetadata, CheckRelease, CheckClaim
    <2> QED
      BY <1>0, <2>1
      DEF RequireUnlocked, KeepBridge, ClearReleaseMaterial, bridge, LockEmptiesSlot
  <1>3. CASE LookupRelease(t)
    <2> DEFINE c == Lookup(Settled(session), tabs[t].id, tabs[t].page)
    <2>1. CASE c = None
      BY <1>0, <1>3, <2>1 DEF LookupRelease, KeepBridge, bridge, LockEmptiesSlot
    <2>2. CASE c # None
      <3>1. IsUnlocked(Settled(session))
        BY <1>0, <2>2, LookupFacts
      <3>2. ~IsLocked(session')
        BY <1>3, <3>1 DEF LookupRelease, IsUnlocked, IsLocked
      <3> QED
        BY <3>2 DEF LockEmptiesSlot
    <2> QED
      BY <2>1, <2>2
  <1>4. CASE LookupClaim(t)
    BY <1>0, <1>4 DEF LookupClaim, KeepBridge, bridge, LockEmptiesSlot
  <1> QED
    BY <1>1, <1>2, <1>3, <1>4 DEF Handle

(* The main actor empties the slot before it does anything else after      *)
(* lock().                                                                 *)
LEMMA MainLock ==
    ASSUME TypeInv, LockEmptiesSlot, MainContinues \/ UserActs
    PROVE  LockEmptiesSlot'
  <1>0. /\ session \in Session
        /\ IsLocked(Settled(session)) => IsLocked(session)
    BY SettledFacts DEF TypeInv, TypeOK
  <1>1. CASE LookupApprove
    BY <1>0, <1>1 DEF LookupApprove, ClearReleaseMaterial, LockEmptiesSlot
  <1>2. CASE ClearPendingApproval
    BY <1>2 DEF ClearPendingApproval, ClearReleaseMaterial, LockEmptiesSlot
  <1>3. CASE Refresh
    BY <1>0, <1>3 DEF Refresh, bridge, LockEmptiesSlot
  <1>4. CASE ClickApprove
    BY <1>0, <1>4
    DEF ClickApprove, RequireUnlocked, KeepBridge, ClearReleaseMaterial, bridge, LockEmptiesSlot
  <1>5. CASE ClickDeny
    BY <1>5 DEF ClickDeny, KeepBridge, ClearReleaseMaterial, bridge, LockEmptiesSlot
  <1>6. CASE Lock
    BY <1>6 DEF Lock, MainAt, IdleMain, LockEmptiesSlot
  <1>7. CASE Unlock
    BY <1>7 DEF Unlock, UnlockedSession, IsLocked, LockEmptiesSlot
  <1>8. ASSUME NEW v \in Vaults, ReplaceVault(v)
        PROVE  LockEmptiesSlot'
    BY <1>8 DEF ReplaceVault, UnlockedSession, IsLocked, LockEmptiesSlot
  <1>9. ASSUME NEW c \in Pool, AddLogin(c)
        PROVE  LockEmptiesSlot'
    BY <1>9 DEF AddLogin, bridge, LockEmptiesSlot
  <1> QED
    BY <1>1, <1>2, <1>3, <1>4, <1>5, <1>6, <1>7, <1>8, <1>9 DEF MainContinues, UserActs

(* Every step keeps the slot of a locked vault empty. *)
LEMMA LockStep == TypeInv /\ LockEmptiesSlot /\ [Next]_vars => LockEmptiesSlot'
  <1> SUFFICES ASSUME TypeInv, LockEmptiesSlot, [Next]_vars PROVE LockEmptiesSlot'
    OBVIOUS
  <1>0. /\ session \in Session
        /\ IsLocked(Settled(session)) => IsLocked(session)
    BY SettledFacts DEF TypeInv, TypeOK
  <1>1. CASE UNCHANGED vars
    BY <1>1 DEF vars, bridge, LockEmptiesSlot
  <1>2. ASSUME NEW t \in Tabs, FetchFails(t) \/ \E p \in Pages : StartFill(t, p)
        PROVE  LockEmptiesSlot'
    BY <1>2 DEF FetchFails, StartFill, bridge, LockEmptiesSlot
  <1>3. CASE ProbeStatus
    BY <1>0, <1>3
    DEF ProbeStatus, RequireUnlocked, KeepBridge, ClearReleaseMaterial, bridge, LockEmptiesSlot
  <1>4. CASE (\E w \in Imports : StartImport(w)) \/ SaveImport
    BY <1>0, <1>4 DEF StartImport, SaveImport, bridge, LockEmptiesSlot
  <1>5. CASE UnlockImport
    BY <1>5 DEF UnlockImport, UnlockedSession, IsLocked, LockEmptiesSlot
  <1>6. CASE \E a \in Approval \cup {None} : RunPosted(a)
    BY <1>6 DEF RunPosted, bridge, LockEmptiesSlot
  <1>7. CASE DeadlinePasses
    BY <1>7 DEF DeadlinePasses, Overdue, Session, TypeInv, TypeOK, IsLocked, LockEmptiesSlot
  <1>8. CASE \E r \in {"lostDevice", "revoked"} : MarkAttention(r)
    BY <1>8 DEF MarkAttention, AttentionSession, IsLocked, LockEmptiesSlot
  <1>9. CASE Restart
    BY <1>9 DEF Restart, LockEmptiesSlot
  <1> QED
    BY <1>1, <1>2, <1>3, <1>4, <1>5, <1>6, <1>7, <1>8, <1>9, HandleLock, MainLock DEF Next

(* Once lock() has returned nothing can be approved or claimed until the   *)
(* vault is unlocked again, whatever handlers were running                 *)
(* (CompanionViewModel.lock and CompanionBridgeService.requestRelease).    *)
THEOREM LockAlwaysEmptiesSlot == Spec => []LockEmptiesSlot
  <1>1. Init => LockEmptiesSlot
    BY DEF Init, LockEmptiesSlot
  <1> QED
    BY <1>1, LockStep, TypeInvariant, PTL DEF Spec

-----------------------------------------------------------------------------
(* What a tab is handed. *)

(* Whatever a step hands to a tab comes from the unlocked vault. *)
LEMMA FilledStep ==
    ASSUME TypeInv, [Next]_vars, NEW t \in Tabs,
           tabs'[t].filled # tabs[t].filled, tabs'[t].filled # None
    PROVE  /\ IsUnlocked(session)
           /\ tabs'[t].filled \in session.credentials
           /\ tabs'[t].filled.origin = Normalized[tabs[t].page]
  <1>1. \E u \in Tabs : LookupRelease(u) \/ LookupClaim(u) \/ \E p \in Pages : StartFill(u, p)
    BY StepKinds DEF vars, QuietStep, FilledKept, LookupApprove
  <1>2. PICK u \in Tabs : LookupRelease(u) \/ LookupClaim(u) \/ \E p \in Pages : StartFill(u, p)
    BY <1>1
  <1>3. ~LookupRelease(u)
    BY TabAtKeepsFilled DEF LookupRelease, EndFill, FilledKept
  <1>4. ~\E p \in Pages : StartFill(u, p)
    BY DEF StartFill, IdleTab, TypeInv, TypeOK
  <1>5. /\ ClaimMatches(u)
        /\ tabs' = [tabs EXCEPT ![u].pc = "idle", ![u].filled = approvedCredential]
    <2>1. CASE EndFill(u)
      BY <2>1, TabAtKeepsFilled DEF EndFill, FilledKept
    <2>2. CASE tabs' = [tabs EXCEPT ![u].pc = "claim", ![u].claims = @ + 1]
      BY <2>2 DEF TypeInv, TypeOK, TabState
    <2> QED
      BY <1>2, <1>3, <1>4, <2>1, <2>2 DEF LookupClaim
  <1>6. u = t /\ tabs'[t].filled = approvedCredential
    BY <1>5 DEF TypeInv, TypeOK, TabState
  <1>7. /\ approvedCredential # None
        /\ Lookup(Settled(session), tabs[t].id, tabs[t].page) = approvedCredential
    BY <1>5, <1>6 DEF ClaimMatches
  <1>8. /\ IsUnlocked(Settled(session))
        /\ approvedCredential \in Settled(session).credentials
        /\ approvedCredential.origin = Normalized[tabs[t].page]
    BY <1>7, LookupFacts, SettledFacts DEF TypeInv, TypeOK
  <1> QED
    BY <1>6, <1>8, SettledFacts DEF TypeInv, TypeOK

(* Whatever was approved before, a tab is only handed a credential that    *)
(* the unlocked vault still holds, unchanged, for the tab's own origin     *)
(* (the second lookup of consumeApprovedRelease).                          *)
THEOREM FillsComeFromOpenVault == Spec => FilledFromOpenVault
  <1>1. TypeInv /\ [Next]_vars =>
          [\A t \in Tabs :
            tabs'[t].filled # tabs[t].filled /\ tabs'[t].filled # None =>
                /\ IsUnlocked(session)
                /\ tabs'[t].filled \in session.credentials
                /\ tabs'[t].filled.origin = Normalized[tabs[t].page]]_vars
    BY FilledStep
  <1> QED
    BY <1>1, TypeInvariant, PTL DEF Spec, FilledFromOpenVault

-----------------------------------------------------------------------------
(* The implementation of the abstract protocol. *)

held == [t \in Tabs |-> tabs[t].filled]

(* Tabs that keep what they were handed hold the same in the protocol. *)
LEMMA FilledKeptHeld ==
    ASSUME FilledKept
    PROVE  held' = held
    BY DEF FilledKept, held

(* Initial states map to initial states. *)
LEMMA ProtocolInit == Init => Protocol!Init
    BY DEF Init, IdleTab, Protocol!Init

(* A new request is an Ask, or nothing if the vault has no such entry.     *)
LEMMA ProtocolAsk ==
    ASSUME TypeInv, NEW t \in Tabs, LookupRelease(t)
    PROVE  [Protocol!Next]_Protocol!vars
  <1> DEFINE c == Lookup(Settled(session), tabs[t].id, tabs[t].page)
  <1>1. held' = held
    BY TabAtKeepsFilled, FilledKeptHeld DEF LookupRelease, EndFill
  <1>2. CASE c = None
    BY <1>1, <1>2 DEF LookupRelease, KeepBridge, bridge, held, Protocol!vars
  <1>3. CASE c # None
    <2>1. c \in Credential
      BY <1>3, LookupFacts, SettledFacts DEF TypeInv, TypeOK
    <2>2. Protocol!Ask(c)
      BY <1>1, <1>3 DEF LookupRelease, held, Protocol!Ask
    <2> QED
      BY <2>1, <2>2 DEF Protocol!Next
  <1> QED
    BY <1>2, <1>3

(* A claim hands the grant over, loses it, or leaves it alone.             *)
LEMMA ProtocolClaim ==
    ASSUME TypeInv, NEW t \in Tabs, LookupClaim(t)
    PROVE  [Protocol!Next]_Protocol!vars
  <1>1. CASE ~ClaimMatches(t)
    <2>1. FilledKept
      <3>1. CASE EndFill(t)
        BY <3>1, TabAtKeepsFilled DEF EndFill
      <3>2. CASE tabs' = [tabs EXCEPT ![t].pc = "claim", ![t].claims = @ + 1]
        BY <3>2 DEF TypeInv, TypeOK, TabState, FilledKept
      <3> QED
        BY <1>1, <3>1, <3>2 DEF LookupClaim
    <2> QED
      BY <1>1, <2>1, FilledKeptHeld DEF LookupClaim, KeepBridge, bridge, held, Protocol!vars
  <1>2. CASE ClaimMatches(t) /\ EndFill(t)
    <2>1. held' = held
      BY <1>2, TabAtKeepsFilled, FilledKeptHeld DEF EndFill
    <2>2. Protocol!LoseClaim
      BY <1>2, <2>1 DEF LookupClaim, held, Protocol!LoseClaim
    <2> QED
      BY <2>2 DEF Protocol!Next
  <1>3. CASE /\ ClaimMatches(t)
             /\ tabs' = [tabs EXCEPT ![t].pc = "idle", ![t].filled = approvedCredential]
    <2>1. held' = [held EXCEPT ![t] = approvedCredential]
      BY <1>3 DEF TypeInv, TypeOK, TabState, held
    <2>2. approvedCredential # None /\ approvedCredential' = None /\ UNCHANGED pendingCredential
      BY <1>3 DEF LookupClaim, ClaimMatches
    <2>3. Protocol!HandOver(t)
      BY <2>1, <2>2 DEF held, Protocol!HandOver
    <2> QED
      BY <2>3 DEF Protocol!Next
  <1> QED
    BY <1>1, <1>2, <1>3 DEF LookupClaim

(* Approving grants the intent that stands; an intent the vault no longer  *)
(* confirms is withdrawn.                                                  *)
LEMMA ProtocolApprove ==
    ASSUME LookupApprove
    PROVE  [Protocol!Next]_Protocol!vars
  <1>1. held' = held
    BY FilledKeptHeld DEF LookupApprove, FilledKept
  <1>2. CASE pendingCredential # None /\ approvedCredential' = pendingCredential /\ pendingCredential' = None
    <2>1. Protocol!Approve
      BY <1>1, <1>2 DEF held, Protocol!Approve
    <2> QED
      BY <2>1 DEF Protocol!Next
  <1>3. CASE pendingCredential' = None /\ approvedCredential' = None
    <2>1. Protocol!Withdraw
      BY <1>1, <1>3 DEF held, Protocol!Withdraw
    <2> QED
      BY <2>1 DEF Protocol!Next
  <1> QED
    BY <1>2, <1>3 DEF LookupApprove, ClearReleaseMaterial

(* Every step of the release is a step of the protocol or a stutter. *)
LEMMA ProtocolStep ==
    ASSUME TypeInv, [Next]_vars
    PROVE  [Protocol!Next]_Protocol!vars
  <1>1. CASE UNCHANGED vars
    BY <1>1 DEF vars, bridge, Protocol!vars
  <1>2. CASE QuietStep
    <2>1. held' = held
      BY <1>2, FilledKeptHeld DEF QuietStep
    <2>2. CASE UNCHANGED bridge
      BY <2>1, <2>2 DEF bridge, held, Protocol!vars
    <2>3. CASE SlotEmptied
      <3>1. Protocol!Withdraw
        BY <2>1, <2>3 DEF SlotEmptied, held, Protocol!Withdraw
      <3> QED
        BY <3>1 DEF Protocol!Next
    <2> QED
      BY <1>2, <2>2, <2>3 DEF QuietStep
  <1>3. ASSUME NEW t \in Tabs, NEW p \in Pages, StartFill(t, p)
        PROVE  [Protocol!Next]_Protocol!vars
    <2>1. held' = [held EXCEPT ![t] = None]
      BY <1>3 DEF StartFill, IdleTab, TypeInv, TypeOK, held
    <2>2. Protocol!Forget(t)
      BY <1>3, <2>1 DEF StartFill, bridge, held, Protocol!Forget
    <2> QED
      BY <2>2 DEF Protocol!Next
  <1> QED
    BY <1>1, <1>2, <1>3, StepKinds, ProtocolAsk, ProtocolClaim, ProtocolApprove

(* Threads, locks and lost answers included, the companion and the         *)
(* extension implement the fill protocol: each approval hands over at most *)
(* one credential, the one last asked for and then approved.               *)
THEOREM ReleaseImplementsProtocol == Spec => ImplementsFillProtocol
  <1>1. Init => Protocol!Init
    BY ProtocolInit
  <1>2. TypeInv /\ [Next]_vars => [Protocol!Next]_Protocol!vars
    BY ProtocolStep
  <1> QED
    BY <1>1, <1>2, TypeInvariant, PTL DEF Spec, ImplementsFillProtocol, Protocol!Spec
-----------------------------------------------------------------------------
(* A request cannot go on for ever.                                        *)

(* How far a tab's request is from its end: two steps for every poll that  *)
(* is left, and what comes before the first one.                           *)
Remaining(u) ==
    LET polls == 2 * (MaxClaims - u.claims)
    IN  CASE u.pc = "idle" -> 0
          [] u.pc = "claimLookup" -> polls
          [] u.pc = "claim" -> polls + 1
          [] u.pc = "releaseLookup" -> polls + 2
          [] u.pc \in {"release", "metadataCheck"} -> polls + 3
          [] u.pc = "metadata" -> polls + 4

(* Every step of the companion or of the extension that moves a request    *)
(* brings it nearer its end, whatever the answer is: the polls of          *)
(* fillActivePageFromMacCompanion are counted, and an approval that is     *)
(* claimed, refused or gone ends them.  A request therefore makes at most  *)
(* 2 * MaxClaims + 4 steps.                                                *)
RequestsAdvance ==
    [][\A t \in Tabs :
        tabs[t].pc # "idle" /\ tabs'[t] # tabs[t] =>
            /\ Remaining(tabs[t]) \in 1 .. 2 * MaxClaims + 4
            /\ Remaining(tabs'[t]) \in 0 .. Remaining(tabs[t]) - 1]_vars

(* Remaining is positive exactly while a request is on its way. *)
LEMMA RemainingFacts ==
    ASSUME NEW u \in TabState
    PROVE  /\ u.pc = "idle" => Remaining(u) = 0
           /\ u.pc # "idle" => Remaining(u) \in 1 .. 2 * MaxClaims + 4
  <1>1. u.claims \in 0 .. MaxClaims - 1 /\ u.pc \in TabPcs
    BY DEF TabState
  <1>2. 2 * (MaxClaims - u.claims) \in 2 .. 2 * MaxClaims
    BY <1>1, ReleaseAssumption
  <1>3. MaxClaims \in Nat
    BY ReleaseAssumption
  <1> QED
    BY <1>1, <1>2, <1>3 DEF Remaining, TabPcs, HoldingPcs

(* A tab that moves on with its count of polls untouched, to a later point *)
(* of the request, comes nearer its end.                                   *)
LEMMA MovesOn ==
    ASSUME TypeInv, TypeInv', NEW t \in Tabs, tabs'[t].claims = tabs[t].claims,
           \/ tabs[t].pc = "metadata" /\ tabs'[t].pc \in {"metadataCheck", "release"}
           \/ tabs[t].pc = "release" /\ tabs'[t].pc = "releaseLookup"
           \/ tabs[t].pc = "releaseLookup" /\ tabs'[t].pc = "claim"
           \/ tabs[t].pc = "claim" /\ tabs'[t].pc = "claimLookup"
    PROVE  Remaining(tabs'[t]) < Remaining(tabs[t])
  <1>1. tabs[t].claims \in Int /\ MaxClaims \in Int
    BY ReleaseAssumption DEF TypeInv, TypeOK, TabState
  <1> DEFINE polls == 2 * (MaxClaims - tabs[t].claims)
  <1>2. polls \in Int /\ polls = 2 * (MaxClaims - tabs'[t].claims)
    BY <1>1
  <1> HIDE DEF polls
  <1>3. Remaining(tabs[t]) = CASE tabs[t].pc = "idle" -> 0
                               [] tabs[t].pc = "claimLookup" -> polls
                               [] tabs[t].pc = "claim" -> polls + 1
                               [] tabs[t].pc = "releaseLookup" -> polls + 2
                               [] tabs[t].pc \in {"release", "metadataCheck"} -> polls + 3
                               [] tabs[t].pc = "metadata" -> polls + 4
    BY DEF Remaining, polls
  <1>4. Remaining(tabs'[t]) = CASE tabs'[t].pc = "idle" -> 0
                                [] tabs'[t].pc = "claimLookup" -> polls
                                [] tabs'[t].pc = "claim" -> polls + 1
                                [] tabs'[t].pc = "releaseLookup" -> polls + 2
                                [] tabs'[t].pc \in {"release", "metadataCheck"} -> polls + 3
                                [] tabs'[t].pc = "metadata" -> polls + 4
    BY <1>2 DEF Remaining
  <1> QED
    BY <1>2, <1>3, <1>4

(* A handler's step ends the request it serves or brings it nearer its end. *)
LEMMA HandleAdvances ==
    ASSUME TypeInv, TypeInv', NEW t \in Tabs, Handle(t)
    PROVE  tabs'[t].pc = "idle" \/ Remaining(tabs'[t]) < Remaining(tabs[t])
  <1>1. ASSUME NEW pc, TabAt(t, pc)
        PROVE  tabs'[t].pc = pc /\ tabs'[t].claims = tabs[t].claims
    BY <1>1 DEF TabAt, TypeInv, TypeOK, TabState
  <1>2. EndFill(t) => tabs'[t].pc = "idle"
    BY <1>1 DEF EndFill
  <1>3. CASE ReadMetadata(t)
    <2>1. ASSUME NEW c, tabs' = [tabs EXCEPT ![t].pc = "release", ![t].id = c.id]
          PROVE  tabs'[t].pc = "release" /\ tabs'[t].claims = tabs[t].claims
      BY <2>1 DEF TypeInv, TypeOK, TabState
    <2> QED
      BY <1>1, <1>2, <1>3, <2>1, MovesOn DEF ReadMetadata
  <1>4. CASE CheckMetadata(t)
    BY <1>2, <1>4 DEF CheckMetadata
  <1>5. CASE CheckRelease(t)
    BY <1>1, <1>2, <1>5, MovesOn DEF CheckRelease
  <1>6. CASE LookupRelease(t)
    BY <1>1, <1>2, <1>6, MovesOn DEF LookupRelease
  <1>7. CASE CheckClaim(t)
    BY <1>1, <1>2, <1>7, MovesOn DEF CheckClaim
  <1>8. CASE LookupClaim(t)
    <2>1. tabs' = [tabs EXCEPT ![t].pc = "idle", ![t].filled = approvedCredential]
            => tabs'[t].pc = "idle"
      BY DEF TypeInv, TypeOK, TabState
    <2>2. CASE tabs' = [tabs EXCEPT ![t].pc = "claim", ![t].claims = @ + 1]
      <3>1. tabs'[t].pc = "claim" /\ tabs'[t].claims = tabs[t].claims + 1
        BY <2>2 DEF TypeInv, TypeOK, TabState
      <3>2. tabs[t].pc = "claimLookup"
        BY <1>8 DEF LookupClaim
      <3>3. tabs[t].claims \in Int /\ MaxClaims \in Int
        BY ReleaseAssumption DEF TypeInv, TypeOK, TabState
      <3>4. Remaining(tabs[t]) = 2 * (MaxClaims - tabs[t].claims)
        BY <3>2 DEF Remaining
      <3>5. Remaining(tabs'[t]) = 2 * (MaxClaims - (tabs[t].claims + 1)) + 1
        BY <3>1 DEF Remaining
      <3> QED
        BY <3>3, <3>4, <3>5
    <2> QED
      BY <1>2, <1>8, <2>1, <2>2 DEF LookupClaim
  <1> QED
    BY <1>3, <1>4, <1>5, <1>6, <1>7, <1>8 DEF Handle

(* A handler's step moves the tab it serves only. *)
LEMMA HandleKeepsOthers ==
    ASSUME TypeInv, NEW s \in Tabs, NEW t \in Tabs, t # s, Handle(s)
    PROVE  tabs'[t] = tabs[t]
  <1>1. ASSUME NEW pc, TabAt(s, pc)
        PROVE  tabs'[t] = tabs[t]
    BY <1>1 DEF TabAt, TypeInv, TypeOK
  <1>2. CASE ReadMetadata(s)
    BY <1>1, <1>2 DEF ReadMetadata, EndFill, TypeInv, TypeOK
  <1>3. CASE LookupClaim(s)
    BY <1>1, <1>3 DEF LookupClaim, EndFill, TypeInv, TypeOK
  <1>4. CASE CheckMetadata(s) \/ CheckRelease(s) \/ LookupRelease(s) \/ CheckClaim(s)
    BY <1>1, <1>4
    DEF CheckMetadata, CheckRelease, LookupRelease, CheckClaim, EndFill
  <1> QED
    BY <1>2, <1>3, <1>4 DEF Handle

(* Whoever takes the step, a request that it moves ends or comes nearer    *)
(* its end.                                                                *)
LEMMA StepAdvances ==
    ASSUME TypeInv, TypeInv', [Next]_vars, NEW t \in Tabs,
           tabs[t].pc # "idle", tabs'[t] # tabs[t]
    PROVE  tabs'[t].pc = "idle" \/ Remaining(tabs'[t]) < Remaining(tabs[t])
  <1>1. tabs' # tabs
    OBVIOUS
  <1>2. ASSUME NEW s \in Tabs, NEW u, tabs' = [tabs EXCEPT ![s] = u]
        PROVE  s = t
    BY <1>2 DEF TypeInv, TypeOK
  <1>3. ASSUME NEW s \in Tabs, Handle(s)
        PROVE  s = t
    BY <1>3, HandleKeepsOthers
  <1>4. ASSUME NEW s \in Tabs, FetchFails(s)
        PROVE  tabs'[t].pc = "idle"
    BY <1>4 DEF FetchFails, EndFill, TabAt, TypeInv, TypeOK, TabState
  <1>5. ASSUME NEW s \in Tabs, NEW p \in Pages, StartFill(s, p)
        PROVE  FALSE
    BY <1>2, <1>5 DEF StartFill
  <1>6. CASE Restart
    BY <1>6 DEF Restart, TypeInv, TypeOK, TabState
  <1>7. CASE \/ ProbeStatus \/ SaveImport \/ UnlockImport \/ MainContinues \/ UserActs
             \/ \E w \in Imports : StartImport(w)
             \/ \E a \in Approval \cup {None} : RunPosted(a)
             \/ DeadlinePasses
             \/ \E r \in {"lostDevice", "revoked"} : MarkAttention(r)
    BY <1>1, <1>7
    DEF ProbeStatus, SaveImport, UnlockImport, MainContinues, UserActs, StartImport,
        RunPosted, DeadlinePasses, MarkAttention, LookupApprove, ClearPendingApproval,
        Refresh, ClickApprove, ClickDeny, Lock, Unlock, ReplaceVault, AddLogin
  <1> QED
    BY <1>1, <1>3, <1>4, <1>5, <1>6, <1>7, HandleAdvances DEF Next, vars

(* A fill request cannot go on for ever by moving: it makes at most        *)
(* 2 * MaxClaims + 4 steps, so one that does not end has a step that is    *)
(* never taken.  That every step is taken in the end is what Fairness adds *)
(* to this for FillEnds.                                                   *)
THEOREM RequestsAlwaysAdvance == Spec => RequestsAdvance
  <1> DEFINE A == \A t \in Tabs :
                    tabs[t].pc # "idle" /\ tabs'[t] # tabs[t] =>
                        /\ Remaining(tabs[t]) \in 1 .. 2 * MaxClaims + 4
                        /\ Remaining(tabs'[t]) \in 0 .. Remaining(tabs[t]) - 1
  <1>1. TypeInv /\ TypeInv' /\ [Next]_vars => A
    <2> SUFFICES ASSUME TypeInv, TypeInv', [Next]_vars, NEW t \in Tabs,
                        tabs[t].pc # "idle", tabs'[t] # tabs[t]
                 PROVE  /\ Remaining(tabs[t]) \in 1 .. 2 * MaxClaims + 4
                        /\ Remaining(tabs'[t]) \in 0 .. Remaining(tabs[t]) - 1
      OBVIOUS
    <2>1. tabs[t] \in TabState /\ tabs'[t] \in TabState
      BY DEF TypeInv, TypeOK
    <2>2. Remaining(tabs[t]) \in 1 .. 2 * MaxClaims + 4
      BY <2>1, RemainingFacts
    <2>3. Remaining(tabs'[t]) \in Nat
      BY <2>1, RemainingFacts, ReleaseAssumption
    <2>4. tabs'[t].pc = "idle" => Remaining(tabs'[t]) = 0
      BY <2>1, RemainingFacts
    <2>5. Remaining(tabs'[t]) < Remaining(tabs[t])
      BY <2>2, <2>4, StepAdvances, ReleaseAssumption
    <2> QED
      BY <2>2, <2>3, <2>5, ReleaseAssumption
  <1> QED
    BY <1>1, TypeInvariant, PTL DEF Spec, RequestsAdvance

-----------------------------------------------------------------------------
(* A method of the bridge is not disturbed.                                *)

(* A thread in the middle of a bridge method is the only one in any. *)
OneHolder ==
    /\ \A s, t \in Tabs : tabs[s].pc \in HoldingPcs /\ tabs[t].pc \in HoldingPcs => s = t
    /\ \A t \in Tabs : tabs[t].pc \in HoldingPcs => main.pc # "approve"

(* CompanionBridgeService gives the session's lock back between the two    *)
(* calls of a method, but keeps stateLock: whatever locks, expires, edits  *)
(* or imports in between, the release slot that a metadata, release or     *)
(* claim handler or approvePendingRelease reads after the second call is   *)
(* the one it found at the first, as only its own step may change it.      *)
MethodsAreAtomic ==
    [][/\ \A t \in Tabs : tabs[t].pc \in HoldingPcs /\ tabs'[t] = tabs[t] => UNCHANGED bridge
       /\ main.pc = "approve" /\ main' = main => UNCHANGED bridge]_vars

(* Every step leaves at most one thread in the middle of a bridge method. *)
LEMMA OneHolderStep == TypeInv /\ OneHolder /\ [Next]_vars => OneHolder'
  <1> SUFFICES ASSUME TypeInv, OneHolder, [Next]_vars
               PROVE  OneHolder'
    OBVIOUS
  <1>1. ASSUME NEW s \in Tabs, main' = main,
               \A t \in Tabs : t # s => tabs'[t] = tabs[t],
               tabs'[s].pc \notin HoldingPcs \/ BridgeFree
        PROVE  OneHolder'
    BY <1>1 DEF OneHolder, BridgeFree
  <1>2. ASSUME NEW s \in Tabs, Handle(s)
        PROVE  OneHolder'
    <2>1. \A t \in Tabs : t # s => tabs'[t] = tabs[t]
      BY <1>2, HandleKeepsOthers
    <2>2. ASSUME NEW pc, TabAt(s, pc)
          PROVE  tabs'[s].pc = pc
      BY <2>2 DEF TabAt, TypeInv, TypeOK, TabState
    <2>3. CASE ReadMetadata(s) \/ CheckRelease(s) \/ CheckClaim(s)
      <3>1. BridgeFree /\ main' = main
        BY <2>3 DEF ReadMetadata, CheckRelease, CheckClaim
      <3> QED
        BY <1>1, <2>1, <3>1
    <2>4. CASE CheckMetadata(s) \/ LookupRelease(s)
      <3>1. tabs'[s].pc \in {"idle", "claim"} /\ main' = main
        BY <2>2, <2>4 DEF CheckMetadata, LookupRelease, EndFill
      <3> QED
        BY <1>1, <2>1, <3>1 DEF HoldingPcs
    <2>5. CASE LookupClaim(s)
      <3>1. tabs'[s].pc \in {"idle", "claim"} /\ main' = main
        BY <2>2, <2>5 DEF LookupClaim, EndFill, TypeInv, TypeOK, TabState
      <3> QED
        BY <1>1, <2>1, <3>1 DEF HoldingPcs
    <2> QED
      BY <1>2, <2>3, <2>4, <2>5 DEF Handle
  <1>3. ASSUME NEW s \in Tabs, FetchFails(s) \/ \E p \in Pages : StartFill(s, p)
        PROVE  OneHolder'
    <2>1. /\ \A t \in Tabs : t # s => tabs'[t] = tabs[t]
          /\ tabs'[s].pc \in {"idle", "metadata"}
          /\ main' = main
      <3>1. CASE FetchFails(s)
        BY <3>1 DEF FetchFails, EndFill, TabAt, TypeInv, TypeOK, TabState
      <3>2. ASSUME NEW p \in Pages, StartFill(s, p)
            PROVE  /\ \A t \in Tabs : t # s => tabs'[t] = tabs[t]
                   /\ tabs'[s].pc = "metadata"
                   /\ main' = main
        BY <3>2 DEF StartFill, IdleTab, TypeInv, TypeOK
      <3> QED
        BY <1>3, <3>1, <3>2
    <2> QED
      BY <1>1, <2>1 DEF HoldingPcs
  <1>4. CASE Restart
    <2>1. \A t \in Tabs : tabs'[t].pc = "idle"
      BY <1>4 DEF Restart, TypeInv, TypeOK, TabState
    <2> QED
      BY <2>1 DEF OneHolder, HoldingPcs
  <1>5. CASE ClickApprove
    BY <1>5 DEF ClickApprove, BridgeFree, OneHolder
  <1>6. ASSUME tabs' = tabs, main' = main \/ main'.pc # "approve"
        PROVE  OneHolder'
    BY <1>6 DEF OneHolder
  <1>7. CASE \/ LookupApprove \/ ClearPendingApproval \/ Refresh \/ ClickDeny \/ Lock \/ Unlock
             \/ \E v \in Vaults : ReplaceVault(v)
             \/ \E c \in Pool : AddLogin(c)
    BY <1>6, <1>7
    DEF LookupApprove, ClearPendingApproval, Refresh, ClickDeny, Lock, Unlock, ReplaceVault,
        AddLogin, MainAt, IdleMain
  <1>8. CASE \/ ProbeStatus \/ SaveImport \/ UnlockImport
             \/ \E w \in Imports : StartImport(w)
             \/ \E a \in Approval \cup {None} : RunPosted(a)
             \/ DeadlinePasses
             \/ \E r \in {"lostDevice", "revoked"} : MarkAttention(r)
             \/ UNCHANGED vars
    BY <1>6, <1>8
    DEF ProbeStatus, SaveImport, UnlockImport, StartImport, RunPosted, DeadlinePasses,
        MarkAttention, vars
  <1> QED
    BY <1>2, <1>3, <1>4, <1>5, <1>7, <1>8 DEF Next, MainContinues, UserActs

(* While a bridge method is under way, only its own second call, or the    *)
(* end of the process, changes the slot.                                   *)
LEMMA OnlyHolderWrites ==
    ASSUME TypeInv, [Next]_vars, ~BridgeFree
    PROVE  \/ UNCHANGED bridge
           \/ LookupApprove
           \/ Restart
           \/ \E s \in Tabs : tabs[s].pc \in HoldingPcs /\ Handle(s)
  <1>1. ASSUME NEW s \in Tabs, Handle(s)
        PROVE  tabs[s].pc \in HoldingPcs
    BY <1>1
    DEF Handle, ReadMetadata, CheckMetadata, CheckRelease, LookupRelease, CheckClaim,
        LookupClaim, HoldingPcs
  <1>2. CASE \E s \in Tabs : FetchFails(s) \/ \E p \in Pages : StartFill(s, p)
    BY <1>2 DEF FetchFails, StartFill
  <1>3. CASE ProbeStatus \/ ClearPendingApproval \/ Refresh \/ ClickApprove \/ ClickDeny
    BY <1>3 DEF ProbeStatus, ClearPendingApproval, Refresh, ClickApprove, ClickDeny
  <1>4. CASE \/ Lock \/ Unlock
             \/ \E v \in Vaults : ReplaceVault(v)
             \/ \E c \in Pool : AddLogin(c)
             \/ \E w \in Imports : StartImport(w)
             \/ SaveImport \/ UnlockImport
    BY <1>4 DEF Lock, Unlock, ReplaceVault, AddLogin, StartImport, SaveImport, UnlockImport
  <1>5. CASE \/ \E a \in Approval \cup {None} : RunPosted(a)
             \/ DeadlinePasses
             \/ \E r \in {"lostDevice", "revoked"} : MarkAttention(r)
             \/ UNCHANGED vars
    BY <1>5 DEF RunPosted, DeadlinePasses, MarkAttention, vars
  <1> QED
    BY <1>1, <1>2, <1>3, <1>4, <1>5 DEF Next, MainContinues, UserActs

(* A handler's second call moves its tab. *)
LEMMA HolderMoves ==
    ASSUME TypeInv, NEW s \in Tabs, tabs[s].pc \in HoldingPcs, Handle(s)
    PROVE  tabs'[s] # tabs[s] /\ main' = main
  <1>1. ASSUME NEW pc, TabAt(s, pc)
        PROVE  tabs'[s].pc = pc
    BY <1>1 DEF TabAt, TypeInv, TypeOK, TabState
  <1>2. CASE CheckMetadata(s) \/ LookupRelease(s)
    BY <1>1, <1>2 DEF CheckMetadata, LookupRelease, EndFill
  <1>3. CASE LookupClaim(s)
    BY <1>1, <1>3 DEF LookupClaim, EndFill, TypeInv, TypeOK, TabState
  <1> QED
    BY <1>2, <1>3 DEF Handle, ReadMetadata, CheckRelease, CheckClaim, HoldingPcs

(* What a step leaves alone while a bridge method is under way. *)
Undisturbed ==
    /\ \A t \in Tabs : tabs[t].pc \in HoldingPcs /\ tabs'[t] = tabs[t] => UNCHANGED bridge
    /\ main.pc = "approve" /\ main' = main => UNCHANGED bridge

(* Every step leaves the slot to the one method under way. *)
LEMMA MethodStep == TypeInv /\ OneHolder /\ [Next]_vars => Undisturbed
  <1> SUFFICES ASSUME TypeInv, OneHolder, [Next]_vars
               PROVE  Undisturbed
    OBVIOUS
  <1>1. LookupApprove => main.pc = "approve" /\ main' # main
    BY DEF LookupApprove, MainAt, IdleMain
  <1>2. Restart => main'.pc = "idle" /\ \A t \in Tabs : tabs'[t].pc = "idle"
    BY DEF Restart, IdleMain, TypeInv, TypeOK, TabState
  <1>3. ASSUME NEW t \in Tabs, tabs[t].pc \in HoldingPcs, tabs'[t] = tabs[t]
        PROVE  UNCHANGED bridge
    <2>1. ~BridgeFree /\ tabs'[t].pc # "idle"
      BY <1>3 DEF BridgeFree, HoldingPcs
    <2>2. ASSUME NEW s \in Tabs, tabs[s].pc \in HoldingPcs, Handle(s)
          PROVE  FALSE
      BY <1>3, <2>2, HolderMoves DEF OneHolder
    <2> QED
      BY <1>1, <1>2, <1>3, <2>1, <2>2, OnlyHolderWrites DEF OneHolder
  <1>4. ASSUME main.pc = "approve", main' = main
        PROVE  UNCHANGED bridge
    <2>1. ~BridgeFree /\ main'.pc # "idle"
      BY <1>4 DEF BridgeFree
    <2>2. ASSUME NEW s \in Tabs, tabs[s].pc \in HoldingPcs
          PROVE  FALSE
      BY <1>4, <2>2 DEF OneHolder
    <2> QED
      BY <1>1, <1>2, <1>4, <2>1, <2>2, OnlyHolderWrites
  <1> QED
    BY <1>3, <1>4 DEF Undisturbed

(* The slot that a bridge method reads after its second call of the        *)
(* session is the one it found at the first.                               *)
THEOREM MethodsAlwaysAtomic == Spec => MethodsAreAtomic
  <1>1. Init => OneHolder
    BY DEF Init, OneHolder, IdleMain, IdleTab, HoldingPcs
  <1>2. TypeInv /\ OneHolder /\ [Next]_vars => Undisturbed
    BY MethodStep
  <1> QED
    BY <1>1, <1>2, OneHolderStep, TypeInvariant, PTL DEF Spec, MethodsAreAtomic, Undisturbed

-----------------------------------------------------------------------------
(* Nothing is approved unseen.                                             *)

(* Between the click and the second call of the session, the request on    *)
(* offer keeps the id that was compared with the one on the screen.        *)
ApprovingShown ==
    main.pc = "approve" =>
        /\ main.request # None
        /\ pendingApproval # None
        /\ pendingApproval.id = main.request.id

(* Only the click of the user starts an approval. *)
LEMMA ApprovalStarts ==
    ASSUME [Next]_vars, main' # main, main'.pc = "approve"
    PROVE  ClickApprove
  <1>1. CASE \E t \in Tabs : Handle(t) \/ FetchFails(t) \/ \E p \in Pages : StartFill(t, p)
    BY <1>1
    DEF Handle, ReadMetadata, CheckMetadata, CheckRelease, LookupRelease, CheckClaim,
        LookupClaim, FetchFails, StartFill
  <1>2. CASE \/ LookupApprove \/ ClearPendingApproval \/ Refresh \/ ClickDeny \/ Lock \/ Unlock
             \/ \E v \in Vaults : ReplaceVault(v)
             \/ \E c \in Pool : AddLogin(c)
             \/ Restart
    BY <1>2
    DEF LookupApprove, ClearPendingApproval, Refresh, ClickDeny, Lock, Unlock, ReplaceVault,
        AddLogin, Restart, MainAt, IdleMain
  <1>3. CASE \/ ProbeStatus \/ SaveImport \/ UnlockImport
             \/ \E w \in Imports : StartImport(w)
             \/ \E a \in Approval \cup {None} : RunPosted(a)
             \/ DeadlinePasses
             \/ \E r \in {"lostDevice", "revoked"} : MarkAttention(r)
             \/ UNCHANGED vars
    BY <1>3
    DEF ProbeStatus, SaveImport, UnlockImport, StartImport, RunPosted, DeadlinePasses,
        MarkAttention, vars
  <1> QED
    BY <1>1, <1>2, <1>3 DEF Next, MainContinues, UserActs

(* Every step keeps it: the click compares the ids, and until the second   *)
(* call no other method of the bridge runs.                                *)
LEMMA ApprovingStep ==
    TypeInv /\ OneHolder /\ ApprovingShown /\ [Next]_vars => ApprovingShown'
  <1> SUFFICES ASSUME TypeInv, OneHolder, ApprovingShown, [Next]_vars, main'.pc = "approve"
               PROVE  /\ main'.request # None
                      /\ pendingApproval' # None
                      /\ pendingApproval'.id = main'.request.id
    BY DEF ApprovingShown
  <1>1. CASE main' = main
    BY <1>1, MethodStep DEF ApprovingShown, bridge, Undisturbed
  <1>2. CASE main' # main
    <2>1. ClickApprove
      BY <1>2, ApprovalStarts
    <2>2. ShownIsPending /\ view # None /\ main'.request = view /\ KeepBridge
      BY <2>1 DEF ClickApprove, MainAt, IdleMain, RequireUnlocked
    <2> QED
      BY <2>2 DEF ShownIsPending, KeepBridge, bridge
  <1> QED
    BY <1>1, <1>2

(* What takes effect as an approval answers to the request that was on the *)
(* screen at the click and is a login the vault holds at that moment.      *)
THEOREM ApprovedAlwaysShown == Spec => ApprovedWasShown
  <1> DEFINE Shown ==
        approvedCredential' # approvedCredential /\ approvedCredential' # None =>
            /\ main.request # None
            /\ approvedCredential'.id = main.request.id
            /\ approvedCredential' \in Settled(session).credentials
  <1>1. Init => OneHolder /\ ApprovingShown
    BY DEF Init, OneHolder, ApprovingShown, IdleMain, IdleTab, HoldingPcs
  <1>2. TypeInv /\ SlotConsistent /\ ApprovingShown /\ [Next]_vars => Shown
    <2> SUFFICES ASSUME TypeInv, SlotConsistent, ApprovingShown, [Next]_vars,
                        approvedCredential' # approvedCredential, approvedCredential' # None
                 PROVE  /\ main.request # None
                        /\ approvedCredential'.id = main.request.id
                        /\ approvedCredential' \in Settled(session).credentials
      OBVIOUS
    <2>1. LookupApprove
      BY StepKinds
      DEF QuietStep, SlotEmptied, LookupRelease, LookupClaim, StartFill, KeepBridge, bridge, vars
    <2>2. /\ main.pc = "approve"
          /\ approvedCredential' = pendingCredential
          /\ pendingCredential = Lookup(Settled(session), pendingApproval.id, pendingApproval.origin)
      BY <2>1 DEF LookupApprove, ClearReleaseMaterial
    <2>3. approvedCredential' \in Settled(session).credentials
      <3>1. Settled(session) \in Session
        BY SettledFacts DEF TypeInv, TypeOK
      <3> QED
        BY <2>2, <3>1, LookupFacts
    <2>4. approvedCredential'.id = pendingApproval.id
      BY <2>2 DEF SlotConsistent, ApprovalOf
    <2> QED
      BY <2>2, <2>3, <2>4 DEF ApprovingShown
  <1> QED
    BY <1>1, <1>2, OneHolderStep, ApprovingStep, SlotInvariant, TypeInvariant, PTL
    DEF Spec, ApprovedWasShown
=============================================================================
