-------------------------- MODULE VaultSyncProofs --------------------------
(***************************************************************************)
(* Proofs about VaultSync, for any number of pages, other clients,         *)
(* profiles, overlapping requests and items.                               *)
(***************************************************************************)
EXTENDS VaultSync, TLAPS

Checked == {"checked", "saved", "removed", "listed", "answered"}
Saved == {"saved", "removed", "listed", "answered"}
Removed == {"removed", "listed", "answered"}
Listed == {"listed", "answered"}

(* What each call of a request has made sure of, and later steps of any    *)
(* other request leave true.                                               *)
Sound(r) ==
    /\ \A i \in deleted[r] : owner[i] # None
    /\ phase[r] \in Checked =>
           \A i \in changed[r] \cup deleted[r] : owner[i] \in {None, Owner(r)}
    /\ phase[r] \in Saved => \A i \in changed[r] : owner[i] = Owner(r)
    /\ phase[r] \in Removed => deleted[r] \subseteq gone
    /\ phase[r] \in Listed =>
           /\ \A i \in live[r] : owner[i] = Owner(r)
           /\ changed[r] \subseteq live[r] \cup gone
           /\ deleted[r] \cap live[r] = {}
    /\ phase[r] = "answered" =>
           /\ changed[r] \subseteq live[r] \cup dead[r]
           /\ deleted[r] \subseteq dead[r]

(* Two requests name the same item only if it has a row. *)
NewIdsApart ==
    \A r, s \in Requests : \A i \in changed[r] \cap changed[s] :
        r # s => owner[i] # None

Books == (\A r \in Requests : Sound(r)) /\ NewIdsApart /\ ItemsAreOwn

(* What is waiting to be sent is waited for. *)
SealingHeard == \A r \in Requests : phase[r] = "sealing" => r \in heard

-----------------------------------------------------------------------------
(* Types. *)

(* Nothing sent, no page open: every variable has its type. *)
LEMMA TypeInit == Init => TypeOK
  BY DEF Init, TypeOK

(* A request's owner is a profile. *)
LEMMA OwnerType ==
    ASSUME NEW r \in Requests
    PROVE  /\ ClientOf[r] \in Clients
           /\ Owner(r) \in Profiles
           /\ Owner(r) # None
    BY SyncAssumption DEF Owner

(* What a client does with a request before the API has it. *)
ClientStep(r) ==
    \/ OpenPage(r) \/ SendWrite(r)
    \/ \E i \in Items : WriteItem(r, i) \/ deleteItem(r, i)
    \/ \E c, d \in SUBSET Items : Push(r, c, d)

(* How a request ends for the client. *)
EndStep(r) == ReceiveAnswer(r) \/ ReceiveError(r) \/ LoseConnection(r)

(* A step is a page's, a client's, the API's, or the end of a request. *)
LEMMA StepKinds ==
    ASSUME Next
    PROVE  \/ \E t \in Tabs : OpenSignedOut(t) \/ ClosePage(t)
           \/ \E r \in Requests : ClientStep(r) \/ syncVaultFromToken(r) \/ EndStep(r)
  <1>1. CASE \E t \in Tabs : OpenSignedOut(t) \/ ClosePage(t)
    BY <1>1
  <1>2. ASSUME NEW r \in Requests, OpenPage(r) \/ SendWrite(r)
        PROVE  ClientStep(r)
    BY <1>2 DEF ClientStep
  <1>3. ASSUME NEW r \in Requests, NEW i \in Items, WriteItem(r, i) \/ deleteItem(r, i)
        PROVE  ClientStep(r)
    BY <1>3 DEF ClientStep
  <1>4. ASSUME NEW r \in Requests, NEW c \in SUBSET Items, NEW d \in SUBSET Items, Push(r, c, d)
        PROVE  ClientStep(r)
    BY <1>4 DEF ClientStep
  <1>5. ASSUME NEW r \in Requests, ReceiveAnswer(r) \/ ReceiveError(r) \/ LoseConnection(r)
        PROVE  EndStep(r)
    BY <1>5 DEF EndStep
  <1> QED
    BY <1>1, <1>2, <1>3, <1>4, <1>5 DEF Next

(* The client's steps keep the types. *)
LEMMA ClientType ==
    ASSUME TypeOK, NEW r \in Requests, ClientStep(r)
    PROVE  TypeOK'
  <1>1. CASE OpenPage(r)
    BY <1>1 DEF OpenPage, Prepare, rows, TypeOK, Serving
  <1>2. CASE SendWrite(r)
    BY <1>2 DEF SendWrite, rows, TypeOK, Serving
  <1>3. ASSUME NEW i \in Items, WriteItem(r, i) PROVE TypeOK'
    BY <1>3 DEF WriteItem, Prepare, rows, tabs, TypeOK
  <1>4. ASSUME NEW i \in Items, deleteItem(r, i) PROVE TypeOK'
    BY <1>4 DEF deleteItem, Prepare, rows, TypeOK, Serving
  <1>5. ASSUME NEW c \in SUBSET Items, NEW d \in SUBSET Items, Push(r, c, d) PROVE TypeOK'
    BY <1>5 DEF Push, Prepare, rows, tabs, TypeOK, Serving
  <1> QED
    BY <1>1, <1>2, <1>3, <1>4, <1>5 DEF ClientStep

(* Opening and closing pages keeps the types. *)
LEMMA PageType ==
    ASSUME TypeOK, NEW t \in Tabs, OpenSignedOut(t) \/ ClosePage(t)
    PROVE  TypeOK'
  <1>1. CASE OpenSignedOut(t)
    BY <1>1 DEF OpenSignedOut, rows, TypeOK
  <1>2. CASE ClosePage(t)
    BY <1>2 DEF ClosePage, rows, TypeOK
  <1> QED
    BY <1>1, <1>2

(* The API's steps keep the types. *)
LEMMA ServeType ==
    ASSUME TypeOK, NEW r \in Requests, syncVaultFromToken(r)
    PROVE  TypeOK'
  <1>1. CASE CheckOwners(r)
    BY <1>1 DEF CheckOwners, Serve, rows, tabs, TypeOK, Serving
  <1>2. CASE RefuseForeign(r) \/ FailRequest(r)
    BY <1>2 DEF RefuseForeign, FailRequest, Refuse, rows, tabs, TypeOK
  <1>3. CASE upsertVaultItems(r)
    BY <1>3, OwnerType DEF upsertVaultItems, Serve, tabs, TypeOK, Serving
  <1>4. CASE softDeleteVaultItems(r)
    BY <1>4 DEF softDeleteVaultItems, Serve, tabs, TypeOK, Serving
  <1>5. CASE ListItems(r)
    BY <1>5 DEF ListItems, Serve, rows, tabs, TypeOK, Serving
  <1>6. CASE ListDeleted(r)
    BY <1>6 DEF ListDeleted, Serve, rows, tabs, TypeOK, Serving
  <1> QED
    BY <1>1, <1>2, <1>3, <1>4, <1>5, <1>6 DEF syncVaultFromToken

(* The ends of a request keep the types. *)
LEMMA EndType ==
    ASSUME TypeOK, NEW r \in Requests,
           EndStep(r)
    PROVE  TypeOK'
  <1>1. CASE ReceiveAnswer(r)
    BY <1>1 DEF ReceiveAnswer, Release, ShowList, rows, tabs, TypeOK
  <1>2. CASE ReceiveError(r)
    BY <1>2 DEF ReceiveError, Release, ShowError, rows, tabs, TypeOK
  <1>3. CASE LoseConnection(r)
    BY <1>3 DEF LoseConnection, ShowError, rows, tabs, TypeOK
  <1> QED
    BY <1>1, <1>2, <1>3 DEF EndStep

(* Every step keeps the types. *)
LEMMA TypeStep == TypeOK /\ [Next]_vars => TypeOK'
  <1> SUFFICES ASSUME TypeOK, [Next]_vars PROVE TypeOK'
    OBVIOUS
  <1>1. CASE UNCHANGED vars
    BY <1>1 DEF vars, TypeOK
  <1>2. CASE Next
    BY <1>2, StepKinds, ClientType, PageType, ServeType, EndType
  <1> QED
    BY <1>1, <1>2

(* Every variable keeps its type. *)
THEOREM TypeCorrect == Spec => []TypeOK
  BY TypeInit, TypeStep, PTL DEF Spec

-----------------------------------------------------------------------------
(* Owners, deletions and answers. *)

(* Rows only gain: an owner stays, and so does a deletion. *)
RowsGain ==
    /\ \A i \in Items : owner[i] # None => owner'[i] = owner[i]
    /\ gone \subseteq gone'

(* Only a row that the request r saves gets an owner. *)
OnlyOwnedBy(r) == \A i \in Items : owner[i] = None /\ i \notin changed[r] => owner'[i] = None

SameRequest(r) ==
    /\ phase'[r] = phase[r] /\ changed'[r] = changed[r] /\ deleted'[r] = deleted[r]
    /\ live'[r] = live[r] /\ dead'[r] = dead[r]

(* Nothing is asked yet. *)
LEMMA BooksInit == Init => Books
  BY DEF Init, Books, Sound, NewIdsApart, ItemsAreOwn, Checked, Saved, Removed, Listed

(* A request that does not move stays sound whatever the others save. *)
LEMMA SoundKept ==
    ASSUME TypeOK, Books, NEW r \in Requests, SameRequest(r), RowsGain,
           \A i \in changed[r] : owner[i] = None => owner'[i] = None
    PROVE  Sound(r)'
  <1>1. Sound(r) /\ changed[r] \subseteq Items /\ deleted[r] \subseteq Items /\ live[r] \subseteq Items
    BY DEF Books, TypeOK
  <1>2. \A i \in deleted[r] : owner[i] # None /\ owner'[i] = owner[i]
    BY <1>1 DEF Sound, RowsGain
  <1>3. \A i \in changed[r] : owner'[i] = owner[i]
    BY <1>1 DEF RowsGain
  <1>4. phase[r] \in Listed => \A i \in live[r] : owner'[i] = owner[i]
    BY <1>1, OwnerType DEF Sound, RowsGain
  <1> QED
    BY <1>1, <1>2, <1>3, <1>4 DEF Sound, SameRequest, RowsGain, Owner

(* The rows a step does not touch gain nothing and lose nothing. *)
LEMMA RowsSame ==
    ASSUME UNCHANGED rows
    PROVE  RowsGain /\ \A i \in Items : owner[i] = None => owner'[i] = None
  BY DEF rows, RowsGain

(* If one request moves and stays sound, and rows only gain for it, the    *)
(* books stay in order.                                                    *)
LEMMA OneMoves ==
    ASSUME TypeOK, Books, NEW r \in Requests, Sound(r)', RowsGain, OnlyOwnedBy(r),
           changed'[r] \subseteq changed[r],
           \A s \in Requests \ {r} : SameRequest(s),
           \A t \in Tabs : items'[t] \subseteq items[t] \cup {i \in Items : owner[i] = ProfileOf[t]}
    PROVE  Books'
  <1>1. ASSUME NEW s \in Requests PROVE Sound(s)'
    <2>1. CASE s = r
      BY <2>1
    <2>2. CASE s # r
      <3>1. \A i \in changed[s] : owner[i] = None => i \notin changed[r]
        BY <2>2 DEF Books, NewIdsApart
      <3>2. \A i \in changed[s] : owner[i] = None => owner'[i] = None
        BY <3>1 DEF OnlyOwnedBy, TypeOK
      <3> QED
        BY <2>2, <3>2, SoundKept
    <2> QED
      BY <2>1, <2>2
  <1>2. \A s \in Requests : changed'[s] \subseteq changed[s] /\ changed[s] \subseteq Items
    BY DEF SameRequest, TypeOK
  <1>3. NewIdsApart'
    <2> SUFFICES ASSUME NEW a \in Requests, NEW b \in Requests,
                        NEW i \in changed'[a] \cap changed'[b], a # b
                 PROVE  owner'[i] # None
      BY DEF NewIdsApart
    <2>1. owner[i] # None /\ i \in Items
      BY <1>2 DEF Books, NewIdsApart
    <2> QED
      BY <2>1 DEF RowsGain
  <1>4. ItemsAreOwn'
    <2> SUFFICES ASSUME NEW t \in Tabs, NEW i \in items'[t] PROVE owner'[i] = ProfileOf[t]
      BY DEF ItemsAreOwn
    <2>1. i \in Items /\ owner[i] = ProfileOf[t]
      BY DEF Books, ItemsAreOwn, TypeOK
    <2>2. ProfileOf[t] # None
      BY SyncAssumption DEF Clients
    <2> QED
      BY <2>1, <2>2 DEF RowsGain
  <1> QED
    BY <1>1, <1>3, <1>4 DEF Books

(* A client names rows, or fresh ids that nobody else names. *)
LEMMA PrepareBooks ==
    ASSUME TypeOK, Books, NEW r \in Requests,
           NEW c \in SUBSET Items, NEW d \in SUBSET Items, NEW p \in {"sealing", "sent"},
           Prepare(r, c, d, p), c \subseteq Fresh \cup Existing, d \subseteq Existing,
           UNCHANGED items
    PROVE  Books'
  <1>1. RowsGain /\ \A i \in Items : owner[i] = None => owner'[i] = None
    BY RowsSame DEF Prepare
  <1>2. owner' = owner /\ gone' = gone
    BY DEF Prepare, rows
  <1>3. phase'[r] = p /\ changed'[r] = c /\ deleted'[r] = d
    BY DEF Prepare, TypeOK
  <1>4. \A s \in Requests \ {r} : SameRequest(s)
    BY DEF Prepare, TypeOK, SameRequest
  <1>5. Sound(r)'
    BY <1>2, <1>3 DEF Sound, Existing, Checked, Saved, Removed, Listed
  <1>6. ASSUME NEW s \in Requests PROVE Sound(s)'
    BY <1>1, <1>4, <1>5, SoundKept DEF TypeOK
  <1>7. ASSUME NEW s \in Requests, NEW i \in changed'[s] \cap changed'[r], s # r
        PROVE  owner'[i] # None
    BY <1>2, <1>3, <1>4, <1>7 DEF Fresh, Existing, SameRequest
  <1>8. ASSUME NEW a \in Requests, NEW b \in Requests,
               NEW i \in changed'[a] \cap changed'[b], a # b
        PROVE  owner'[i] # None
    <2>1. CASE a = r \/ b = r
      BY <1>7, <1>8, <2>1
    <2>2. CASE a # r /\ b # r
      BY <1>2, <1>4, <1>8, <2>2 DEF SameRequest, Books, NewIdsApart
    <2> QED
      BY <2>1, <2>2
  <1>9. NewIdsApart'
    BY <1>8 DEF NewIdsApart
  <1>10. ItemsAreOwn'
    BY <1>2 DEF Books, ItemsAreOwn
  <1> QED
    BY <1>6, <1>9, <1>10 DEF Books

(* The shown items of a page have rows. *)
LEMMA ShownExist ==
    ASSUME TypeOK, Books, NEW t \in Tabs
    PROVE  items[t] \subseteq Existing
  BY SyncAssumption DEF Books, ItemsAreOwn, TypeOK, Existing, Clients

(* The client's steps keep the books. *)
LEMMA ClientBooks ==
    ASSUME TypeOK, Books, NEW r \in Requests, ClientStep(r)
    PROVE  Books'
  <1>1. CASE OpenPage(r)
    BY <1>1, PrepareBooks DEF OpenPage
  <1>2. CASE SendWrite(r)
    <2>1. RowsGain /\ OnlyOwnedBy(r)
      BY <1>2, RowsSame DEF SendWrite, OnlyOwnedBy
    <2>2. \A s \in Requests \ {r} : SameRequest(s)
      BY <1>2 DEF SendWrite, TypeOK, SameRequest
    <2>3. Sound(r)'
      BY <1>2 DEF SendWrite, TypeOK, Books, Sound, rows, Checked, Saved, Removed, Listed
    <2> QED
      BY <1>2, <2>1, <2>2, <2>3, OneMoves DEF SendWrite
  <1>3. ASSUME NEW i \in Items, WriteItem(r, i) PROVE Books'
    <2>1. {i} \subseteq Fresh \cup Existing
      BY <1>3, ShownExist DEF WriteItem, CanPress
    <2> QED
      BY <1>3, <2>1, PrepareBooks DEF WriteItem, tabs
  <1>4. ASSUME NEW i \in Items, deleteItem(r, i) PROVE Books'
    <2>1. {i} \subseteq Existing
      BY <1>4, ShownExist DEF deleteItem, CanPress
    <2> QED
      BY <1>4, <2>1, PrepareBooks DEF deleteItem
  <1>5. ASSUME NEW c \in SUBSET Items, NEW d \in SUBSET Items, Push(r, c, d) PROVE Books'
    BY <1>5, PrepareBooks DEF Push, tabs
  <1> QED
    BY <1>1, <1>2, <1>3, <1>4, <1>5 DEF ClientStep

(* Opening and closing pages keeps the books. *)
LEMMA PageBooks ==
    ASSUME TypeOK, Books, NEW t \in Tabs, OpenSignedOut(t) \/ ClosePage(t)
    PROVE  Books'
  <1>1. CASE OpenSignedOut(t)
    <2>1. \A s \in Requests : SameRequest(s)
      BY <1>1 DEF OpenSignedOut, SameRequest
    <2>2. RowsGain /\ \A i \in Items : owner[i] = None => owner'[i] = None
      BY <1>1, RowsSame DEF OpenSignedOut
    <2>3. \A s \in Requests : Sound(s)'
      BY <2>1, <2>2, SoundKept DEF TypeOK
    <2> QED
      BY <1>1, <2>3 DEF OpenSignedOut, rows, Books, NewIdsApart, ItemsAreOwn
  <1>2. CASE ClosePage(t)
    <2>1. RowsGain /\ \A i \in Items : owner[i] = None => owner'[i] = None
      BY <1>2, RowsSame DEF ClosePage
    <2>2. owner' = owner
      BY <1>2 DEF ClosePage, rows
    <2>3. ASSUME NEW s \in Requests PROVE Sound(s)'
      <3>1. CASE SameRequest(s)
        BY <2>1, <3>1, SoundKept DEF TypeOK
      <3>2. CASE ~SameRequest(s)
        <4>1. phase'[s] = "idle" /\ deleted'[s] = deleted[s]
          BY <1>2, <3>2 DEF ClosePage, SameRequest
        <4> QED
          BY <2>2, <4>1 DEF Books, Sound, Checked, Saved, Removed, Listed
      <3> QED
        BY <3>1, <3>2
    <2>4. \A s \in Requests : changed'[s] \subseteq changed[s]
      BY <1>2 DEF ClosePage
    <2>5. NewIdsApart'
      BY <2>2, <2>4 DEF Books, NewIdsApart
    <2>6. ItemsAreOwn'
      BY <1>2, <2>2 DEF ClosePage, TypeOK, Books, ItemsAreOwn
    <2> QED
      BY <2>3, <2>5, <2>6 DEF Books
  <1> QED
    BY <1>1, <1>2

(* A call of the API leaves the other requests and the pages alone. *)
LEMMA ServeFrame ==
    ASSUME TypeOK, NEW r \in Requests, syncVaultFromToken(r)
    PROVE  /\ \A s \in Requests \ {r} : SameRequest(s)
           /\ changed'[r] \subseteq changed[r]
           /\ UNCHANGED items
  <1>1. CASE CheckOwners(r)
    BY <1>1 DEF CheckOwners, Serve, tabs, TypeOK, SameRequest
  <1>2. CASE RefuseForeign(r) \/ FailRequest(r)
    BY <1>2 DEF RefuseForeign, FailRequest, Refuse, tabs, TypeOK, SameRequest
  <1>3. CASE upsertVaultItems(r) \/ softDeleteVaultItems(r) \/ ListItems(r) \/ ListDeleted(r)
    BY <1>3 DEF upsertVaultItems, softDeleteVaultItems, ListItems, ListDeleted, Serve, tabs, TypeOK, SameRequest
  <1> QED
    BY <1>1, <1>2, <1>3 DEF syncVaultFromToken

(* A call of the API only takes rows that nobody has. *)
LEMMA ServeRows ==
    ASSUME TypeOK, Books, NEW r \in Requests, syncVaultFromToken(r)
    PROVE  RowsGain /\ OnlyOwnedBy(r)
  <1>1. CASE upsertVaultItems(r)
    <2>1. \A i \in changed[r] : owner[i] \in {None, Owner(r)}
      BY <1>1 DEF upsertVaultItems, Serve, Books, Sound, Checked
    <2> QED
      BY <1>1, <2>1 DEF upsertVaultItems, RowsGain, OnlyOwnedBy
  <1>2. CASE softDeleteVaultItems(r)
    BY <1>2 DEF softDeleteVaultItems, RowsGain, OnlyOwnedBy
  <1>3. CASE CheckOwners(r) \/ RefuseForeign(r) \/ FailRequest(r) \/ ListItems(r) \/ ListDeleted(r)
    <2>1. UNCHANGED rows
      BY <1>3 DEF CheckOwners, RefuseForeign, FailRequest, Refuse, ListItems, ListDeleted
    <2> QED
      BY <2>1, RowsSame DEF OnlyOwnedBy
  <1> QED
    BY <1>1, <1>2, <1>3 DEF syncVaultFromToken

(* Each call of the API makes sure of what the next ones rely on. *)
LEMMA ServeSound ==
    ASSUME TypeOK, Books, NEW r \in Requests, syncVaultFromToken(r)
    PROVE  Sound(r)'
  <1>1. /\ Sound(r) /\ Owner(r) # None
        /\ changed[r] \subseteq Items /\ deleted[r] \subseteq Items
    BY OwnerType DEF Books, TypeOK
  <1>2. CASE CheckOwners(r)
    <2>1. /\ phase'[r] = "checked" /\ changed'[r] = changed[r] \ deleted[r] /\ deleted'[r] = deleted[r]
          /\ owner' = owner
      BY <1>2 DEF CheckOwners, Serve, TypeOK, rows
    <2>2. \A i \in changed[r] \cup deleted[r] : owner[i] \in {None, Owner(r)}
      BY <1>2 DEF CheckOwners, Foreign
    <2> QED
      BY <1>1, <2>1, <2>2 DEF Sound, Saved, Removed, Listed, Owner
  <1>3. CASE RefuseForeign(r) \/ FailRequest(r)
    <2>1. phase'[r] = "refused" /\ deleted'[r] = {}
      BY <1>3 DEF RefuseForeign, FailRequest, Refuse, TypeOK
    <2> QED
      BY <2>1 DEF Sound, Checked, Saved, Removed, Listed
  <1>4. CASE upsertVaultItems(r)
    <2>1. /\ phase[r] = "checked" /\ phase'[r] = "saved"
          /\ changed'[r] = changed[r] /\ deleted'[r] = deleted[r]
      BY <1>4 DEF upsertVaultItems, Serve, TypeOK
    <2>2. \A i \in changed[r] : owner'[i] = Owner(r)
      BY <1>1, <1>4 DEF upsertVaultItems
    <2>3. \A i \in deleted[r] : owner[i] = Owner(r)
      BY <1>1, <2>1 DEF Sound, Checked
    <2>4. \A i \in deleted[r] : owner'[i] = Owner(r)
      BY <1>1, <1>4, <2>3 DEF upsertVaultItems
    <2> QED
      BY <1>1, <2>1, <2>2, <2>4 DEF Sound, Removed, Listed, Owner
  <1>5. CASE softDeleteVaultItems(r)
    <2>1. /\ phase[r] = "saved" /\ phase'[r] = "removed" /\ owner' = owner
          /\ changed'[r] = changed[r] /\ deleted'[r] = deleted[r]
      BY <1>5 DEF softDeleteVaultItems, Serve, TypeOK
    <2>2. \A i \in deleted[r] : owner[i] = Owner(r)
      BY <1>1, <2>1 DEF Sound, Checked
    <2>3. deleted[r] \subseteq gone'
      BY <1>5, <2>2 DEF softDeleteVaultItems
    <2> QED
      BY <1>1, <2>1, <2>3 DEF Sound, Checked, Saved, Listed, Owner
  <1>6. CASE ListItems(r)
    <2>1. /\ phase[r] = "removed" /\ phase'[r] = "listed" /\ owner' = owner /\ gone' = gone
          /\ changed'[r] = changed[r] /\ deleted'[r] = deleted[r]
          /\ live'[r] = {i \in Items \ gone : owner[i] = Owner(r)}
      BY <1>6 DEF ListItems, Serve, TypeOK, rows
    <2> QED
      BY <1>1, <2>1 DEF Sound, Checked, Saved, Removed, Owner
  <1>7. CASE ListDeleted(r)
    <2>1. /\ phase[r] = "listed" /\ phase'[r] = "answered" /\ owner' = owner /\ gone' = gone
          /\ changed'[r] = changed[r] /\ deleted'[r] = deleted[r] /\ live'[r] = live[r]
          /\ dead'[r] = {i \in gone : owner[i] = Owner(r)}
      BY <1>7 DEF ListDeleted, Serve, TypeOK, rows
    <2>2. /\ \A i \in changed[r] \cup deleted[r] : owner[i] = Owner(r)
          /\ changed[r] \subseteq live[r] \cup gone /\ deleted[r] \subseteq gone
      BY <1>1, <2>1 DEF Sound, Checked, Saved, Removed, Listed
    <2>3. changed[r] \subseteq live[r] \cup dead'[r] /\ deleted[r] \subseteq dead'[r]
      BY <2>1, <2>2
    <2> QED
      BY <1>1, <2>1, <2>3 DEF Sound, Checked, Saved, Removed, Listed, Owner
  <1> QED
    BY <1>2, <1>3, <1>4, <1>5, <1>6, <1>7 DEF syncVaultFromToken

(* The end of a request keeps the books: a page shows what an answer       *)
(* listed.                                                                 *)
LEMMA EndBooks ==
    ASSUME TypeOK, Books, NEW r \in Requests, EndStep(r)
    PROVE  Books'
  <1>1. UNCHANGED rows
    BY DEF EndStep, ReceiveAnswer, ReceiveError, LoseConnection, Release
  <1>2. RowsGain /\ OnlyOwnedBy(r) /\ \A i \in Items : owner[i] = None => owner'[i] = None
    BY <1>1, RowsSame DEF OnlyOwnedBy
  <1>3. CASE LoseConnection(r)
    <2>1. \A s \in Requests : SameRequest(s)
      BY <1>3 DEF LoseConnection, SameRequest
    <2>2. Sound(r)'
      BY <1>2, <2>1, SoundKept DEF TypeOK
    <2>3. UNCHANGED items
      BY <1>3 DEF LoseConnection, ShowError, tabs
    <2> QED
      BY <1>2, <2>1, <2>2, <2>3, OneMoves DEF SameRequest
  <1>4. CASE ReceiveAnswer(r) \/ ReceiveError(r)
    <2>1. /\ phase'[r] = "idle" /\ changed'[r] = {} /\ deleted'[r] = {}
          /\ \A s \in Requests \ {r} : SameRequest(s)
      BY <1>4 DEF ReceiveAnswer, ReceiveError, Release, TypeOK, SameRequest
    <2>2. Sound(r)'
      BY <2>1 DEF Sound, Checked, Saved, Removed, Listed
    <2>3. CASE ReceiveError(r)
      <3>1. UNCHANGED items
        BY <2>3 DEF ReceiveError, ShowError, tabs
      <3> QED
        BY <1>2, <2>1, <2>2, <3>1, OneMoves
    <2>4. CASE ReceiveAnswer(r)
      <3>1. live[r] \subseteq {i \in Items : owner[i] = Owner(r)}
        BY <2>4 DEF ReceiveAnswer, Books, Sound, Listed, TypeOK
      <3>2. \A t \in Tabs : items'[t] \subseteq items[t] \cup {i \in Items : owner[i] = ProfileOf[t]}
        BY <2>4, <3>1 DEF ReceiveAnswer, ShowList, tabs, TypeOK, Owner
      <3> QED
        BY <1>2, <2>1, <2>2, <3>2, OneMoves
    <2> QED
      BY <1>4, <2>3, <2>4
  <1> QED
    BY <1>3, <1>4 DEF EndStep

(* Every step keeps the books. *)
LEMMA BooksStep == TypeOK /\ Books /\ [Next]_vars => Books'
  <1> SUFFICES ASSUME TypeOK, Books, [Next]_vars PROVE Books'
    OBVIOUS
  <1>1. CASE UNCHANGED vars
    BY <1>1 DEF vars, Books, Sound, NewIdsApart, ItemsAreOwn, Owner
  <1>2. ASSUME NEW r \in Requests, syncVaultFromToken(r) PROVE Books'
    BY <1>2, ServeFrame, ServeRows, ServeSound, OneMoves
  <1> QED
    BY <1>1, <1>2, StepKinds, PageBooks, ClientBooks, EndBooks

(* The books are always in order. *)
LEMMA BooksInvariant == Spec => [](TypeOK /\ Books)
  BY TypeInit, TypeStep, BooksInit, BooksStep, PTL DEF Spec

(* A step that moves to other rows only gains. *)
LEMMA RowsOnlyGain == TypeOK /\ Books /\ [Next]_vars => RowsGain
  <1> SUFFICES ASSUME TypeOK, Books, [Next]_vars PROVE RowsGain
    OBVIOUS
  <1>1. CASE UNCHANGED vars
    BY <1>1, RowsSame DEF vars, rows
  <1>2. ASSUME NEW t \in Tabs, OpenSignedOut(t) \/ ClosePage(t) PROVE RowsGain
    BY <1>2, RowsSame DEF OpenSignedOut, ClosePage
  <1>3. ASSUME NEW r \in Requests, ClientStep(r) PROVE RowsGain
    BY <1>3, RowsSame DEF ClientStep, OpenPage, SendWrite, WriteItem, deleteItem, Push, Prepare
  <1>4. ASSUME NEW r \in Requests, syncVaultFromToken(r) PROVE RowsGain
    BY <1>4, ServeRows
  <1>5. ASSUME NEW r \in Requests, EndStep(r) PROVE RowsGain
    BY <1>5, RowsSame DEF EndStep, ReceiveAnswer, ReceiveError, LoseConnection, Release
  <1> QED
    BY <1>1, <1>2, <1>3, <1>4, <1>5, StepKinds

(* A row never changes hands: between the ownership check and the upsert   *)
(* that overwrites the owner, no other request can have taken the row,     *)
(* because new ids are fresh.                                              *)
THEOREM RowsKeepOwners == Spec => OwnersKept
  <1>1. TypeOK /\ Books /\ [Next]_vars => [\A i \in Items : owner[i] # None => owner'[i] = owner[i]]_vars
    BY RowsOnlyGain DEF RowsGain
  <1> QED
    BY <1>1, BooksInvariant, PTL DEF Spec, OwnersKept

(* Deletions are final, whatever lists later writes were prepared from.    *)
THEOREM DeletionsAreFinal == Spec => DeletionWins
  <1>1. TypeOK /\ Books /\ [Next]_vars => [gone \subseteq gone']_vars
    BY RowsOnlyGain DEF RowsGain
  <1> QED
    BY <1>1, BooksInvariant, PTL DEF Spec, DeletionWins

(* An answer accounts for everything its request named. *)
THEOREM AnswersHonourRequests == Spec => []AnswerHonoursRequest
  <1>1. Books => AnswerHonoursRequest
    BY DEF Books, Sound, AnswerHonoursRequest, Listed
  <1> QED
    BY <1>1, BooksInvariant, PTL

(* Pages show items of their own profile only. *)
THEOREM PagesShowOwnItems == Spec => []ItemsAreOwn
  <1>1. Books => ItemsAreOwn
    BY DEF Books
  <1> QED
    BY <1>1, BooksInvariant, PTL

-----------------------------------------------------------------------------
(* Busy pages. *)

UnderWay == Serving \cup {"answered", "refused"}

BusyInv == TypeOK /\ SealingHeard /\ NeverStuck

(* No page is open: none is busy. *)
LEMMA BusyInit == Init => BusyInv
  BY TypeInit DEF Init, BusyInv, SealingHeard, NeverStuck

(* A page that does not become busy still waits for the same request, if   *)
(* that is still heard and under way.                                      *)
LEMMA StillWaits ==
    ASSUME NeverStuck,
           \A t \in Tabs : (isSyncing'[t] \/ page'[t] = "loading") =>
               \/ /\ isSyncing[t] \/ page[t] = "loading"
                  /\ \A r \in heard : ClientOf[r] = t /\ phase[r] \in UnderWay
                         => r \in heard' /\ phase'[r] \in UnderWay
               \/ \E r \in heard' : ClientOf[r] = t /\ phase'[r] \in UnderWay
    PROVE  NeverStuck'
  BY DEF NeverStuck, UnderWay

(* The client's steps leave no page stuck. *)
LEMMA ClientBusy ==
    ASSUME BusyInv, NEW r \in Requests, ClientStep(r)
    PROVE  SealingHeard' /\ NeverStuck'
  <1> USE DEF BusyInv, TypeOK, SealingHeard, UnderWay, Serving
  <1>1. CASE OpenPage(r)
    BY <1>1, StillWaits DEF OpenPage, Prepare
  <1>2. CASE SendWrite(r)
    BY <1>2, StillWaits DEF SendWrite
  <1>3. ASSUME NEW i \in Items, WriteItem(r, i) PROVE SealingHeard' /\ NeverStuck'
    BY <1>3, StillWaits DEF WriteItem, Prepare, tabs
  <1>4. ASSUME NEW i \in Items, deleteItem(r, i) PROVE SealingHeard' /\ NeverStuck'
    BY <1>4, StillWaits DEF deleteItem, Prepare
  <1>5. ASSUME NEW c \in SUBSET Items, NEW d \in SUBSET Items, Push(r, c, d)
        PROVE  SealingHeard' /\ NeverStuck'
    BY <1>5, StillWaits DEF Push, Prepare, tabs
  <1> QED
    BY <1>1, <1>2, <1>3, <1>4, <1>5 DEF ClientStep

(* A call of the API keeps a request under way. *)
LEMMA ServeBusy ==
    ASSUME BusyInv, NEW r \in Requests, syncVaultFromToken(r)
    PROVE  SealingHeard' /\ NeverStuck'
  <1>1. /\ phase[r] \in Serving
        /\ phase'[r] \in UnderWay
        /\ \A s \in Requests \ {r} : phase'[s] = phase[s]
    BY DEF syncVaultFromToken, CheckOwners, RefuseForeign, FailRequest, Refuse, upsertVaultItems,
           softDeleteVaultItems, ListItems, ListDeleted, Serve, BusyInv, TypeOK, UnderWay, Serving
  <1>2. UNCHANGED <<heard, isSyncing, page>>
    BY DEF syncVaultFromToken, CheckOwners, RefuseForeign, FailRequest, Refuse, upsertVaultItems,
           softDeleteVaultItems, ListItems, ListDeleted, Serve, tabs
  <1>3. SealingHeard'
    BY <1>1, <1>2 DEF BusyInv, SealingHeard, UnderWay, Serving
  <1>4. NeverStuck'
    BY <1>1, <1>2, StillWaits DEF BusyInv, TypeOK
  <1> QED
    BY <1>3, <1>4

(* The end of a request ends what its page waited for. *)
LEMMA EndBusy ==
    ASSUME BusyInv, NEW r \in Requests, EndStep(r)
    PROVE  SealingHeard' /\ NeverStuck'
  <1>1. /\ phase[r] # "sealing"
        /\ heard' = heard \ {r}
        /\ \A s \in Requests \ {r} : phase'[s] = phase[s]
        /\ phase'[r] # "sealing"
    BY DEF EndStep, ReceiveAnswer, ReceiveError, LoseConnection, Release, BusyInv, TypeOK, Serving
  <1>2. SealingHeard'
    BY <1>1 DEF BusyInv, SealingHeard
  <1>3. ASSUME NEW t \in Tabs, isSyncing'[t] \/ page'[t] = "loading"
        PROVE  ~(r \in heard /\ ClientOf[r] = t) /\ (isSyncing[t] \/ page[t] = "loading")
    BY <1>3 DEF EndStep, ReceiveAnswer, ReceiveError, LoseConnection, ShowList, ShowError, tabs,
                BusyInv, TypeOK
  <1>4. NeverStuck'
    BY <1>1, <1>3, StillWaits DEF BusyInv, TypeOK
  <1> QED
    BY <1>2, <1>4

(* Opening and closing pages leaves no page stuck. *)
LEMMA PageBusy ==
    ASSUME BusyInv, NEW t \in Tabs, OpenSignedOut(t) \/ ClosePage(t)
    PROVE  SealingHeard' /\ NeverStuck'
  <1>1. CASE OpenSignedOut(t)
    BY <1>1, StillWaits DEF OpenSignedOut, BusyInv, TypeOK, SealingHeard
  <1>2. CASE ClosePage(t)
    <2>1. \A r \in Requests : ClientOf[r] # t => phase'[r] = phase[r] /\ (r \in heard' <=> r \in heard)
      BY <1>2 DEF ClosePage
    <2>2. \A r \in Requests : phase'[r] = "sealing" => phase[r] = "sealing" /\ ClientOf[r] # t
      BY <1>2 DEF ClosePage
    <2>3. \A u \in Tabs : (isSyncing'[u] \/ page'[u] = "loading") =>
              u # t /\ (isSyncing[u] \/ page[u] = "loading")
      BY <1>2 DEF ClosePage, BusyInv, TypeOK
    <2>4. SealingHeard'
      BY <2>1, <2>2 DEF BusyInv, SealingHeard
    <2>5. NeverStuck'
      BY <2>1, <2>3, StillWaits DEF BusyInv, TypeOK
    <2> QED
      BY <2>4, <2>5
  <1> QED
    BY <1>1, <1>2

(* Every step keeps the invariant. *)
LEMMA BusyStep == BusyInv /\ [Next]_vars => BusyInv'
  <1> SUFFICES ASSUME BusyInv, [Next]_vars PROVE SealingHeard' /\ NeverStuck'
    BY TypeStep DEF BusyInv
  <1>1. CASE UNCHANGED vars
    BY <1>1 DEF vars, BusyInv, SealingHeard, NeverStuck
  <1> QED
    BY <1>1, StepKinds, PageBusy, ClientBusy, ServeBusy, EndBusy

(* A page that is busy always waits for a request that is under way. *)
THEOREM PagesAreNeverStuck == Spec => []NeverStuck
  <1>1. BusyInv => NeverStuck
    BY DEF BusyInv
  <1> QED
    BY <1>1, BusyInit, BusyStep, PTL DEF Spec
=============================================================================
