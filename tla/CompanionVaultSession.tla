----------------------- MODULE CompanionVaultSession -----------------------
(***************************************************************************)
(* The Mac companion's in-memory vault session (CompanionVaultSession in   *)
(* MacCompanionCore).  Every method of the class runs under the session's  *)
(* own lock, so each one is a single operator on the session's value here; *)
(* modules that use the session interleave those calls freely.             *)
(*                                                                         *)
(* Time is abstracted to what now() >= expiresAt can tell apart: a         *)
(* session's deadline is absent, ahead or passed.                          *)
(*                                                                         *)
(* A spelling stands for the text of an origin together with the profile   *)
(* it is used for: the code compares both, and normalises the origin only. *)
(***************************************************************************)
CONSTANTS
    Ids,          \* credential identifiers
    Labels,       \* a credential's label and username, shown to the user
    Passwords,    \* secrets
    Spellings,    \* origin texts as stored or requested
    Origins,      \* the normalised ones: scheme://host[:port] of an http(s) URL
    Normalized,   \* normalizedOrigin, as a function of the spelling
    NoOrigin,     \* what normalizedOrigin returns for anything else
    None          \* nil

Credential == [id: Ids, label: Labels, password: Passwords, origin: Spellings]

ASSUME SpellingsAssumption ==
    /\ Origins \subseteq Spellings
    /\ NoOrigin \notin Spellings
    /\ Normalized \in [Spellings -> Origins \cup {NoOrigin}]
    /\ \A o \in Origins : Normalized[o] = o

ASSUME NoneAssumption == None \notin Credential

AttentionReasons == {"unlockExpired", "lostDevice", "revoked"}

Session == [credentials: SUBSET Credential,
            deadline: {"absent", "ahead", "passed"},
            attention: AttentionReasons \cup {"none"}]

(* Vault contents: the lists the store keeps have one entry per id. *)
HasUniqueIds(v) == \A c, d \in v : c.id = d.id => c = d

LockedSession == [credentials |-> {}, deadline |-> "absent", attention |-> "none"]

AttentionSession(reason) ==
    [credentials |-> {}, deadline |-> "absent", attention |-> reason]

(* compactMap in unlock: entries without an http(s) origin are dropped. *)
NormalizeAll(v) ==
    {[c EXCEPT !.origin = Normalized[c.origin]] :
        c \in {d \in v : Normalized[d.origin] # NoOrigin}}

UnlockedSession(v) ==
    [credentials |-> NormalizeAll(v), deadline |-> "ahead", attention |-> "none"]

(* currentLockState's side effect: an overdue session is wiped when read. *)
Settled(s) ==
    IF s.attention = "none" /\ s.deadline = "passed"
    THEN AttentionSession("unlockExpired") ELSE s

IsUnlocked(s) == s.attention = "none" /\ s.deadline = "ahead"

IsLocked(s) == s.attention = "none" /\ s.deadline = "absent"

(* metadata(origin:profileId:) *)
Matches(s, spelling) ==
    IF IsUnlocked(s)
    THEN {c \in s.credentials : c.origin = Normalized[spelling]} ELSE {}

(* credential(id:origin:profileId:) *)
Lookup(s, id, spelling) ==
    IF \E c \in Matches(s, spelling) : c.id = id
    THEN CHOOSE c \in Matches(s, spelling) : c.id = id ELSE None

(* Seeded fault: entries are appended without looking for their id. *)
MergeByAppending(v, w) == v \cup w

(* The Web importer's loop: an imported entry replaces the one with its    *)
(* id, or is appended.                                                     *)
Merge(v, w) == {c \in v : \A d \in w : d.id # c.id} \cup w

(* Time passes the deadline; nothing is wiped until someone reads the state. *)
Overdue(s) == [s EXCEPT !.deadline = "passed"]
=============================================================================
