------------------------ MODULE MCExtensionSession ------------------------
(* An instance of ExtensionSession for TLC. *)
EXTENDS ExtensionSession, TLC

CONSTANTS alice, pa, pb, r1, r2, m1, m2

MCVaultOf == alice :> Logins

MCSealOf == [l \in Logins |-> pa]

MCUsesOf == (r1 :> {"state", "unlock", "lock", "sign_out", "fill"})
            @@ (r2 :> {"auth", "sign_in", "hydrate", "unlock"})

(* Two versions of one login. *)
MCIdOf == [c \in Companions |-> "m"]

Symmetry == Permutations(Logins) \cup Permutations(Companions)
=============================================================================
