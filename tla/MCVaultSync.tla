---------------------------- MODULE MCVaultSync ----------------------------
(* An instance of VaultSync for TLC. *)
EXTENDS VaultSync, TLC

CONSTANTS tab, client, profile1, profile2, r1, r2, r3

MCProfileOf == (tab :> profile1) @@ (client :> profile2)

(* The page can have two requests going: a write that was still being      *)
(* sealed and what was pressed meanwhile.                                  *)
MCClientOf == (r1 :> tab) @@ (r2 :> tab) @@ (r3 :> client)

SyncSymmetry == Permutations(Items) \cup Permutations({r1, r2})
=============================================================================
