---------------------------- MODULE MCDevSecrets ----------------------------
(* An instance of DevSecrets for TLC. *)
EXTENDS DevSecrets, TLC

Symmetry == Permutations(Runs) \cup Permutations(Codes) \cup Permutations(Accounts)
            \cup Permutations(Targets) \cup Permutations(Texts) \cup Permutations(Passwords)
=============================================================================
