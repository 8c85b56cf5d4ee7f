----------------------------- MODULE MCPairing -----------------------------
(* Instances of Pairing for TLC. *)
EXTENDS Pairing, TLC

MCSpellings == {"a", "ftp"}
MCNormalized == [s \in MCSpellings |-> IF s = "a" THEN "a" ELSE NoOrigin]

Login(i, p, o) == [id |-> i, label |-> "l", password |-> p, origin |-> o]

(* A login that changes its password, once beside one that unlock drops;   *)
(* one with an empty field beside one without; no login.                   *)
EditedVaults ==
    {{Login("x", "p", "a")},
     {Login("x", "q", "a"), Login("y", "p", "ftp")},
     {Login("x", "p", "a"), Login("y", Empty, "a")},
     {}}

OneVault == {{Login("x", "p", "a")}}

PairingSymmetry == Permutations(Phones) \cup Permutations(Sessions)
=============================================================================
