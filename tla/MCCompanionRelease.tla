------------------------- MODULE MCCompanionRelease -------------------------
(* Instances of CompanionRelease for TLC. *)
EXTENDS CompanionRelease, TLC

MCIds == {"x", "y"}
MCLabels == {"l"}
MCPasswords == {"p", "q"}
MCSpellings == {"a", "A", "b", "ftp"}
MCOrigins == {"a", "b"}
MCNormalized == [s \in MCSpellings |->
    IF s \in {"a", "A"} THEN "a" ELSE IF s = "b" THEN "b" ELSE NoOrigin]

Login(i, p, o) == [id |-> i, label |-> "l", password |-> p, origin |-> o]

(* A login that changes its password, moves to another site and to an      *)
(* address without http(s) origin, which unlocking drops.                  *)
PoolMoved == {Login("x", "p", "A"), Login("x", "q", "b"), Login("x", "q", "ftp")}

(* Two logins for one page: the vault may hold one, the other or both, so  *)
(* that a request may be for another login than the one still shown.       *)
PoolOfTwo == {Login("x", "p", "A"), Login("y", "p", "a")}

AnyImport == Vaults

NoImport == {}

TabSymmetry == Permutations(Tabs)
=============================================================================
