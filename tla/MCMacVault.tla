----------------------------- MODULE MCMacVault -----------------------------
(* Instances of MacVault for TLC. *)
EXTENDS MacVault, TLC

MCSpellings == {"a", "A", Empty}
MCNormalized == [s \in MCSpellings |-> IF s = Empty THEN NoOrigin ELSE "a"]

Login(i, p) == [id |-> i, label |-> "l", password |-> p, origin |-> "a"]

IdSymmetry == Permutations(Ids)

AllOps == {"save", "unlock", "export", "restore", "copy", "delete"}
EditOps == AllOps \ {"copy"}

(* Unlocking, adding and editing, so that only an import can take a login  *)
(* out of the file.                                                        *)
SaveOps == {"save", "unlock"}

NoImports == {}
OneImport == {{Login("w", "p")}}
=============================================================================
