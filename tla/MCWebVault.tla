----------------------------- MODULE MCWebVault -----------------------------
(* An instance of WebVault for TLC. *)
EXTENDS WebVault, TLC

CONSTANTS pa, pb, x, o1, o2

MCLists == {[i \in Ids |-> s] : s \in {"absent", "plain", pa}}

MCSiteOf == [i \in Ids |-> "http"]

MCUsesOf == (o1 :> {"load", "submit", "reveal", "write", "delete", "save"})
            @@ (o2 :> {"submit", "edit"})
=============================================================================
