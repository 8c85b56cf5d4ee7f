--------------------------- MODULE MCBrowserImport ---------------------------
(* Files of at most three rows over two keys each of two sites, with rows that  *)
(* fail one check or several; then one post, of the report or, by another       *)
(* client, of one that does not add up in some way.                             *)
EXTENDS BrowserImport, TLC

CONSTANTS s1, s2, u1, i1, i2, i3, c1

MCFailSets == {{}, {"empty_row", "empty_url", "empty_password"},
               {"unsupported_note", "invalid_url"}}

BadRow(n) == [row |-> n, reason |-> "invalid_url", of |-> 0]
Repeats(n, m) == [row |-> n, reason |-> "duplicate", of |-> m]

Claim(total, ok, bad, again, list) ==
    [total |-> total, accepted |-> ok, malformed |-> bad, duplicate |-> again, issues |-> list]

MCOtherReports ==
    {Claim(3, 1, 1, 1, <<BadRow(2), Repeats(4, 3)>>),
     Claim(3, 1, 1, 1, <<BadRow(2), Repeats(4, 2)>>),     \* of a row that is listed
     Claim(2, 1, 0, 1, <<Repeats(2, 3)>>),                \* of a later row
     Claim(2, 0, 2, 0, <<BadRow(2), BadRow(2)>>),         \* a row twice
     Claim(2, 2, 1, 0, <<BadRow(3)>>),                    \* counts
     Claim(1, 0, 1, 0, <<BadRow(3)>>)}                    \* a row beyond the last

MCSymmetry == Permutations({s1, s2}) \cup Permutations({i1, i2, i3})
=============================================================================
