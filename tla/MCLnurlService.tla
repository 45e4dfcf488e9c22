--------------------------- MODULE MCLnurlService ---------------------------
(* Three wallets one after the other with two aliases, one wallet to a page; *)
(* requests for one alias, spelled with a capital letter, and for none;      *)
(* amounts that are allowed and no whole satoshi; two windows of one tick.   *)
EXTENDS LnurlService

MCAlias == {"alice", "bob"}
MCAliasOf == [s \in {"Alice", "-"} |-> IF s = "-" THEN "none" ELSE "alice"]
MCAmount == {2, 3}
=============================================================================
