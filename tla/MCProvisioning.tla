--------------------------- MODULE MCProvisioning ---------------------------
(* One or two declared wallets: an alias in lower case or with a capital,     *)
(* another alias for the same name, an alias that is not valid; and an        *)
(* operator who creates by hand a wallet that may be declared too, or one     *)
(* that has the name of a declared wallet.                                    *)
EXTENDS Provisioning

MCValid == {"pocket", "tips"}
MCLower == [s \in {"pocket", "Pocket", "tips", "t!"} |->
              IF s = "Pocket" THEN "pocket" ELSE s]
MCWallet(n, a) == [name |-> n, alias |-> a]
MCConfig == {<<MCWallet("a", "pocket")>>,
             <<MCWallet("a", "Pocket")>>,
             <<MCWallet("a", "tips")>>,
             <<MCWallet("a", "pocket"), MCWallet("b", "tips")>>,
             <<MCWallet("a", "pocket"), MCWallet("b", "t!")>>}
MCByHand == {MCWallet("b", "tips"), MCWallet("a", "tips")}
=============================================================================
