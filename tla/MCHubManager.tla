---------------------------- MODULE MCHubManager ----------------------------
(* Two processes and the clients; two aliases, pages of one wallet and room  *)
(* for a third wallet, so that deletions shift lists that are being read; a  *)
(* satoshi is 2 msat, so that amounts with dust stay small.                  *)
EXTENDS HubManager, TLC

MCAmount == {3}
MCLimit == {0}
MCSymmetry == Permutations(Manager) \cup Permutations(Alias)
=============================================================================
