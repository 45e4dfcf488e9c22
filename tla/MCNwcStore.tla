----------------------------- MODULE MCNwcStore -----------------------------
(* Two sub-wallets, two interchangeable hashes, amounts on both sides of    *)
(* the 1% fee step, a limit that one small payment fits in and two do not.  *)
EXTENDS NwcStore, TLC

MCAmount == {1, 101}
MCLimit == {0, 3}
MCSymmetry == Permutations(Hash)
=============================================================================
