----------------------------- MODULE MCFunding -----------------------------
(* One wallet, amounts and a node small enough that two fundings, or one and  *)
(* a payment, do not both fit.                                               *)
EXTENDS Funding

MCAmount == {1, 2}
MCNoLimit == {0}
=============================================================================
