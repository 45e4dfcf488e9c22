--------------------------- MODULE MCNwcPayments ---------------------------
(* Two wallets, two relay connections, two invoices.  Worker and Hash are   *)
(* interchangeable, which only the runs without liveness make use of.       *)
EXTENDS NwcPayments, TLC

MCAmount == {2}
MCLimit == {0}
MCSymmetry == Permutations(Worker) \cup Permutations(Hash)
=============================================================================
