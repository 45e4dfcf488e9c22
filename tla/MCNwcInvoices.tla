--------------------------- MODULE MCNwcInvoices ---------------------------
(* Two wallets, one invoice, two requests at a time beside the watcher.  The *)
(* rows of two invoices are disjoint, one is enough for every interleaving;  *)
(* a payer may pay what was asked or one msat more.                          *)
EXTENDS NwcInvoices

MCAmount == {1, 2}
MCLimit == {0}
=============================================================================
