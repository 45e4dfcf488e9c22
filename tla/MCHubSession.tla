---------------------------- MODULE MCHubSession ----------------------------
(* Two threads and the requests of the program, which all begin with a list:  *)
(* list (of two pages), delete or rotate a wallet, and the LNURL callback.    *)
EXTENDS HubSession

MCRequests == {<<"list", "page">>, <<"list", "auth">>, <<"list", "list", "auth">>}
=============================================================================
