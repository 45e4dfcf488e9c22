----------------------------- MODULE MCNwcRelay -----------------------------
(* Two relays that deliver one request event, each again after a reconnect,  *)
(* one wallet, and one HTTP thread that creates or deletes it: what the      *)
(* threads do for two events is independent, apart from a thread doing one   *)
(* after the other.                                                          *)
EXTENDS NwcRelay
=============================================================================
