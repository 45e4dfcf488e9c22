----------------------------- MODULE MCWebSocket -----------------------------
(* A notifying thread beside the relay thread, and a relay that sends enough  *)
(* frames for a message in three fragments with a ping inside.               *)
EXTENDS WebSocket
=============================================================================
