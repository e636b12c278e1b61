------------------------- MODULE MCServerConnection -------------------------
(* One stream is enough for a relay to outlive its connection. *)
EXTENDS ServerConnection
=============================================================================
