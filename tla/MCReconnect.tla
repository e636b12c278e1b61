---------------------------- MODULE MCReconnect ----------------------------
(* Three tasks, each of which may lead, wait or contend for the lock. *)
EXTENDS Reconnect
=============================================================================
