------------------------- MODULE MCUnderlaySession -------------------------
(* Three credentials, one of them for a target that is refused. *)
EXTENDS UnderlaySession
=============================================================================
