--------------------------- MODULE MCUdpSessions ---------------------------
(* Small instances of UdpSessions for TLC.                                 *)
EXTENDS UdpSessions
=============================================================================
