------------------------- MODULE MCUdpEndpointPool -------------------------
(* One more Notify than callers is always enough: each caller holds at most *)
(* one and the map one more.                                               *)
EXTENDS UdpEndpointPool
=============================================================================
