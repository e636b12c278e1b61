----------------------------- MODULE MCDataPath -----------------------------
(***************************************************************************)
(* Small instances of the parts that carry data: the TCP relay, the UDP    *)
(* demultiplexer, the endpoint pool, the DNS resolver and the frames on    *)
(* the wire.  They share no state: a behaviour follows one of them, `part`, *)
(* while the others rest in one of their initial states.                   *)
(***************************************************************************)
EXTENDS TcpRelay, DemuxSocket, UdpEndpointPool, DnsResolver, WireCodec

VARIABLE part

vars == <<part, relayVars, demuxVars, poolVars, dnsVars, codecVars>>

Init ==
    /\ part \in {"relay", "demux", "pool", "dns", "codec"}
    /\ RelayInit /\ DemuxInit /\ PoolInit /\ DnsInit
    /\ CodecInit /\ (part # "codec" => carrier = "tcp")

Next ==
    \/ /\ part = "relay" /\ RelayNext
       /\ UNCHANGED <<part, demuxVars, poolVars, dnsVars, codecVars>>
    \/ /\ part = "demux" /\ DemuxNext
       /\ UNCHANGED <<part, relayVars, poolVars, dnsVars, codecVars>>
    \/ /\ part = "pool" /\ PoolNext
       /\ UNCHANGED <<part, relayVars, demuxVars, dnsVars, codecVars>>
    \/ /\ part = "dns" /\ DnsNext
       /\ UNCHANGED <<part, relayVars, demuxVars, poolVars, codecVars>>
    \/ /\ part = "codec" /\ CodecNext
       /\ UNCHANGED <<part, relayVars, demuxVars, poolVars, dnsVars>>

Spec == Init /\ [][Next]_vars

\* Every part is well typed.
TypeOK == RelayTypeOK /\ DemuxTypeOK /\ PoolTypeOK /\ DnsTypeOK /\ CodecTypeOK
=============================================================================
