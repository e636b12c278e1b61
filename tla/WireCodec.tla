---------------------------- MODULE WireCodec ----------------------------
(***************************************************************************)
(* What client and server write to each other inside a stream              *)
(* (protocol.rs and its callers), and the SOCKS5 packets of the local UDP  *)
(* listener (local.rs).  A stream carries several messages back to back    *)
(* without separators, so one byte too many or too few changes how every   *)
(* later message is read.                                                  *)
(*                                                                         *)
(* The sizes are scaled: a byte has Base values instead of 256, an IPv4    *)
(* address V4Len bytes and an IPv6 address V6Len.                          *)
(***************************************************************************)
EXTENDS Naturals, Sequences

CONSTANTS
    Base,       \* the values of a byte
    V4Len,
    V6Len,
    MaxMsgs,    \* bound: messages per stream
    Bad         \* an encoder or a decoder failed

ASSUME CodecConstants ==
    /\ Base \in Nat /\ Base > 5
    /\ V4Len \in 1..(Base - 1) /\ V6Len \in 1..(Base - 1)
    /\ MaxMsgs \in Nat \ {0}
    /\ Bad \notin Seq(Nat) /\ Bad \notin {"ok", "short"}

VARIABLES
    carrier,    \* which stream the behaviour is about: tcp, udp, auth, reply
    written,    \* messages the writer has accepted
    wire,       \* bytes on the way
    decoded,    \* messages the reader has decoded
    writing,    \* open, or stopped by an error
    reading     \* header, message, or ended

codecVars == <<carrier, written, wire, decoded, writing, reading>>

-----------------------------------------------------------------------------
(* Bytes and hosts.                                                        *)

MaxU8 == Base - 1
MaxU16 == Base * Base - 1
U16(n) == <<n \div Base, n % Base>>
FromU16(b) == b[1] * Base + b[2]
Drop(b, n) == SubSeq(b, n + 1, Len(b))
Fill(x, n) == [i \in 1..n |-> x]

\* A host string by what it parses as: an address, a name, or "colon", a string with a
\* colon that is no IPv6 address.
Hosts ==
    {[is |-> "v4", bytes |-> Fill(x, V4Len)] : x \in {1, 3}}
      \cup {[is |-> "v6", bytes |-> Fill(3, V6Len)], [is |-> "colon", bytes |-> <<1, 2>>]}
      \cup {[is |-> "name", bytes |-> Fill(1, n)] : n \in {0, 1, MaxU8, MaxU8 + 1}}
IpHosts == {h \in Hosts : h.is \in {"v4", "v6"}}
Ports == {0, Base + 1}
Payloads == {Fill(4, n) : n \in {0, 1, MaxU16, MaxU16 + 1}}

\* ADDR_TYPE_*.
IPV4 == 1
DOMAIN_NAME == 3
IPV6 == 4
NONE == MaxU8

-----------------------------------------------------------------------------
(* Encoders.                                                               *)

\* A name and the byte with its length.
NameBytes(name) == IF Len(name) > MaxU8 THEN Bad ELSE <<Len(name)>> \o name

Joined(parts) ==
    IF \E i \in DOMAIN parts : parts[i] = Bad THEN Bad
    ELSE LET n == Len(parts) IN
         IF n = 2 THEN parts[1] \o parts[2] ELSE parts[1] \o parts[2] \o parts[3]

\* build_trojanc_addr and build_trojanc_addr_cached: the colon decides for IPv6, and a
\* host without a valid encoding is refused.
TrojancAddr(h, p) ==
    CASE h.is = "v4" -> <<IPV4>> \o h.bytes \o U16(p)
      [] h.is = "v6" -> <<IPV6>> \o h.bytes \o U16(p)
      [] h.is = "colon" -> Bad
      [] h.is = "name" -> IF h.bytes = <<>> THEN Bad
                          ELSE Joined(<<<<DOMAIN_NAME>>, NameBytes(h.bytes), U16(p)>>)

\* build_proxy_header: an empty host is sent as NONE, without a port.
ProxyHeader(network, h, p) ==
    IF h.bytes = <<>> THEN <<network, NONE>> ELSE Joined(<<<<network>>, TrojancAddr(h, p)>>)

\* write_underlay_metadata_async: what is no address is a name, empty or not.
UnderlayMetadata(h, p) ==
    IF h.is \in {"v4", "v6"} THEN TrojancAddr(h, p)
    ELSE Joined(<<<<DOMAIN_NAME>>, NameBytes(h.bytes), U16(p)>>)

\* udp_packet_len.
PacketLen(d) == IF Len(d) > MaxU16 THEN Bad ELSE U16(Len(d))

\* send_udp_datagram, and relay_responses at the server: address, length, payload.
Datagram(h, p, d) == Joined(<<TrojancAddr(h, p), PacketLen(d), d>>)

\* build_socks5_udp_packet.
SocksUdpPacket(h, p, d) ==
    <<0, 0, 0>> \o (CASE h.is = "v4" -> <<IPV4>> \o h.bytes
                      [] h.is = "v6" -> <<IPV6>> \o h.bytes
                      [] OTHER -> <<DOMAIN_NAME, Len(h.bytes) % Base>> \o h.bytes) \o U16(p) \o d

-----------------------------------------------------------------------------
(* Decoders.  A reader waits for bytes it still needs: Short.              *)

Short == "short"

\* An address and a port.  Datagrams and underlay metadata refuse a name of no bytes
\* (read_trojanc_addr_async, read_trojanc_addr_into_async, read_underlay_metadata_async),
\* a stream header and a SOCKS5 packet take it.
ReadAddr(b, emptyOk) ==
    IF b = <<>> THEN [st |-> Short]
    ELSE LET name == b[1] = DOMAIN_NAME
             size == CASE b[1] = IPV4 -> V4Len [] b[1] = IPV6 -> V6Len
                       [] name -> (IF Len(b) > 1 THEN b[2] ELSE 0) [] OTHER -> 0
             rest == Drop(b, IF name THEN 2 ELSE 1) IN
         CASE b[1] \notin {IPV4, IPV6, DOMAIN_NAME} -> [st |-> Bad]
           [] name /\ ~emptyOk /\ Len(b) > 1 /\ size = 0 -> [st |-> Bad]
           [] OTHER -> IF (name /\ Len(b) = 1) \/ Len(rest) < size + 2 THEN [st |-> Short]
                       ELSE [st |-> "ok",
                             host |-> [is |-> CASE b[1] = IPV4 -> "v4" [] b[1] = IPV6 -> "v6" [] name -> "name",
                                       bytes |-> SubSeq(rest, 1, size)],
                             port |-> FromU16(Drop(rest, size)),
                             rest |-> Drop(rest, size + 2)]

\* read_proxy_header_async, after the byte of the network.
ReadHeader(b) ==
    IF Len(b) > 1 /\ b[2] = NONE
    THEN [st |-> "ok", host |-> [is |-> "name", bytes |-> <<>>], port |-> 0, rest |-> Drop(b, 2)]
    ELSE ReadAddr(Drop(b, 1), TRUE)

\* The loop of quic_to_remote, and read_one_udp_response at the client.
ReadDatagram(b) ==
    LET a == ReadAddr(b, FALSE) IN
    IF a.st # "ok" THEN a
    ELSE LET n == IF Len(a.rest) < 2 THEN 0 ELSE FromU16(a.rest)
             body == Drop(a.rest, 2) IN
         IF Len(a.rest) < 2 \/ Len(body) < n THEN [st |-> Short]
         ELSE [st |-> "ok", msg |-> <<a.host, a.port, SubSeq(body, 1, n)>>, rest |-> Drop(body, n)]

\* read_underlay_auth_async: a key of one byte here, then the metadata.
ReadAuth(b) ==
    LET a == ReadAddr(Drop(b, 2), FALSE) IN
    IF Len(b) < 2 THEN [st |-> Short]
    ELSE IF a.st # "ok" THEN a
    ELSE [st |-> "ok", msg |-> <<a.host, a.port, SubSeq(b, 1, 2)>>, rest |-> a.rest]

\* parse_socks5_udp_request: fragments, unknown types and truncated packets are dropped.
ParseSocksUdp(b) ==
    LET a == ReadAddr(Drop(b, 3), TRUE) IN
    IF Len(b) < 4 \/ b[3] # 0 \/ a.st # "ok" THEN Bad
    ELSE <<a.host, a.port, a.rest>>

-----------------------------------------------------------------------------
CodecInit ==
    /\ carrier \in {"tcp", "udp", "auth", "reply"}
    /\ written = <<>> /\ wire = <<>> /\ decoded = <<>>
    /\ writing = "open"
    /\ reading = IF carrier \in {"tcp", "udp"} THEN "header" ELSE "message"

\* The string that a reader gets for host h.
Name(h) == [h EXCEPT !.is = IF @ = "colon" THEN "name" ELSE @]

\* A batched write: everything or, when an encoder refuses, nothing and the stream is
\* given up.
WriteBatch(bytes, msg) ==
    IF bytes = Bad
    THEN writing' = "stopped" /\ UNCHANGED <<written, wire>>
    ELSE written' = Append(written, msg) /\ wire' = wire \o bytes /\ UNCHANGED writing

\* open_tcp_stream.
OpenTcp(h, p) ==
    /\ carrier = "tcp" /\ writing = "open" /\ written = <<>>
    /\ WriteBatch(ProxyHeader(1, h, p), <<h, IF h.bytes = <<>> THEN 0 ELSE p, <<>>>>)
    /\ UNCHANGED <<carrier, decoded, reading>>

\* open_udp_stream with its first datagram, then send_udp_datagram.
SendUdp(h, p, d) ==
    /\ carrier = "udp" /\ writing = "open" /\ Len(written) < MaxMsgs
    /\ WriteBatch(IF written = <<>> THEN Joined(<<ProxyHeader(3, h, p), Datagram(h, p, d)>>)
             ELSE Datagram(h, p, d), <<h, p, d>>)
    /\ UNCHANGED <<carrier, decoded, reading>>

\* relay_responses: the answer of an address to the stream, and to the application.
SendReply(h, p, d) ==
    /\ carrier = "reply" /\ Len(written) < MaxMsgs /\ Len(d) <= MaxU16
    /\ WriteBatch(Datagram(h, p, d), <<h, p, d>>)
    /\ UNCHANGED <<carrier, decoded, reading>>

\* What a failed write_underlay_auth_async leaves on the stream: iv, and psk if its
\* length was right.
AuthPrefix(pskOk) == IF pskOk THEN <<2, 1>> ELSE <<2>>

\* Mutant: the stream stays in use after a failed write.
SendAuth_KeepsStream(h, p, pskOk) ==
    LET meta == IF pskOk THEN UnderlayMetadata(h, p) ELSE Bad IN
    /\ carrier = "auth" /\ writing = "open" /\ Len(written) < MaxMsgs
    /\ wire' = wire \o AuthPrefix(pskOk) \o (IF meta = Bad THEN <<>> ELSE meta)
    /\ written' = IF meta = Bad THEN written ELSE Append(written, <<Name(h), p, AuthPrefix(pskOk)>>)
    /\ UNCHANGED <<carrier, decoded, reading, writing>>

\* send_underlay_auth writes piece by piece; an error part of the way gives the stream
\* up, and later calls find none.
SendAuth(h, p, pskOk) ==
    LET meta == IF pskOk THEN UnderlayMetadata(h, p) ELSE Bad IN
    /\ carrier = "auth" /\ writing = "open" /\ Len(written) < MaxMsgs
    /\ wire' = wire \o AuthPrefix(pskOk) \o (IF meta = Bad THEN <<>> ELSE meta)
    /\ written' = IF meta = Bad THEN written ELSE Append(written, <<Name(h), p, AuthPrefix(pskOk)>>)
    /\ writing' = IF meta = Bad THEN "stopped" ELSE writing
    /\ UNCHANGED <<carrier, decoded, reading>>

\* handle_stream reads the header; on a UDP stream the datagrams carry the address.
ServerReadsHeader ==
    LET r == ReadHeader(wire) IN
    /\ reading = "header" /\ wire # <<>> /\ r.st # Short
    /\ IF r.st = Bad THEN reading' = "ended" /\ UNCHANGED <<wire, decoded>>
       ELSE /\ reading' = "message" /\ wire' = r.rest
            /\ decoded' = IF wire[1] = 1 THEN Append(decoded, <<r.host, r.port, <<>>>>) ELSE decoded
    /\ UNCHANGED <<carrier, written, writing>>

\* One more message; the client repacks a reply for the application, which parses it.
ReadMessage ==
    LET r == IF carrier = "auth" THEN ReadAuth(wire) ELSE ReadDatagram(wire) IN
    /\ reading = "message" /\ carrier # "tcp" /\ r.st # Short
    /\ IF r.st = Bad THEN reading' = "ended" /\ UNCHANGED <<wire, decoded>>
       ELSE /\ wire' = r.rest
            /\ decoded' = Append(decoded, IF carrier = "reply"
                                  THEN ParseSocksUdp(SocksUdpPacket(r.msg[1], r.msg[2], r.msg[3])) ELSE r.msg)
            /\ UNCHANGED reading
    /\ UNCHANGED <<carrier, written, writing>>

CodecNext ==
    \/ ServerReadsHeader \/ ReadMessage
    \/ \E h \in Hosts, p \in Ports :
         \/ OpenTcp(h, p)
         \/ \E ok \in BOOLEAN : SendAuth(h, p, ok)
         \/ \E d \in Payloads : SendUdp(h, p, d) \/ (h \in IpHosts /\ SendReply(h, p, d))

CodecSpec == CodecInit /\ [][CodecNext]_codecVars

-----------------------------------------------------------------------------
(* Properties.                                                             *)

CodecTypeOK ==
    /\ carrier \in {"tcp", "udp", "auth", "reply"}
    /\ written \in Seq((Hosts \cup {Name(h) : h \in Hosts}) \X Ports \X (Payloads \cup {<<2, 1>>}))
    /\ Len(written) <= MaxMsgs
    /\ wire \in Seq(0..MaxU8)
    /\ writing \in {"open", "stopped"} /\ reading \in {"header", "message", "ended"}

\* The reader gets the messages the writer accepted, in order and unchanged, whatever
\* hosts, ports and sizes were refused in between: no message shifts the ones after it.
\* And what the writer of a stream header, a datagram or a reply accepts, the reader
\* accepts; only an auth frame can end its reader (an empty host).
RoundTrip ==
    /\ \A i \in DOMAIN decoded : i <= Len(written) /\ decoded[i] = written[i]
    /\ carrier # "auth" => reading # "ended"
=============================================================================
