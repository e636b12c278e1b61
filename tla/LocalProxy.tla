---------------------------- MODULE LocalProxy ----------------------------
(***************************************************************************)
(* The inbound TCP side of the client: the accept loop shared by the mixed *)
(* SOCKS5/HTTP listener (local.rs) and the TCP port forwards               *)
(* (forwarder.rs), and the handler of each accepted connection.            *)
(*                                                                         *)
(* The bytes an application sends after the head of its request are        *)
(* numbered.  An HTTP head is read through a buffer, so some of those      *)
(* bytes may already be in it when the head is complete.                   *)
(***************************************************************************)
EXTENDS Naturals, Sequences, FiniteSets

CONSTANTS
    Conns,      \* connections applications make
    TcpPermits, \* MAX_CONCURRENT_TCP_CONNECTIONS
    MaxSent     \* bound: bytes an application sends after the head

ASSUME LocalConstants == TcpPermits \in Nat \ {0} /\ MaxSent \in Nat /\ IsFiniteSet(Conns)

VARIABLES
    forwards,   \* the listener is a port forward, which has no head to read
    acceptor,   \* the accept loop: acquire, accept, sleep
    free,       \* permits left in the semaphore
    kind,       \* kind[c]: what c asks for: socks, connect, plain (HTTP), udp, tunnel, other
    inbound,    \* inbound[c]: where its handler is
    sent,       \* sent[c]: bytes the application has sent
    app,        \* app[c]: open, half (it has closed its sending side), gone
    taken,      \* taken[c]: bytes read from its socket
    buffer,     \* buffer[c]: those still in the handler's buffer
    relayed,    \* relayed[c]: bytes written to the QUIC stream
    upCopy,     \* upCopy[c], downCopy[c]: the two copies: none, running, done
    downCopy,
    remoteEnd,  \* remoteEnd[c]: the server has finished the stream
    lost        \* lost[c]: the stream is gone, with its connection or by the server

localVars == <<forwards, acceptor, free, kind, inbound, sent, app, taken, buffer, relayed,
               upCopy, downCopy, remoteEnd, lost>>
dataVars == <<sent, taken, buffer, relayed>>
loopVars == <<forwards, acceptor, free>>

LocalPCs == {"none", "queued", "head", "open", "tunnel", "associate", "done"}
Active == {"head", "open", "tunnel", "associate"}

LocalInit ==
    /\ forwards \in BOOLEAN
    /\ acceptor = "acquire" /\ free = TcpPermits
    /\ kind \in [Conns -> IF forwards THEN {"tunnel"} ELSE {"socks", "connect", "plain", "udp", "other"}]
    /\ inbound = [c \in Conns |-> "none"]
    /\ sent = [c \in Conns |-> 0] /\ taken = [c \in Conns |-> 0]
    /\ app = [c \in Conns |-> "open"]
    /\ buffer = [c \in Conns |-> <<>>] /\ relayed = [c \in Conns |-> <<>>]
    /\ upCopy = [c \in Conns |-> "none"] /\ downCopy = [c \in Conns |-> "none"]
    /\ remoteEnd = [c \in Conns |-> FALSE] /\ lost = [c \in Conns |-> FALSE]

-----------------------------------------------------------------------------
(* The application and the server.                                         *)

AppConnects(c) ==
    /\ inbound[c] = "none"
    /\ inbound' = [inbound EXCEPT ![c] = "queued"]
    /\ UNCHANGED <<loopVars, kind, dataVars, app, upCopy, downCopy, remoteEnd, lost>>

AppSends(c) ==
    /\ inbound[c] \in Active /\ app[c] = "open" /\ sent[c] < MaxSent
    /\ sent' = [sent EXCEPT ![c] = @ + 1]
    /\ UNCHANGED <<loopVars, kind, inbound, taken, buffer, relayed, app, upCopy, downCopy, remoteEnd, lost>>

AppCloses(c) ==
    /\ inbound[c] \in Active
    /\ \E a \in {"half", "gone"} \ {app[c]} : app[c] # "gone" /\ app' = [app EXCEPT ![c] = a]
    /\ UNCHANGED <<loopVars, kind, inbound, dataVars, upCopy, downCopy, remoteEnd, lost>>

ServerFinishes(c) ==
    /\ inbound[c] = "tunnel" /\ ~remoteEnd[c]
    /\ remoteEnd' = [remoteEnd EXCEPT ![c] = TRUE]
    /\ UNCHANGED <<loopVars, kind, inbound, dataVars, app, upCopy, downCopy, lost>>

\* The QUIC connection closes, or the server's relay ends early and drops both halves of
\* the stream: quinn then stops the one and finishes the other, so writes fail and the
\* answer ends, as on a closed connection.  Neither side resets a single half.
ConnectionLost(c) ==
    /\ inbound[c] = "tunnel" /\ ~lost[c]
    /\ lost' = [lost EXCEPT ![c] = TRUE]
    /\ UNCHANGED <<loopVars, kind, inbound, dataVars, app, upCopy, downCopy, remoteEnd>>

-----------------------------------------------------------------------------
(* The accept loop.                                                        *)

AcquirePermit ==
    /\ acceptor = "acquire" /\ free > 0
    /\ acceptor' = "accept" /\ free' = free - 1
    /\ UNCHANGED <<forwards, kind, inbound, dataVars, app, upCopy, downCopy, remoteEnd, lost>>

\* The new task owns the permit.  A port forward goes straight to open_tcp_stream.
AcceptConn(c) ==
    /\ acceptor = "accept" /\ inbound[c] = "queued"
    /\ acceptor' = "acquire"
    /\ inbound' = [inbound EXCEPT ![c] = IF forwards THEN "open" ELSE "head"]
    /\ UNCHANGED <<forwards, free, kind, dataVars, app, upCopy, downCopy, remoteEnd, lost>>

\* An accept error gives the permit back before the pause.
AcceptFails ==
    /\ acceptor = "accept"
    /\ acceptor' = "sleep" /\ free' = free + 1
    /\ UNCHANGED <<forwards, kind, inbound, dataVars, app, upCopy, downCopy, remoteEnd, lost>>

Resume ==
    /\ acceptor = "sleep" /\ acceptor' = "acquire"
    /\ UNCHANGED <<forwards, free, kind, inbound, dataVars, app, upCopy, downCopy, remoteEnd, lost>>

-----------------------------------------------------------------------------
(* A handler.                                                              *)

\* The handler returns: the permit and both sockets are dropped, and what they held is
\* forgotten.
Ends(c) ==
    /\ inbound' = [inbound EXCEPT ![c] = "done"]
    /\ free' = free + 1
    /\ sent' = [sent EXCEPT ![c] = 0] /\ taken' = [taken EXCEPT ![c] = 0]
    /\ buffer' = [buffer EXCEPT ![c] = <<>>] /\ relayed' = [relayed EXCEPT ![c] = <<>>]
    /\ app' = [app EXCEPT ![c] = "open"]
    /\ upCopy' = [upCopy EXCEPT ![c] = "none"] /\ downCopy' = [downCopy EXCEPT ![c] = "none"]
    /\ remoteEnd' = [remoteEnd EXCEPT ![c] = FALSE] /\ lost' = [lost EXCEPT ![c] = FALSE]
    /\ UNCHANGED <<forwards, acceptor, kind>>

\* The head is complete, with n of the bytes that follow it already in the buffer.
HeadRead(c, next, n) ==
    /\ inbound[c] = "head"
    /\ inbound' = [inbound EXCEPT ![c] = next]
    /\ taken' = [taken EXCEPT ![c] = n]
    /\ buffer' = [buffer EXCEPT ![c] = [i \in 1..n |-> i]]
    /\ UNCHANGED <<loopVars, kind, sent, relayed, app, upCopy, downCopy, remoteEnd, lost>>

\* handle_socks5 reads its head without a buffer; UDP ASSOCIATE binds its socket and
\* answers with the address.
ReadSocksHead(c) ==
    /\ kind[c] \in {"socks", "udp"}
    /\ HeadRead(c, IF kind[c] = "udp" THEN "associate" ELSE "open", 0)

\* handle_http_proxy reads through a BufReader, which may hold bytes that follow the head.
ReadHttpHead(c) ==
    /\ kind[c] \in {"connect", "plain"}
    /\ \E n \in 0..sent[c] : HeadRead(c, "open", n)

\* A malformed head, an unknown SOCKS5 command or address type, an HTTP target without a
\* host, and a UDP socket that cannot be bound end the connection.
RefuseHead(c) ==
    /\ inbound[c] = "head"
    /\ Ends(c)

\* Mutant: the deadline bounds the first byte only, and a silent head is waited for.
HeadTimeout_PeekOnly(c) ==
    /\ inbound[c] = "head" /\ sent[c] > 0
    /\ Ends(c)

\* INBOUND_HEAD_TIMEOUT covers the peek and the whole head.
HeadTimeout(c) ==
    /\ inbound[c] = "head"
    /\ Ends(c)

\* The control connection of a UDP association: the end of it, and any byte on it, ends
\* the association (module UdpSessions).
AssociateEnds(c) ==
    /\ inbound[c] = "associate" /\ (app[c] # "open" \/ taken[c] < sent[c])
    /\ Ends(c)

\* Mutant: the bytes in the head's buffer are lost with it.
Opened_DropsBuffer(c, early) ==
    /\ inbound' = [inbound EXCEPT ![c] = "tunnel"]
    /\ upCopy' = [upCopy EXCEPT ![c] = "running"] /\ downCopy' = [downCopy EXCEPT ![c] = "running"]
    /\ buffer' = [buffer EXCEPT ![c] = <<>>]
    /\ UNCHANGED <<loopVars, kind, sent, taken, relayed, app, remoteEnd, lost>>

\* The stream is open and both copies run; with `early` the bytes of the buffer have been
\* written to the stream before.
Opened(c, early) ==
    /\ inbound' = [inbound EXCEPT ![c] = "tunnel"]
    /\ upCopy' = [upCopy EXCEPT ![c] = "running"] /\ downCopy' = [downCopy EXCEPT ![c] = "running"]
    /\ IF early
       THEN relayed' = [relayed EXCEPT ![c] = buffer[c]] /\ buffer' = [buffer EXCEPT ![c] = <<>>]
       ELSE UNCHANGED <<buffer, relayed>>
    /\ UNCHANGED <<loopVars, kind, sent, taken, app, remoteEnd, lost>>

\* open_tcp_stream answers a SOCKS5 CONNECT or a port forward, which copies at once.
OpenStream(c) ==
    /\ inbound[c] = "open" /\ kind[c] \in {"socks", "tunnel"}
    /\ Opened(c, FALSE)

\* An HTTP CONNECT writes the leftover of its buffer before it copies from the socket.
OpenConnect(c) ==
    /\ inbound[c] = "open" /\ kind[c] = "connect"
    /\ Opened(c, TRUE)

\* A plain request is rewritten and sent; the body is copied from the buffered reader.
OpenForward(c) ==
    /\ inbound[c] = "open" /\ kind[c] = "plain"
    /\ Opened(c, FALSE)

\* A stream that cannot be opened, and a reply or a request that cannot be written, end
\* the connection; SOCKS5 sends a failure reply first.
StreamFails(c) ==
    /\ inbound[c] = "open"
    /\ Ends(c)

\* The copy to the stream moves one byte, from the buffer first; writing to a stream
\* that is gone fails.
CopyUp(c) ==
    /\ upCopy[c] = "running"
    /\ IF lost[c] /\ (buffer[c] # <<>> \/ taken[c] < sent[c])
       THEN upCopy' = [upCopy EXCEPT ![c] = "done"] /\ UNCHANGED <<taken, buffer, relayed>>
       ELSE /\ \/ /\ buffer[c] # <<>>
                  /\ relayed' = [relayed EXCEPT ![c] = Append(@, Head(buffer[c]))]
                  /\ buffer' = [buffer EXCEPT ![c] = Tail(@)]
                  /\ UNCHANGED taken
               \/ /\ buffer[c] = <<>> /\ taken[c] < sent[c]
                  /\ taken' = [taken EXCEPT ![c] = @ + 1]
                  /\ relayed' = [relayed EXCEPT ![c] = Append(@, taken[c] + 1)]
                  /\ UNCHANGED buffer
            /\ UNCHANGED upCopy
    /\ UNCHANGED <<loopVars, kind, inbound, sent, app, downCopy, remoteEnd, lost>>

\* End of input: the stream is finished, or finishing it fails.  A reset is a read error.
CopyUpEnds(c) ==
    /\ upCopy[c] = "running" /\ buffer[c] = <<>>
    /\ (app[c] = "half" /\ taken[c] = sent[c]) \/ app[c] = "gone"
    /\ upCopy' = [upCopy EXCEPT ![c] = "done"]
    /\ UNCHANGED <<loopVars, kind, inbound, dataVars, app, downCopy, remoteEnd, lost>>

\* The copy of the answer ends when the server has finished the stream, when it is
\* gone, or when the application no longer takes it.
CopyDownEnds(c) ==
    /\ downCopy[c] = "running" /\ (remoteEnd[c] \/ lost[c] \/ app[c] = "gone")
    /\ downCopy' = [downCopy EXCEPT ![c] = "done"]
    /\ UNCHANGED <<loopVars, kind, inbound, dataVars, app, upCopy, remoteEnd, lost>>

\* Mutant: the first copy to end ends the tunnel.
TunnelOver_Either(c) == upCopy[c] = "done" \/ downCopy[c] = "done"

\* join! waits for both copies.  Plain HTTP ends with the answer and aborts the task
\* that relays the body.
TunnelOver(c) == downCopy[c] = "done" /\ (kind[c] = "plain" \/ upCopy[c] = "done")

TunnelEnds(c) ==
    /\ inbound[c] = "tunnel" /\ TunnelOver(c)
    /\ Ends(c)

-----------------------------------------------------------------------------
LocalNext ==
    \/ AcquirePermit \/ AcceptFails \/ Resume
    \/ \E c \in Conns :
         \/ AppConnects(c) \/ AppSends(c) \/ AppCloses(c) \/ ServerFinishes(c) \/ ConnectionLost(c)
         \/ AcceptConn(c) \/ ReadSocksHead(c) \/ ReadHttpHead(c) \/ RefuseHead(c) \/ HeadTimeout(c)
         \/ AssociateEnds(c) \/ OpenStream(c) \/ OpenConnect(c) \/ OpenForward(c) \/ StreamFails(c)
         \/ CopyUp(c) \/ CopyUpEnds(c) \/ CopyDownEnds(c) \/ TunnelEnds(c)

\* Timers fire and ready tasks are polled; connect, open_bi, the application and the
\* server owe nothing.
LocalFairness ==
    /\ WF_localVars(AcquirePermit) /\ WF_localVars(Resume)
    /\ \A c \in Conns :
         /\ WF_localVars(HeadTimeout(c)) /\ WF_localVars(AssociateEnds(c)) /\ WF_localVars(TunnelEnds(c))
         /\ WF_localVars(CopyUp(c) \/ CopyUpEnds(c)) /\ WF_localVars(CopyDownEnds(c))

LocalSpec == LocalInit /\ [][LocalNext]_localVars /\ LocalFairness

-----------------------------------------------------------------------------
(* Properties.                                                             *)

LocalTypeOK ==
    /\ forwards \in BOOLEAN /\ acceptor \in {"acquire", "accept", "sleep"}
    /\ free \in 0..TcpPermits
    /\ kind \in [Conns -> {"socks", "connect", "plain", "udp", "tunnel", "other"}]
    /\ inbound \in [Conns -> LocalPCs]
    /\ sent \in [Conns -> 0..MaxSent] /\ \A c \in Conns : taken[c] \in 0..sent[c]
    /\ app \in [Conns -> {"open", "half", "gone"}]
    /\ remoteEnd \in [Conns -> BOOLEAN] /\ lost \in [Conns -> BOOLEAN]
    /\ \A c \in Conns : buffer[c] \in Seq(1..MaxSent) /\ relayed[c] \in Seq(1..MaxSent)
    /\ upCopy \in [Conns -> {"none", "running", "done"}]
    /\ downCopy \in [Conns -> {"none", "running", "done"}]

\* The stream carries what the application sent after its head, in order and without a
\* gap, also when part of it came in with the head (CONNECT's leftover and the body of a
\* plain request).
RelayedInOrder == \A c \in Conns : relayed[c] = [i \in 1..Len(relayed[c]) |-> i]

\* Closing one direction of a tunnel does not cut the other: the handler returns only
\* after the answer has ended, and with no byte of the input unsent except by plain HTTP,
\* whose answer ends the exchange.  An application or a stream that is gone is no
\* longer owed this.
HalfCloseKept ==
    [][\A c \in Conns :
         inbound[c] = "tunnel" /\ inbound'[c] = "done" =>
           app[c] = "gone" \/ lost[c] \/
             (remoteEnd[c] /\ (kind[c] = "plain" \/ (app[c] = "half" /\ Len(relayed[c]) = sent[c])))]_localVars

\* Every permit comes back: no handler waits for ever for a head, and none outlives an
\* application that has closed its side once the server has finished or the stream is
\* gone.
HandlersEnd ==
    \A c \in Conns :
      /\ inbound[c] = "head" ~> inbound[c] # "head"
      /\ inbound[c] = "tunnel" /\ app[c] # "open" /\ (remoteEnd[c] \/ lost[c]) ~> inbound[c] = "done"
=============================================================================
