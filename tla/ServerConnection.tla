------------------------- MODULE ServerConnection -------------------------
(***************************************************************************)
(* One QUIC connection at the server: handle_connection authenticates it,  *)
(* reads underlay credentials from the authentication stream, and accepts  *)
(* bidirectional streams, each handled by a task of the connection's       *)
(* JoinSet (server.rs).  A TCP stream relays inside its task; a UDP stream *)
(* spawns one task per direction and watches both.                         *)
(*                                                                         *)
(* Dropping the JoinSet aborts the stream tasks.  An aborted UDP stream    *)
(* task drops the join handles of its two relay tasks, which detaches them *)
(* and ends neither.                                                       *)
(***************************************************************************)
EXTENDS Naturals, FiniteSets

CONSTANTS
    Streams,    \* bidirectional streams the peer opens
    MaxCreds,   \* bound: underlay credentials the peer sends
    MaxDgrams   \* bound: datagrams relayed in either direction, per stream

ASSUME ConnConstants == MaxCreds \in Nat /\ MaxDgrams \in Nat

VARIABLES
    phase,      \* handle_connection: handshake, auth, serving, ended
    open,       \* the QUIC connection: TRUE until either side closes it or it times out
    closed,     \* the code the server closed it with: none, failed, timeout
    valid,      \* the peer sends version 0, Authenticate, a known user and its token
    authTask,   \* the reader of the authentication stream: none, running, ended
    creds,      \* credentials stored in the in-flight table
    stream,     \* stream[s]: the task of the JoinSet that handles s
    up, down,   \* up[s], down[s]: its quic_to_remote and remote_to_quic tasks
    socket,     \* streams whose outbound TCP or UDP socket is open
    dgrams      \* dgrams[s]: datagrams relayed

connVars == <<phase, open, closed, valid, authTask, creds, stream, up, down, socket, dgrams>>
streamVars == <<stream, up, down, socket, dgrams>>

\* queued: opened by the peer, not accepted; header, dial, tcp, first: in
\* handle_stream, handle_tcp_relay and handle_udp_relay; watch: in its select.
StreamPCs == {"none", "queued", "header", "dialTcp", "tcp", "first", "watch", "ended"}
TaskPCs == {"none", "running", "ended"}

ConnInit ==
    /\ phase = "handshake" /\ open = TRUE /\ closed = "none" /\ valid \in BOOLEAN
    /\ authTask = "none" /\ creds = 0
    /\ stream = [s \in Streams |-> "none"]
    /\ up = [s \in Streams |-> "none"] /\ down = [s \in Streams |-> "none"]
    /\ socket = {}
    /\ dgrams = [s \in Streams |-> 0]

-----------------------------------------------------------------------------
(* The peer and the transport.                                             *)

\* The peer opens a stream, which the server may do nothing about for a while.
PeerOpens(s) ==
    /\ open /\ stream[s] = "none"
    /\ stream' = [stream EXCEPT ![s] = "queued"]
    /\ UNCHANGED <<phase, open, closed, valid, authTask, creds, up, down, socket, dgrams>>

\* The peer closes the connection, or max_idle_timeout does.
PeerCloses ==
    /\ open /\ open' = FALSE
    /\ UNCHANGED <<phase, closed, valid, authTask, creds, streamVars>>

-----------------------------------------------------------------------------
(* handle_connection.                                                      *)

\* incoming.await.
Accepted ==
    /\ phase = "handshake"
    /\ phase' = IF open THEN "auth" ELSE "ended"
    /\ UNCHANGED <<open, closed, valid, authTask, creds, streamVars>>

\* Mutant: a failed authentication closes the connection and goes on to its streams.
AuthDone_FallsThrough ==
    /\ phase = "auth"
    /\ IF valid /\ open
       THEN phase' = "serving" /\ authTask' = "running" /\ UNCHANGED <<open, closed>>
       ELSE phase' = "serving" /\ closed' = "failed" /\ open' = FALSE /\ UNCHANGED authTask
    /\ UNCHANGED <<valid, creds, streamVars>>

\* handle_auth answers: it fails on a version, command, user or token it does not
\* expect, and on a connection that is gone.
AuthDone ==
    /\ phase = "auth"
    /\ IF valid /\ open
       THEN phase' = "serving" /\ authTask' = "running" /\ UNCHANGED <<open, closed>>
       ELSE phase' = "ended" /\ closed' = "failed" /\ open' = FALSE /\ UNCHANGED authTask
    /\ UNCHANGED <<valid, creds, streamVars>>

\* AUTHENTICATE_TIMEOUT passes first.
AuthTimeout ==
    /\ phase = "auth"
    /\ phase' = "ended" /\ closed' = "timeout" /\ open' = FALSE
    /\ UNCHANGED <<valid, authTask, creds, streamVars>>

\* The authentication stream delivers one more credential ...
StoreCred ==
    /\ authTask = "running" /\ open /\ creds < MaxCreds
    /\ creds' = creds + 1
    /\ UNCHANGED <<phase, open, closed, valid, authTask, streamVars>>

\* ... or ends: the peer finished it, sent what cannot be read, or is gone.
AuthStreamEnds ==
    /\ authTask = "running" /\ authTask' = "ended"
    /\ UNCHANGED <<phase, open, closed, valid, creds, streamVars>>

\* accept_bi.
AcceptBi(s) ==
    /\ phase = "serving" /\ open /\ stream[s] = "queued"
    /\ stream' = [stream EXCEPT ![s] = "header"]
    /\ UNCHANGED <<phase, open, closed, valid, authTask, creds, up, down, socket, dgrams>>

\* What dropping stream_tasks leaves: no stream task runs, and the sockets that the
\* tasks themselves own are closed.  A UDP socket is shared with the relay tasks.
Spawned == {s \in Streams : up[s] # "none"}
Detached == {s \in Spawned : up[s] = "running" \/ down[s] = "running"}

\* accept_bi fails: the authentication reader is aborted, then the JoinSet dropped.
ConnEnds ==
    /\ phase = "serving" /\ ~open
    /\ phase' = "ended"
    /\ authTask' = IF authTask = "running" THEN "ended" ELSE authTask
    /\ stream' = [s \in Streams |-> IF stream[s] = "none" THEN "none" ELSE "ended"]
    /\ socket' = socket \cap Detached
    /\ UNCHANGED <<open, closed, valid, creds, up, down, dgrams>>

-----------------------------------------------------------------------------
(* handle_stream, handle_tcp_relay and handle_udp_relay.                   *)

\* The task of stream s moves on, or ends and closes what it owns.
StreamGoes(s, pc) ==
    /\ stream' = [stream EXCEPT ![s] = pc]
    /\ socket' = IF pc = "ended" THEN socket \ {s} ELSE socket
    /\ UNCHANGED <<phase, open, closed, valid, authTask, creds, dgrams>>

\* The header: TCP, UDP, or one that cannot be read.
ReadHeader(s) ==
    /\ stream[s] = "header"
    /\ \E pc \in {"dialTcp", "first", "ended"} : (open \/ pc = "ended") /\ StreamGoes(s, pc)
    /\ UNCHANGED <<up, down>>

\* dial_tcp, then tcp::relay until it returns (module TcpRelay).
DialTcp(s) ==
    /\ stream[s] = "dialTcp"
    /\ \/ /\ stream' = [stream EXCEPT ![s] = "tcp"]
          /\ socket' = socket \cup {s}
          /\ UNCHANGED <<phase, open, closed, valid, authTask, creds, dgrams>>
       \/ StreamGoes(s, "ended")
    /\ UNCHANGED <<up, down>>

TcpRelayEnds(s) ==
    /\ stream[s] = "tcp"
    /\ StreamGoes(s, "ended")
    /\ UNCHANGED <<up, down>>

\* The first datagram of a UDP stream: a blocked port 443, a failed lookup, bind, read
\* or send ends the stream; otherwise both relay tasks are spawned.
FirstDatagram(s) ==
    /\ stream[s] = "first"
    /\ \/ StreamGoes(s, "ended") /\ UNCHANGED <<up, down>>
       \/ /\ open
          /\ stream' = [stream EXCEPT ![s] = "watch"]
          /\ socket' = socket \cup {s}
          /\ up' = [up EXCEPT ![s] = "running"]
          /\ down' = [down EXCEPT ![s] = "running"]
          /\ UNCHANGED <<phase, open, closed, valid, authTask, creds, dgrams>>

\* A relay task of s ends; the socket closes with the last one that holds it.
UdpTaskEnds(s, u, d) ==
    /\ up' = [up EXCEPT ![s] = u]
    /\ down' = [down EXCEPT ![s] = d]
    /\ socket' = IF u = "ended" /\ d = "ended" THEN socket \ {s} ELSE socket
    /\ UNCHANGED <<phase, open, closed, valid, authTask, creds, stream, dgrams>>

\* quic_to_remote reads a datagram and sends it on, or ends: a read, a lookup or a
\* send failed.
UpRelays(s) ==
    /\ up[s] = "running" /\ open /\ dgrams[s] < MaxDgrams
    /\ dgrams' = [dgrams EXCEPT ![s] = @ + 1]
    /\ UNCHANGED <<phase, open, closed, valid, authTask, creds, stream, up, down, socket>>

UpEnds(s) ==
    /\ up[s] = "running"
    /\ UdpTaskEnds(s, "ended", down[s])

\* relay_responses: a reply is written to the stream, which fails on a connection
\* that is gone.
Reply(s) ==
    /\ down[s] = "running" /\ dgrams[s] < MaxDgrams
    /\ IF open
       THEN /\ dgrams' = [dgrams EXCEPT ![s] = @ + 1]
            /\ UNCHANGED <<phase, open, closed, valid, authTask, creds, stream, up, down, socket>>
       ELSE UdpTaskEnds(s, up[s], "ended")

\* Mutant: relay_responses waits for the next reply without an idle timer.
DownIdle_NoTimer(s) ==
    /\ down[s] = "running" /\ open
    /\ UdpTaskEnds(s, up[s], "ended")

\* Its idle timer, DEFAULT_NAT_TIMEOUT after the last reply; a receive error also ends it.
DownIdle(s) ==
    /\ down[s] = "running"
    /\ UdpTaskEnds(s, up[s], "ended")

\* The select of handle_udp_relay: when one direction has ended the other is aborted,
\* and the stream task returns.
Watch(s) ==
    /\ stream[s] = "watch"
    /\ up[s] = "ended" \/ down[s] = "ended"
    /\ up' = [up EXCEPT ![s] = "ended"]
    /\ down' = [down EXCEPT ![s] = "ended"]
    /\ StreamGoes(s, "ended")

-----------------------------------------------------------------------------
ConnNext ==
    \/ PeerCloses \/ Accepted \/ AuthDone \/ AuthTimeout \/ StoreCred \/ AuthStreamEnds \/ ConnEnds
    \/ \E s \in Streams :
         \/ PeerOpens(s) \/ AcceptBi(s) \/ ReadHeader(s) \/ DialTcp(s) \/ TcpRelayEnds(s)
         \/ FirstDatagram(s) \/ UpRelays(s) \/ UpEnds(s) \/ Reply(s) \/ DownIdle(s) \/ Watch(s)

\* The runtime polls every ready task: accept_bi and the reads of a closed connection
\* return, and an idle timer that is not reset fires.
ConnFairness ==
    /\ WF_connVars(Accepted) /\ WF_connVars(AuthDone \/ AuthTimeout) /\ WF_connVars(ConnEnds)
    /\ \A s \in Streams :
         /\ WF_connVars(~open /\ UpEnds(s))
         /\ WF_connVars(DownIdle(s))
         /\ WF_connVars(Watch(s))

ConnSpec == ConnInit /\ [][ConnNext]_connVars /\ ConnFairness

-----------------------------------------------------------------------------
(* Properties.                                                             *)

ConnTypeOK ==
    /\ phase \in {"handshake", "auth", "serving", "ended"}
    /\ open \in BOOLEAN /\ valid \in BOOLEAN
    /\ closed \in {"none", "failed", "timeout"}
    /\ authTask \in TaskPCs /\ creds \in 0..MaxCreds
    /\ stream \in [Streams -> StreamPCs]
    /\ up \in [Streams -> TaskPCs] /\ down \in [Streams -> TaskPCs]
    /\ socket \subseteq Streams
    /\ dgrams \in [Streams -> 0..MaxDgrams]

\* Nothing is done for a peer that has not authenticated: streams it opened early stay
\* queued, no credential is stored and no outbound socket is opened.
AuthenticatedFirst ==
    ~valid => /\ phase # "serving" /\ creds = 0 /\ socket = {}
              /\ \A s \in Streams : stream[s] \in {"none", "queued"}

\* Once the connection is over, no relay keeps its outbound socket for ever.
SocketsReleased == phase = "ended" ~> socket = {}

\* When the connection handler returns, the sockets of its streams are closed: the
\* comments at server.rs:1091-1093 and :1138-1141 expect no wait for idle timeouts.
EndReleasesSockets == phase = "ended" => socket = {}
=============================================================================
