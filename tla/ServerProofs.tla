---------------------------- MODULE ServerProofs ----------------------------
(***************************************************************************)
(* Proofs about the parts of the server that own tasks: the connection     *)
(* handler, the certificate reload, the shutdown and the underlay data     *)
(* path of one address.                                                    *)
(***************************************************************************)
EXTENDS ServerConnection, CertReload, ServerShutdown, UnderlaySession, WellFoundedInduction, TLAPS

-----------------------------------------------------------------------------
(* ServerConnection.                                                       *)

\* Behind AuthenticatedFirst: without authentication nothing runs that could store a
\* credential or open a socket.
Unauthenticated ==
    ~valid => /\ authTask = "none"
              /\ \A s \in Streams : up[s] = "none" /\ down[s] = "none"

ConnInv == ConnTypeOK /\ AuthenticatedFirst /\ Unauthenticated

\* A new connection satisfies the invariant.
LEMMA ConnInitInv == ConnInit => ConnInv
BY ConnConstants DEF ConnInit, ConnInv, ConnTypeOK, AuthenticatedFirst, Unauthenticated, TaskPCs, StreamPCs

\* Every step of the connection, its streams and its relay tasks keeps the types.
LEMMA ConnTypeStep == ConnTypeOK /\ [ConnNext]_connVars => ConnTypeOK'
<1> SUFFICES ASSUME ConnTypeOK, [ConnNext]_connVars PROVE ConnTypeOK'
  OBVIOUS
<1> USE ConnConstants DEF ConnTypeOK, TaskPCs, StreamPCs, streamVars
<1>0. CASE PeerCloses \/ Accepted \/ AuthTimeout
  BY <1>0 DEF PeerCloses, Accepted, AuthTimeout
<1>1. CASE AuthDone
  <2>1. CASE valid /\ open
    BY <1>1, <2>1 DEF AuthDone
  <2>2. CASE ~(valid /\ open)
    BY <1>1, <2>2 DEF AuthDone
  <2> QED BY <2>1, <2>2
<1>7. CASE StoreCred \/ AuthStreamEnds
  BY <1>7 DEF StoreCred, AuthStreamEnds
<1>2. CASE ConnEnds
  BY <1>2 DEF ConnEnds
<1>3. ASSUME NEW s \in Streams, PeerOpens(s) \/ AcceptBi(s) PROVE ConnTypeOK'
  BY <1>3 DEF PeerOpens, AcceptBi
<1>4. ASSUME NEW s \in Streams, ReadHeader(s) \/ DialTcp(s) \/ TcpRelayEnds(s) \/ FirstDatagram(s) \/ Watch(s)
      PROVE ConnTypeOK'
  BY <1>4 DEF ReadHeader, DialTcp, TcpRelayEnds, FirstDatagram, Watch, StreamGoes
<1>5. ASSUME NEW s \in Streams, UpRelays(s) \/ UpEnds(s) \/ Reply(s) \/ DownIdle(s) PROVE ConnTypeOK'
  BY <1>5 DEF UpRelays, UpEnds, Reply, DownIdle, UdpTaskEnds
<1>6. CASE UNCHANGED connVars
  BY <1>6 DEF connVars
<1> QED BY <1>0, <1>1, <1>2, <1>3, <1>4, <1>5, <1>6, <1>7 DEF ConnNext

\* Every step keeps an unauthenticated peer out.
LEMMA ConnAuthStep == ConnInv /\ [ConnNext]_connVars => (AuthenticatedFirst /\ Unauthenticated)'
<1> SUFFICES ASSUME ConnInv, [ConnNext]_connVars, ~valid'
             PROVE  (AuthenticatedFirst /\ Unauthenticated)'
  BY DEF AuthenticatedFirst, Unauthenticated
<1>0. ~valid
  BY DEF ConnNext, connVars, streamVars, PeerCloses, Accepted, AuthDone, AuthTimeout, StoreCred,
         AuthStreamEnds, ConnEnds, PeerOpens, AcceptBi, ReadHeader, DialTcp, TcpRelayEnds, FirstDatagram,
         UpRelays, UpEnds, Reply, DownIdle, Watch, StreamGoes, UdpTaskEnds
<1> USE <1>0 DEF ConnInv, ConnTypeOK, AuthenticatedFirst, Unauthenticated, streamVars
<1>1. CASE PeerCloses \/ Accepted \/ AuthDone \/ AuthTimeout \/ StoreCred \/ AuthStreamEnds
  BY <1>1 DEF PeerCloses, Accepted, AuthDone, AuthTimeout, StoreCred, AuthStreamEnds
<1>2. CASE ConnEnds
  BY <1>2 DEF ConnEnds
<1>3. ASSUME NEW s \in Streams, PeerOpens(s) \/ AcceptBi(s)
      PROVE  (AuthenticatedFirst /\ Unauthenticated)'
  BY <1>3 DEF PeerOpens, AcceptBi
\* These need a stream that was accepted, or a running relay task.
<1>4. ASSUME NEW s \in Streams,
             \/ ReadHeader(s) \/ DialTcp(s) \/ TcpRelayEnds(s) \/ FirstDatagram(s) \/ Watch(s)
             \/ UpRelays(s) \/ UpEnds(s) \/ Reply(s) \/ DownIdle(s)
      PROVE  FALSE
  BY <1>4 DEF ReadHeader, DialTcp, TcpRelayEnds, FirstDatagram, Watch, UpRelays, UpEnds, Reply, DownIdle
<1>5. CASE UNCHANGED connVars
  BY <1>5 DEF connVars
<1> QED BY <1>1, <1>2, <1>3, <1>4, <1>5 DEF ConnNext

\* The connection's state is well typed.
THEOREM ConnTypeCorrect == ConnSpec => []ConnTypeOK
<1>1. ConnInit => ConnTypeOK
  BY ConnInitInv DEF ConnInv
<1> QED BY <1>1, ConnTypeStep, PTL DEF ConnSpec

\* A peer that has not authenticated gets no stream handled, no credential stored and no
\* outbound socket, for any number of streams (handle_connection returns before the auth
\* reader and the accept loop start).
THEOREM AuthenticationGate == ConnSpec => []AuthenticatedFirst
<1>1. ConnInv /\ [ConnNext]_connVars => ConnInv'
  BY ConnTypeStep, ConnAuthStep DEF ConnInv
<1>2. ConnInv => AuthenticatedFirst
  BY DEF ConnInv
<1> QED BY ConnInitInv, <1>1, <1>2, PTL DEF ConnSpec

\* Nothing keeps a socket but a task that runs: a TCP stream's own task, or one of the two
\* relay tasks of a UDP stream, also after the connection's JoinSet was dropped.  Every
\* relay task of a stream is spawned with the other one.
SocketsOwned ==
    /\ \A s \in socket : stream[s] = "tcp" \/ up[s] = "running" \/ down[s] = "running"
    /\ \A s \in Streams : up[s] = "none" <=> down[s] = "none"

\* Every step closes the socket with the last task that holds it.
LEMMA SocketsOwnedStep == ConnTypeOK /\ SocketsOwned /\ [ConnNext]_connVars => SocketsOwned'
<1> SUFFICES ASSUME ConnTypeOK, SocketsOwned, [ConnNext]_connVars PROVE SocketsOwned'
  OBVIOUS
<1> USE DEF ConnTypeOK, SocketsOwned, streamVars
<1>1. CASE PeerCloses \/ Accepted \/ AuthDone \/ AuthTimeout \/ StoreCred \/ AuthStreamEnds
  BY <1>1 DEF PeerCloses, Accepted, AuthDone, AuthTimeout, StoreCred, AuthStreamEnds
<1>2. CASE ConnEnds
  BY <1>2 DEF ConnEnds, Detached, Spawned
<1>3. ASSUME NEW s \in Streams, PeerOpens(s) \/ AcceptBi(s) PROVE SocketsOwned'
  BY <1>3 DEF PeerOpens, AcceptBi
<1>4. ASSUME NEW s \in Streams, ReadHeader(s) \/ DialTcp(s) \/ TcpRelayEnds(s) PROVE SocketsOwned'
  BY <1>4 DEF ReadHeader, DialTcp, TcpRelayEnds, StreamGoes
<1>5. ASSUME NEW s \in Streams, FirstDatagram(s) \/ Watch(s) PROVE SocketsOwned'
  BY <1>5 DEF FirstDatagram, Watch, StreamGoes
<1>6. ASSUME NEW s \in Streams, UpRelays(s) PROVE SocketsOwned'
  BY <1>6 DEF UpRelays
<1>7. ASSUME NEW s \in Streams, UpEnds(s) PROVE SocketsOwned'
  BY <1>7 DEF UpEnds, UdpTaskEnds, TaskPCs
<1>8. ASSUME NEW s \in Streams, DownIdle(s) \/ Reply(s) PROVE SocketsOwned'
  BY <1>8 DEF DownIdle, Reply, UdpTaskEnds, TaskPCs
<1>9. CASE UNCHANGED connVars
  BY <1>9 DEF connVars
<1> QED BY <1>1, <1>2, <1>3, <1>4, <1>5, <1>6, <1>7, <1>8, <1>9 DEF ConnNext

\* No socket leaks: whatever ends a stream, a connection or a relay task, an outbound
\* socket that is still open is held by a task that is still running (the safety half of
\* SocketsReleased).
THEOREM NoSocketLeak == ConnSpec => []SocketsOwned
<1>1. ConnInit => ConnTypeOK /\ SocketsOwned
  BY ConnInitInv DEF ConnInit, ConnInv, SocketsOwned
<1>2. ConnTypeOK /\ SocketsOwned /\ [ConnNext]_connVars => (ConnTypeOK /\ SocketsOwned)'
  BY ConnTypeStep, SocketsOwnedStep
<1> QED BY <1>1, <1>2, PTL DEF ConnSpec

-----------------------------------------------------------------------------
(* CertReload.                                                             *)

CertInv == CertTypeOK /\ ServedPairMatches

\* The resolver starts with the matching pair that new() loaded.
LEMMA CertInitInv == CertInit => CertInv
BY CertReloadConstants DEF CertInit, CertInv, CertTypeOK, ServedPairMatches, Cert, Times, ReloadPCs

\* Every write of the files and every step of a reload keeps the types and the match.
LEMMA CertStep == CertInv /\ [CertNext]_certVars => CertInv'
<1> SUFFICES ASSUME CertInv, [CertNext]_certVars PROVE CertInv'
  OBVIOUS
<1> USE CertReloadConstants DEF CertInv, CertTypeOK, ServedPairMatches, Cert, Times, ReloadPCs, files, ReloadGoto
<1>1. CASE WriteCert
  BY <1>1 DEF WriteCert
<1>2. CASE WriteKey
  BY <1>2 DEF WriteKey
<1>3. CASE Wakes \/ StatFails \/ Compare
  BY <1>3 DEF Wakes, StatFails, Compare
<1>4. CASE StatCert \/ StatKey
  BY <1>4 DEF StatCert, StatKey
<1>5. CASE LoadCert
  BY <1>5 DEF LoadCert
<1>6. CASE LoadKey
  BY <1>6 DEF LoadKey
<1>7. CASE UNCHANGED certVars
  BY <1>7 DEF certVars
<1> QED BY <1>1, <1>2, <1>3, <1>4, <1>5, <1>6, <1>7 DEF CertNext, Reload

\* A handshake is never served a certificate with the key of another, however the renewal
\* interleaves its writes with the reads of a reload and whatever it leaves half written.
THEOREM PairAlwaysMatches == CertSpec => []ServedPairMatches
<1>1. CertInv => ServedPairMatches
  BY DEF CertInv
<1> QED BY CertInitInv, CertStep, <1>1, PTL DEF CertSpec

-----------------------------------------------------------------------------
(* ServerShutdown.                                                         *)

\* What the return of serve_with_shutdown rests on: a worker that ended left no handler
\* running, and no worker is left when the main task returns.
NoneLeftBehind ==
    /\ \A w \in Workers : Ended(w) => \A s \in Permits : conn[w][s] # "running"
    /\ main = "returned" => \A w \in Workers : Ended(w)

ShutdownInv == ShutdownTypeOK /\ NoneLeftBehind

\* A server that has just started satisfies the invariant.
LEMMA ShutdownInitInv == ShutdownInit => ShutdownInv
BY ServerShutdownConstants
DEF ShutdownInit, ShutdownInv, ShutdownTypeOK, NoneLeftBehind, Ended, WorkerStates, ConnStates

\* Every step of the workers, the handlers, the main task and the clock keeps it.
LEMMA ShutdownStep == ShutdownInv /\ [ShutdownNext]_shutdownVars => ShutdownInv'
<1> SUFFICES ASSUME ShutdownInv, [ShutdownNext]_shutdownVars PROVE ShutdownInv'
  OBVIOUS
<1> USE ServerShutdownConstants
    DEF ShutdownInv, ShutdownTypeOK, NoneLeftBehind, Ended, WorkerStates, ConnStates
<1>1. ASSUME NEW w \in Workers, Accept(w) PROVE ShutdownInv'
  BY <1>1 DEF Accept
<1>2. ASSUME NEW w \in Workers, SpawnHandler(w) PROVE ShutdownInv'
  BY <1>2 DEF SpawnHandler
<1>3. ASSUME NEW w \in Workers, HandlerEnds(w) \/ HandlerDropped(w) PROVE ShutdownInv'
  <2>1. PICK s \in Permits : conn' = [conn EXCEPT ![w][s] = "free"]
    BY <1>3 DEF HandlerEnds, HandlerDropped
  <2>2. UNCHANGED <<worker, deadline, main, conns, elapsed>>
    BY <1>3 DEF HandlerEnds, HandlerDropped
  <2> QED BY <2>1, <2>2
<1>4. ASSUME NEW w \in Workers, StopAccepting(w) PROVE ShutdownInv'
  BY <1>4 DEF StopAccepting
<1>5. ASSUME NEW w \in Workers, DrainEnds(w) PROVE ShutdownInv'
  <2>1. CASE Emptied(w) /\ worker' = [worker EXCEPT ![w] = "done"] /\ UNCHANGED conn
    BY <1>5, <2>1 DEF DrainEnds, Emptied
  <2>2. CASE worker' = [worker EXCEPT ![w] = "abort"] /\ conn' = [conn EXCEPT ![w] = AbortAll(@)]
    BY <1>5, <2>2 DEF DrainEnds, AbortAll
  <2> QED BY <1>5, <2>1, <2>2 DEF DrainEnds
<1>6. ASSUME NEW w \in Workers, AbortEnds(w) PROVE ShutdownInv'
  BY <1>6 DEF AbortEnds, Emptied
<1>7. ASSUME NEW w \in Workers, WorkerDropped(w) PROVE ShutdownInv'
  BY <1>7 DEF WorkerDropped, AbortAll
<1>8. CASE RequestShutdown \/ ForceAbort \/ JoinWorkers
  BY <1>8 DEF RequestShutdown, ForceAbort, JoinWorkers
<1>9. CASE SecondPasses
  BY <1>9 DEF SecondPasses
<1>10. CASE ShutdownFinished \/ UNCHANGED shutdownVars
  BY <1>10 DEF ShutdownFinished, shutdownVars
<1> QED BY <1>1, <1>2, <1>3, <1>4, <1>5, <1>6, <1>7, <1>8, <1>9, <1>10 DEF ShutdownNext, WorkerStep

\* serve_with_shutdown returns with every worker joined and no handler running, also when
\* workers were aborted while they waited for a permit (the safety half of Returns).
THEOREM NothingRunsAfterReturn ==
    ShutdownSpec => [](main = "returned" => \A w \in Workers, s \in Permits : conn[w][s] # "running")
<1>1. ShutdownInv => (main = "returned" => \A w \in Workers, s \in Permits : conn[w][s] # "running")
  BY DEF ShutdownInv, NoneLeftBehind
<1> QED BY ShutdownInitInv, ShutdownStep, <1>1, PTL DEF ShutdownSpec

-----------------------------------------------------------------------------
(* UnderlaySession.                                                        *)

\* Every endpoint that something refers to was created, and none has a relay-back task
\* before it is.
EndpointsKnown ==
    /\ \A e \in Endpoints : target[e] = NoUnderlay => relay[e] = "none"
    /\ pool # NoUnderlay => target[pool] # NoUnderlay
    /\ loop.ep # NoUnderlay => target[loop.ep] # NoUnderlay
    /\ \A h \in Handlers : handler[h].ep # NoUnderlay => target[handler[h].ep] # NoUnderlay

\* What the packet loop and a handler have in hand when they get to a label; a new
\* endpoint is the handler's own until its session is inserted.
FramesFilled ==
    /\ loop.pc # "idle" => loop.pkt # NoUnderlay
    /\ loop.pc = "send" => loop.ep # NoUnderlay
    /\ \A h \in Handlers :
         /\ handler[h].pc # "idle" => handler[h].pkt # NoUnderlay
         /\ handler[h].pc \notin {"idle", "lookup", "evict"} => handler[h].cred # NoUnderlay
         /\ handler[h].pc \in {"insert", "send"} => handler[h].ep # NoUnderlay
         /\ handler[h].isNew =>
              handler[h].pc \in {"insert", "send"} /\ target[handler[h].ep] = handler[h].cred

UnderlayInv == UnderlayTypeOK /\ EndpointsKnown /\ FramesFilled /\ NoOrphanRelay

\* A nonempty set of naturals has a least member: the principle behind identities that
\* are handed out in order.
LEMMA LeastNatural ==
    ASSUME NEW T \in SUBSET Nat, T # {}
    PROVE  \E x \in T : \A y \in T : ~(y < x)
<1>1. PICK x \in T : \A y \in T : ~(<<y, x>> \in OpToRel(<, Nat))
  BY NatLessThanWellFounded, WFMin, Zenon
<1>2. \A y \in T : y < x => <<y, x>> \in OpToRel(<, Nat)
  BY Zenon DEF OpToRel
<1> QED BY <1>1, <1>2

\* A creation takes an endpoint that nothing has used.
LEMMA NextEndpointFresh ==
    ASSUME UnderlayTypeOK, CanCreate
    PROVE  NextEndpoint \in Endpoints /\ target[NextEndpoint] = NoUnderlay
<1> DEFINE T == {e \in Endpoints : target[e] = NoUnderlay}
<1>1. T \in SUBSET Nat /\ T # {}
  BY UnderlayConstants DEF CanCreate, Endpoints
<1>2. PICK x \in T : \A y \in T : ~(y < x)
  BY <1>1, LeastNatural
<1>3. \E e \in Endpoints : target[e] = NoUnderlay /\ \A d \in Endpoints : d < e => target[d] # NoUnderlay
  BY <1>2
<1> QED BY <1>3 DEF NextEndpoint

\* abort() stops nothing but the task it is called for.
LEMMA AbortOnly ==
    ASSUME NEW r \in [Endpoints -> RelayStates], NEW e \in Option(Endpoints)
    PROVE  /\ Abort(r, e) \in [Endpoints -> RelayStates]
           /\ \A d \in Endpoints : Abort(r, e)[d] = "running" => r[d] = "running" /\ d # e
           /\ \A d \in Endpoints : r[d] = "none" => Abort(r, e)[d] = "none"
BY UnderlayConstants DEF Abort, RelayStates, Option, Endpoints

\* Invalidating the session, by whatever task: no session is left, and every relay-back
\* task that runs on was not the session's.
LEMMA InvalidateStops ==
    ASSUME UnderlayTypeOK, NEW r \in [Endpoints -> RelayStates], Invalidate(r)
    PROVE  /\ session' = NoUnderlay /\ expired' = FALSE /\ pool' \in {pool, NoUnderlay}
           /\ relay' \in [Endpoints -> RelayStates]
           /\ \A d \in Endpoints : relay'[d] = "running" =>
                 r[d] = "running" /\ ~(session # NoUnderlay /\ session.relay = d)
           /\ \A d \in Endpoints : r[d] = "none" => relay'[d] = "none"
<1>1. CASE session = NoUnderlay
  BY <1>1 DEF Invalidate
<1>2. CASE session # NoUnderlay
  <2>1. session.relay \in Option(Endpoints)
    BY <1>2 DEF UnderlayTypeOK, Option
  <2> QED BY <1>2, <2>1, AbortOnly DEF Invalidate
<1> QED BY <1>1, <1>2

\* The state of an address that no datagram has come from satisfies the invariant.
LEMMA UnderlayInitInv == UnderlayInit => UnderlayInv
<1> SUFFICES ASSUME UnderlayInit PROVE UnderlayInv
  OBVIOUS
<1> USE UnderlayConstants DEF UnderlayInit
<1>1. UnderlayTypeOK
  <2>1. loop \in Frame({"idle", "pool", "send"}) /\ handler \in [Handlers -> Frame(HandlerPCs)]
    BY DEF Frame, HandlerPCs, Idle, Option
  <2>2. outcome \in Outcomes
    BY DEF Outcomes, Option
  <2>3. /\ session \in Option([cred : Creds, relay : Option(Endpoints)])
        /\ pool \in Option(Endpoints) /\ creator \in Option(Handlers)
    BY DEF Option
  <2>4. target \in [Endpoints -> Option(Creds)] /\ relay \in [Endpoints -> RelayStates]
    BY DEF Option, RelayStates
  <2>5. announced \in SUBSET Creds /\ packets \in 0..MaxPackets
    OBVIOUS
  <2>6. expired \in BOOLEAN
    BY Zenon
  <2> QED BY <2>1, <2>2, <2>3, <2>4, <2>5, <2>6 DEF UnderlayTypeOK
<1>2. EndpointsKnown /\ FramesFilled /\ NoOrphanRelay
  BY DEF EndpointsKnown, FramesFilled, NoOrphanRelay, Idle
<1> QED BY <1>1, <1>2 DEF UnderlayInv

\* A handler is spawned for a datagram, or the datagram dropped.
LEMMA SpawnInv ==
    ASSUME UnderlayInv, NEW c \in Creds, Spawn(c), loop' \in {loop, Idle},
           UNCHANGED <<caches, creator, target, relay>>, packets' \in 0..MaxPackets
    PROVE  UnderlayInv'
<1> USE UnderlayConstants DEF UnderlayInv, caches
<1>0. Idle \in Frame({"idle"})
  BY DEF Idle, Frame, Option
<1>1. CASE UNCHANGED handler /\ Done("dropped", c)
  <2>1. UnderlayTypeOK'
    BY <1>0, <1>1 DEF UnderlayTypeOK, Done, Outcomes, Frame, Option
  <2>2. EndpointsKnown'
    BY <1>1 DEF EndpointsKnown, Idle
  <2>3. FramesFilled'
    BY <1>1 DEF FramesFilled, Idle
  <2>4. NoOrphanRelay'
    BY <1>1 DEF NoOrphanRelay, At
  <2> QED BY <2>1, <2>2, <2>3, <2>4
<1>2. ASSUME NEW h \in Handlers, handler[h].pc = "idle", UNCHANGED outcome,
             handler' = [handler EXCEPT ![h] = [Idle EXCEPT !.pc = "lookup", !.pkt = c]]
      PROVE  UnderlayInv'
  <2> DEFINE f == [Idle EXCEPT !.pc = "lookup", !.pkt = c]
  <2>0. /\ f \in Frame(HandlerPCs) /\ f.pc = "lookup" /\ f.pkt = c /\ f.ep = NoUnderlay /\ f.isNew = FALSE
    BY DEF Idle, Frame, HandlerPCs, Option
  <2> HIDE DEF f
  <2>h. handler' = [handler EXCEPT ![h] = f]
    BY <1>2 DEF f
  <2>1. UnderlayTypeOK'
    BY <1>0, <1>2, <2>0, <2>h DEF UnderlayTypeOK, Frame, Option
  <2>2. EndpointsKnown'
    BY <1>2, <2>0, <2>h DEF EndpointsKnown, Idle, UnderlayTypeOK
  <2>3. FramesFilled'
    BY <1>2, <2>0, <2>h DEF FramesFilled, Idle, UnderlayTypeOK
  <2>4. NoOrphanRelay'
    BY <1>2, <2>0, <2>h DEF NoOrphanRelay, At, UnderlayTypeOK
  <2> QED BY <2>1, <2>2, <2>3, <2>4
<1> QED BY <1>1, <1>2 DEF Spawn

\* The frame that a handler has before its session is inserted, or after: it refers to an
\* endpoint that exists and holds what the label needs.
FrameOK(f) ==
    /\ f \in Frame(HandlerPCs)
    /\ f.ep # NoUnderlay => target[f.ep] # NoUnderlay
    /\ f.pc # "idle" => f.pkt # NoUnderlay
    /\ f.pc \notin {"idle", "lookup", "evict"} => f.cred # NoUnderlay
    /\ f.pc \in {"insert", "send"} => f.ep # NoUnderlay
    /\ f.isNew = FALSE

\* A handler goes on with frame f and touches neither the caches nor a relay-back task.
FrameStep(h, f) ==
    /\ handler' = [handler EXCEPT ![h] = f]
    /\ announced' \in SUBSET Creds /\ creator' \in Option(Handlers) /\ outcome' \in Outcomes
    /\ UNCHANGED <<session, expired, pool, target, relay, loop, packets>>

\* Such a step keeps the invariant.
LEMMA FrameInv ==
    ASSUME UnderlayInv, NEW h \in Handlers, ~(handler[h].isNew /\ handler[h].pc = "insert"),
           NEW f, FrameOK(f), FrameStep(h, f)
    PROVE  UnderlayInv'
<1> USE UnderlayConstants DEF UnderlayInv, FrameOK, FrameStep
<1>1. UnderlayTypeOK'
  BY DEF UnderlayTypeOK
<1>2. EndpointsKnown'
  BY DEF EndpointsKnown, UnderlayTypeOK
<1>3. FramesFilled'
  BY DEF FramesFilled, UnderlayTypeOK
<1>4. NoOrphanRelay'
  BY DEF NoOrphanRelay, At, UnderlayTypeOK
<1> QED BY <1>1, <1>2, <1>3, <1>4

\* What a handler's frame holds, by the invariant.
LEMMA FrameFacts ==
    ASSUME UnderlayInv, NEW h \in Handlers
    PROVE  /\ handler[h] \in Frame(HandlerPCs)
           /\ handler[h].pkt \in Option(Creds) /\ handler[h].cred \in Option(Creds)
           /\ handler[h].ep \in Option(Endpoints) /\ handler[h].isNew \in BOOLEAN
           /\ handler[h].pc # "idle" => handler[h].pkt \in Creds
           /\ handler[h].pc \notin {"idle", "lookup", "evict"} => handler[h].cred \in Creds
           /\ handler[h].pc \in {"insert", "send"} => handler[h].ep \in Endpoints
           /\ handler[h].pc \notin {"insert", "send"} => handler[h].isNew = FALSE
           /\ handler[h].ep # NoUnderlay => target[handler[h].ep] \in Creds
<1>1. handler[h] \in Frame(HandlerPCs)
  BY DEF UnderlayInv, UnderlayTypeOK
<1> QED BY <1>1 DEF UnderlayInv, UnderlayTypeOK, FramesFilled, EndpointsKnown, Frame, Option

\* The idle frame refers to nothing.
LEMMA IdleFrame ==
    /\ \A P : "idle" \in P => Idle \in Frame(P)
    /\ Idle.pc = "idle" /\ Idle.pkt = NoUnderlay /\ Idle.ep = NoUnderlay /\ Idle.isNew = FALSE
BY DEF Idle, Frame, Option

\* What a datagram can come to is an outcome.
LEMMA DoneOutcome ==
    /\ \A c \in Creds, k \in {"none", "dropped", "blocked", "failed", "undecryptable"} :
          Done(k, c) => outcome' \in Outcomes
    /\ \A c \in Creds, e \in Endpoints : target[e] \in Creds /\ Deliver(c, e) => outcome' \in Outcomes
BY DEF Done, Deliver, Outcomes, Option

\* Every step of a handler keeps the invariant, as long as it dials no endpoint, inserts no
\* session and sends nothing.
LEMMA HandlerPrepares ==
    ASSUME UnderlayInv, NEW h \in Handlers,
           HandlerLookup(h) \/ UseExisting(h) \/ HandlerEvict(h) \/ UseOrCreate(h) \/ DialFails(h)
    PROVE  UnderlayInv'
<1> USE UnderlayConstants
<1>0. UnderlayTypeOK /\ (pool # NoUnderlay => target[pool] # NoUnderlay)
  BY DEF UnderlayInv, EndpointsKnown
<1>1. CASE HandlerLookup(h)
  <2>0. /\ handler[h].pc = "lookup" /\ handler[h].isNew = FALSE /\ handler[h] \in Frame(HandlerPCs)
        /\ handler[h].pkt \in Creds /\ handler[h].ep \in Option(Endpoints)
        /\ handler[h].ep # NoUnderlay => target[handler[h].ep] # NoUnderlay
        /\ UNCHANGED <<announced, session, expired, pool, creator, target, relay, loop, packets>>
    BY <1>1, FrameFacts DEF HandlerLookup, At, caches
  <2>1. CASE Visible /\ session.cred = handler[h].pkt
    <3> DEFINE f == [handler[h] EXCEPT !.pc = "existing", !.cred = session.cred]
    <3>1. FrameOK(f)
      BY <2>0, <2>1, <1>1 DEF FrameOK, Frame, HandlerPCs, Option, HandlerLookup
    <3>2. FrameStep(h, f)
      BY <1>0, <2>0, <2>1, <1>1 DEF FrameStep, UnderlayTypeOK, Option, HandlerLookup
    <3> HIDE DEF f
    <3> QED BY <2>0, <3>1, <3>2, FrameInv
  <2>2. CASE Visible /\ session.cred # handler[h].pkt
    <3>1. FrameOK(Idle)
      BY IdleFrame DEF FrameOK, HandlerPCs
    <3>2. FrameStep(h, Idle)
      BY <1>0, <2>0, <2>2, <1>1, DoneOutcome DEF FrameStep, UnderlayTypeOK, Option, Finish, HandlerLookup
    <3> QED BY <2>0, <3>1, <3>2, FrameInv
  <2>3. CASE ~Visible
    <3> DEFINE f == [handler[h] EXCEPT !.pc = "evict"]
    <3>1. FrameOK(f)
      BY <2>0, <2>3, <1>1 DEF FrameOK, Frame, HandlerPCs, Option
    <3>2. FrameStep(h, f)
      BY <1>0, <2>0, <2>3, <1>1 DEF FrameStep, UnderlayTypeOK, Option, HandlerLookup, Move
    <3> HIDE DEF f
    <3> QED BY <2>0, <3>1, <3>2, FrameInv
  <2> QED BY <2>1, <2>2, <2>3
<1>2. CASE UseExisting(h)
  <2>0. /\ handler[h].pc = "existing" /\ handler[h].isNew = FALSE /\ handler[h] \in Frame(HandlerPCs)
        /\ handler[h].pkt \in Creds /\ handler[h].ep \in Option(Endpoints)
        /\ handler[h].ep # NoUnderlay => target[handler[h].ep] # NoUnderlay
        /\ handler[h].cred \in Creds
        /\ UNCHANGED <<announced, session, expired, pool, target, relay, loop, outcome, packets>>
    BY <1>2, FrameFacts DEF UseExisting, At, caches
  <2>1. CASE pool # NoUnderlay
    <3> DEFINE f == [handler[h] EXCEPT !.pc = "send", !.ep = pool]
    <3>1. FrameOK(f)
      BY <1>0, <2>0, <2>1 DEF UnderlayTypeOK, FrameOK, Frame, HandlerPCs, Option
    <3>2. FrameStep(h, f)
      BY <1>0, <1>2, <2>0, <2>1 DEF FrameStep, UnderlayTypeOK, UseExisting
    <3> HIDE DEF f
    <3> QED BY <2>0, <3>1, <3>2, FrameInv
  <2>2. CASE pool = NoUnderlay
    <3> DEFINE f == [handler[h] EXCEPT !.pc = "dialExisting"]
    <3>1. FrameOK(f)
      BY <2>0, <2>2 DEF FrameOK, Frame, HandlerPCs, Option
    <3>2. FrameStep(h, f)
      BY <1>0, <1>2, <2>0, <2>2 DEF FrameStep, UnderlayTypeOK, Option, Move, UseExisting
    <3> HIDE DEF f
    <3> QED BY <2>0, <3>1, <3>2, FrameInv
  <2> QED BY <2>1, <2>2
<1>3. CASE HandlerEvict(h)
  <2>0. /\ handler[h].pc = "evict" /\ handler[h].isNew = FALSE /\ handler[h] \in Frame(HandlerPCs)
        /\ handler[h].pkt \in Creds /\ handler[h].ep \in Option(Endpoints)
        /\ handler[h].ep # NoUnderlay => target[handler[h].ep] # NoUnderlay
        /\ UNCHANGED <<session, expired, pool, creator, target, relay, loop, packets>>
    BY <1>3, FrameFacts DEF HandlerEvict, At, caches
  <2>1. CASE handler[h].pkt \in announced \ Blocked
    <3> DEFINE f == [handler[h] EXCEPT !.pc = "create", !.cred = handler[h].pkt]
    <3>1. FrameOK(f)
      BY <2>0, <2>1 DEF FrameOK, Frame, HandlerPCs, Option
    <3>2. FrameStep(h, f)
      BY <1>0, <1>3, <2>0, <2>1 DEF FrameStep, UnderlayTypeOK, HandlerEvict
    <3> HIDE DEF f
    <3> QED BY <2>0, <3>1, <3>2, FrameInv
  <2>2. CASE handler[h].pkt \notin announced \ Blocked
    <3>1. FrameOK(Idle)
      BY IdleFrame DEF FrameOK, HandlerPCs
    <3>2. FrameStep(h, Idle)
      BY <1>0, <2>0, <2>2, <1>3, DoneOutcome DEF FrameStep, UnderlayTypeOK, Option, Finish, HandlerEvict
    <3> QED BY <2>0, <3>1, <3>2, FrameInv
  <2> QED BY <2>1, <2>2
<1>4. CASE UseOrCreate(h)
  <2>0. /\ handler[h].pc = "create" /\ handler[h].isNew = FALSE /\ handler[h] \in Frame(HandlerPCs)
        /\ handler[h].pkt \in Creds /\ handler[h].ep \in Option(Endpoints)
        /\ handler[h].ep # NoUnderlay => target[handler[h].ep] # NoUnderlay
        /\ handler[h].cred \in Creds
        /\ UNCHANGED <<announced, session, expired, pool, target, relay, loop, outcome, packets>>
    BY <1>4, FrameFacts DEF UseOrCreate, At, caches
  <2>1. CASE pool # NoUnderlay
    <3> DEFINE f == [handler[h] EXCEPT !.pc = "insert", !.ep = pool]
    <3>1. FrameOK(f)
      BY <1>0, <2>0, <2>1 DEF UnderlayTypeOK, FrameOK, Frame, HandlerPCs, Option
    <3>2. FrameStep(h, f)
      BY <1>0, <1>4, <2>0, <2>1 DEF FrameStep, UnderlayTypeOK, UseOrCreate
    <3> HIDE DEF f
    <3> QED BY <2>0, <3>1, <3>2, FrameInv
  <2>2. CASE pool = NoUnderlay
    <3> DEFINE f == [handler[h] EXCEPT !.pc = "dialNew"]
    <3>1. FrameOK(f)
      BY <2>0, <2>2 DEF FrameOK, Frame, HandlerPCs, Option
    <3>2. FrameStep(h, f)
      BY <1>0, <1>4, <2>0, <2>2 DEF FrameStep, UnderlayTypeOK, Option, Move, UseOrCreate
    <3> HIDE DEF f
    <3> QED BY <2>0, <3>1, <3>2, FrameInv
  <2> QED BY <2>1, <2>2
<1>5. CASE DialFails(h)
  <2>0. /\ handler[h].pc \in {"dialExisting", "dialNew"} /\ handler[h].isNew = FALSE /\ handler[h] \in Frame(HandlerPCs)
        /\ handler[h].pkt \in Creds /\ handler[h].ep \in Option(Endpoints)
        /\ handler[h].ep # NoUnderlay => target[handler[h].ep] # NoUnderlay
        /\ handler[h].cred \in Creds
        /\ UNCHANGED <<announced, session, expired, pool, target, relay, loop, packets>>
    BY <1>5, FrameFacts DEF DialFails, At, caches
  <2>1. FrameOK(Idle)
    BY IdleFrame DEF FrameOK, HandlerPCs
  <2>2. FrameStep(h, Idle)
    BY <1>0, <1>5, <2>0, DoneOutcome DEF FrameStep, UnderlayTypeOK, Option, Finish, DialFails
  <2> QED BY <2>0, <2>1, <2>2, FrameInv
<1> QED BY <1>1, <1>2, <1>3, <1>4, <1>5

\* The new endpoint is fresh: no other frame, no session and no relay-back task knows it.
LEMMA DialInv == ASSUME UnderlayInv, NEW h \in Handlers, DialSucceeds(h) PROVE UnderlayInv'
<1> USE UnderlayConstants
<1>0. UnderlayTypeOK
  BY DEF UnderlayInv
<1> DEFINE n == NextEndpoint
           new == At(h, "dialNew")
           f == [handler[h] EXCEPT !.ep = n, !.isNew = new, !.pc = IF new THEN "insert" ELSE "send"]
<1>1. n \in Endpoints /\ target[n] = NoUnderlay
  BY <1>0, NextEndpointFresh DEF DialSucceeds
<1>2. handler' = [handler EXCEPT ![h] = f]
  BY DEF DialSucceeds
<1>3. /\ f \in Frame(HandlerPCs) /\ f.ep = n /\ f.isNew = new /\ f.pc = (IF new THEN "insert" ELSE "send")
      /\ f.pkt = handler[h].pkt /\ f.cred = handler[h].cred
      /\ f.pkt \in Creds /\ f.cred \in Creds
  BY <1>1, FrameFacts, ZenonT(60) DEF Frame, HandlerPCs, Option, At, DialSucceeds
<1>4. /\ creator' = NoUnderlay /\ pool' = n
      /\ target' = [target EXCEPT ![n] = f.cred]
      /\ relay' = IF new THEN [relay EXCEPT ![n] = "running"] ELSE relay
      /\ UNCHANGED <<announced, session, expired, loop, outcome, packets>>
  BY <1>3 DEF DialSucceeds
<1> HIDE DEF n, new, f
<1>5. UnderlayTypeOK'
  BY <1>0, <1>1, <1>2, <1>3, <1>4 DEF UnderlayTypeOK, RelayStates, Option
<1>6. EndpointsKnown'
  BY <1>0, <1>1, <1>2, <1>3, <1>4 DEF UnderlayInv, UnderlayTypeOK, EndpointsKnown
<1>7. FramesFilled'
  <2>1. ASSUME NEW k \in Handlers
        PROVE  /\ handler'[k].pc # "idle" => handler'[k].pkt # NoUnderlay
               /\ handler'[k].pc \notin {"idle", "lookup", "evict"} => handler'[k].cred # NoUnderlay
               /\ handler'[k].pc \in {"insert", "send"} => handler'[k].ep # NoUnderlay
               /\ handler'[k].isNew =>
                    handler'[k].pc \in {"insert", "send"} /\ target'[handler'[k].ep] = handler'[k].cred
    <3>1. CASE k = h
      BY <1>0, <1>1, <1>2, <1>3, <1>4, <3>1 DEF UnderlayTypeOK, Endpoints
    <3>2. CASE k # h
      <4>1. handler'[k] = handler[k]
        BY <1>0, <1>2, <3>2 DEF UnderlayTypeOK
      <4>2. handler[k].ep # NoUnderlay => handler[k].ep \in Endpoints /\ target'[handler[k].ep] = target[handler[k].ep]
        BY <1>0, <1>1, <1>4, FrameFacts DEF UnderlayTypeOK, Option
      <4> QED BY <4>1, <4>2 DEF UnderlayInv, FramesFilled
    <3> QED BY <3>1, <3>2
  <2> QED BY <1>4, <2>1 DEF UnderlayInv, FramesFilled
<1>8. NoOrphanRelay'
  <2>1. ASSUME NEW e \in Endpoints, relay'[e] = "running"
        PROVE  \/ session' # NoUnderlay /\ session'.relay = e
               \/ \E k \in Handlers : At(k, "insert")' /\ handler'[k].ep = e /\ handler'[k].isNew
    <3>1. CASE e = n
      BY <1>0, <1>1, <1>2, <1>3, <1>4, <2>1, <3>1 DEF UnderlayInv, UnderlayTypeOK, EndpointsKnown, At
    <3>2. CASE e # n
      <4>1. relay[e] = "running"
        BY <1>0, <1>4, <2>1, <3>2 DEF UnderlayTypeOK
      <4>2. ASSUME NEW k \in Handlers, handler[k].pc = "insert" PROVE handler'[k] = handler[k]
        BY <1>0, <1>2, <4>2 DEF UnderlayTypeOK, DialSucceeds, At
      <4> QED BY <1>4, <4>1, <4>2 DEF UnderlayInv, NoOrphanRelay, At
    <3> QED BY <3>1, <3>2
  <2>2. session # NoUnderlay /\ session.relay # NoUnderlay => session.relay # n
    BY <1>0, <1>1 DEF UnderlayInv, NoOrphanRelay, UnderlayTypeOK, Option
  <2> QED BY <1>0, <1>1, <1>4, <2>1, <2>2 DEF UnderlayInv, NoOrphanRelay, UnderlayTypeOK, Option
<1> QED BY <1>5, <1>6, <1>7, <1>8 DEF UnderlayInv

\* Inserting a session hands its new relay-back task over to it, and stops the task of the
\* session that it replaces.
LEMMA InsertInv == ASSUME UnderlayInv, NEW h \in Handlers, InsertSession(h) PROVE UnderlayInv'
<1> USE UnderlayConstants
<1> DEFINE f == [handler[h] EXCEPT !.pc = "send"]
           r == IF handler[h].isNew THEN handler[h].ep ELSE NoUnderlay
<1>0. UnderlayTypeOK
  BY DEF UnderlayInv
<1>1. /\ handler[h].pc = "insert" /\ handler[h] \in Frame(HandlerPCs)
      /\ handler[h].pkt \in Creds /\ handler[h].cred \in Creds /\ handler[h].ep \in Endpoints
      /\ handler[h].isNew \in BOOLEAN
      /\ handler[h].isNew => target[handler[h].ep] = handler[h].cred
  BY FrameFacts DEF InsertSession, At, UnderlayInv, FramesFilled
<1>2. handler' = [handler EXCEPT ![h] = f]
  BY DEF InsertSession, Move
<1>3. /\ f \in Frame(HandlerPCs) /\ f.pc = "send" /\ f.pkt = handler[h].pkt /\ f.cred = handler[h].cred
      /\ f.ep = handler[h].ep /\ f.isNew = handler[h].isNew
  BY <1>1 DEF Frame, HandlerPCs
<1>4. /\ session' = [cred |-> handler[h].cred, relay |-> r] /\ r \in Option(Endpoints)
      /\ expired' = FALSE /\ pool' \in {pool, NoUnderlay}
      /\ UNCHANGED <<announced, creator, target, loop, outcome, packets>>
  BY <1>1 DEF InsertSession, Option
<1>5. session' # NoUnderlay /\ session'.cred = handler[h].cred /\ session'.relay = r
  BY <1>1, <1>4 DEF Option, Endpoints
<1>6. /\ relay' \in [Endpoints -> RelayStates]
      /\ \A d \in Endpoints : relay'[d] = "running" =>
            relay[d] = "running" /\ ~(session # NoUnderlay /\ session.relay = d)
      /\ \A d \in Endpoints : relay[d] = "none" => relay'[d] = "none"
  <2>1. CASE session = NoUnderlay
    BY <1>0, <2>1 DEF InsertSession, UnderlayTypeOK
  <2>2. CASE session # NoUnderlay
    <3>1. session.relay \in Option(Endpoints) /\ relay \in [Endpoints -> RelayStates]
      BY <1>0, <2>2 DEF UnderlayTypeOK, Option
    <3> QED BY <2>2, <3>1, AbortOnly DEF InsertSession
  <2> QED BY <2>1, <2>2
<1> HIDE DEF f
<1>7. UnderlayTypeOK'
  <2>1. session' \in Option([cred : Creds, relay : Option(Endpoints)])
    BY <1>1, <1>4 DEF Option
  <2>2. expired' \in BOOLEAN
    BY <1>4
  <2> QED BY <1>0, <1>2, <1>3, <1>4, <1>6, <2>1, <2>2 DEF UnderlayTypeOK, Option
<1>8. EndpointsKnown'
  BY <1>0, <1>2, <1>3, <1>4, <1>6 DEF UnderlayInv, UnderlayTypeOK, EndpointsKnown
<1>9. FramesFilled'
  BY <1>0, <1>1, <1>2, <1>3, <1>4 DEF UnderlayInv, UnderlayTypeOK, FramesFilled
<1>10. NoOrphanRelay'
  <2>1. ASSUME NEW e \in Endpoints, relay'[e] = "running"
        PROVE  \/ session'.relay = e
               \/ \E k \in Handlers : At(k, "insert")' /\ handler'[k].ep = e /\ handler'[k].isNew
    <3>1. PICK k \in Handlers : handler[k].pc = "insert" /\ handler[k].ep = e /\ handler[k].isNew
      BY <1>6, <2>1 DEF UnderlayInv, NoOrphanRelay, At
    <3>2. CASE k = h
      BY <1>5, <3>1, <3>2
    <3>3. CASE k # h
      BY <1>0, <1>2, <3>1, <3>3 DEF UnderlayTypeOK, At
    <3> QED BY <3>2, <3>3
  <2>2. session'.relay # NoUnderlay => target'[session'.relay] = session'.cred
    BY <1>1, <1>4, <1>5
  <2> QED BY <1>5, <2>1, <2>2 DEF NoOrphanRelay
<1> QED BY <1>7, <1>8, <1>9, <1>10 DEF UnderlayInv

\* A step after which no session is left, and no relay-back task that was the session's
\* runs, keeps the invariant, whether or not it also ends a handler that was sending or
\* the loop's datagram.
LEMMA ReleaseInv ==
    ASSUME UnderlayInv, session' = NoUnderlay, expired' = FALSE, pool' \in {pool, NoUnderlay},
           relay' \in [Endpoints -> RelayStates],
           \A d \in Endpoints : relay'[d] = "running" =>
              relay[d] = "running" /\ ~(session # NoUnderlay /\ session.relay = d),
           \A d \in Endpoints : relay[d] = "none" => relay'[d] = "none",
           loop' \in {loop, Idle}, outcome' \in Outcomes,
           \/ UNCHANGED handler
           \/ \E h \in Handlers : handler[h].pc = "send" /\ handler' = [handler EXCEPT ![h] = Idle],
           UNCHANGED <<announced, creator, target, packets>>
    PROVE  UnderlayInv'
<1> USE UnderlayConstants DEF UnderlayInv
<1>0. \A h \in Handlers : handler'[h] \in {handler[h], Idle} /\ (handler[h].pc = "insert" => handler'[h] = handler[h])
  BY DEF UnderlayTypeOK
<1>1. UnderlayTypeOK'
  <2>1. handler' \in [Handlers -> Frame(HandlerPCs)] /\ loop' \in Frame({"idle", "pool", "send"})
    BY IdleFrame DEF UnderlayTypeOK, HandlerPCs
  <2>2. session' \in Option([cred : Creds, relay : Option(Endpoints)]) /\ pool' \in Option(Endpoints)
    BY DEF UnderlayTypeOK, Option
  <2>3. expired' \in BOOLEAN
    OBVIOUS
  <2> QED BY <2>1, <2>2, <2>3 DEF UnderlayTypeOK
<1>2. EndpointsKnown'
  BY <1>0, IdleFrame DEF EndpointsKnown
<1>3. FramesFilled'
  BY <1>0, IdleFrame DEF FramesFilled
<1>4. NoOrphanRelay'
  BY <1>0 DEF NoOrphanRelay, At
<1> QED BY <1>1, <1>2, <1>3, <1>4

\* A step that only delivers or disposes of a datagram, or lets a cache entry expire.
LEMMA DeliverInv ==
    ASSUME UnderlayInv, loop' \in {loop, Idle}, outcome' \in Outcomes,
           \/ UNCHANGED handler
           \/ \E h \in Handlers : handler[h].pc = "send" /\ handler' = [handler EXCEPT ![h] = Idle],
           announced' \in SUBSET Creds, expired' \in BOOLEAN, pool' \in {pool, NoUnderlay},
           UNCHANGED <<session, creator, target, relay, packets>>
    PROVE  UnderlayInv'
<1> USE UnderlayConstants DEF UnderlayInv
<1>0. \A h \in Handlers : handler'[h] \in {handler[h], Idle} /\ (handler[h].pc = "insert" => handler'[h] = handler[h])
  BY DEF UnderlayTypeOK
<1>1. UnderlayTypeOK'
  <2>1. handler' \in [Handlers -> Frame(HandlerPCs)] /\ loop' \in Frame({"idle", "pool", "send"})
    BY IdleFrame DEF UnderlayTypeOK, HandlerPCs
  <2>2. pool' \in Option(Endpoints)
    BY DEF UnderlayTypeOK, Option
  <2> QED BY <2>1, <2>2 DEF UnderlayTypeOK
<1>2. EndpointsKnown'
  BY <1>0, IdleFrame DEF EndpointsKnown
<1>3. FramesFilled'
  BY <1>0, IdleFrame DEF FramesFilled
<1>4. NoOrphanRelay'
  BY <1>0 DEF NoOrphanRelay, At
<1> QED BY <1>1, <1>2, <1>3, <1>4

\* A handler sends its datagram, or fails to and drops whatever session there is now.
LEMMA SendInv == ASSUME UnderlayInv, NEW h \in Handlers, HandlerSend(h) PROVE UnderlayInv'
<1>0. UnderlayTypeOK
  BY DEF UnderlayInv
<1>1. /\ handler[h].pc = "send" /\ handler[h].pkt \in Creds /\ handler[h].ep \in Endpoints
      /\ target[handler[h].ep] \in Creds
      /\ handler' = [handler EXCEPT ![h] = Idle]
      /\ UNCHANGED <<announced, creator, target, loop, packets>>
  <2>1. handler[h].pc = "send"
    BY DEF HandlerSend, At
  <2>2. handler[h].pkt \in Creds /\ handler[h].ep \in Endpoints
    BY <2>1, FrameFacts
  <2>3. handler[h].ep # NoUnderlay
    BY <2>2, UnderlayConstants DEF Endpoints
  <2>4. target[handler[h].ep] \in Creds
    BY <2>3, FrameFacts
  <2> QED BY <2>1, <2>2, <2>4 DEF HandlerSend, Finish
<1>2. CASE Deliver(handler[h].pkt, handler[h].ep) /\ UNCHANGED <<session, expired, pool, relay>>
  BY <1>0, <1>1, <1>2, DoneOutcome, DeliverInv DEF UnderlayTypeOK
<1>3. CASE /\ Done("failed", handler[h].pkt) /\ session' = NoUnderlay /\ expired' = FALSE
           /\ relay' = IF session = NoUnderlay THEN relay ELSE Abort(relay, session.relay)
           /\ pool' = NoUnderlay
  <2>1. /\ relay' \in [Endpoints -> RelayStates]
        /\ \A d \in Endpoints : relay'[d] = "running" =>
              relay[d] = "running" /\ ~(session # NoUnderlay /\ session.relay = d)
        /\ \A d \in Endpoints : relay[d] = "none" => relay'[d] = "none"
    <3>1. session # NoUnderlay => session.relay \in Option(Endpoints)
      BY <1>0 DEF UnderlayTypeOK, Option
    <3>2. relay \in [Endpoints -> RelayStates]
      BY <1>0 DEF UnderlayTypeOK
    <3> QED BY <1>3, <3>1, <3>2, AbortOnly
  <2>2. outcome' \in Outcomes
    BY <1>1, <1>3, DoneOutcome
  <2> QED BY <1>1, <1>3, <2>1, <2>2, ReleaseInv
<1> QED BY <1>2, <1>3 DEF HandlerSend

\* The packet loop takes a datagram and looks for the endpoint of its session.
LEMMA LoopFrameInv ==
    ASSUME UnderlayInv, loop' \in Frame({"idle", "pool", "send"}), loop'.pkt # NoUnderlay,
           loop'.pc = "send" => loop'.ep # NoUnderlay,
           loop'.ep # NoUnderlay => target[loop'.ep] # NoUnderlay,
           packets' \in 0..MaxPackets, UNCHANGED <<caches, creator, target, relay, handler, outcome>>
    PROVE  UnderlayInv'
<1> USE DEF UnderlayInv, caches
<1>1. UnderlayTypeOK'
  BY DEF UnderlayTypeOK
<1>2. EndpointsKnown' /\ FramesFilled' /\ NoOrphanRelay'
  BY DEF EndpointsKnown, FramesFilled, NoOrphanRelay, At
<1> QED BY <1>1, <1>2

\* The steps of the packet loop keep the invariant.
LEMMA LoopInv ==
    ASSUME UnderlayInv, (\E c \in Creds : Receive(c)) \/ LoopPool \/ LoopSend
    PROVE  UnderlayInv'
<1> USE UnderlayConstants
<1>0. UnderlayTypeOK
  BY DEF UnderlayInv
<1>1. ASSUME NEW c \in Creds, Receive(c) PROVE UnderlayInv'
  <2>1. packets' \in 0..MaxPackets /\ UNCHANGED <<caches, creator, target, relay>>
    <3>1. packets \in 0..MaxPackets /\ packets < MaxPackets /\ packets' = packets + 1
      BY <1>0, <1>1 DEF Receive, UnderlayTypeOK
    <3>2. packets' \in 0..MaxPackets
      BY <3>1
    <3> QED BY <1>1, <3>2 DEF Receive
  <2>2. CASE Visible
    <3>1. session.cred \in Creds
      BY <1>0, <2>2 DEF Visible, UnderlayTypeOK, Option
    <3>2. loop' = [Idle EXCEPT !.pc = "pool", !.pkt = c, !.cred = session.cred] /\ UNCHANGED <<handler, outcome>>
      BY <1>1, <2>2 DEF Receive
    <3>3. /\ loop' \in Frame({"idle", "pool", "send"}) /\ loop'.pkt = c /\ loop'.pc = "pool"
          /\ loop'.ep = NoUnderlay
      BY <3>1, <3>2 DEF Idle, Frame, Option
    <3> QED BY <2>1, <3>2, <3>3, LoopFrameInv
  <2>3. CASE ~Visible
    BY <1>1, <2>1, <2>3, SpawnInv DEF Receive
  <2> QED BY <2>2, <2>3
<1>2. CASE LoopPool
  <2>1. /\ loop \in Frame({"idle", "pool", "send"}) /\ loop.pkt \in Creds /\ loop.pc = "pool"
        /\ packets' \in 0..MaxPackets /\ packets' = packets
        /\ UNCHANGED <<caches, creator, target, relay>>
    BY <1>0, <1>2 DEF LoopPool, UnderlayInv, UnderlayTypeOK, FramesFilled, Frame, Option
  <2>2. CASE loop' = [loop EXCEPT !.pc = "send", !.ep = pool] /\ pool # NoUnderlay /\ UNCHANGED <<handler, outcome>>
    <3>1. pool \in Endpoints /\ target[pool] # NoUnderlay
      BY <1>0, <2>2 DEF UnderlayTypeOK, Option, UnderlayInv, EndpointsKnown
    <3>2. loop' \in Frame({"idle", "pool", "send"}) /\ loop'.pkt = loop.pkt /\ loop'.ep = pool
      BY <2>1, <2>2, <3>1 DEF Frame, Option
    <3> QED BY <2>1, <2>2, <3>1, <3>2, LoopFrameInv
  <2>3. CASE loop' = Idle /\ Done("undecryptable", loop.pkt) /\ UNCHANGED handler
    <3>1. outcome' \in Outcomes
      BY <2>1, <2>3, DoneOutcome
    <3>2. announced' \in SUBSET Creds /\ expired' \in BOOLEAN /\ pool' = pool /\ session' = session
      BY <1>0, <2>1 DEF UnderlayTypeOK, caches
    <3> QED BY <2>1, <2>3, <3>1, <3>2, DeliverInv
  <2>4. CASE loop' = Idle /\ Spawn(loop.pkt)
    BY <2>1, <2>4, SpawnInv
  <2> QED BY <1>2, <2>2, <2>3, <2>4 DEF LoopPool
<1>3. CASE LoopSend
  <2>1. /\ loop.pkt \in Creds /\ loop.ep \in Endpoints /\ target[loop.ep] \in Creds
        /\ loop' = Idle /\ UNCHANGED <<announced, creator, target, handler, packets>>
    BY <1>0, <1>3 DEF LoopSend, UnderlayInv, UnderlayTypeOK, FramesFilled, EndpointsKnown, Frame, Option
  <2>2. CASE Deliver(loop.pkt, loop.ep) /\ UNCHANGED <<session, expired, pool, relay>>
    <3>1. outcome' \in Outcomes
      BY <2>1, <2>2, DoneOutcome
    <3> QED BY <1>0, <2>1, <2>2, <3>1, DeliverInv DEF UnderlayTypeOK
  <2>3. CASE Done("failed", loop.pkt) /\ Invalidate(relay)
    <3>1. outcome' \in Outcomes
      BY <2>1, <2>3, DoneOutcome
    <3>2. relay \in [Endpoints -> RelayStates]
      BY <1>0 DEF UnderlayTypeOK
    <3> QED BY <1>0, <2>1, <2>3, <3>1, <3>2, InvalidateStops, ReleaseInv
  <2> QED BY <1>3, <2>2, <2>3 DEF LoopSend
<1> QED BY <1>1, <1>2, <1>3

\* The steps of relay-back tasks keep the invariant: whichever way a task ends, it takes
\* the session that is there with it.
LEMMA RelayInv == ASSUME UnderlayInv, NEW e \in Endpoints, RelayStep(e) PROVE UnderlayInv'
<1>0. UnderlayTypeOK /\ relay \in [Endpoints -> RelayStates] /\ outcome \in Outcomes
  BY DEF UnderlayInv, UnderlayTypeOK
<1>1. ASSUME NEW st \in {"exiting", "gone"}, relay[e] \in {"running", "aborted"},
             Invalidate([relay EXCEPT ![e] = st]),
             UNCHANGED <<announced, creator, target, loop, handler, outcome, packets>>
      PROVE  UnderlayInv'
  <2> DEFINE r == [relay EXCEPT ![e] = st]
  <2>1. /\ r \in [Endpoints -> RelayStates]
        /\ \A d \in Endpoints : (r[d] = "running" => relay[d] = "running") /\ (relay[d] = "none" => r[d] = "none")
    BY <1>0, <1>1 DEF RelayStates
  <2> HIDE DEF r
  <2>2. Invalidate(r)
    BY <1>1 DEF r
  <2> QED BY <1>0, <1>1, <2>1, <2>2, InvalidateStops, ReleaseInv
<1>2. CASE RelayEnds(e)
  BY <1>1, <1>2 DEF RelayEnds
<1>3. CASE RelayDropped(e)
  BY <1>1, <1>3 DEF RelayDropped
<1>4. CASE RelayRemovesPool(e)
  <2> USE <1>4 DEF RelayRemovesPool, UnderlayInv
  <2>1. UnderlayTypeOK'
    BY <1>0 DEF UnderlayTypeOK, RelayStates, Option
  <2>2. EndpointsKnown' /\ FramesFilled'
    BY <1>0 DEF EndpointsKnown, FramesFilled
  <2>3. NoOrphanRelay'
    BY <1>0 DEF NoOrphanRelay, At
  <2> QED BY <2>1, <2>2, <2>3
<1> QED BY <1>2, <1>3, <1>4 DEF RelayStep

\* Every step of the data path keeps the invariant.
LEMMA UnderlayStep == UnderlayInv /\ [UnderlayNext]_underlayVars => UnderlayInv'
<1> SUFFICES ASSUME UnderlayInv, [UnderlayNext]_underlayVars PROVE UnderlayInv'
  OBVIOUS
<1>0. UnderlayTypeOK /\ relay \in [Endpoints -> RelayStates] /\ outcome \in Outcomes
  BY DEF UnderlayInv, UnderlayTypeOK
<1>1. ASSUME NEW c \in Creds, Announce(c) PROVE UnderlayInv'
  BY <1>0, <1>1, DeliverInv DEF Announce, UnderlayTypeOK
<1>2. CASE SessionExpires \/ PoolEvicted
  BY <1>0, <1>2, DeliverInv DEF SessionExpires, PoolEvicted, UnderlayTypeOK
<1>3. CASE SessionEvicted
  BY <1>0, <1>3, InvalidateStops, ReleaseInv DEF SessionEvicted
<1>4. CASE Finished \/ UNCHANGED underlayVars
  BY <1>0, <1>4, DeliverInv DEF Finished, underlayVars, UnderlayTypeOK
<1>5. ASSUME NEW h \in Handlers, HandlerStep(h) PROVE UnderlayInv'
  BY <1>5, HandlerPrepares, DialInv, InsertInv, SendInv DEF HandlerStep
<1> QED BY <1>1, <1>2, <1>3, <1>4, <1>5, LoopInv, RelayInv DEF UnderlayNext

\* No relay-back task is ever orphaned, and a session's task reads the socket of that
\* session's own target, for any number of credentials, handlers and endpoints and in
\* every interleaving of the loop, the handlers, the guards and both caches' evictions.
THEOREM RelaysOwned == UnderlaySpec => []NoOrphanRelay
<1>1. UnderlayInv => NoOrphanRelay
  BY DEF UnderlayInv
<1> QED BY UnderlayInitInv, UnderlayStep, <1>1, PTL DEF UnderlaySpec
=============================================================================
