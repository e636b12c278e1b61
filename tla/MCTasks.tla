------------------------------ MODULE MCTasks ------------------------------
(***************************************************************************)
(* Small instances of the parts that own tasks and have to end them: the   *)
(* client's UDP sessions and local proxy, and on the server the underlay   *)
(* sessions, the connection handler, the certificate reload and the        *)
(* shutdown.  They share no state: a behaviour follows one of them, `part`, *)
(* while the others rest in one of their initial states.                   *)
(***************************************************************************)
EXTENDS UdpSessions, LocalProxy, UnderlaySession, ServerConnection, CertReload, ServerShutdown

VARIABLE part

vars == <<part, sessionsVars, localVars, underlayVars, connVars, certVars, shutdownVars>>

Init ==
    /\ part \in {"sessions", "local", "underlay", "conn", "reload", "shutdown"}
    /\ SessionsInit /\ UnderlayInit /\ CertInit /\ ShutdownInit
    /\ LocalInit /\ (part # "local" => forwards)
    /\ ConnInit /\ (part # "conn" => valid)

Next ==
    \/ /\ part = "sessions" /\ SessionsNext
       /\ UNCHANGED <<part, localVars, underlayVars, connVars, certVars, shutdownVars>>
    \/ /\ part = "local" /\ LocalNext
       /\ UNCHANGED <<part, sessionsVars, underlayVars, connVars, certVars, shutdownVars>>
    \/ /\ part = "underlay" /\ UnderlayNext
       /\ UNCHANGED <<part, sessionsVars, localVars, connVars, certVars, shutdownVars>>
    \/ /\ part = "conn" /\ ConnNext
       /\ UNCHANGED <<part, sessionsVars, localVars, underlayVars, certVars, shutdownVars>>
    \/ /\ part = "reload" /\ CertNext
       /\ UNCHANGED <<part, sessionsVars, localVars, underlayVars, connVars, shutdownVars>>
    \/ /\ part = "shutdown" /\ ShutdownNext
       /\ UNCHANGED <<part, sessionsVars, localVars, underlayVars, connVars, certVars>>

\* Every part is well typed.
TypeOK ==
    /\ SessionsTypeOK /\ LocalTypeOK /\ UnderlayTypeOK
    /\ ConnTypeOK /\ CertTypeOK /\ ShutdownTypeOK

\* The fairness each part assumes, in the behaviours that follow it.
FairSpec ==
    /\ Init /\ [][Next]_vars
    /\ WF_sessionsVars(part = "sessions" /\ LoopStep)
    /\ \A i \in Ids :
         /\ WF_sessionsVars(part = "sessions" /\ (OpenFails(i) \/ OpenSucceeds(i)))
         /\ WF_sessionsVars(part = "sessions" /\ OpenEnds(i))
         /\ WF_sessionsVars(part = "sessions" /\ (WriterSends(i) \/ WriterStops(i)))
         /\ WF_sessionsVars(part = "sessions" /\ ReaderStops(i))
         /\ WF_sessionsVars(part = "sessions" /\ (Supervise(i) \/ SupAwait(i) \/ SupCheck(i) \/ SupRemove(i)))
    /\ WF_localVars(part = "local" /\ AcquirePermit) /\ WF_localVars(part = "local" /\ Resume)
    /\ \A c \in Conns :
         /\ WF_localVars(part = "local" /\ HeadTimeout(c)) /\ WF_localVars(part = "local" /\ AssociateEnds(c))
         /\ WF_localVars(part = "local" /\ TunnelEnds(c)) /\ WF_localVars(part = "local" /\ CopyDownEnds(c))
         /\ WF_localVars(part = "local" /\ (CopyUp(c) \/ CopyUpEnds(c)))
    /\ WF_underlayVars(part = "underlay" /\ LoopPool) /\ WF_underlayVars(part = "underlay" /\ LoopSend)
    /\ \A h \in Handlers : WF_underlayVars(part = "underlay" /\ HandlerStep(h))
    /\ \A e \in Endpoints : WF_underlayVars(part = "underlay" /\ RelayStep(e))
    /\ WF_connVars(part = "conn" /\ Accepted) /\ WF_connVars(part = "conn" /\ (AuthDone \/ AuthTimeout))
    /\ WF_connVars(part = "conn" /\ ConnEnds)
    /\ \A s \in Streams :
         /\ WF_connVars(part = "conn" /\ ~open /\ UpEnds(s))
         /\ WF_connVars(part = "conn" /\ DownIdle(s)) /\ WF_connVars(part = "conn" /\ Watch(s))
    /\ WF_certVars(part = "reload" /\ Reload)
    /\ \A w \in Workers :
         /\ WF_shutdownVars(part = "shutdown" /\ WorkerStep(w))
         /\ WF_shutdownVars(part = "shutdown" /\ HandlerDropped(w))
    /\ WF_shutdownVars(part = "shutdown" /\ ForceAbort) /\ WF_shutdownVars(part = "shutdown" /\ JoinWorkers)
    /\ WF_shutdownVars(part = "shutdown" /\ SecondPasses)
=============================================================================
