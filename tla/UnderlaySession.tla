-------------------------- MODULE UnderlaySession --------------------------
(***************************************************************************)
(* The underlay data path of one client address (server/src/server.rs):    *)
(* the packet loop of the socket shard, the handler tasks it spawns, the   *)
(* moka cache of sessions with its eviction listener, the endpoint pool    *)
(* entry of the address, and the relay-back tasks with their SessionGuard. *)
(*                                                                         *)
(* It composes the two tables at the level of their promises: a credential *)
(* is taken once (CredentialStore, implemented by InFlight), and one task  *)
(* at a time creates the pool's endpoint while the others wait.            *)
(*                                                                         *)
(* A credential stands for the salt, the key and the target it announces;  *)
(* a datagram is named by the credential it is encrypted under.  A         *)
(* relay-back task is named by the endpoint whose socket it reads.         *)
(***************************************************************************)
EXTENDS Naturals, FiniteSets

CONSTANTS
    Creds,         \* underlay credentials the client at this address may announce
    Blocked,       \* those for UDP/443 while disable_udp_443 is set
    Handlers,      \* permits of the handler semaphore
    MaxEndpoints,  \* bound: endpoints created
    MaxPackets,    \* bound: datagrams received
    NoUnderlay     \* Option::None

ASSUME UnderlayConstants ==
    /\ Blocked \subseteq Creds
    /\ MaxEndpoints \in Nat
    /\ MaxPackets \in Nat
    /\ NoUnderlay \notin Creds
    /\ NoUnderlay \notin Nat
    /\ NoUnderlay \notin [cred : Creds, relay : Nat \cup {NoUnderlay}]

VARIABLES
    announced,  \* credentials in the in-flight table
    session,    \* the sessions entry: [cred, relay], or NoUnderlay
    expired,    \* the entry is past time_to_idle but not yet evicted
    pool,       \* the pool entry of the address: an endpoint, or NoUnderlay
    creator,    \* the handler that is creating an endpoint, or NoUnderlay
    target,     \* target[e]: the credential whose target endpoint e sends to
    relay,      \* relay[e]: the state of the relay-back task of endpoint e
    loop,       \* the packet loop: what it does with the datagram in hand
    handler,    \* handler[h]: the same for each handler task
    outcome,    \* outcome of the last datagram disposed of
    packets     \* datagrams received so far

caches == <<announced, session, expired, pool>>
underlayVars   == <<announced, session, expired, pool, creator, target, relay, loop, handler, outcome, packets>>

Endpoints == 1..MaxEndpoints
Option(S) == S \cup {NoUnderlay}

\* none: no task was ever spawned; aborted: abort() was called, the task has not
\* been polled since; exiting: the guard is dropped, udp_pool.remove is to come.
RelayStates == {"none", "running", "aborted", "exiting", "gone"}

\* Where a task is, the datagram it handles (pkt), the credential of the session
\* it found or opened (cred), and the endpoint it got (ep).
HandlerPCs == {"idle", "lookup", "existing", "evict", "dialExisting", "create", "dialNew", "insert", "send"}
Frame(P) == [pc : P, pkt : Option(Creds), cred : Option(Creds), ep : Option(Endpoints), isNew : BOOLEAN]

Idle == [pc |-> "idle", pkt |-> NoUnderlay, cred |-> NoUnderlay, ep |-> NoUnderlay, isNew |-> FALSE]

Outcomes == [kind : {"none", "dropped", "blocked", "failed", "undecryptable"}, pkt : Option(Creds), to : {NoUnderlay}]
              \cup [kind : {"delivered"}, pkt : Creds, to : Creds]

UnderlayTypeOK ==
    /\ announced \in SUBSET Creds
    /\ session \in Option([cred : Creds, relay : Option(Endpoints)])
    /\ expired \in BOOLEAN
    /\ pool \in Option(Endpoints)
    /\ creator \in Option(Handlers)
    /\ target \in [Endpoints -> Option(Creds)]
    /\ relay \in [Endpoints -> RelayStates]
    /\ loop \in Frame({"idle", "pool", "send"})
    /\ handler \in [Handlers -> Frame(HandlerPCs)]
    /\ outcome \in Outcomes
    /\ packets \in 0..MaxPackets

UnderlayInit ==
    /\ announced = {}
    /\ session = NoUnderlay
    /\ expired = FALSE
    /\ pool = NoUnderlay
    /\ creator = NoUnderlay
    /\ target = [e \in Endpoints |-> NoUnderlay]
    /\ relay = [e \in Endpoints |-> "none"]
    /\ loop = Idle
    /\ handler = [h \in Handlers |-> Idle]
    /\ outcome = [kind |-> "none", pkt |-> NoUnderlay, to |-> NoUnderlay]
    /\ packets = 0

-----------------------------------------------------------------------------
(* The caches                                                              *)

\* sessions.get(&source) returns Some
Visible == session # NoUnderlay /\ ~expired

\* AbortHandle::abort(): a task that is past its last await is not affected.
Abort(r, e) == IF e # NoUnderlay /\ r[e] = "running" THEN [r EXCEPT ![e] = "aborted"] ELSE r

\* sessions.invalidate(&source) on top of the relay states r: the eviction
\* listener aborts the relay task of the removed entry and empties the pool slot.
Invalidate(r) ==
    /\ session' = NoUnderlay
    /\ expired' = FALSE
    /\ relay' = IF session = NoUnderlay THEN r ELSE Abort(r, session.relay)
    /\ pool' = IF session = NoUnderlay THEN pool ELSE NoUnderlay

\* The endpoint a creation makes: identities are not reused.
NextEndpoint == CHOOSE e \in Endpoints : target[e] = NoUnderlay /\ \A d \in Endpoints : d < e => target[d] # NoUnderlay
CanCreate    == \E e \in Endpoints : target[e] = NoUnderlay

Done(kind, c) == outcome' = [kind |-> kind, pkt |-> c, to |-> NoUnderlay]
Deliver(c, e) == outcome' = [kind |-> "delivered", pkt |-> c, to |-> target[e]]

-----------------------------------------------------------------------------
(* The client, and the in-flight table (InFlight)                          *)

\* The client announces a credential on its QUIC connection.
Announce(c) ==
    /\ c \notin announced
    /\ announced' = announced \cup {c}
    /\ UNCHANGED <<session, expired, pool, creator, target, relay, loop, handler, outcome, packets>>

-----------------------------------------------------------------------------
(* run_underlay_packet_loop                                                *)

\* A slow-path handler is spawned, or the datagram dropped if no permit is free.
Spawn(c) ==
    IF \E h \in Handlers : handler[h].pc = "idle"
    THEN \E h \in Handlers :
           /\ handler[h].pc = "idle"
           /\ handler' = [handler EXCEPT ![h] = [Idle EXCEPT !.pc = "lookup", !.pkt = c]]
           /\ UNCHANGED outcome
    ELSE Done("dropped", c) /\ UNCHANGED handler

\* A datagram under credential c: with a session the loop looks for its endpoint.
Receive(c) ==
    /\ loop.pc = "idle"
    /\ packets < MaxPackets
    /\ packets' = packets + 1
    /\ IF Visible
       THEN /\ loop' = [Idle EXCEPT !.pc = "pool", !.pkt = c, !.cred = session.cred]
            /\ UNCHANGED <<handler, outcome>>
       ELSE Spawn(c) /\ UNCHANGED loop
    /\ UNCHANGED <<caches, creator, target, relay>>

\* udp_pool.get_socket: with an endpoint the datagram is decrypted and sent, or
\* dropped if it does not decrypt; without one a handler takes over.
LoopPool ==
    /\ loop.pc = "pool"
    /\ \/ /\ pool # NoUnderlay /\ loop.pkt = loop.cred
          /\ loop' = [loop EXCEPT !.pc = "send", !.ep = pool]
          /\ UNCHANGED <<handler, outcome>>
       \/ /\ pool # NoUnderlay /\ loop.pkt # loop.cred
          /\ loop' = Idle
          /\ Done("undecryptable", loop.pkt)
          /\ UNCHANGED handler
       \/ /\ pool = NoUnderlay
          /\ loop' = Idle
          /\ Spawn(loop.pkt)
    /\ UNCHANGED <<caches, creator, target, relay, packets>>

\* send_to_addr: a failure invalidates the session.
LoopSend ==
    /\ loop.pc = "send"
    /\ loop' = Idle
    /\ \/ Deliver(loop.pkt, loop.ep) /\ UNCHANGED <<session, expired, pool, relay>>
       \/ Done("failed", loop.pkt) /\ Invalidate(relay)
    /\ UNCHANGED <<announced, creator, target, handler, packets>>

-----------------------------------------------------------------------------
(* handle_non_quic_underlay_packet                                         *)

At(h, l) == handler[h].pc = l
Move(h, l) == handler' = [handler EXCEPT ![h].pc = l]
Finish(h) == handler' = [handler EXCEPT ![h] = Idle]

HandlerLookup(h) ==
    /\ At(h, "lookup")
    /\ \/ /\ Visible /\ session.cred = handler[h].pkt
          /\ handler' = [handler EXCEPT ![h].pc = "existing", ![h].cred = session.cred]
          /\ UNCHANGED outcome
       \/ /\ Visible /\ session.cred # handler[h].pkt
          /\ Finish(h) /\ Done("undecryptable", handler[h].pkt)
       \/ /\ ~Visible
          /\ Move(h, "evict")
          /\ UNCHANGED outcome
    /\ UNCHANGED <<caches, creator, target, relay, loop, packets>>

\* get_socket or get_or_create; a new endpoint of an existing session gets no
\* relay-back task (the is_new flag is discarded).
UseExisting(h) ==
    /\ At(h, "existing")
    /\ \/ /\ pool # NoUnderlay
          /\ handler' = [handler EXCEPT ![h].pc = "send", ![h].ep = pool]
          /\ UNCHANGED creator
       \/ /\ pool = NoUnderlay /\ creator = NoUnderlay
          /\ creator' = h
          /\ Move(h, "dialExisting")
    /\ UNCHANGED <<caches, target, relay, loop, outcome, packets>>

\* evict(): the credential is consumed, or missing until the deadline.
HandlerEvict(h) ==
    LET c == handler[h].pkt IN
    /\ At(h, "evict")
    /\ \/ /\ c \in announced
          /\ announced' = announced \ {c}
          /\ IF c \in Blocked
             THEN Finish(h) /\ Done("blocked", c)
             ELSE handler' = [handler EXCEPT ![h].pc = "create", ![h].cred = c] /\ UNCHANGED outcome
       \/ /\ c \notin announced
          /\ Finish(h) /\ Done("dropped", c)
          /\ UNCHANGED announced
    /\ UNCHANGED <<session, expired, pool, creator, target, relay, loop, packets>>

\* get_or_create of a new session: a cached endpoint is taken with is_new = false.
UseOrCreate(h) ==
    /\ At(h, "create")
    /\ \/ /\ pool # NoUnderlay
          /\ handler' = [handler EXCEPT ![h].pc = "insert", ![h].ep = pool]
          /\ UNCHANGED creator
       \/ /\ pool = NoUnderlay /\ creator = NoUnderlay
          /\ creator' = h
          /\ Move(h, "dialNew")
    /\ UNCHANGED <<caches, target, relay, loop, outcome, packets>>

\* UdpEndpoint::new fails: the handler returns the error.
DialFails(h) ==
    /\ At(h, "dialExisting") \/ At(h, "dialNew")
    /\ creator' = NoUnderlay
    /\ Finish(h)
    /\ Done("failed", handler[h].pkt)
    /\ UNCHANGED <<caches, target, relay, loop, packets>>

\* UdpEndpoint::new succeeds: the endpoint enters the pool with is_new = true.
DialSucceeds(h) ==
    /\ At(h, "dialExisting") \/ At(h, "dialNew")
    /\ CanCreate
    /\ creator' = NoUnderlay
    /\ pool' = NextEndpoint
    /\ target' = [target EXCEPT ![NextEndpoint] = handler[h].cred]
    /\ handler' = [handler EXCEPT ![h].ep = NextEndpoint,
                                  ![h].isNew = At(h, "dialNew"),
                                  ![h].pc = IF At(h, "dialNew") THEN "insert" ELSE "send"]
    /\ relay' = IF At(h, "dialNew") THEN [relay EXCEPT ![NextEndpoint] = "running"] ELSE relay
    /\ UNCHANGED <<announced, session, expired, loop, outcome, packets>>

\* Mutant: replacing a session does not abort its relay-back task.
InsertSession_NoAbort(h) ==
    /\ At(h, "insert")
    /\ session' = [cred |-> handler[h].cred, relay |-> IF handler[h].isNew THEN handler[h].ep ELSE NoUnderlay]
    /\ expired' = FALSE
    /\ pool' = IF session = NoUnderlay THEN pool ELSE NoUnderlay
    /\ Move(h, "send")
    /\ UNCHANGED <<announced, creator, target, relay, loop, outcome, packets>>

\* sessions.insert: replacing an entry runs the eviction listener on the old one.
InsertSession(h) ==
    /\ At(h, "insert")
    /\ session' = [cred |-> handler[h].cred, relay |-> IF handler[h].isNew THEN handler[h].ep ELSE NoUnderlay]
    /\ expired' = FALSE
    /\ relay' = IF session = NoUnderlay THEN relay ELSE Abort(relay, session.relay)
    /\ pool' = IF session = NoUnderlay THEN pool ELSE NoUnderlay
    /\ Move(h, "send")
    /\ UNCHANGED <<announced, creator, target, loop, outcome, packets>>

\* send_to_addr of a handler: a failure removes the pool entry, aborts the relay
\* task of whatever session is there now, and invalidates that session.
HandlerSend(h) ==
    /\ At(h, "send")
    /\ Finish(h)
    /\ \/ Deliver(handler[h].pkt, handler[h].ep) /\ UNCHANGED <<session, expired, pool, relay>>
       \/ /\ Done("failed", handler[h].pkt)
          /\ session' = NoUnderlay
          /\ expired' = FALSE
          /\ relay' = IF session = NoUnderlay THEN relay ELSE Abort(relay, session.relay)
          /\ pool' = NoUnderlay
    /\ UNCHANGED <<announced, creator, target, loop, packets>>

-----------------------------------------------------------------------------
(* Relay-back tasks                                                        *)

\* The loop of the task ends (idle timer, socket or send error): drop(_guard).
RelayEnds(e) ==
    /\ relay[e] = "running"
    /\ Invalidate([relay EXCEPT ![e] = "exiting"])
    /\ UNCHANGED <<announced, creator, target, loop, handler, outcome, packets>>

\* ... and then udp_pool.remove(&source).
RelayRemovesPool(e) ==
    /\ relay[e] = "exiting"
    /\ relay' = [relay EXCEPT ![e] = "gone"]
    /\ pool' = NoUnderlay
    /\ UNCHANGED <<announced, session, expired, creator, target, loop, handler, outcome, packets>>

\* Mutant: an aborted task survives the abort.
RelayDropped_Survives(e) ==
    /\ relay[e] = "aborted"
    /\ Invalidate(relay)
    /\ UNCHANGED <<announced, creator, target, loop, handler, outcome, packets>>

\* An aborted task is dropped at its await; its guard invalidates the session.
RelayDropped(e) ==
    /\ relay[e] = "aborted"
    /\ Invalidate([relay EXCEPT ![e] = "gone"])
    /\ UNCHANGED <<announced, creator, target, loop, handler, outcome, packets>>

-----------------------------------------------------------------------------
(* moka                                                                    *)

\* time_to_idle passes: the entry is invisible, the listener runs later.
SessionExpires ==
    /\ Visible
    /\ expired' = TRUE
    /\ UNCHANGED <<announced, session, pool, creator, target, relay, loop, handler, outcome, packets>>

\* Housekeeping removes an expired entry, or a live one for capacity.  moka has no thread of
\* its own: it does this inside an operation on the cache, of whatever client.
SessionEvicted ==
    /\ session # NoUnderlay
    /\ Invalidate(relay)
    /\ UNCHANGED <<announced, creator, target, loop, handler, outcome, packets>>

\* The pool's own time_to_idle or capacity eviction.
PoolEvicted ==
    /\ pool # NoUnderlay
    /\ pool' = NoUnderlay
    /\ UNCHANGED <<announced, session, expired, creator, target, relay, loop, handler, outcome, packets>>

\* The bounded run is over.
Finished ==
    /\ packets = MaxPackets
    /\ loop = Idle /\ \A h \in Handlers : handler[h] = Idle
    /\ UNCHANGED underlayVars

HandlerStep(h) ==
    \/ HandlerLookup(h) \/ UseExisting(h) \/ HandlerEvict(h) \/ UseOrCreate(h)
    \/ DialFails(h) \/ DialSucceeds(h) \/ InsertSession(h) \/ HandlerSend(h)

RelayStep(e) == RelayEnds(e) \/ RelayRemovesPool(e) \/ RelayDropped(e)

UnderlayNext ==
    \/ \E c \in Creds : Announce(c) \/ Receive(c)
    \/ LoopPool
    \/ LoopSend
    \/ \E h \in Handlers : HandlerStep(h)
    \/ \E e \in Endpoints : RelayStep(e)
    \/ SessionExpires
    \/ SessionEvicted
    \/ PoolEvicted
    \/ Finished

UnderlaySpec == UnderlayInit /\ [][UnderlayNext]_underlayVars

\* Tasks are polled, and the relay idle timer fires once responses stop.  Nothing obliges
\* moka to evict: on a quiet server no operation touches its caches.
UnderlayFairness ==
    /\ WF_underlayVars(LoopPool) /\ WF_underlayVars(LoopSend)
    /\ \A h \in Handlers : WF_underlayVars(HandlerStep(h))
    /\ \A e \in Endpoints : WF_underlayVars(RelayStep(e))

UnderlayFairSpec == UnderlaySpec /\ UnderlayFairness

-----------------------------------------------------------------------------
(* Properties                                                              *)

\* No relay-back task is orphaned: one that runs can be aborted through the session that
\* refers to it, or is about to be by the handler that spawned it; and the task a session
\* refers to encrypts with that session's cipher and reads the socket of its target.
NoOrphanRelay ==
    /\ \A e \in Endpoints : relay[e] = "running" =>
          \/ session # NoUnderlay /\ session.relay = e
          \/ \E h \in Handlers : At(h, "insert") /\ handler[h].ep = e /\ handler[h].isNew
    /\ session # NoUnderlay /\ session.relay # NoUnderlay => target[session.relay] = session.cred

\* Other clients keep using the two caches, and so keep their housekeeping running.
HousekeepingRuns == WF_underlayVars(SessionEvicted) /\ WF_underlayVars(PoolEvicted)

\* Once datagrams stop, every relay-back task of the address ends by itself, whatever the
\* caches do; the session and the endpoint are released too as long as some client keeps
\* the housekeeping running.
RelaysEnded == \A e \in Endpoints : relay[e] \in {"none", "gone"}
Released == session = NoUnderlay /\ pool = NoUnderlay /\ RelaysEnded
EventuallyReleased == <>[]RelaysEnded /\ (HousekeepingRuns => <>[]Released)

\* "forward it to the cached target via the UDP endpoint pool": a datagram is
\* sent to the target announced with the credential it is encrypted under.
DeliveredToOwnTarget == outcome.kind = "delivered" => outcome.to = outcome.pkt
=============================================================================
