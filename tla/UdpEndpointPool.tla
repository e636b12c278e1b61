-------------------------- MODULE UdpEndpointPool --------------------------
(***************************************************************************)
(* UdpEndpointPool::get_or_create (server/src/udp.rs) for one client       *)
(* address.  Addresses share only the two mutexes, whose critical sections *)
(* are single steps here, so one address shows every interleaving of the   *)
(* tasks that ask for its endpoint.                                        *)
(*                                                                         *)
(* The first task to enter `creating` resolves and binds the endpoint; the *)
(* others find a Notify in `notify_map` and wait on it.  The creator's     *)
(* guard (CreationGuard::drop) undoes the registration in three separately *)
(* locked steps.                                                           *)
(*                                                                         *)
(* A Notify is an Arc: its number is reused once nothing refers to it.     *)
(***************************************************************************)
EXTENDS Naturals, FiniteSets

CONSTANTS
    Callers,    \* tasks that may call get_or_create for the address
    Notifies,   \* identities of Notify objects
    NoNotify    \* Option::None

ASSUME PoolConstants ==
    /\ IsFiniteSet(Callers)
    /\ NoNotify \notin Notifies

VARIABLES
    cached,     \* whether the moka cache holds an endpoint for the address
    creating,   \* whether `creating` contains the address
    notifyMap,  \* the Notify in `notify_map` for the address, or NoNotify
    poolPc,     \* where each task is inside get_or_create
    ref,        \* ref[t]: the Notify task t holds (as creator or as waiter)
    poolWoken   \* waiting tasks whose notification has fired

poolVars == <<cached, creating, notifyMap, poolPc, ref, poolWoken>>

\* From winning `creating` to CreationGuard removing the address from it again.
Section == {"publish", "recheck", "dial", "insert", "release"}

\* The rest of CreationGuard::drop.
Dropping == {"unpublish", "signal"}

PCs == {"idle", "lookup", "arbitrate", "subscribe", "confirm", "listen", "wait"}
         \cup Section \cup Dropping

PoolTypeOK ==
    /\ cached \in BOOLEAN
    /\ creating \in BOOLEAN
    /\ notifyMap \in Notifies \cup {NoNotify}
    /\ poolPc \in [Callers -> PCs]
    /\ ref \in [Callers -> Notifies \cup {NoNotify}]
    /\ poolWoken \in SUBSET {t \in Callers : poolPc[t] = "wait"}

PoolInit ==
    /\ cached = FALSE
    /\ creating = FALSE
    /\ notifyMap = NoNotify
    /\ poolPc = [t \in Callers |-> "idle"]
    /\ ref = [t \in Callers |-> NoNotify]
    /\ poolWoken = {}

PoolGoto(t, l) == poolPc' = [poolPc EXCEPT ![t] = l]

\* Arc::new(Notify::new()): an object that nothing refers to yet.
Fresh(n) == n # notifyMap /\ \A t \in Callers : n # ref[t]

-----------------------------------------------------------------------------
\* An underlay packet handler calls get_or_create.
PoolCall(t) ==
    /\ poolPc[t] = "idle"
    /\ PoolGoto(t, "lookup")
    /\ UNCHANGED <<cached, creating, notifyMap, ref, poolWoken>>

\* Top of the loop: the cached endpoint is returned with is_new = false.
Lookup(t) ==
    /\ poolPc[t] = "lookup"
    /\ PoolGoto(t, IF cached THEN "idle" ELSE "arbitrate")
    /\ UNCHANGED <<cached, creating, notifyMap, ref, poolWoken>>

\* creating.lock().insert(addr)
Arbitrate(t) ==
    /\ poolPc[t] = "arbitrate"
    /\ creating' = TRUE
    /\ PoolGoto(t, IF creating THEN "subscribe" ELSE "publish")
    /\ UNCHANGED <<cached, notifyMap, ref, poolWoken>>

\* The creator replaces whatever Notify the map holds by its own.
Publish(t) ==
    /\ poolPc[t] = "publish"
    /\ \E n \in Notifies :
         /\ Fresh(n)
         /\ notifyMap' = n
         /\ ref' = [ref EXCEPT ![t] = n]
    /\ PoolGoto(t, "recheck")
    /\ UNCHANGED <<cached, creating, poolWoken>>

\* Mutant: the creator does not look at the cache again.
Recheck_Skipped(t) ==
    /\ poolPc[t] = "recheck"
    /\ PoolGoto(t, "dial")
    /\ UNCHANGED <<cached, creating, notifyMap, ref, poolWoken>>

\* Mutant: a cache hit returns before the guard exists.
Recheck_Leaks(t) ==
    /\ poolPc[t] = "recheck"
    /\ PoolGoto(t, IF cached THEN "idle" ELSE "dial")
    /\ UNCHANGED <<cached, creating, notifyMap, ref, poolWoken>>

\* The creator's double-check of the cache; returning drops the guard.
Recheck(t) ==
    /\ poolPc[t] = "recheck"
    /\ PoolGoto(t, IF cached THEN "release" ELSE "dial")
    /\ UNCHANGED <<cached, creating, notifyMap, ref, poolWoken>>

\* UdpEndpoint::new(options).await: bind and DNS lookup, which may fail.
Dial(t) ==
    /\ poolPc[t] = "dial"
    /\ \/ PoolGoto(t, "insert")
       \/ PoolGoto(t, "release")
    /\ UNCHANGED <<cached, creating, notifyMap, ref, poolWoken>>

\* inner.insert(addr, endpoint); return Ok((pooled, true))
InsertEndpoint(t) ==
    /\ poolPc[t] = "insert"
    /\ cached' = TRUE
    /\ PoolGoto(t, "release")
    /\ UNCHANGED <<creating, notifyMap, ref, poolWoken>>

\* CreationGuard::drop, first lock: creating.remove(addr)
PoolRelease(t) ==
    /\ poolPc[t] = "release"
    /\ creating' = FALSE
    /\ PoolGoto(t, "unpublish")
    /\ UNCHANGED <<cached, notifyMap, ref, poolWoken>>

\* Second lock: notify_map.remove(addr), whichever Notify is there by now.
Unpublish(t) ==
    /\ poolPc[t] = "unpublish"
    /\ notifyMap' = NoNotify
    /\ PoolGoto(t, "signal")
    /\ UNCHANGED <<cached, creating, ref, poolWoken>>

\* notify.notify_waiters() on the guard's own Notify; the call returns.
Signal(t) ==
    /\ poolPc[t] = "signal"
    /\ poolWoken' = poolWoken \cup {w \in Callers : poolPc[w] = "wait" /\ ref[w] = ref[t]}
    /\ ref' = [ref EXCEPT ![t] = NoNotify]
    /\ PoolGoto(t, "idle")
    /\ UNCHANGED <<cached, creating, notifyMap>>

\* notify_map.entry(addr).or_insert_with(Notify::new).clone()
Subscribe(t) ==
    /\ poolPc[t] = "subscribe"
    /\ \E n \in Notifies :
         /\ IF notifyMap = NoNotify THEN Fresh(n) ELSE n = notifyMap
         /\ notifyMap' = n
         /\ ref' = [ref EXCEPT ![t] = n]
    /\ PoolGoto(t, "confirm")
    /\ UNCHANGED <<cached, creating, poolWoken>>

\* The waiter's double-check: retry from the top if the creator has finished.
Confirm(t) ==
    /\ poolPc[t] = "confirm"
    /\ PoolGoto(t, IF creating THEN "listen" ELSE "lookup")
    /\ ref' = IF creating THEN ref ELSE [ref EXCEPT ![t] = NoNotify]
    /\ UNCHANGED <<cached, creating, notifyMap, poolWoken>>

\* wait_notify.notified(): only notifications after this point are seen.
Listen(t) ==
    /\ poolPc[t] = "listen"
    /\ PoolGoto(t, "wait")
    /\ UNCHANGED <<cached, creating, notifyMap, ref, poolWoken>>

\* The await completes: retry from the top.
PoolWake(t) ==
    /\ poolPc[t] = "wait"
    /\ t \in poolWoken
    /\ poolWoken' = poolWoken \ {t}
    /\ ref' = [ref EXCEPT ![t] = NoNotify]
    /\ PoolGoto(t, "lookup")
    /\ UNCHANGED <<cached, creating, notifyMap>>

\* The entry goes away: remove(), time_to_idle or capacity eviction.
RemoveEndpoint ==
    /\ cached
    /\ cached' = FALSE
    /\ UNCHANGED <<creating, notifyMap, poolPc, ref, poolWoken>>

PoolStep(t) ==
    \/ Lookup(t) \/ Arbitrate(t) \/ Publish(t) \/ Recheck(t) \/ Dial(t) \/ InsertEndpoint(t)
    \/ PoolRelease(t) \/ Unpublish(t) \/ Signal(t)
    \/ Subscribe(t) \/ Confirm(t) \/ Listen(t) \/ PoolWake(t)

PoolNext ==
    \/ \E t \in Callers : PoolCall(t) \/ PoolStep(t)
    \/ RemoveEndpoint

PoolSpec == PoolInit /\ [][PoolNext]_poolVars

\* Every runnable task is polled again, and every DNS lookup ends.
PoolFairness == \A t \in Callers : WF_poolVars(PoolStep(t))

PoolFairSpec == PoolSpec /\ PoolFairness

-----------------------------------------------------------------------------
(* Properties                                                              *)

\* At most one task creates the endpoint at a time ("duplicate creation for the
\* same address is serialised"), although the guard is dropped in three steps.
OneCreator == \A t, u \in Callers : poolPc[t] \in Section /\ poolPc[u] \in Section => t = u

\* The address is marked as being created exactly while some task creates it: no
\* path (cache hit, DNS failure) leaves it marked with nobody to clear it.
MarkedWhileCreated == creating <=> \E t \in Callers : poolPc[t] \in Section

\* A creator never overwrites an endpoint that is in use: whoever gets is_new
\* owns the only endpoint of the address, so its relay-back task is the only one.
NeverReplaced == [][\A t \in Callers : InsertEndpoint(t) => ~cached]_poolVars

\* "a Notify that will be signalled when creation completes (successfully or
\* otherwise)", "Post-wakeup: waiters retry the cache lookup": no call waits for
\* ever.
WaitersWake == \A t \in Callers : poolPc[t] = "wait" ~> poolPc[t] # "wait"
=============================================================================
