------------------------------ MODULE InFlight ------------------------------
(***************************************************************************)
(* The server's in-flight underlay table (server/src/inflight.rs).         *)
(*                                                                         *)
(* A client announces an underlay session on its authenticated QUIC        *)
(* connection; the connection's auth reader calls store(salt, auth).  The  *)
(* first raw UDP datagram of the session carries the same salt and is      *)
(* handled by a task that calls evict(salt, authenticate), which waits a   *)
(* bounded time for the auth, checks that it decrypts the datagram, and    *)
(* consumes it.  A periodic task calls cleanup().                          *)
(*                                                                         *)
(* The table's mutex makes each critical section one atomic step; evict is *)
(* split at every point where the lock is released.                        *)
(*                                                                         *)
(* A std `Instant` is modelled by two numbers: `stamp`, which identifies   *)
(* it (two calls of store never read the same nanosecond), and `at`, the   *)
(* coarse clock from which ages are computed.                              *)
(***************************************************************************)
EXTENDS Integers, FiniteSets

CONSTANTS
    Keys,           \* salts (InFlightKey)
    Psks,           \* pre-shared keys an UnderlayAuth may carry
    Packets,        \* first datagrams, each handled by one evict() call
    MaxEntries,     \* consts::MAX_IN_FLIGHT_UNDERLAY_ENTRIES
    Ttl,            \* consts::IN_FLIGHT_UNDERLAY_TTL, in clock ticks
    EvictTimeout,   \* evict_timeout, in clock ticks
    CleanupPeriod,  \* interval of the cleanup task, in clock ticks
    MaxStores,      \* bound: number of store() calls
    MaxTime,        \* bound: clock ticks
    None            \* Option::None, for table slots and results

ASSUME InFlightConstants ==
    /\ MaxEntries \in Nat \ {0}
    /\ Ttl \in Nat
    /\ EvictTimeout \in Nat
    /\ CleanupPeriod \in Nat \ {0}
    /\ MaxStores \in Nat
    /\ MaxTime \in Nat

\* The values of the two hash maps: (UnderlayAuth, Instant), and (Arc<Notify>,
\* Instant) with the tasks whose Notified futures are registered with it.
Auth   == [psk : Psks, stamp : Nat, at : Nat]
Waiter == [who : SUBSET Packets, at : Nat]

ASSUME NoneIsNoEntry == None \notin Auth /\ None \notin Waiter

VARIABLES
    auth,      \* auth[k]: the stored credential of salt k, or None
    waiting,   \* waiting[k]: the Notify of salt k with the tasks parked on it, or None
    sent,      \* sent[p]: the salt and the key datagram p was encrypted with
    pc,        \* where the evict() call of p is
    claimed,   \* claimed[p]: the credential p cloned under the lock
    deadline,  \* deadline[p]: when p gives up
    woken,     \* the parked tasks whose notification has fired
    result,    \* result[p]: the credential evict() returned, or None
    stamp,     \* number of store() calls so far: the identity of the last Instant
    now,       \* coarse clock
    nextCleanup \* when the cleanup interval fires next

table == <<auth, waiting>>
task  == <<pc, claimed, deadline, result>>
vars  == <<auth, waiting, sent, pc, claimed, deadline, woken, result, stamp, now, nextCleanup>>

Outcome == Auth \cup {None}
PCs     == {"arriving", "claim", "verify", "remove", "register", "wait", "done"}

TypeOK ==
    /\ auth \in [Keys -> Auth \cup {None}]
    /\ waiting \in [Keys -> Waiter \cup {None}]
    /\ sent \in [Packets -> [key : Keys, psk : Psks]]
    /\ pc \in [Packets -> PCs]
    /\ claimed \in [Packets -> Outcome]
    /\ deadline \in [Packets -> Nat]
    /\ woken \in SUBSET Packets
    /\ result \in [Packets -> Outcome]
    /\ stamp \in Nat
    /\ now \in Nat
    /\ nextCleanup \in Nat

Key(p) == sent[p].key

-----------------------------------------------------------------------------
(* Helpers on the two maps                                                 *)

Occupied(m) == {k \in Keys : m[k] # None}

\* HashMap::len() >= MAX_IN_FLIGHT_UNDERLAY_ENTRIES
Full(m) == Cardinality(Occupied(m)) >= MaxEntries

\* HashMap::retain(|..| now.duration_since(inserted_at) <= limit)
Retain(m, limit) == [k \in Keys |-> IF m[k] # None /\ now - m[k].at <= limit THEN m[k] ELSE None]

\* The tasks that notify_waiters() on the Notify objects of the salts K reaches.
Notified(K) == UNION {waiting[k].who : k \in {j \in K : waiting[j] # None}}

\* The salts whose waiter a retain() over `waiting` discards.
StaleWaiters == Occupied(waiting) \ Occupied(Retain(waiting, EvictTimeout))

-----------------------------------------------------------------------------
Init ==
    /\ auth = [k \in Keys |-> None]
    /\ waiting = [k \in Keys |-> None]
    /\ sent \in [Packets -> [key : Keys, psk : Psks]]
    /\ pc = [p \in Packets |-> "arriving"]
    /\ claimed = [p \in Packets |-> None]
    /\ deadline = [p \in Packets |-> 0]
    /\ woken = {}
    /\ result = [p \in Packets |-> None]
    /\ stamp = 0
    /\ now = 0
    /\ nextCleanup = 0      \* tokio's interval fires at once

\* What store() keeps of the auth map before it inserts salt k: when the map is
\* full and k is not in it, expired entries are reclaimed.
Reclaimed(k) == IF auth[k] = None /\ Full(auth) THEN Retain(auth, Ttl) ELSE auth

\* store() inserts unless the map is still full after reclaiming.
Admits(k) == auth[k] # None \/ ~Full(Reclaimed(k))

\* Mutant: store() drops the waiter without notifying it.
Store_Silent(k, s) ==
    /\ stamp < MaxStores
    /\ stamp' = stamp + 1
    /\ IF Admits(k)
       THEN /\ auth' = [Reclaimed(k) EXCEPT ![k] = [psk |-> s, stamp |-> stamp + 1, at |-> now]]
            /\ waiting' = [waiting EXCEPT ![k] = None]
       ELSE auth' = Reclaimed(k) /\ UNCHANGED waiting
    /\ UNCHANGED <<sent, task, woken, now, nextCleanup>>

\* store(k, auth with key s)
Store(k, s) ==
    /\ stamp < MaxStores
    /\ stamp' = stamp + 1
    /\ IF Admits(k)
       THEN /\ auth' = [Reclaimed(k) EXCEPT ![k] = [psk |-> s, stamp |-> stamp + 1, at |-> now]]
            /\ waiting' = [waiting EXCEPT ![k] = None]
            /\ woken' = woken \cup Notified({k})
       ELSE /\ auth' = Reclaimed(k)
            /\ UNCHANGED <<waiting, woken>>
    /\ UNCHANGED <<sent, task, now, nextCleanup>>

\* The handler task of p calls evict(): the deadline is fixed once, on entry.
Arrive(p) ==
    /\ pc[p] = "arriving"
    /\ now + EvictTimeout <= MaxTime
    /\ deadline' = [deadline EXCEPT ![p] = now + EvictTimeout]
    /\ pc' = [pc EXCEPT ![p] = "claim"]
    /\ UNCHANGED <<table, sent, claimed, woken, result, stamp, now, nextCleanup>>

\* First critical section: clone the entry and its Instant.
Claim(p) ==
    /\ pc[p] = "claim"
    /\ claimed' = [claimed EXCEPT ![p] = auth[Key(p)]]
    /\ pc' = [pc EXCEPT ![p] = IF auth[Key(p)] # None THEN "verify" ELSE "register"]
    /\ UNCHANGED <<table, sent, deadline, woken, result, stamp, now, nextCleanup>>

\* authenticate(&auth), outside the lock: decryption succeeds exactly under the
\* key the datagram was encrypted with.  On failure evict returns None.
Verify(p) ==
    /\ pc[p] = "verify"
    /\ pc' = [pc EXCEPT ![p] = IF claimed[p].psk = sent[p].psk THEN "remove" ELSE "done"]
    /\ UNCHANGED <<table, sent, claimed, deadline, woken, result, stamp, now, nextCleanup>>

\* The entry p verified is still the one stored under its salt.
StillStored(p) == auth[Key(p)] # None /\ auth[Key(p)].stamp = claimed[p].stamp

\* Mutant: evict() returns what it verified although the entry is gone.
Remove_Anyway(p) ==
    /\ pc[p] = "remove"
    /\ auth' = IF StillStored(p) THEN [auth EXCEPT ![Key(p)] = None] ELSE auth
    /\ result' = [result EXCEPT ![p] = claimed[p]]
    /\ pc' = [pc EXCEPT ![p] = "done"]
    /\ UNCHANGED <<waiting, sent, claimed, deadline, woken, stamp, now, nextCleanup>>

\* Second critical section: consume the entry only if it is still the same one.
Remove(p) ==
    /\ pc[p] = "remove"
    /\ IF StillStored(p)
       THEN /\ auth' = [auth EXCEPT ![Key(p)] = None]
            /\ result' = [result EXCEPT ![p] = claimed[p]]
       ELSE UNCHANGED <<auth, result>>
    /\ pc' = [pc EXCEPT ![p] = "done"]
    /\ UNCHANGED <<waiting, sent, claimed, deadline, woken, stamp, now, nextCleanup>>

\* Whether the `waiting` map must reclaim stale waiters to take salt k.
Crowded(k) == waiting[k] = None /\ Full(waiting)

\* `waiting` as p leaves it before registering, and whether there is then room.
Cleared(k)  == IF Crowded(k) THEN Retain(waiting, EvictTimeout) ELSE waiting
HasRoom(k)  == waiting[k] # None \/ ~Full(Cleared(k))

\* entry(key).or_insert_with(..), with the Notified future of p.
Subscribed(w, p) == IF w = None THEN [who |-> {p}, at |-> now] ELSE [w EXCEPT !.who = @ \cup {p}]

\* Third critical section: retry if the auth has arrived; otherwise join (or
\* create) the salt's Notify.  notified_owned() is created under the lock.
Register(p) ==
    LET k == Key(p) IN
    /\ pc[p] = "register"
    /\ \/ /\ auth[k] # None
          /\ pc' = [pc EXCEPT ![p] = "claim"]
          /\ UNCHANGED <<waiting, woken>>
       \/ /\ auth[k] = None
          /\ woken' = IF Crowded(k) THEN woken \cup Notified(StaleWaiters) ELSE woken
          /\ IF HasRoom(k)
             THEN /\ waiting' = [Cleared(k) EXCEPT ![k] = Subscribed(waiting[k], p)]
                  /\ pc' = [pc EXCEPT ![p] = "wait"]
             ELSE /\ waiting' = Cleared(k)
                  /\ pc' = [pc EXCEPT ![p] = "done"]
    /\ UNCHANGED <<auth, sent, claimed, deadline, result, stamp, now, nextCleanup>>

\* timeout_at polls the notification first: a fired one wins over the deadline.
Wake(p) ==
    /\ pc[p] = "wait"
    /\ p \in woken
    /\ woken' = woken \ {p}
    /\ pc' = [pc EXCEPT ![p] = "claim"]
    /\ UNCHANGED <<table, sent, claimed, deadline, result, stamp, now, nextCleanup>>

\* A waiter without the Notified future of p.
Unsubscribed(w, p) == IF w = None THEN None ELSE [w EXCEPT !.who = @ \ {p}]

\* Mutant: the deadline ends the wait but not the loop.
GiveUp_Retries(p) ==
    /\ pc[p] = "wait"
    /\ p \notin woken
    /\ now >= deadline[p]
    /\ waiting' = [waiting EXCEPT ![Key(p)] = Unsubscribed(waiting[Key(p)], p)]
    /\ pc' = [pc EXCEPT ![p] = "claim"]
    /\ UNCHANGED <<auth, sent, claimed, deadline, woken, result, stamp, now, nextCleanup>>

\* The deadline passes: the Notified future is dropped, which leaves the salt's
\* waiter in the map for the other packets and for cleanup.
GiveUp(p) ==
    /\ pc[p] = "wait"
    /\ p \notin woken
    /\ now >= deadline[p]
    /\ waiting' = [waiting EXCEPT ![Key(p)] = Unsubscribed(waiting[Key(p)], p)]
    /\ pc' = [pc EXCEPT ![p] = "done"]
    /\ UNCHANGED <<auth, sent, claimed, deadline, woken, result, stamp, now, nextCleanup>>

\* Mutant: cleanup() forgets the waiters.
Cleanup_AuthOnly ==
    /\ now = nextCleanup
    /\ nextCleanup' = nextCleanup + CleanupPeriod
    /\ auth' = Retain(auth, Ttl)
    /\ UNCHANGED <<waiting, woken, sent, task, stamp, now>>

\* cleanup(), run by the interval task that serve_with_shutdown spawns.
Cleanup ==
    /\ now = nextCleanup
    /\ nextCleanup' = nextCleanup + CleanupPeriod
    /\ auth' = Retain(auth, Ttl)
    /\ waiting' = Retain(waiting, EvictTimeout)
    /\ woken' = woken \cup Notified(StaleWaiters)
    /\ UNCHANGED <<sent, task, stamp, now>>

\* Time passes.  The cleanup task runs within the tick in which it is due.
Tick ==
    /\ now < MaxTime
    /\ now < nextCleanup
    /\ now' = now + 1
    /\ UNCHANGED <<table, sent, task, woken, stamp, nextCleanup>>

\* The bounded run is over: every datagram has been disposed of.
Quiescent ==
    /\ now = MaxTime
    /\ now < nextCleanup
    /\ \A p \in Packets : pc[p] \in {"arriving", "done"}
    /\ UNCHANGED vars

EvictStep(p) == Claim(p) \/ Verify(p) \/ Remove(p) \/ Register(p) \/ Wake(p) \/ GiveUp(p)

Next ==
    \/ \E k \in Keys, s \in Psks : Store(k, s)
    \/ \E p \in Packets : Arrive(p)
    \/ \E p \in Packets : Claim(p)
    \/ \E p \in Packets : Verify(p)
    \/ \E p \in Packets : Remove(p)
    \/ \E p \in Packets : Register(p)
    \/ \E p \in Packets : Wake(p)
    \/ \E p \in Packets : GiveUp(p)
    \/ Cleanup
    \/ Tick
    \/ Quiescent

Spec == Init /\ [][Next]_vars

\* The runtime polls every runnable task, and timers fire.
Fairness == WF_vars(Tick) /\ WF_vars(Cleanup) /\ \A p \in Packets : WF_vars(EvictStep(p))

FairSpec == Spec /\ Fairness

-----------------------------------------------------------------------------
(* Properties                                                              *)

\* "two packets cannot both consume it": no credential is returned by two
\* evict() calls, although both may have cloned and verified it.
ConsumedOnce ==
    \A p, q \in Packets :
        p # q /\ result[p] # None /\ result[q] # None => result[p].stamp # result[q].stamp

\* No lost wake-up between store() and evict(): a packet that is parked with no
\* notification pending never has a credential for its salt in the table.
NoMissedWakeup ==
    \A p \in Packets : pc[p] = "wait" /\ p \notin woken => auth[Key(p)] = None

\* A parked packet that has not been woken is on the Notify that the table holds
\* for its salt, so that a later store, reclaim or cleanup reaches it.
ParkedReachable ==
    \A p \in Packets : pc[p] = "wait" /\ p \notin woken =>
        waiting[Key(p)] # None /\ p \in waiting[Key(p)].who

\* Both maps respect MAX_IN_FLIGHT_UNDERLAY_ENTRIES, each on its own.
TableBounded ==
    /\ Cardinality(Occupied(auth)) <= MaxEntries
    /\ Cardinality(Occupied(waiting)) <= MaxEntries

\* The cleanup interval bounds how long an unused credential, or the waiter of
\* packets that gave up, stays in memory.
ResidueBounded ==
    \A k \in Keys :
        /\ auth[k] # None => now - auth[k].at <= Ttl + CleanupPeriod
        /\ waiting[k] # None => now - waiting[k].at <= EvictTimeout + CleanupPeriod

\* A credential leaves the table only by expiring, by being replaced by a newer
\* one for the same salt, or into the hands of a packet that decrypts under it:
\* a failed check or a lost race leaves it in place for a later packet.
LeavesOnlyWhenDue ==
    [][\A k \in Keys :
         auth[k] # None /\ auth'[k] # auth[k] =>
            \/ auth'[k] # None /\ auth'[k].stamp > auth[k].stamp
            \/ now - auth[k].at > Ttl
            \/ \E p \in Packets : /\ result[p] = None
                                  /\ result'[p] = auth[k]
                                  /\ sent[p] = [key |-> k, psk |-> auth[k].psk]]_vars

\* The credentials in the table, and those handed out, as the abstract store
\* sees them.
Held  == {[key |-> k, psk |-> auth[k].psk, stamp |-> auth[k].stamp] : k \in Occupied(auth)}
Given == {<<[key |-> Key(p), psk |-> result[p].psk, stamp |-> result[p].stamp], p>> :
            p \in {q \in Packets : result[q] # None}}

Abstract == INSTANCE CredentialStore WITH issued <- stamp, live <- Held, spent <- Given

\* store/evict/cleanup, with their locks, waiters and timeouts, implement a
\* store of single-use credentials.
ImplementsCredentialStore == Abstract!Spec

\* Every evict() call returns: neither a missed notification nor a stream of
\* spurious ones keeps a handler task (and its permit) for ever.
EvictReturns == \A p \in Packets : pc[p] = "claim" ~> pc[p] = "done"
=============================================================================
