---------------------------- MODULE DnsResolver ----------------------------
(***************************************************************************)
(* resolve_udp_target (server/src/server.rs): the UDP relay streams of one *)
(* QUIC connection share a bounded TTL cache of resolved targets and a map *)
(* of the lookups in flight, so that each (host, port) is looked up by one *)
(* stream at a time.  Both maps are behind std mutexes; a call is split    *)
(* where it releases them.                                                 *)
(*                                                                         *)
(* The cache is an IndexMap: a sequence of entries in slot order, where    *)
(* swap_remove moves the last entry into the freed slot.                   *)
(***************************************************************************)
EXTENDS Naturals, Sequences, FiniteSets

CONSTANTS
    Keys,       \* (host, port) pairs whose host is a domain name
    Resolvers,  \* relay streams that resolve targets
    CacheCap,   \* consts::MAX_UDP_DNS_CACHE
    MaxInserts, \* bound: cache insertions
    NoTask      \* Option::None

ASSUME DnsConstants ==
    /\ CacheCap \in Nat \ {0}
    /\ MaxInserts \in Nat
    /\ NoTask \notin Keys
    /\ NoTask \notin Resolvers

VARIABLES
    cache,      \* dns_cache: sequence of [key, stale]
    resolving,  \* dns_resolving[k]: the task whose Notify it is, or NoTask
    dnsPc,      \* where each task is
    key,        \* key[t]: what t resolves
    sub,        \* sub[t]: the task on whose Notify t waits, or NoTask
    dnsWoken,   \* waiting tasks whose notification has fired
    inserts     \* insertions so far

dnsVars == <<cache, resolving, dnsPc, key, sub, dnsWoken, inserts>>

Entry == [key : Keys, stale : BOOLEAN]

DnsTypeOK ==
    /\ cache \in Seq(Entry)
    /\ resolving \in [Keys -> Resolvers \cup {NoTask}]
    /\ dnsPc \in [Resolvers -> {"idle", "enter", "lookup", "insert", "release", "notify", "wait"}]
    /\ key \in [Resolvers -> Keys \cup {NoTask}]
    /\ sub \in [Resolvers -> Resolvers \cup {NoTask}]
    /\ dnsWoken \in SUBSET {t \in Resolvers : dnsPc[t] = "wait"}
    /\ inserts \in 0..MaxInserts

DnsInit ==
    /\ cache = <<>>
    /\ resolving = [k \in Keys |-> NoTask]
    /\ dnsPc = [t \in Resolvers |-> "idle"]
    /\ key = [t \in Resolvers |-> NoTask]
    /\ sub = [t \in Resolvers |-> NoTask]
    /\ dnsWoken = {}
    /\ inserts = 0

-----------------------------------------------------------------------------
DnsGoto(t, l) == dnsPc' = [dnsPc EXCEPT ![t] = l]

\* The slot of key k in the cache, if it has one.
Slots(k) == {i \in DOMAIN cache : cache[i].key = k}

\* IndexMap::swap_remove of slot i
SwapRemove(s, i) == SubSeq([s EXCEPT ![i] = s[Len(s)]], 1, Len(s) - 1)

\* cache.get(&key), elapsed() < UDP_DNS_CACHE_TTL
Hit(k) == \E i \in Slots(k) : ~cache[i].stale

\* A stale entry is dropped when it is found.
WithoutStale(k) ==
    IF Slots(k) = {} THEN cache ELSE SwapRemove(cache, CHOOSE i \in Slots(k) : TRUE)

\* A relay stream has a datagram for domain target k.
DnsCall(t, k) ==
    /\ dnsPc[t] = "idle"
    /\ key' = [key EXCEPT ![t] = k]
    /\ DnsGoto(t, "enter")
    /\ UNCHANGED <<cache, resolving, sub, dnsWoken, inserts>>

\* Under both locks: a fresh hit is the answer.
EnterHit(t) ==
    /\ dnsPc[t] = "enter"
    /\ Hit(key[t])
    /\ DnsGoto(t, "idle")
    /\ UNCHANGED <<cache, resolving, key, sub, dnsWoken, inserts>>

\* Somebody looks the key up: take its Notified future before unlocking.
EnterWait(t) ==
    /\ dnsPc[t] = "enter"
    /\ ~Hit(key[t])
    /\ resolving[key[t]] # NoTask
    /\ cache' = WithoutStale(key[t])
    /\ sub' = [sub EXCEPT ![t] = resolving[key[t]]]
    /\ DnsGoto(t, "wait")
    /\ UNCHANGED <<resolving, key, dnsWoken, inserts>>

\* Nobody does: register and hold a ResolutionGuard.
EnterLookup(t) ==
    /\ dnsPc[t] = "enter"
    /\ ~Hit(key[t])
    /\ resolving[key[t]] = NoTask
    /\ cache' = WithoutStale(key[t])
    /\ resolving' = [resolving EXCEPT ![key[t]] = t]
    /\ DnsGoto(t, "lookup")
    /\ UNCHANGED <<key, sub, dnsWoken, inserts>>

\* lookup_host answers.
LookupSucceeds(t) ==
    /\ dnsPc[t] = "lookup"
    /\ DnsGoto(t, "insert")
    /\ UNCHANGED <<cache, resolving, key, sub, dnsWoken, inserts>>

\* It fails, finds nothing, passes the deadline, or the stream's task is
\* cancelled: in each case the guard is dropped.
LookupFails(t) ==
    /\ dnsPc[t] = "lookup"
    /\ DnsGoto(t, "release")
    /\ UNCHANGED <<cache, resolving, key, sub, dnsWoken, inserts>>

\* The cache with room for one more: when full, the entry of the first slot goes.
MadeRoom == IF Len(cache) >= CacheCap THEN SwapRemove(cache, 1) ELSE cache

Insert(t) ==
    /\ dnsPc[t] = "insert"
    /\ inserts < MaxInserts
    /\ inserts' = inserts + 1
    /\ cache' = Append(MadeRoom, [key |-> key[t], stale |-> FALSE])
    /\ DnsGoto(t, "release")
    /\ UNCHANGED <<resolving, key, sub, dnsWoken>>

\* ResolutionGuard::drop: first resolving.remove ...
DnsRelease(t) ==
    /\ dnsPc[t] = "release"
    /\ resolving' = [resolving EXCEPT ![key[t]] = NoTask]
    /\ DnsGoto(t, "notify")
    /\ UNCHANGED <<cache, key, sub, dnsWoken, inserts>>

\* Mutant: the guard does not notify.
Notify_Silent(t) ==
    /\ dnsPc[t] = "notify"
    /\ DnsGoto(t, "idle")
    /\ UNCHANGED <<cache, resolving, key, sub, dnsWoken, inserts>>

\* ... then notify_waiters.
Notify(t) ==
    /\ dnsPc[t] = "notify"
    /\ dnsWoken' = dnsWoken \cup {w \in Resolvers : dnsPc[w] = "wait" /\ sub[w] = t}
    /\ DnsGoto(t, "idle")
    /\ UNCHANGED <<cache, resolving, key, sub, inserts>>

\* The wait completes: retry from the top.
DnsWake(t) ==
    /\ dnsPc[t] = "wait"
    /\ t \in dnsWoken
    /\ dnsWoken' = dnsWoken \ {t}
    /\ sub' = [sub EXCEPT ![t] = NoTask]
    /\ DnsGoto(t, "enter")
    /\ UNCHANGED <<cache, resolving, key, inserts>>

\* Mutant: the future outlives the wait that timed out.
WaitEnds_KeepsFuture(t) ==
    /\ dnsPc[t] = "wait"
    /\ sub' = [sub EXCEPT ![t] = NoTask]
    /\ DnsGoto(t, "idle")
    /\ UNCHANGED <<cache, resolving, key, dnsWoken, inserts>>

\* The waiter passes its own deadline, or is cancelled.
WaitEnds(t) ==
    /\ dnsPc[t] = "wait"
    /\ dnsWoken' = dnsWoken \ {t}
    /\ sub' = [sub EXCEPT ![t] = NoTask]
    /\ DnsGoto(t, "idle")
    /\ UNCHANGED <<cache, resolving, key, inserts>>

\* UDP_DNS_CACHE_TTL passes for the entry in slot i.
Expire(i) ==
    /\ ~cache[i].stale
    /\ cache' = [cache EXCEPT ![i].stale = TRUE]
    /\ UNCHANGED <<resolving, dnsPc, key, sub, dnsWoken, inserts>>

\* The bounded run inserts no more.
Bound ==
    /\ inserts = MaxInserts
    /\ \A t \in Resolvers : dnsPc[t] \in {"idle", "insert", "wait"}
    /\ UNCHANGED dnsVars

DnsStep(t) ==
    \/ EnterHit(t) \/ EnterWait(t) \/ EnterLookup(t)
    \/ LookupSucceeds(t) \/ LookupFails(t) \/ Insert(t) \/ DnsRelease(t) \/ Notify(t)
    \/ DnsWake(t)

DnsNext ==
    \/ \E t \in Resolvers, k \in Keys : DnsCall(t, k)
    \/ \E t \in Resolvers : DnsStep(t) \/ WaitEnds(t)
    \/ \E i \in DOMAIN cache : Expire(i)
    \/ Bound

DnsSpec == DnsInit /\ [][DnsNext]_dnsVars

-----------------------------------------------------------------------------
(* Properties                                                              *)

Guarding == {"lookup", "insert", "release"}

\* "per-key single-flight": one lookup per key at a time, and the map of lookups
\* in flight names exactly the tasks that hold a guard.
SingleFlight ==
    /\ \A t \in Resolvers : dnsPc[t] \in Guarding => resolving[key[t]] = t
    /\ \A k \in Keys : resolving[k] # NoTask => dnsPc[resolving[k]] \in Guarding /\ key[resolving[k]] = k

\* "Failed or cancelled lookups release the key and wake all waiters": a waiter
\* that was not woken waits for a task that still has its guard to drop.
WaiterHasResolver ==
    \A t \in Resolvers : dnsPc[t] = "wait" /\ t \notin dnsWoken =>
        /\ sub[t] # NoTask
        /\ dnsPc[sub[t]] \in Guarding \cup {"notify"}
        /\ key[sub[t]] = key[t]

\* The cache keeps its bound, and one entry per key, whatever lookups of other
\* keys insert or evict meanwhile.
CacheSound ==
    /\ Len(cache) <= CacheCap
    /\ \A i, j \in DOMAIN cache : cache[i].key = cache[j].key => i = j
=============================================================================
