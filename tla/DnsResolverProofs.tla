------------------------- MODULE DnsResolverProofs -------------------------
(***************************************************************************)
(* Proofs about DnsResolver, for any number of streams, any set of targets *)
(* and any cache capacity.                                                 *)
(***************************************************************************)
EXTENDS DnsResolver, TLAPS

-----------------------------------------------------------------------------
(* The index map                                                           *)

\* No two slots hold the same key.
Distinct(s) == \A i, j \in DOMAIN s : s[i].key = s[j].key => i = j

\* The keys of the entries of s.
KeysOf(s) == {s[i].key : i \in DOMAIN s}

\* swap_remove shortens the map by one, keeps its keys distinct, brings in no key
\* and takes out exactly the key of the freed slot.
LEMMA SwapRemoveSound ==
    ASSUME NEW s \in Seq(Entry), NEW i \in DOMAIN s
    PROVE  /\ SwapRemove(s, i) \in Seq(Entry)
           /\ Len(SwapRemove(s, i)) = Len(s) - 1
           /\ KeysOf(SwapRemove(s, i)) \subseteq KeysOf(s)
           /\ Distinct(s) => Distinct(SwapRemove(s, i)) /\ s[i].key \notin KeysOf(SwapRemove(s, i))
<1> DEFINE r == SwapRemove(s, i)
           u == [s EXCEPT ![i] = s[Len(s)]]
<1>1. Len(s) \in Nat \ {0} /\ DOMAIN s = 1..Len(s) /\ i \in 1..Len(s)
  OBVIOUS
<1>2. u \in Seq(Entry) /\ Len(u) = Len(s)
  BY <1>1
<1>3. r = SubSeq(u, 1, Len(s) - 1)
  BY DEF SwapRemove
<1>4. r \in Seq(Entry) /\ Len(r) = Len(s) - 1
  BY <1>1, <1>2, <1>3
<1>5. \A j \in 1..(Len(s) - 1) : r[j] = IF j = i THEN s[Len(s)] ELSE s[j]
  BY <1>1, <1>2, <1>3
<1>6. DOMAIN r = 1..(Len(s) - 1)
  BY <1>1, <1>4
<1> HIDE DEF r
<1>7. KeysOf(r) \subseteq KeysOf(s)
  BY <1>1, <1>5, <1>6 DEF KeysOf
<1>8. ASSUME Distinct(s) PROVE Distinct(r) /\ s[i].key \notin KeysOf(r)
  BY <1>1, <1>5, <1>6, <1>8 DEF Distinct, KeysOf
<1> QED BY <1>4, <1>7, <1>8 DEF r

-----------------------------------------------------------------------------
(* Types                                                                   *)

\* A stream that is resolving has a target.
HasKey == \A t \in Resolvers : dnsPc[t] # "idle" => key[t] \in Keys

\* The slots of a name are places in the cache.
LEMMA SlotsAreKeys == ASSUME DnsTypeOK, NEW k \in Keys
                      PROVE  Slots(k) \subseteq DOMAIN cache /\ (Slots(k) = {} <=> k \notin KeysOf(cache))
BY DEF Slots, KeysOf

\* Dropping a stale entry leaves an index map without that key.
LEMMA WithoutStaleSound ==
    ASSUME DnsTypeOK, CacheSound, NEW k \in Keys
    PROVE  /\ WithoutStale(k) \in Seq(Entry)
           /\ Len(WithoutStale(k)) <= CacheCap
           /\ KeysOf(WithoutStale(k)) \subseteq KeysOf(cache)
           /\ Distinct(WithoutStale(k))
           /\ k \notin KeysOf(WithoutStale(k))
<1>1. cache \in Seq(Entry) /\ Distinct(cache) /\ Len(cache) <= CacheCap /\ Len(cache) \in Nat /\ CacheCap \in Nat
  BY DnsConstants DEF DnsTypeOK, CacheSound, Distinct
<1>2. CASE Slots(k) = {}
  <2>1. WithoutStale(k) = cache
    BY <1>2 DEF WithoutStale
  <2> QED BY <1>1, <1>2, <2>1, SlotsAreKeys
<1>3. CASE Slots(k) # {}
  <2> DEFINE i == CHOOSE j \in Slots(k) : TRUE
  <2>1. i \in Slots(k)
    BY <1>3
  <2>2. i \in DOMAIN cache /\ cache[i].key = k
    BY <2>1 DEF Slots
  <2>3. WithoutStale(k) = SwapRemove(cache, i)
    BY <1>3 DEF WithoutStale
  <2> HIDE DEF i
  <2> QED BY <1>1, <2>2, <2>3, SwapRemoveSound
<1> QED BY <1>2, <1>3

\* Making room leaves a slot free.
LEMMA MadeRoomSound ==
    ASSUME DnsTypeOK, CacheSound
    PROVE  /\ MadeRoom \in Seq(Entry)
           /\ Len(MadeRoom) < CacheCap
           /\ KeysOf(MadeRoom) \subseteq KeysOf(cache)
           /\ Distinct(MadeRoom)
<1>1. cache \in Seq(Entry) /\ Distinct(cache) /\ Len(cache) <= CacheCap
        /\ Len(cache) \in Nat /\ CacheCap \in Nat \ {0}
  BY DnsConstants DEF DnsTypeOK, CacheSound, Distinct
<1>2. CASE Len(cache) >= CacheCap
  <2>1. 1 \in DOMAIN cache
    BY <1>1, <1>2
  <2>2. MadeRoom = SwapRemove(cache, 1)
    BY <1>2 DEF MadeRoom
  <2> QED BY <1>1, <1>2, <2>1, <2>2, SwapRemoveSound
<1>3. CASE ~(Len(cache) >= CacheCap)
  BY <1>1, <1>3 DEF MadeRoom
<1> QED BY <1>2, <1>3

\* Every step of resolve_udp_target keeps the types.
LEMMA DnsTypeStep == DnsTypeOK /\ HasKey /\ CacheSound /\ [DnsNext]_dnsVars => DnsTypeOK' /\ HasKey'
<1> SUFFICES ASSUME DnsTypeOK, HasKey, CacheSound, [DnsNext]_dnsVars PROVE DnsTypeOK' /\ HasKey'
  OBVIOUS
<1> USE DnsConstants DEF DnsGoto
<1>1. ASSUME NEW t \in Resolvers, NEW k \in Keys, DnsCall(t, k) PROVE DnsTypeOK' /\ HasKey'
  BY <1>1 DEF DnsCall, DnsTypeOK, HasKey
<1>2. ASSUME NEW t \in Resolvers, EnterWait(t) \/ EnterLookup(t) PROVE DnsTypeOK' /\ HasKey'
  <2>1. key[t] \in Keys
    BY <1>2 DEF EnterWait, EnterLookup, HasKey
  <2>2. WithoutStale(key[t]) \in Seq(Entry)
    BY <2>1, WithoutStaleSound
  <2>3. CASE EnterWait(t)
    BY <2>1, <2>2, <2>3 DEF EnterWait, DnsTypeOK, HasKey
  <2>4. CASE EnterLookup(t)
    BY <2>1, <2>2, <2>4 DEF EnterLookup, DnsTypeOK, HasKey
  <2> QED BY <1>2, <2>3, <2>4
<1>3. ASSUME NEW t \in Resolvers, EnterHit(t) \/ LookupSucceeds(t) \/ LookupFails(t) PROVE DnsTypeOK' /\ HasKey'
  BY <1>3 DEF EnterHit, LookupSucceeds, LookupFails, DnsTypeOK, HasKey
<1>4. ASSUME NEW t \in Resolvers, Insert(t) PROVE DnsTypeOK' /\ HasKey'
  <2>1. key[t] \in Keys /\ inserts + 1 \in Nat
    BY <1>4 DEF Insert, HasKey, DnsTypeOK
  <2>2. [key |-> key[t], stale |-> FALSE] \in Entry
    BY <2>1 DEF Entry
  <2>3. cache' \in Seq(Entry)
    BY <1>4, <2>2, MadeRoomSound DEF Insert
  <2> QED BY <1>4, <2>3 DEF Insert, DnsTypeOK, HasKey
<1>5. ASSUME NEW t \in Resolvers, DnsRelease(t) \/ Notify(t) \/ DnsWake(t) \/ WaitEnds(t) PROVE DnsTypeOK' /\ HasKey'
  BY <1>5 DEF DnsRelease, Notify, DnsWake, WaitEnds, DnsTypeOK, HasKey
<1>6. ASSUME NEW i \in DOMAIN cache, Expire(i) PROVE DnsTypeOK' /\ HasKey'
  <2>1. cache[i] \in Entry /\ cache' = [cache EXCEPT ![i].stale = TRUE]
    BY <1>6 DEF Expire, DnsTypeOK
  <2>2. [cache[i] EXCEPT !.stale = TRUE] \in Entry
    BY <2>1 DEF Entry
  <2>3. cache' \in Seq(Entry)
    BY <2>1, <2>2 DEF DnsTypeOK
  <2> QED BY <1>6, <2>3 DEF Expire, DnsTypeOK, HasKey
<1>7. CASE UNCHANGED dnsVars
  BY <1>7 DEF dnsVars, DnsTypeOK, HasKey
<1> QED BY <1>1, <1>2, <1>3, <1>4, <1>5, <1>6, <1>7 DEF DnsNext, DnsStep, Bound

-----------------------------------------------------------------------------
(* Single flight                                                           *)

\* Every step keeps one lookup per name.
LEMMA FlightStep == DnsTypeOK /\ HasKey /\ SingleFlight /\ [DnsNext]_dnsVars => SingleFlight'
<1> SUFFICES ASSUME DnsTypeOK, HasKey, SingleFlight, [DnsNext]_dnsVars PROVE SingleFlight'
  OBVIOUS
<1> USE DnsConstants DEF DnsGoto, Guarding
<1>t. /\ dnsPc \in [Resolvers -> {"idle", "enter", "lookup", "insert", "release", "notify", "wait"}]
      /\ resolving \in [Keys -> Resolvers \cup {NoTask}]
      /\ key \in [Resolvers -> Keys \cup {NoTask}]
  BY DEF DnsTypeOK
\* Steps that leave the guards, the keys of guarded lookups and the map alone.
<1>0. ASSUME UNCHANGED resolving,
             \A u \in Resolvers : /\ dnsPc'[u] \in Guarding <=> dnsPc[u] \in Guarding
                                  /\ dnsPc[u] \in Guarding => key'[u] = key[u]
      PROVE  SingleFlight'
  BY <1>0, <1>t DEF SingleFlight
<1>1. ASSUME NEW t \in Resolvers, NEW k \in Keys, DnsCall(t, k) PROVE SingleFlight'
  BY <1>0, <1>1, <1>t DEF DnsCall
<1>2. ASSUME NEW t \in Resolvers,
             \/ EnterHit(t) \/ EnterWait(t) \/ LookupSucceeds(t) \/ LookupFails(t) \/ Insert(t)
             \/ Notify(t) \/ DnsWake(t) \/ WaitEnds(t)
      PROVE  SingleFlight'
  BY <1>0, <1>2, <1>t DEF EnterHit, EnterWait, LookupSucceeds, LookupFails, Insert, Notify, DnsWake, WaitEnds
<1>3. ASSUME NEW t \in Resolvers, EnterLookup(t) PROVE SingleFlight'
  <2>1. key[t] \in Keys /\ resolving[key[t]] = NoTask
    BY <1>3 DEF EnterLookup, HasKey
  <2> QED BY <1>3, <1>t, <2>1 DEF EnterLookup, SingleFlight
<1>4. ASSUME NEW t \in Resolvers, DnsRelease(t) PROVE SingleFlight'
  <2>1. key[t] \in Keys /\ resolving[key[t]] = t
    BY <1>4 DEF DnsRelease, HasKey, SingleFlight
  <2>2. \A u \in Resolvers : u # t /\ dnsPc[u] \in Guarding => key[u] # key[t]
    BY <2>1 DEF SingleFlight
  <2> QED BY <1>4, <1>t, <2>1, <2>2 DEF DnsRelease, SingleFlight
<1>5. ASSUME (\E i \in DOMAIN cache : Expire(i)) \/ UNCHANGED dnsVars PROVE SingleFlight'
  BY <1>0, <1>5 DEF Expire, dnsVars
<1> QED BY <1>1, <1>2, <1>3, <1>4, <1>5 DEF DnsNext, DnsStep, Bound

-----------------------------------------------------------------------------
(* Waiters                                                                 *)

\* No step strands a waiter.
LEMMA WaiterStep ==
    DnsTypeOK /\ HasKey /\ SingleFlight /\ WaiterHasResolver /\ [DnsNext]_dnsVars => WaiterHasResolver'
<1> DEFINE Follows(w) == /\ sub'[w] # NoTask
                         /\ dnsPc'[sub'[w]] \in Guarding \cup {"notify"}
                         /\ key'[sub'[w]] = key'[w]
<1> SUFFICES ASSUME DnsTypeOK, HasKey, SingleFlight, WaiterHasResolver, [DnsNext]_dnsVars,
                    NEW w \in Resolvers, dnsPc'[w] = "wait", w \notin dnsWoken'
             PROVE  Follows(w)
  BY DEF WaiterHasResolver
<1> USE DnsConstants DEF DnsGoto, Guarding
<1>t. /\ dnsPc \in [Resolvers -> {"idle", "enter", "lookup", "insert", "release", "notify", "wait"}]
      /\ resolving \in [Keys -> Resolvers \cup {NoTask}]
      /\ key \in [Resolvers -> Keys \cup {NoTask}]
      /\ sub \in [Resolvers -> Resolvers \cup {NoTask}]
  BY DEF DnsTypeOK
<1>a. dnsPc[w] = "wait" /\ w \notin dnsWoken =>
        sub[w] \in Resolvers /\ dnsPc[sub[w]] \in Guarding \cup {"notify"} /\ key[sub[w]] = key[w]
  BY <1>t DEF WaiterHasResolver
<1>1. ASSUME NEW t \in Resolvers, NEW k \in Keys, DnsCall(t, k)
      PROVE  Follows(w)
  BY <1>1, <1>a, <1>t DEF DnsCall
<1>2. ASSUME NEW t \in Resolvers, EnterWait(t)
      PROVE  Follows(w)
  <2>1. key[t] \in Keys /\ resolving[key[t]] \in Resolvers
    BY <1>2, <1>t DEF EnterWait, HasKey
  <2>2. dnsPc[resolving[key[t]]] \in Guarding /\ key[resolving[key[t]]] = key[t]
    BY <2>1 DEF SingleFlight
  <2>3. CASE w = t
    BY <1>2, <1>t, <2>1, <2>2, <2>3 DEF EnterWait
  <2>4. CASE w # t
    BY <1>2, <1>a, <1>t, <2>4 DEF EnterWait
  <2> QED BY <2>3, <2>4
<1>3. ASSUME NEW t \in Resolvers,
             \/ EnterHit(t) \/ EnterLookup(t) \/ LookupSucceeds(t) \/ LookupFails(t) \/ Insert(t) \/ DnsRelease(t)
      PROVE  Follows(w)
  BY <1>3, <1>a, <1>t DEF EnterHit, EnterLookup, LookupSucceeds, LookupFails, Insert, DnsRelease
\* The resolver wakes everyone who subscribed to it.
<1>4. ASSUME NEW t \in Resolvers, Notify(t)
      PROVE  Follows(w)
  <2>1. dnsPc[w] = "wait" /\ w \notin dnsWoken /\ sub[w] # t
    BY <1>4, <1>t DEF Notify
  <2> QED BY <1>4, <1>a, <1>t, <2>1 DEF Notify
<1>5. ASSUME NEW t \in Resolvers, DnsWake(t) \/ WaitEnds(t)
      PROVE  Follows(w)
  <2>1. w # t /\ dnsPc[w] = "wait" /\ w \notin dnsWoken
    BY <1>5, <1>t DEF DnsWake, WaitEnds
  <2>2. sub[w] # t
    BY <1>5, <1>a, <2>1 DEF DnsWake, WaitEnds
  <2> QED BY <1>5, <1>a, <1>t, <2>1, <2>2 DEF DnsWake, WaitEnds
<1>6. ASSUME (\E i \in DOMAIN cache : Expire(i)) \/ UNCHANGED dnsVars
      PROVE  Follows(w)
  BY <1>6, <1>a DEF Expire, dnsVars
<1> QED BY <1>1, <1>2, <1>3, <1>4, <1>5, <1>6 DEF DnsNext, DnsStep, Bound

-----------------------------------------------------------------------------
(* The cache                                                               *)

\* A key that is being looked up is not in the cache, so that inserting the
\* answer never adds a second entry for it.
NotCachedMeanwhile == \A t \in Resolvers : dnsPc[t] \in {"lookup", "insert"} => key[t] \notin KeysOf(cache)

\* Every step keeps the cache bounded and free of duplicates.
LEMMA CacheStep ==
    DnsTypeOK /\ HasKey /\ SingleFlight /\ CacheSound /\ NotCachedMeanwhile /\ [DnsNext]_dnsVars
      => CacheSound' /\ NotCachedMeanwhile'
<1> SUFFICES ASSUME DnsTypeOK, HasKey, SingleFlight, CacheSound, NotCachedMeanwhile, [DnsNext]_dnsVars
             PROVE  CacheSound' /\ NotCachedMeanwhile'
  OBVIOUS
<1> USE DnsConstants DEF DnsGoto
<1>t. dnsPc \in [Resolvers -> {"idle", "enter", "lookup", "insert", "release", "notify", "wait"}]
        /\ cache \in Seq(Entry) /\ Len(cache) \in Nat
  BY DEF DnsTypeOK
\* Steps that leave the cache alone and start no lookup.
<1>0. ASSUME UNCHANGED cache,
             \A u \in Resolvers : dnsPc'[u] \in {"lookup", "insert"} =>
                                dnsPc[u] \in {"lookup", "insert"} /\ key'[u] = key[u]
      PROVE  CacheSound' /\ NotCachedMeanwhile'
  BY <1>0 DEF CacheSound, NotCachedMeanwhile, KeysOf
<1>1. ASSUME NEW t \in Resolvers, NEW k \in Keys, DnsCall(t, k) PROVE CacheSound' /\ NotCachedMeanwhile'
  BY <1>0, <1>1, <1>t DEF DnsCall, DnsTypeOK
<1>2. ASSUME NEW t \in Resolvers,
             \/ EnterHit(t) \/ LookupSucceeds(t) \/ LookupFails(t) \/ DnsRelease(t) \/ Notify(t)
             \/ DnsWake(t) \/ WaitEnds(t)
      PROVE  CacheSound' /\ NotCachedMeanwhile'
  BY <1>0, <1>2, <1>t DEF EnterHit, LookupSucceeds, LookupFails, DnsRelease, Notify, DnsWake, WaitEnds
<1>3. ASSUME NEW t \in Resolvers, EnterWait(t) \/ EnterLookup(t) PROVE CacheSound' /\ NotCachedMeanwhile'
  <2>1. key[t] \in Keys /\ key' = key /\ cache' = WithoutStale(key[t])
    BY <1>3 DEF EnterWait, EnterLookup, HasKey
  <2>2. /\ Len(cache') <= CacheCap /\ Distinct(cache')
        /\ KeysOf(cache') \subseteq KeysOf(cache) /\ key[t] \notin KeysOf(cache')
    BY <2>1, WithoutStaleSound
  <2>3. \A u \in Resolvers : u # t => dnsPc'[u] = dnsPc[u]
    BY <1>3, <1>t DEF EnterWait, EnterLookup
  <2>4. CacheSound'
    BY <2>2 DEF CacheSound, Distinct
  <2>5. \A u \in Resolvers : dnsPc'[u] \in {"lookup", "insert"} => key'[u] \notin KeysOf(cache')
    BY <2>1, <2>2, <2>3 DEF NotCachedMeanwhile
  <2> QED BY <2>4, <2>5 DEF NotCachedMeanwhile, KeysOf
<1>4. ASSUME NEW t \in Resolvers, Insert(t) PROVE CacheSound' /\ NotCachedMeanwhile'
  <2> DEFINE e == [key |-> key[t], stale |-> FALSE]
  <2>1. key[t] \in Keys /\ key' = key /\ cache' = Append(MadeRoom, e)
    BY <1>4 DEF Insert, HasKey
  <2>2. e.key = key[t]
    OBVIOUS
  <2>e. e \in Entry
    BY <2>1 DEF Entry, DnsTypeOK
  <2> HIDE DEF e
  <2>3. /\ MadeRoom \in Seq(Entry) /\ Len(MadeRoom) < CacheCap /\ Len(MadeRoom) \in Nat
        /\ KeysOf(MadeRoom) \subseteq KeysOf(cache) /\ Distinct(MadeRoom)
    BY MadeRoomSound
  <2>4. key[t] \notin KeysOf(MadeRoom)
    BY <1>4, <2>3 DEF Insert, NotCachedMeanwhile
  <2>5. /\ DOMAIN cache' = 1..(Len(MadeRoom) + 1) /\ Len(cache') = Len(MadeRoom) + 1
        /\ cache'[Len(MadeRoom) + 1] = e
        /\ \A i \in 1..Len(MadeRoom) : cache'[i] = MadeRoom[i]
        /\ DOMAIN MadeRoom = 1..Len(MadeRoom)
    BY <2>1, <2>3, <2>e
  <2>6. Distinct(cache') /\ KeysOf(cache') \subseteq KeysOf(MadeRoom) \cup {key[t]}
    BY <2>2, <2>3, <2>4, <2>5 DEF Distinct, KeysOf
  <2>7. CacheSound'
    BY <2>3, <2>5, <2>6 DEF CacheSound, Distinct
  <2>8. \A u \in Resolvers : dnsPc'[u] \in {"lookup", "insert"} => u # t /\ dnsPc[u] = dnsPc'[u]
    BY <1>4, <1>t DEF Insert
  <2>9. \A u \in Resolvers : dnsPc'[u] \in {"lookup", "insert"} => key[u] # key[t]
    BY <1>4, <2>8 DEF Insert, SingleFlight, Guarding
  <2>10. \A u \in Resolvers : dnsPc'[u] \in {"lookup", "insert"} => key'[u] \notin KeysOf(cache')
    BY <2>1, <2>3, <2>6, <2>8, <2>9 DEF NotCachedMeanwhile
  <2> QED BY <2>7, <2>10 DEF NotCachedMeanwhile, KeysOf
<1>5. ASSUME NEW i \in DOMAIN cache, Expire(i) PROVE CacheSound' /\ NotCachedMeanwhile'
  <2>1. UNCHANGED <<dnsPc, key>> /\ cache' = [cache EXCEPT ![i].stale = TRUE]
    BY <1>5 DEF Expire
  <2>2. [cache[i] EXCEPT !.stale = TRUE].key = cache[i].key
    BY <1>t DEF Entry
  <2>3. DOMAIN cache' = DOMAIN cache /\ \A j \in DOMAIN cache : cache'[j].key = cache[j].key
    BY <1>t, <2>1, <2>2
  <2>4. Len(cache') = Len(cache)
    BY <1>t, <2>1
  <2>5. KeysOf(cache') = KeysOf(cache)
    BY <2>3 DEF KeysOf
  <2> QED BY <2>1, <2>3, <2>4, <2>5 DEF CacheSound, NotCachedMeanwhile, KeysOf
<1>6. CASE UNCHANGED dnsVars
  BY <1>0, <1>6 DEF dnsVars
<1> QED BY <1>1, <1>2, <1>3, <1>4, <1>5, <1>6 DEF DnsNext, DnsStep, Bound

-----------------------------------------------------------------------------
\* The inductive invariant of the resolver.
Resolver ==
    DnsTypeOK /\ HasKey /\ SingleFlight /\ WaiterHasResolver /\ CacheSound /\ NotCachedMeanwhile

\* The inductive invariant holds in every behaviour.
LEMMA ResolverAlways == DnsSpec => []Resolver
<1>1. DnsInit => Resolver
  <2> SUFFICES ASSUME DnsInit PROVE Resolver
    OBVIOUS
  <2>1. cache = <<>> /\ Len(cache) = 0 /\ DOMAIN cache = {} /\ cache \in Seq(Entry)
    BY DEF DnsInit
  <2>2. DnsTypeOK
    BY <2>1, DnsConstants DEF DnsInit, DnsTypeOK
  <2>3. HasKey /\ SingleFlight /\ WaiterHasResolver /\ NotCachedMeanwhile
    BY DEF DnsInit, HasKey, SingleFlight, WaiterHasResolver, NotCachedMeanwhile, Guarding
  <2>4. CacheSound
    BY <2>1, DnsConstants DEF CacheSound
  <2> QED BY <2>2, <2>3, <2>4 DEF Resolver
<1>2. Resolver /\ [DnsNext]_dnsVars => Resolver'
  BY DnsTypeStep, FlightStep, WaiterStep, CacheStep DEF Resolver
<1> QED BY <1>1, <1>2, PTL DEF DnsSpec

\* The cache, the map of lookups in flight and the streams keep their types.
THEOREM DnsTypeCorrect == DnsSpec => []DnsTypeOK
<1>1. Resolver => DnsTypeOK
  BY DEF Resolver
<1> QED BY <1>1, ResolverAlways, PTL

\* One lookup per target at a time, for any number of relay streams.
THEOREM LookupsSingleFlight == DnsSpec => []SingleFlight
<1>1. Resolver => SingleFlight
  BY DEF Resolver
<1> QED BY <1>1, ResolverAlways, PTL

\* A stream never waits for a lookup that nobody performs: failure and
\* cancellation of the resolver wake it.
THEOREM NoOrphanWaiter == DnsSpec => []WaiterHasResolver
<1>1. Resolver => WaiterHasResolver
  BY DEF Resolver
<1> QED BY <1>1, ResolverAlways, PTL

\* The cache never exceeds its capacity nor holds two answers for one target,
\* although lookups of several targets insert and evict concurrently.
THEOREM CacheAlwaysSound == DnsSpec => []CacheSound
<1>1. Resolver => CacheSound
  BY DEF Resolver
<1> QED BY <1>1, ResolverAlways, PTL
=============================================================================
