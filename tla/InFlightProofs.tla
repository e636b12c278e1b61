--------------------------- MODULE InFlightProofs ---------------------------
(***************************************************************************)
(* Proofs about InFlight, for any number of salts, keys, packets, stores   *)
(* and clock ticks, and any capacity and timeouts.                         *)
(***************************************************************************)
EXTENDS InFlight, FiniteSetTheorems, TLAPS

-----------------------------------------------------------------------------
(* What retain() keeps                                                     *)

\* retain() removes entries and changes none, and a map keeps its type.
LEMMA RetainKeeps ==
    ASSUME NEW T, NEW m \in [Keys -> T \cup {None}], NEW limit
    PROVE  /\ Retain(m, limit) \in [Keys -> T \cup {None}]
           /\ \A k \in Keys : Retain(m, limit)[k] # None =>
                                /\ m[k] # None
                                /\ Retain(m, limit)[k] = m[k]
                                /\ now - m[k].at <= limit
BY DEF Retain

-----------------------------------------------------------------------------
(* Type correctness                                                        *)

\* What store() leaves of the auth map before it inserts is still an auth map.
LEMMA ReclaimedType ==
    ASSUME TypeOK, NEW k \in Keys
    PROVE  Reclaimed(k) \in [Keys -> Auth \cup {None}]
<1>1. Retain(auth, Ttl) \in [Keys -> Auth \cup {None}]
  BY RetainKeeps DEF TypeOK
<1> QED BY <1>1 DEF Reclaimed, TypeOK

\* The same for the map of waiters that evict() reclaims.
LEMMA ClearedType ==
    ASSUME TypeOK, NEW k \in Keys
    PROVE  Cleared(k) \in [Keys -> Waiter \cup {None}]
<1>1. Retain(waiting, EvictTimeout) \in [Keys -> Waiter \cup {None}]
  BY RetainKeeps DEF TypeOK
<1> QED BY <1>1 DEF Cleared, TypeOK

\* Notifications reach packets.
LEMMA NotifiedType ==
    ASSUME TypeOK, NEW K \in SUBSET Keys
    PROVE  Notified(K) \in SUBSET Packets
<1>1. \A k \in Keys : waiting[k] # None => waiting[k].who \in SUBSET Packets
  BY DEF TypeOK, Waiter
<1> QED BY <1>1 DEF Notified

\* The waiters that a retain() discards are waiters of salts.
LEMMA StaleWaitersType == StaleWaiters \in SUBSET Keys
BY DEF StaleWaiters, Occupied

\* Every step of the table's operations keeps the types.
LEMMA TypeStep == TypeOK /\ [Next]_vars => TypeOK'
<1> SUFFICES ASSUME TypeOK, [Next]_vars PROVE TypeOK'
  OBVIOUS
<1> USE InFlightConstants
<1>1. ASSUME NEW k \in Keys, NEW s \in Psks, Store(k, s) PROVE TypeOK'
  <2>1. stamp' \in Nat /\ UNCHANGED <<sent, pc, claimed, deadline, result, now, nextCleanup>>
    BY <1>1 DEF Store, TypeOK, task
  <2>2. [psk |-> s, stamp |-> stamp + 1, at |-> now] \in Auth
    BY DEF TypeOK, Auth
  <2>3. auth' \in [Keys -> Auth \cup {None}]
    BY <1>1, <2>2, ReclaimedType DEF Store
  <2>4. waiting' \in [Keys -> Waiter \cup {None}] /\ woken' \in SUBSET Packets
    BY <1>1, NotifiedType DEF Store, TypeOK
  <2> QED BY <2>1, <2>3, <2>4 DEF TypeOK, Outcome
<1>2. ASSUME NEW p \in Packets, Arrive(p) PROVE TypeOK'
  BY <1>2 DEF Arrive, TypeOK, table, PCs
<1>3. ASSUME NEW p \in Packets, Claim(p) PROVE TypeOK'
  BY <1>3 DEF Claim, TypeOK, table, PCs, Outcome, Key
<1>4. ASSUME NEW p \in Packets, Verify(p) PROVE TypeOK'
  BY <1>4 DEF Verify, TypeOK, table, PCs
<1>5. ASSUME NEW p \in Packets, Remove(p) PROVE TypeOK'
  <2>1. auth' \in [Keys -> Auth \cup {None}] /\ result' \in [Packets -> Outcome]
    BY <1>5 DEF Remove, TypeOK
  <2> QED BY <1>5, <2>1 DEF Remove, TypeOK, PCs
<1>6. ASSUME NEW p \in Packets, Register(p) PROVE TypeOK'
  <2>1. Key(p) \in Keys
    BY DEF TypeOK, Key
  <2>2. woken' \in SUBSET Packets
    BY <1>6, NotifiedType, StaleWaitersType DEF Register, TypeOK
  <2>3. pc' \in [Packets -> PCs]
    BY <1>6 DEF Register, TypeOK, PCs
  <2>4. Subscribed(waiting[Key(p)], p) \in Waiter
    BY <2>1 DEF Waiter, TypeOK, Subscribed
  <2>6. waiting' \in [Keys -> Waiter \cup {None}]
    BY <1>6, <2>1, <2>4, ClearedType DEF Register, TypeOK
  <2> QED BY <1>6, <2>2, <2>3, <2>6 DEF Register, TypeOK
<1>7. ASSUME NEW p \in Packets, Wake(p) PROVE TypeOK'
  BY <1>7 DEF Wake, TypeOK, table, PCs
<1>8. ASSUME NEW p \in Packets, GiveUp(p) PROVE TypeOK'
  <2>1. Key(p) \in Keys
    BY DEF TypeOK, Key
  <2>2. Unsubscribed(waiting[Key(p)], p) \in Waiter \cup {None}
    BY <2>1 DEF Waiter, TypeOK, Unsubscribed
  <2>3. waiting' \in [Keys -> Waiter \cup {None}]
    BY <1>8, <2>1, <2>2 DEF GiveUp, TypeOK
  <2> QED BY <1>8, <2>3 DEF GiveUp, TypeOK, PCs
<1>9. ASSUME Cleanup PROVE TypeOK'
  <2>1. auth' \in [Keys -> Auth \cup {None}] /\ waiting' \in [Keys -> Waiter \cup {None}]
    BY <1>9, RetainKeeps DEF Cleanup, TypeOK
  <2>2. woken' \in SUBSET Packets
    BY <1>9, NotifiedType, StaleWaitersType DEF Cleanup, TypeOK
  <2> QED BY <1>9, <2>1, <2>2 DEF Cleanup, TypeOK, task
<1>10. ASSUME Tick PROVE TypeOK'
  BY <1>10 DEF Tick, TypeOK, table, task
<1>11. CASE UNCHANGED vars
  BY <1>11 DEF vars, TypeOK
<1> QED BY <1>1, <1>2, <1>3, <1>4, <1>5, <1>6, <1>7, <1>8, <1>9, <1>10, <1>11 DEF Next, Quiescent

\* A new table is well typed.
LEMMA TypeInit == Init => TypeOK
BY DEF Init, TypeOK, PCs, Outcome

\* The table, its waiters and the evict() calls keep their types.
THEOREM TypeCorrect == Spec => []TypeOK
BY TypeInit, TypeStep, PTL DEF Spec

-----------------------------------------------------------------------------
(* No lost wake-up                                                         *)

\* A packet that is parked with no notification pending is registered, and no
\* credential for its salt is in the table.
Parking == NoMissedWakeup /\ ParkedReachable

\* A notification of salts K reaches everyone registered with them.
LEMMA NotifiedReaches ==
    ASSUME NEW K, NEW k \in K, waiting[k] # None, NEW p \in waiting[k].who
    PROVE  p \in Notified(K)
BY DEF Notified

\* Reclaiming stale waiters wakes every packet whose waiter it discards.
LEMMA ReclaimReaches ==
    ASSUME TypeOK, NEW k \in Keys, waiting[k] # None, NEW p \in waiting[k].who,
           Retain(waiting, EvictTimeout)[k] # waiting[k]
    PROVE  p \in Notified(StaleWaiters)
<1>1. Retain(waiting, EvictTimeout)[k] = None
  BY DEF Retain
<1>2. k \in StaleWaiters
  BY <1>1 DEF StaleWaiters, Occupied
<1> QED BY <1>2, NotifiedReaches

\* No step of store, evict or cleanup strands a parked packet.
LEMMA ParkingStep == TypeOK /\ Parking /\ [Next]_vars => Parking'
<1> SUFFICES ASSUME TypeOK, Parking, [Next]_vars,
                    NEW q \in Packets, pc'[q] = "wait", q \notin woken'
             PROVE  /\ auth'[Key(q)'] = None
                    /\ waiting'[Key(q)'] # None
                    /\ q \in waiting'[Key(q)'].who
  BY DEF Parking, NoMissedWakeup, ParkedReachable
<1>0. Key(q)' = Key(q) /\ Key(q) \in Keys
  <2>1. sent' = sent
    BY DEF Next, Store, Arrive, Claim, Verify, Remove, Register, Wake, GiveUp, Cleanup, Tick,
           Quiescent, vars
  <2> QED BY <2>1 DEF Key, TypeOK
<1> DEFINE Parked == pc[q] = "wait" /\ q \notin woken
<1>a. Parked => auth[Key(q)] = None /\ waiting[Key(q)] # None /\ q \in waiting[Key(q)].who
  BY DEF Parking, NoMissedWakeup, ParkedReachable
<1> HIDE DEF Parked
<1>1. ASSUME NEW k \in Keys, NEW s \in Psks, Store(k, s)
      PROVE  auth'[Key(q)] = None /\ waiting'[Key(q)] # None /\ q \in waiting'[Key(q)].who
  <2>1. Parked
    BY <1>1 DEF Store, task, Parked
  <2>2. Reclaimed(k)[Key(q)] = None
    BY <2>1, <1>a, <1>0 DEF Reclaimed, Retain
  <2>3. CASE Admits(k)
    <3>1. k # Key(q)
      <4> SUFFICES ASSUME k = Key(q) PROVE FALSE
        OBVIOUS
      <4>1. q \in Notified({k})
        BY <2>1, <1>a, NotifiedReaches
      <4> QED BY <4>1, <2>3, <1>1 DEF Store
    <3> QED BY <3>1, <2>1, <2>2, <2>3, <1>a, <1>0, <1>1, ReclaimedType DEF Store, TypeOK
  <2>4. CASE ~Admits(k)
    BY <2>1, <2>2, <2>4, <1>a, <1>1 DEF Store
  <2> QED BY <2>3, <2>4
<1>2. ASSUME NEW p \in Packets, Arrive(p) \/ Claim(p) \/ Verify(p)
      PROVE  auth'[Key(q)] = None /\ waiting'[Key(q)] # None /\ q \in waiting'[Key(q)].who
  <2>1. Parked /\ UNCHANGED <<auth, waiting>>
    BY <1>2 DEF Arrive, Claim, Verify, table, TypeOK, PCs, Parked
  <2> QED BY <2>1, <1>a
<1>3. ASSUME NEW p \in Packets, Remove(p)
      PROVE  auth'[Key(q)] = None /\ waiting'[Key(q)] # None /\ q \in waiting'[Key(q)].who
  <2>1. Parked /\ UNCHANGED waiting
    BY <1>3 DEF Remove, TypeOK, PCs, Parked
  <2>2. auth' = auth \/ auth' = [auth EXCEPT ![Key(p)] = None]
    BY <1>3 DEF Remove
  <2> QED BY <2>1, <2>2, <1>a, <1>0 DEF TypeOK
<1>4. ASSUME NEW p \in Packets, Register(p)
      PROVE  auth'[Key(q)] = None /\ waiting'[Key(q)] # None /\ q \in waiting'[Key(q)].who
  <2> DEFINE k == Key(p)
  <2>0. k \in Keys /\ auth' = auth
    BY <1>4 DEF Register, Key, TypeOK
  <2>1. CASE auth[k] # None
    <3>1. Parked /\ UNCHANGED waiting
      BY <1>4, <2>1 DEF Register, TypeOK, PCs, Parked
    <3> QED BY <3>1, <2>0, <1>a
  <2>2. CASE auth[k] = None
    <3>1. q # p => Parked
      BY <1>4, <2>2 DEF Register, TypeOK, PCs, Parked
    <3>2. q = p => HasRoom(k)
      BY <1>4, <2>2 DEF Register, TypeOK, PCs
    <3>3. ASSUME q # p PROVE Cleared(k)[Key(q)] = waiting[Key(q)]
      <4> SUFFICES ASSUME Crowded(k), Retain(waiting, EvictTimeout)[Key(q)] # waiting[Key(q)]
                   PROVE  FALSE
        BY DEF Cleared
      <4>1. q \in Notified(StaleWaiters)
        BY <3>1, <3>3, <1>a, <1>0, ReclaimReaches
      <4> QED BY <4>1, <1>4, <2>2 DEF Register
    <3>4. CASE HasRoom(k)
      <4>1. waiting' = [Cleared(k) EXCEPT ![k] = Subscribed(waiting[k], p)]
        BY <1>4, <2>2, <3>4 DEF Register
      <4>2. waiting'[k] = Subscribed(waiting[k], p)
        BY <4>1, <2>0, ClearedType
      <4>3. Key(q) # k => waiting'[Key(q)] = Cleared(k)[Key(q)]
        BY <4>1, <2>0, <1>0, ClearedType
      <4>4. waiting'[k] \in Waiter /\ p \in waiting'[k].who
        BY <4>2, <2>0 DEF TypeOK, Waiter, Subscribed
      <4>5. waiting[k] # None => waiting[k].who \subseteq waiting'[k].who
        BY <4>2, <2>0 DEF TypeOK, Waiter, Subscribed
      <4>6. CASE Key(q) = k
        BY <4>4, <4>5, <4>6, <3>1, <2>0, <2>2, <1>a, NoneIsNoEntry
      <4>7. CASE Key(q) # k
        BY <4>3, <4>7, <3>1, <3>3, <2>0, <1>a
      <4> QED BY <4>6, <4>7
    <3>5. CASE ~HasRoom(k)
      <4>1. waiting' = Cleared(k)
        BY <1>4, <2>2, <3>5 DEF Register
      <4> QED BY <4>1, <3>1, <3>2, <3>3, <3>5, <2>0, <1>a
    <3> QED BY <3>4, <3>5
  <2> QED BY <2>1, <2>2
<1>5. ASSUME NEW p \in Packets, Wake(p)
      PROVE  auth'[Key(q)] = None /\ waiting'[Key(q)] # None /\ q \in waiting'[Key(q)].who
  <2>1. Parked /\ UNCHANGED <<auth, waiting>>
    BY <1>5 DEF Wake, table, TypeOK, PCs, Parked
  <2> QED BY <2>1, <1>a
<1>6. ASSUME NEW p \in Packets, GiveUp(p)
      PROVE  auth'[Key(q)] = None /\ waiting'[Key(q)] # None /\ q \in waiting'[Key(q)].who
  <2>1. Parked /\ q # p /\ UNCHANGED auth
    BY <1>6 DEF GiveUp, TypeOK, PCs, Parked
  <2>2. waiting'[Key(q)] \in {waiting[Key(q)], Unsubscribed(waiting[Key(q)], p)}
    BY <1>6, <1>0 DEF GiveUp, TypeOK
  <2>3. waiting[Key(q)] \in Waiter
    BY <2>1, <1>a, <1>0 DEF TypeOK
  <2>4. Unsubscribed(waiting[Key(q)], p) \in Waiter /\ q \in Unsubscribed(waiting[Key(q)], p).who
    BY <2>1, <2>3, <1>a, NoneIsNoEntry DEF Unsubscribed, Waiter
  <2> QED BY <2>1, <2>2, <2>4, <1>a, NoneIsNoEntry
<1>7. ASSUME Cleanup
      PROVE  auth'[Key(q)] = None /\ waiting'[Key(q)] # None /\ q \in waiting'[Key(q)].who
  <2>1. Parked
    BY <1>7 DEF Cleanup, task, Parked
  <2>2. auth'[Key(q)] = None
    BY <1>7, <2>1, <1>a, <1>0 DEF Cleanup, Retain
  <2>3. Retain(waiting, EvictTimeout)[Key(q)] = waiting[Key(q)]
    BY <1>7, <2>1, <1>a, <1>0, ReclaimReaches DEF Cleanup
  <2> QED BY <1>7, <2>1, <2>2, <2>3, <1>a DEF Cleanup
<1>8. ASSUME Tick \/ UNCHANGED vars
      PROVE  auth'[Key(q)] = None /\ waiting'[Key(q)] # None /\ q \in waiting'[Key(q)].who
  <2>1. Parked /\ UNCHANGED <<auth, waiting>>
    BY <1>8 DEF Tick, table, task, vars, Parked
  <2> QED BY <2>1, <1>a
<1> QED BY <1>0, <1>1, <1>2, <1>3, <1>4, <1>5, <1>6, <1>7, <1>8 DEF Next, Quiescent

\* Parked packets stay reachable or woken in every behaviour.
LEMMA ParkingAlways == Spec => []Parking
<1>1. Init => Parking
  BY DEF Init, Parking, NoMissedWakeup, ParkedReachable
<1> QED BY <1>1, ParkingStep, TypeCorrect, PTL DEF Spec

\* A packet parked in evict() whose notification has not fired never has its
\* credential waiting in the table: store() cannot slip in between the check and
\* the registration.
THEOREM NoLostWakeup == Spec => []NoMissedWakeup
BY ParkingAlways, PTL DEF Parking

\* A parked packet stays on the Notify object that the table holds for its salt,
\* whatever reclaims, cleanups and give-ups of other packets happen meanwhile.
THEOREM ParkedStayReachable == Spec => []ParkedReachable
BY ParkingAlways, PTL DEF Parking

-----------------------------------------------------------------------------
(* Credentials are used once                                               *)

\* Every Instant in sight was handed out by an earlier store().
StampsIssued ==
    /\ \A k \in Keys : auth[k] # None => auth[k].stamp <= stamp
    /\ \A p \in Packets : claimed[p] # None => claimed[p].stamp <= stamp
    /\ \A p \in Packets : result[p] # None => result[p].stamp <= stamp

\* No two salts hold the same credential, and none that was consumed is held.
StampsApart ==
    /\ \A j, k \in Keys : auth[j] # None /\ auth[k] # None /\ auth[j].stamp = auth[k].stamp => j = k
    /\ \A p \in Packets, k \in Keys :
         result[p] # None /\ auth[k] # None => result[p].stamp # auth[k].stamp

\* The clone that a packet verified is the stored entry whenever the Instants
\* agree, and it decrypts the packet once it was verified.
ClaimsSound ==
    \A p \in Packets :
        /\ pc[p] \in {"verify", "remove"} => claimed[p] # None
        /\ pc[p] = "remove" => claimed[p].psk = sent[p].psk
        /\ pc[p] # "done" => result[p] = None
        /\ claimed[p] # None /\ auth[Key(p)] # None /\ auth[Key(p)].stamp = claimed[p].stamp
             => claimed[p] = auth[Key(p)]

\* The inductive invariant behind ConsumedOnce.
Ledger == StampsIssued /\ StampsApart /\ ClaimsSound /\ ConsumedOnce

\* Entries of the auth map only disappear, except that a store() adds one with
\* an Instant of its own.
Shrinks == \A k \in Keys : auth'[k] # None => auth'[k] = auth[k]
Grows   == \E n \in Keys :
             /\ auth'[n] # None /\ auth'[n].stamp = stamp + 1 /\ stamp' = stamp + 1
             /\ \A k \in Keys \ {n} : auth'[k] # None => auth'[k] = auth[k]

\* What each step may do to the credentials in the table.
LEMMA AuthStep ==
    TypeOK /\ [Next]_vars => sent' = sent /\ (Shrinks \/ Grows) /\ (stamp' = stamp \/ stamp' = stamp + 1)
<1> SUFFICES ASSUME TypeOK, [Next]_vars
             PROVE  sent' = sent /\ (Shrinks \/ Grows) /\ (stamp' = stamp \/ stamp' = stamp + 1)
  OBVIOUS
<1>1. ASSUME NEW k \in Keys, NEW s \in Psks, Store(k, s)
      PROVE  sent' = sent /\ (Shrinks \/ Grows) /\ (stamp' = stamp \/ stamp' = stamp + 1)
  <2>1. \A j \in Keys : Reclaimed(k)[j] # None => Reclaimed(k)[j] = auth[j]
    BY DEF Reclaimed, Retain
  <2>2. CASE Admits(k)
    <3> DEFINE new == [psk |-> s, stamp |-> stamp + 1, at |-> now]
    <3>1. auth' = [Reclaimed(k) EXCEPT ![k] = new]
      BY <1>1, <2>2 DEF Store
    <3>2. auth'[k] = new /\ \A j \in Keys \ {k} : auth'[j] = Reclaimed(k)[j]
      BY <3>1, ReclaimedType
    <3>3. new # None
      BY NoneIsNoEntry DEF Auth, TypeOK
    <3> QED BY <1>1, <2>1, <3>2, <3>3 DEF Store, Grows
  <2>3. CASE ~Admits(k)
    BY <1>1, <2>1, <2>3 DEF Store, Shrinks
  <2> QED BY <2>2, <2>3
<1>2. ASSUME NEW p \in Packets, Remove(p)
      PROVE  sent' = sent /\ Shrinks /\ stamp' = stamp
  BY <1>2 DEF Remove, Shrinks, TypeOK
<1>3. ASSUME Cleanup PROVE sent' = sent /\ Shrinks /\ stamp' = stamp
  BY <1>3 DEF Cleanup, Shrinks, Retain
<1>4. ASSUME NEW p \in Packets,
             Arrive(p) \/ Claim(p) \/ Verify(p) \/ Register(p) \/ Wake(p) \/ GiveUp(p)
      PROVE  sent' = sent /\ Shrinks /\ stamp' = stamp
  BY <1>4 DEF Arrive, Claim, Verify, Register, Wake, GiveUp, table, Shrinks
<1>5. ASSUME Tick \/ UNCHANGED vars PROVE sent' = sent /\ Shrinks /\ stamp' = stamp
  BY <1>5 DEF Tick, vars, table, Shrinks
<1> QED BY <1>1, <1>2, <1>3, <1>4, <1>5 DEF Next, Quiescent

\* What a step does to the locals of an evict() call: it clones the entry of its
\* salt, or it consumes the entry it cloned, or it leaves both alone.
Clones(p)   == /\ pc[p] = "claim" /\ claimed' = [claimed EXCEPT ![p] = auth[Key(p)]]
               /\ pc' = [pc EXCEPT ![p] = IF auth[Key(p)] # None THEN "verify" ELSE "register"]
               /\ UNCHANGED <<auth, result>>
Consumes(p) == /\ pc[p] = "remove" /\ StillStored(p)
               /\ auth' = [auth EXCEPT ![Key(p)] = None]
               /\ result' = [result EXCEPT ![p] = claimed[p]]
               /\ pc' = [pc EXCEPT ![p] = "done"]
               /\ UNCHANGED <<claimed, stamp>>
Moves       == /\ UNCHANGED <<claimed, result>>
               /\ \A p \in Packets :
                    /\ pc'[p] = "verify" => pc[p] = "verify"
                    /\ pc'[p] = "remove" =>
                         \/ pc[p] = "remove"
                         \/ pc[p] = "verify" /\ claimed[p].psk = sent[p].psk
                    /\ pc'[p] # "done" => pc[p] # "done"

\* What each step may do to the claims and results of evict() calls.
LEMMA LocalStep == TypeOK /\ [Next]_vars =>
                      Moves \/ \E p \in Packets : Clones(p) \/ Consumes(p)
<1> SUFFICES ASSUME TypeOK, [Next]_vars
             PROVE  Moves \/ \E p \in Packets : Clones(p) \/ Consumes(p)
  OBVIOUS
<1>1. ASSUME NEW k \in Keys, NEW s \in Psks, Store(k, s) PROVE Moves
  BY <1>1 DEF Store, task, Moves
<1>2. ASSUME NEW p \in Packets, Claim(p) PROVE Clones(p)
  BY <1>2 DEF Claim, Clones, table
<1>3. ASSUME NEW p \in Packets, Remove(p) PROVE Moves \/ Consumes(p)
  <2>1. CASE StillStored(p)
    BY <1>3, <2>1 DEF Remove, Consumes
  <2>2. CASE ~StillStored(p)
    BY <1>3, <2>2 DEF Remove, Moves, TypeOK
  <2> QED BY <2>1, <2>2
<1>4. ASSUME NEW p \in Packets, Arrive(p) \/ Verify(p) \/ Register(p) \/ Wake(p) \/ GiveUp(p)
      PROVE  Moves
  BY <1>4 DEF Arrive, Verify, Register, Wake, GiveUp, Moves, TypeOK
<1>5. ASSUME Cleanup \/ Tick \/ UNCHANGED vars PROVE Moves
  BY <1>5 DEF Cleanup, Tick, vars, task, Moves
<1> QED BY <1>1, <1>2, <1>3, <1>4, <1>5 DEF Next, Quiescent

\* Every step keeps the ledger of issued, held and handed-out credentials.
LEMMA LedgerStep == TypeOK /\ TypeOK' /\ Ledger /\ [Next]_vars => Ledger'
<1> SUFFICES ASSUME TypeOK, TypeOK', Ledger, [Next]_vars PROVE Ledger'
  OBVIOUS
<1>0. stamp \in Nat
  BY DEF TypeOK
<1>1. sent' = sent /\ (Shrinks \/ Grows) /\ (stamp' = stamp \/ stamp' = stamp + 1)
  BY AuthStep
<1>t. /\ \A k \in Keys : auth[k] # None => auth[k].stamp \in Nat
      /\ \A p \in Packets : Key(p) \in Keys /\ Key(p)' = Key(p)
      /\ \A p \in Packets : claimed[p] # None => claimed[p].stamp \in Nat
      /\ \A p \in Packets : result[p] # None => result[p].stamp \in Nat
  BY <1>1 DEF TypeOK, Auth, Outcome, Key
<1>2. \A j, k \in Keys : auth'[j] # None /\ auth'[k] # None /\ auth'[j].stamp = auth'[k].stamp => j = k
  BY <1>0, <1>1, <1>t DEF Ledger, StampsIssued, StampsApart, Shrinks, Grows
<1>3. \A k \in Keys : auth'[k] # None => auth'[k].stamp <= stamp'
  BY <1>0, <1>1, <1>t DEF Ledger, StampsIssued, Shrinks, Grows
<1>4. CASE Moves
  <2>1. StampsIssued'
    BY <1>0, <1>1, <1>t, <1>3, <1>4 DEF Ledger, StampsIssued, Moves
  <2>2. StampsApart'
    BY <1>0, <1>1, <1>t, <1>2, <1>4 DEF Ledger, StampsApart, StampsIssued, Shrinks, Grows, Moves
  <2>3. ClaimsSound'
    <3> SUFFICES ASSUME NEW p \in Packets
                 PROVE  /\ pc'[p] \in {"verify", "remove"} => claimed'[p] # None
                        /\ pc'[p] = "remove" => claimed'[p].psk = sent'[p].psk
                        /\ pc'[p] # "done" => result'[p] = None
                        /\ claimed'[p] # None /\ auth'[Key(p)] # None
                             /\ auth'[Key(p)].stamp = claimed'[p].stamp => claimed'[p] = auth'[Key(p)]
      BY <1>t DEF ClaimsSound
    <3>1. pc'[p] \in {"verify", "remove"} => claimed'[p] # None
      BY <1>4 DEF Ledger, ClaimsSound, Moves
    <3>2. pc'[p] = "remove" => claimed'[p].psk = sent'[p].psk
      BY <1>1, <1>4 DEF Ledger, ClaimsSound, Moves
    <3>3. pc'[p] # "done" => result'[p] = None
      BY <1>4 DEF Ledger, ClaimsSound, Moves
    <3>4. claimed'[p] # None /\ auth'[Key(p)] # None /\ auth'[Key(p)].stamp = claimed'[p].stamp
            => claimed'[p] = auth'[Key(p)]
      BY <1>0, <1>1, <1>t, <1>4 DEF Ledger, ClaimsSound, StampsIssued, Shrinks, Grows, Moves
    <3> QED BY <3>1, <3>2, <3>3, <3>4
  <2>4. ConsumedOnce'
    BY <1>4 DEF Ledger, ConsumedOnce, Moves
  <2> QED BY <2>1, <2>2, <2>3, <2>4 DEF Ledger
<1>5. ASSUME NEW p \in Packets, Clones(p) PROVE Ledger'
  <2>1. StampsIssued'
    BY <1>0, <1>1, <1>t, <1>3, <1>5 DEF Ledger, StampsIssued, Clones, TypeOK
  <2>2. StampsApart'
    BY <1>2, <1>5 DEF Ledger, StampsApart, Clones
  <2>3. ClaimsSound'
    BY <1>0, <1>1, <1>t, <1>5 DEF Ledger, ClaimsSound, Clones, TypeOK
  <2>4. ConsumedOnce'
    BY <1>5 DEF Ledger, ConsumedOnce, Clones
  <2> QED BY <2>1, <2>2, <2>3, <2>4 DEF Ledger
<1>6. ASSUME NEW p \in Packets, Consumes(p) PROVE Ledger'
  <2>0. claimed[p] # None /\ auth[Key(p)] # None /\ auth[Key(p)].stamp = claimed[p].stamp
    BY <1>6 DEF Ledger, ClaimsSound, Consumes, StillStored
  <2>1. StampsIssued'
    BY <2>0, <1>t, <1>3, <1>6 DEF Ledger, StampsIssued, Consumes, TypeOK
  <2>2. StampsApart'
    BY <2>0, <1>t, <1>2, <1>6 DEF Ledger, StampsApart, Consumes, TypeOK
  <2>3. ClaimsSound'
    BY <2>0, <1>1, <1>t, <1>6 DEF Ledger, ClaimsSound, Consumes, TypeOK
  <2>4. ConsumedOnce'
    BY <2>0, <1>t, <1>6 DEF Ledger, ConsumedOnce, StampsApart, Consumes, TypeOK
  <2> QED BY <2>1, <2>2, <2>3, <2>4 DEF Ledger
<1> QED BY <1>4, <1>5, <1>6, LocalStep

\* The ledger is correct in every behaviour.
LEMMA LedgerAlways == Spec => []Ledger
<1>1. Init => Ledger
  BY DEF Init, Ledger, StampsIssued, StampsApart, ClaimsSound, ConsumedOnce
<1> QED BY <1>1, LedgerStep, TypeCorrect, PTL DEF Spec

\* No two packets consume the same credential, although evict() verifies it
\* outside the lock and several packets may hold a clone of it.
THEOREM SingleUse == Spec => []ConsumedOnce
BY LedgerAlways, PTL DEF Ledger

-----------------------------------------------------------------------------
(* The two maps are bounded                                                *)

\* Both maps are finite and within MaxEntries.
Bounded == IsFiniteSet(Occupied(auth)) /\ IsFiniteSet(Occupied(waiting)) /\ TableBounded

\* A map that occupies no slot that m does not is bounded if m is.
LEMMA FewerOccupied ==
    ASSUME NEW m, NEW n, IsFiniteSet(Occupied(m)), Cardinality(Occupied(m)) <= MaxEntries,
           \A k \in Keys : n[k] # None => m[k] # None
    PROVE  IsFiniteSet(Occupied(n)) /\ Cardinality(Occupied(n)) <= MaxEntries
<1>1. Occupied(n) \subseteq Occupied(m)
  BY DEF Occupied
<1>2. IsFiniteSet(Occupied(n)) /\ Cardinality(Occupied(n)) <= Cardinality(Occupied(m))
  BY <1>1, FS_Subset
<1>3. Cardinality(Occupied(n)) \in Nat /\ Cardinality(Occupied(m)) \in Nat
  BY <1>2, FS_CardinalityType
<1> QED BY <1>2, <1>3, InFlightConstants

\* A map that is not full takes one more entry.
LEMMA OneMoreOccupied ==
    ASSUME NEW m, NEW n, NEW k \in Keys, IsFiniteSet(Occupied(m)), ~Full(m),
           \A j \in Keys \ {k} : n[j] # None => m[j] # None
    PROVE  IsFiniteSet(Occupied(n)) /\ Cardinality(Occupied(n)) <= MaxEntries
<1> DEFINE S == Occupied(m) \cup {k}
<1>1. Occupied(n) \subseteq S
  BY DEF Occupied
<1>2. IsFiniteSet(S) /\ Cardinality(S) <= Cardinality(Occupied(m)) + 1
  <2>1. Cardinality(Occupied(m)) \in Nat
    BY FS_CardinalityType
  <2> QED BY <2>1, FS_AddElement
<1>3. IsFiniteSet(Occupied(n)) /\ Cardinality(Occupied(n)) <= Cardinality(S)
  BY <1>1, <1>2, FS_Subset
<1>4. Cardinality(Occupied(n)) \in Nat /\ Cardinality(S) \in Nat /\ Cardinality(Occupied(m)) \in Nat
  BY <1>2, <1>3, FS_CardinalityType
<1> HIDE DEF S
<1> QED BY <1>2, <1>3, <1>4, InFlightConstants DEF Full

\* Every step keeps both maps finite and within the limit.
LEMMA BoundedStep == TypeOK /\ Bounded /\ [Next]_vars => Bounded'
<1> SUFFICES ASSUME TypeOK, Bounded, [Next]_vars PROVE Bounded'
  OBVIOUS
<1> DEFINE AuthBound == IsFiniteSet(Occupied(auth')) /\ Cardinality(Occupied(auth')) <= MaxEntries
           WaitBound == IsFiniteSet(Occupied(waiting')) /\ Cardinality(Occupied(waiting')) <= MaxEntries
<1> SUFFICES AuthBound /\ WaitBound
  BY DEF Bounded, TableBounded, Occupied
<1>0. /\ IsFiniteSet(Occupied(auth)) /\ Cardinality(Occupied(auth)) <= MaxEntries
      /\ IsFiniteSet(Occupied(waiting)) /\ Cardinality(Occupied(waiting)) <= MaxEntries
  BY DEF Bounded, TableBounded
<1>1. ASSUME NEW k \in Keys, NEW s \in Psks, Store(k, s) PROVE AuthBound /\ WaitBound
  <2>1. \A j \in Keys : Reclaimed(k)[j] # None => auth[j] # None
    BY DEF Reclaimed, Retain
  <2>2. CASE Admits(k)
    <3>1. \A j \in Keys \ {k} : auth'[j] = Reclaimed(k)[j]
      BY <1>1, <2>2, ReclaimedType DEF Store
    <3>2. CASE auth[k] # None
      <4>1. \A j \in Keys : auth'[j] # None => auth[j] # None
        BY <3>1, <3>2, <2>1
      <4>2. AuthBound
        BY <4>1, <1>0, FewerOccupied
      <4> QED BY <4>2, <1>0, <1>1, <2>2, FewerOccupied DEF Store, TypeOK
    <3>3. CASE auth[k] = None
      <4>1. ~Full(Reclaimed(k))
        BY <2>2, <3>3 DEF Admits
      <4>2. IsFiniteSet(Occupied(Reclaimed(k)))
        BY <2>1, <1>0, FewerOccupied
      <4>3. AuthBound
        BY <4>1, <4>2, <3>1, OneMoreOccupied
      <4>4. \A j \in Keys : waiting'[j] # None => waiting[j] # None
        BY <1>1, <2>2 DEF Store, TypeOK
      <4>5. WaitBound
        BY <4>4, <1>0, FewerOccupied
      <4> QED BY <4>3, <4>5
    <3> QED BY <3>2, <3>3
  <2>3. CASE ~Admits(k)
    <3>1. auth' = Reclaimed(k) /\ waiting' = waiting
      BY <1>1, <2>3 DEF Store
    <3>2. AuthBound
      BY <3>1, <2>1, <1>0, FewerOccupied
    <3> QED BY <3>1, <3>2, <1>0
  <2> QED BY <2>2, <2>3
<1>2. ASSUME NEW p \in Packets, Register(p) PROVE AuthBound /\ WaitBound
  <2> DEFINE k == Key(p)
  <2>0. k \in Keys /\ auth' = auth
    BY <1>2 DEF Register, Key, TypeOK
  <2>1. \A j \in Keys : Cleared(k)[j] # None => waiting[j] # None
    BY DEF Cleared, Retain
  <2>2. CASE auth[k] # None
    BY <1>0, <1>2, <2>0, <2>2 DEF Register
  <2>3. CASE auth[k] = None /\ ~HasRoom(k)
    <3>1. waiting' = Cleared(k)
      BY <1>2, <2>3 DEF Register
    <3>2. WaitBound
      BY <3>1, <2>1, <1>0, FewerOccupied
    <3> QED BY <3>2, <2>0, <1>0
  <2>4. CASE auth[k] = None /\ HasRoom(k)
    <3>1. \A j \in Keys \ {k} : waiting'[j] = Cleared(k)[j]
      BY <1>2, <2>0, <2>4, ClearedType DEF Register
    <3>2. CASE waiting[k] # None
      <4>1. \A j \in Keys : waiting'[j] # None => waiting[j] # None
        BY <3>1, <3>2, <2>1
      <4>2. WaitBound
        BY <4>1, <1>0, FewerOccupied
      <4> QED BY <4>2, <2>0, <1>0
    <3>3. CASE waiting[k] = None
      <4>1. ~Full(Cleared(k))
        BY <2>4, <3>3 DEF HasRoom
      <4>2. IsFiniteSet(Occupied(Cleared(k)))
        BY <2>1, <1>0, FewerOccupied
      <4>3. WaitBound
        BY <4>1, <4>2, <3>1, <2>0, OneMoreOccupied
      <4> QED BY <4>3, <2>0, <1>0
    <3> QED BY <3>2, <3>3
  <2> QED BY <2>2, <2>3, <2>4
<1>3. ASSUME \/ \E p \in Packets : Arrive(p) \/ Claim(p) \/ Verify(p) \/ Remove(p) \/ Wake(p) \/ GiveUp(p)
             \/ Cleanup \/ Tick \/ UNCHANGED vars
      PROVE  AuthBound /\ WaitBound
  <2>1. \A k \in Keys : auth'[k] # None => auth[k] # None
    BY <1>3 DEF Arrive, Claim, Verify, Remove, Wake, GiveUp, Cleanup, Retain, Tick, vars, table, TypeOK
  <2>2. \A k \in Keys : waiting'[k] # None => waiting[k] # None
    BY <1>3 DEF Arrive, Claim, Verify, Remove, Wake, GiveUp, Unsubscribed, Cleanup, Retain, Tick,
                vars, table, TypeOK
  <2>3. AuthBound
    BY <2>1, <1>0, FewerOccupied
  <2>4. WaitBound
    BY <2>2, <1>0, FewerOccupied
  <2> QED BY <2>3, <2>4
<1> QED BY <1>1, <1>2, <1>3 DEF Next, Quiescent

\* Neither map ever exceeds MAX_IN_FLIGHT_UNDERLAY_ENTRIES, whatever announced
\* and unannounced salts arrive.
THEOREM BothMapsBounded == Spec => []TableBounded
<1>1. Init => Bounded
  <2> SUFFICES ASSUME Init PROVE Bounded
    OBVIOUS
  <2>1. Occupied(auth) = {} /\ Occupied(waiting) = {}
    BY DEF Init, Occupied
  <2> QED BY <2>1, FS_EmptySet, InFlightConstants DEF Bounded, TableBounded
<1>2. Bounded => TableBounded
  BY DEF Bounded
<1> QED BY <1>1, <1>2, BoundedStep, TypeCorrect, PTL DEF Spec

-----------------------------------------------------------------------------
(* Nothing outlives its timeout by more than one cleanup period            *)

\* Every entry will be found expired by the next cleanup but one at the latest.
Swept ==
    /\ now <= nextCleanup /\ nextCleanup <= now + CleanupPeriod
    /\ \A k \in Keys :
         /\ auth[k] # None => nextCleanup - auth[k].at <= Ttl + CleanupPeriod
         /\ waiting[k] # None => nextCleanup - waiting[k].at <= EvictTimeout + CleanupPeriod

\* The cleanup timer is never behind by more than its period.
LEMMA SweptStep == TypeOK /\ Swept /\ [Next]_vars => Swept'
<1> SUFFICES ASSUME TypeOK, Swept, [Next]_vars PROVE Swept'
  OBVIOUS
<1>0. /\ now \in Nat /\ nextCleanup \in Nat /\ Ttl \in Nat /\ EvictTimeout \in Nat /\ CleanupPeriod \in Nat
      /\ \A k \in Keys : auth[k] # None => auth[k].at \in Nat
      /\ \A k \in Keys : waiting[k] # None => waiting[k].at \in Nat
  BY InFlightConstants DEF TypeOK, Auth, Waiter
<1>1. ASSUME NEW k \in Keys, NEW s \in Psks, Store(k, s) PROVE Swept'
  <2>1. UNCHANGED <<now, nextCleanup>>
    BY <1>1 DEF Store
  <2>2. \A j \in Keys : Reclaimed(k)[j] # None => Reclaimed(k)[j] = auth[j]
    BY DEF Reclaimed, Retain
  <2>3. \A j \in Keys : auth'[j] # None => auth'[j].at = now \/ auth'[j] = auth[j]
    BY <1>1, <2>2, ReclaimedType DEF Store
  <2>4. \A j \in Keys : waiting'[j] # None => waiting'[j] = waiting[j]
    BY <1>1 DEF Store, TypeOK
  <2> QED BY <1>0, <2>1, <2>3, <2>4 DEF Swept
<1>2. ASSUME NEW p \in Packets, Register(p) PROVE Swept'
  <2> DEFINE k == Key(p)
  <2>1. UNCHANGED <<now, nextCleanup, auth>> /\ k \in Keys
    BY <1>2 DEF Register, TypeOK, Key
  <2>2. \A j \in Keys : Cleared(k)[j] # None => Cleared(k)[j] = waiting[j]
    BY DEF Cleared, Retain
  <2>3. IF waiting[k] = None THEN Subscribed(waiting[k], p).at = now
        ELSE Subscribed(waiting[k], p).at = waiting[k].at
    BY <2>1 DEF TypeOK, Waiter, Subscribed
  <2>4. \/ waiting' \in {waiting, Cleared(k)}
        \/ waiting' = [Cleared(k) EXCEPT ![k] = Subscribed(waiting[k], p)]
    BY <1>2 DEF Register
  <2>5. \A j \in Keys : waiting'[j] # None =>
          waiting'[j].at = now \/ (waiting[j] # None /\ waiting'[j].at = waiting[j].at)
    BY <2>1, <2>2, <2>3, <2>4, ClearedType
  <2> QED BY <1>0, <2>1, <2>5 DEF Swept
<1>3. ASSUME NEW p \in Packets, GiveUp(p) PROVE Swept'
  <2>1. UNCHANGED <<now, nextCleanup, auth>>
    BY <1>3 DEF GiveUp
  <2>2. \A j \in Keys : waiting'[j] # None => waiting[j] # None /\ waiting'[j].at = waiting[j].at
    BY <1>3 DEF GiveUp, Unsubscribed, TypeOK, Waiter
  <2> QED BY <1>0, <2>1, <2>2 DEF Swept
<1>4. ASSUME NEW p \in Packets, Arrive(p) \/ Claim(p) \/ Verify(p) \/ Remove(p) \/ Wake(p) PROVE Swept'
  <2>1. UNCHANGED <<now, nextCleanup, waiting>> /\ \A k \in Keys : auth'[k] # None => auth'[k] = auth[k]
    BY <1>4 DEF Arrive, Claim, Verify, Remove, Wake, table, TypeOK
  <2> QED BY <1>0, <2>1 DEF Swept
<1>5. ASSUME Cleanup PROVE Swept'
  <2>1. /\ nextCleanup' = now + CleanupPeriod /\ now' = now
        /\ \A k \in Keys : auth'[k] # None => auth[k] # None /\ auth'[k] = auth[k] /\ now - auth[k].at <= Ttl
        /\ \A k \in Keys : waiting'[k] # None =>
             waiting[k] # None /\ waiting'[k] = waiting[k] /\ now - waiting[k].at <= EvictTimeout
    BY <1>5 DEF Cleanup, Retain
  <2> QED BY <1>0, <2>1 DEF Swept
<1>6. ASSUME Tick PROVE Swept'
  BY <1>0, <1>6 DEF Tick, table, Swept
<1>7. ASSUME UNCHANGED vars PROVE Swept'
  BY <1>7 DEF vars, Swept
<1> QED BY <1>1, <1>2, <1>3, <1>4, <1>5, <1>6, <1>7 DEF Next, Quiescent

\* A credential nobody claims, and the waiter of packets that gave up, are gone
\* within one cleanup period of their timeout.
THEOREM NoResidue == Spec => []ResidueBounded
<1>1. Init => Swept
  BY InFlightConstants DEF Init, Swept
<1>2. TypeOK /\ Swept => ResidueBounded
  BY InFlightConstants DEF TypeOK, Auth, Waiter, Swept, ResidueBounded
<1> QED BY <1>1, <1>2, SweptStep, TypeCorrect, PTL DEF Spec

-----------------------------------------------------------------------------
(* How a credential leaves the table                                       *)

\* The action property LeavesOnlyWhenDue holds of every step from a state that
\* satisfies the invariants.
LEMMA LeavesStep ==
    ASSUME TypeOK, Ledger, [Next]_vars, NEW k \in Keys, auth[k] # None, auth'[k] # auth[k]
    PROVE  \/ auth'[k] # None /\ auth'[k].stamp > auth[k].stamp
           \/ now - auth[k].at > Ttl
           \/ \E p \in Packets : /\ result[p] = None
                                 /\ result'[p] = auth[k]
                                 /\ sent[p] = [key |-> k, psk |-> auth[k].psk]
<1> DEFINE Due == \/ auth'[k] # None /\ auth'[k].stamp > auth[k].stamp
                  \/ now - auth[k].at > Ttl
                  \/ \E p \in Packets : /\ result[p] = None
                                        /\ result'[p] = auth[k]
                                        /\ sent[p] = [key |-> k, psk |-> auth[k].psk]
<1>0. Retain(auth, Ttl)[k] # auth[k] => now - auth[k].at > Ttl
  <2>1. now \in Nat /\ auth[k].at \in Nat /\ Ttl \in Nat
    BY InFlightConstants DEF TypeOK, Auth
  <2> QED BY <2>1 DEF Retain
<1>1. ASSUME NEW j \in Keys, NEW s \in Psks, Store(j, s) PROVE Due
  <2>1. CASE Reclaimed(j)[k] # auth[k]
    BY <2>1, <1>0 DEF Reclaimed
  <2>2. CASE Reclaimed(j)[k] = auth[k]
    <3>1. Admits(j) /\ j = k
      BY <1>1, <2>2, ReclaimedType DEF Store
    <3>2. auth'[k] = [psk |-> s, stamp |-> stamp + 1, at |-> now]
      BY <1>1, <3>1, ReclaimedType DEF Store
    <3>3. auth'[k] # None
      BY <3>2, NoneIsNoEntry DEF Auth, TypeOK
    <3>4. auth[k].stamp \in Nat /\ stamp \in Nat /\ auth[k].stamp <= stamp
      BY DEF TypeOK, Auth, Ledger, StampsIssued
    <3> QED BY <3>2, <3>3, <3>4
  <2> QED BY <2>1, <2>2
<1>2. ASSUME NEW p \in Packets, Remove(p) PROVE Due
  <2>1. StillStored(p) /\ k = Key(p) /\ result'[p] = claimed[p]
    BY <1>2 DEF Remove, TypeOK, Key
  <2>2. claimed[p] = auth[k] /\ claimed[p].psk = sent[p].psk /\ result[p] = None
    BY <1>2, <2>1 DEF Remove, StillStored, Ledger, ClaimsSound
  <2>3. sent[p] = [key |-> k, psk |-> auth[k].psk]
    BY <2>1, <2>2 DEF TypeOK, Key
  <2> QED BY <2>1, <2>2, <2>3
<1>3. ASSUME Cleanup PROVE Due
  BY <1>0, <1>3 DEF Cleanup
<1>4. ASSUME \/ \E p \in Packets : Arrive(p) \/ Claim(p) \/ Verify(p) \/ Register(p) \/ Wake(p) \/ GiveUp(p)
             \/ Tick \/ UNCHANGED vars
      PROVE  FALSE
  BY <1>4 DEF Arrive, Claim, Verify, Register, Wake, GiveUp, Tick, table, vars
<1> QED BY <1>1, <1>2, <1>3, <1>4 DEF Next, Quiescent

\* A credential leaves the table only by expiring, by a newer one for its salt,
\* or with a packet that decrypts under it: probing a salt with a datagram that
\* fails authentication cannot remove it.
THEOREM CredentialsLeaveWhenDue == Spec => LeavesOnlyWhenDue
<1>1. TypeOK /\ Ledger /\ [Next]_vars =>
        [\A k \in Keys :
           auth[k] # None /\ auth'[k] # auth[k] =>
              \/ auth'[k] # None /\ auth'[k].stamp > auth[k].stamp
              \/ now - auth[k].at > Ttl
              \/ \E p \in Packets : /\ result[p] = None
                                    /\ result'[p] = auth[k]
                                    /\ sent[p] = [key |-> k, psk |-> auth[k].psk]]_vars
  BY LeavesStep
<1> QED BY <1>1, TypeCorrect, LedgerAlways, PTL DEF Spec, LeavesOnlyWhenDue

-----------------------------------------------------------------------------
(* The table implements the abstract store                                 *)

\* The credential in slot k, as the abstract store sees it.
Cred(k) == [key |-> k, psk |-> auth[k].psk, stamp |-> auth[k].stamp]

\* Every step of the table is a step of the abstract store or leaves it unchanged.
LEMMA RefinementStep == TypeOK /\ TypeOK' /\ Ledger /\ [Next]_vars => [Abstract!Next]_(Abstract!vars)
<1> SUFFICES ASSUME TypeOK, TypeOK', Ledger, [Next]_vars
             PROVE  Abstract!Next \/ UNCHANGED <<sent, stamp, Held, Given>>
  BY DEF Abstract!vars
<1>1. ASSUME NEW k \in Keys, NEW s \in Psks, Store(k, s) PROVE Abstract!Issue(k, s)
  <2>1. stamp' = stamp + 1 /\ UNCHANGED <<sent, result>>
    BY <1>1 DEF Store, task
  <2>2. Given' = Given
    BY <2>1 DEF Given, Key
  <2>3. \A j \in Keys : Reclaimed(k)[j] # None => Reclaimed(k)[j] = auth[j]
    BY DEF Reclaimed, Retain
  <2>4. \A j \in Keys : auth'[j] # None =>
          auth'[j] = auth[j] \/ (j = k /\ auth'[j] = [psk |-> s, stamp |-> stamp + 1, at |-> now])
    BY <1>1, <2>3, ReclaimedType DEF Store
  <2>5. Held' \subseteq Held \cup {Abstract!Fresh(k, s)}
    <3> SUFFICES ASSUME NEW j \in Keys, auth'[j] # None
                 PROVE  [key |-> j, psk |-> auth'[j].psk, stamp |-> auth'[j].stamp]
                          \in Held \cup {Abstract!Fresh(k, s)}
      BY DEF Held, Occupied
    <3>1. CASE auth'[j] = auth[j]
      BY <3>1 DEF Held, Occupied
    <3>2. CASE j = k /\ auth'[j] = [psk |-> s, stamp |-> stamp + 1, at |-> now]
      BY <3>2 DEF Abstract!Fresh
    <3> QED BY <3>1, <3>2, <2>4
  <2> QED BY <2>1, <2>2, <2>5 DEF Abstract!Issue
<1>2. ASSUME NEW p \in Packets, Remove(p), StillStored(p)
      PROVE  \E c \in Held : Abstract!Consume(c, p)
  <2> DEFINE k == Key(p)
             c == Cred(k)
  <2>1. /\ auth' = [auth EXCEPT ![k] = None] /\ result' = [result EXCEPT ![p] = claimed[p]]
        /\ UNCHANGED <<sent, stamp>> /\ k \in Keys /\ auth[k] # None
    BY <1>2 DEF Remove, StillStored, TypeOK, Key
  <2>2. claimed[p] = auth[k] /\ claimed[p].psk = sent[p].psk /\ result[p] = None
    BY <1>2 DEF Remove, StillStored, Ledger, ClaimsSound
  <2>3. c \in Held
    BY <2>1 DEF Held, Occupied, Cred
  <2>4. sent[p] = [key |-> c.key, psk |-> c.psk]
    BY <2>1, <2>2 DEF TypeOK, Key, Cred
  <2>5. Held' = Held \ {c}
    <3>1. \A j \in Keys : auth'[j] = IF j = k THEN None ELSE auth[j]
      BY <2>1 DEF TypeOK
    <3>2. Held' = {[key |-> j, psk |-> auth'[j].psk, stamp |-> auth'[j].stamp] :
                     j \in {i \in Keys : auth'[i] # None}}
      BY DEF Held, Occupied
    <3>3. \A h : h \in Held' <=> h \in Held /\ h # c
      BY <3>1, <3>2 DEF Held, Occupied, Cred
    <3> QED BY <3>3
  <2>6. \A e \in Given : e[2] # p
    BY <2>2 DEF Given
  <2>7. Given' = Given \cup {<<c, p>>}
    <3>1. \A q \in Packets : result'[q] = IF q = p THEN auth[k] ELSE result[q]
      BY <2>1, <2>2 DEF TypeOK
    <3>2. Given' = {<<[key |-> Key(q), psk |-> result'[q].psk, stamp |-> result'[q].stamp], q>> :
                      q \in {r \in Packets : result'[r] # None}}
      BY <2>1 DEF Given, Key
    <3>3. \A g : g \in Given' <=> g \in Given \/ g = <<c, p>>
      BY <3>1, <3>2, <2>1, <2>2 DEF Given, Cred
    <3> QED BY <3>3
  <2> QED BY <2>1, <2>3, <2>4, <2>5, <2>6, <2>7 DEF Abstract!Consume
<1>3. ASSUME NEW p \in Packets, Remove(p), ~StillStored(p) PROVE UNCHANGED <<sent, stamp, Held, Given>>
  BY <1>3 DEF Remove, Held, Given, Key, Occupied
<1>4. ASSUME Cleanup PROVE Abstract!Discard
  <2>1. UNCHANGED <<sent, stamp, result>> /\ \A k \in Keys : auth'[k] # None => auth'[k] = auth[k]
    BY <1>4 DEF Cleanup, task, Retain
  <2>2. Held' \subseteq Held
    BY <2>1 DEF Held, Occupied
  <2>3. Given' = Given
    BY <2>1 DEF Given, Key
  <2> QED BY <2>1, <2>2, <2>3 DEF Abstract!Discard
<1>5. ASSUME \/ \E p \in Packets : Arrive(p) \/ Claim(p) \/ Verify(p) \/ Register(p) \/ Wake(p) \/ GiveUp(p)
             \/ Tick \/ UNCHANGED vars
      PROVE  UNCHANGED <<sent, stamp, Held, Given>>
  <2>1. UNCHANGED <<sent, stamp, auth, result>>
    BY <1>5 DEF Arrive, Claim, Verify, Register, Wake, GiveUp, Tick, table, task, vars
  <2> QED BY <2>1 DEF Held, Given, Key, Occupied
<1> QED BY <1>1, <1>2, <1>3, <1>4, <1>5 DEF Next, Quiescent, Abstract!Next

\* store, evict and cleanup, with their clones, waiters and timeouts, implement
\* the store of single-use credentials.
THEOREM Refinement == Spec => ImplementsCredentialStore
<1>1. Init => Abstract!Init
  BY DEF Init, Abstract!Init, Held, Given, Occupied
<1> QED BY <1>1, RefinementStep, TypeCorrect, LedgerAlways, PTL
        DEF Spec, ImplementsCredentialStore, Abstract!Spec
=============================================================================
