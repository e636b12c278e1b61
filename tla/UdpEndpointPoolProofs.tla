----------------------- MODULE UdpEndpointPoolProofs -----------------------
(***************************************************************************)
(* Proofs about UdpEndpointPool, for any set of tasks and Notify objects.  *)
(***************************************************************************)
EXTENDS UdpEndpointPool, TLAPS

\* From the creator's double-check of the cache to its insertion.
Filling == {"dial", "insert"}

\* The inductive invariant: the mark in `creating` is the creator's, and the slot
\* that a creator found empty stays empty until it inserts.
Creation ==
    /\ OneCreator
    /\ MarkedWhileCreated
    /\ \A t \in Callers : poolPc[t] \in Filling => ~cached

\* A new pool is well typed.
LEMMA PoolTypeInit == PoolInit => PoolTypeOK
BY DEF PoolInit, PoolTypeOK, PCs

\* Every step of get_or_create and remove keeps the types.
LEMMA PoolTypeStep == PoolTypeOK /\ [PoolNext]_poolVars => PoolTypeOK'
<1> SUFFICES ASSUME PoolTypeOK, [PoolNext]_poolVars PROVE PoolTypeOK'
  OBVIOUS
<1> USE DEF PoolTypeOK, PCs, Section, Dropping, PoolGoto
<1>1. ASSUME NEW t \in Callers, PoolCall(t) \/ Lookup(t) \/ Arbitrate(t) \/ Recheck(t) \/ Dial(t)
      PROVE  PoolTypeOK'
  BY <1>1 DEF PoolCall, Lookup, Arbitrate, Recheck, Dial
<1>2. ASSUME NEW t \in Callers, Publish(t) \/ Subscribe(t) PROVE PoolTypeOK'
  BY <1>2 DEF Publish, Subscribe
<1>3. ASSUME NEW t \in Callers, InsertEndpoint(t) \/ PoolRelease(t) \/ Unpublish(t) \/ Signal(t) PROVE PoolTypeOK'
  BY <1>3 DEF InsertEndpoint, PoolRelease, Unpublish, Signal
<1>4. ASSUME NEW t \in Callers, Confirm(t) \/ Listen(t) \/ PoolWake(t) PROVE PoolTypeOK'
  BY <1>4 DEF Confirm, Listen, PoolWake
<1>5. ASSUME RemoveEndpoint PROVE PoolTypeOK'
  BY <1>5 DEF RemoveEndpoint
<1>6. CASE UNCHANGED poolVars
  BY <1>6 DEF poolVars
<1> QED BY <1>1, <1>2, <1>3, <1>4, <1>5, <1>6 DEF PoolNext, PoolStep

\* The maps of the pool and the locals of get_or_create keep their types.
THEOREM PoolTypeCorrect == PoolSpec => []PoolTypeOK
BY PoolTypeInit, PoolTypeStep, PTL DEF PoolSpec

-----------------------------------------------------------------------------
\* Every step keeps creation serialised and marked.
LEMMA CreationStep == PoolTypeOK /\ Creation /\ [PoolNext]_poolVars => Creation'
<1> SUFFICES ASSUME PoolTypeOK, Creation, [PoolNext]_poolVars PROVE Creation'
  OBVIOUS
<1> USE DEF Section, Filling, Dropping, PoolGoto, PCs
\* Steps that neither enter nor leave the section, nor touch the cache.
<1>1. ASSUME NEW t \in Callers,
             \/ PoolCall(t) \/ Lookup(t) \/ Publish(t) \/ Unpublish(t) \/ Signal(t)
             \/ Subscribe(t) \/ Confirm(t) \/ Listen(t) \/ PoolWake(t)
      PROVE  Creation'
  <2>1. UNCHANGED <<cached, creating>>
    BY <1>1 DEF PoolCall, Lookup, Publish, Unpublish, Signal, Subscribe, Confirm, Listen, PoolWake
  <2>2. \A u \in Callers : /\ poolPc'[u] \in Section <=> poolPc[u] \in Section
                           /\ poolPc'[u] \in Filling => poolPc[u] \in Filling
    BY <1>1 DEF PoolCall, Lookup, Publish, Unpublish, Signal, Subscribe, Confirm, Listen, PoolWake, PoolTypeOK
  <2> QED BY <2>1, <2>2 DEF Creation, OneCreator, MarkedWhileCreated
\* The winner of `creating` is alone: the address was not marked.
<1>2. ASSUME NEW t \in Callers, Arbitrate(t) PROVE Creation'
  <2>1. creating' = TRUE /\ cached' = cached
    BY <1>2 DEF Arbitrate
  <2>2. CASE creating
    <3>1. \A u \in Callers : /\ poolPc'[u] \in Section <=> poolPc[u] \in Section
                             /\ poolPc'[u] \in Filling => poolPc[u] \in Filling
      BY <1>2, <2>2 DEF Arbitrate, PoolTypeOK
    <3> QED BY <2>1, <2>2, <3>1 DEF Creation, OneCreator, MarkedWhileCreated
  <2>3. CASE ~creating
    <3>1. \A u \in Callers : poolPc[u] \notin Section
      BY <2>3 DEF Creation, MarkedWhileCreated
    <3>2. \A u \in Callers : poolPc'[u] \in Section <=> u = t
      BY <1>2, <2>3, <3>1 DEF Arbitrate, PoolTypeOK
    <3>3. \A u \in Callers : poolPc'[u] \notin Filling
      BY <1>2, <2>3, <3>1 DEF Arbitrate, PoolTypeOK
    <3> QED BY <2>1, <3>2, <3>3 DEF Creation, OneCreator, MarkedWhileCreated
  <2> QED BY <2>2, <2>3
\* The creator moves within its section; it fills the slot only if it was empty.
<1>3. ASSUME NEW t \in Callers, Recheck(t) \/ Dial(t) PROVE Creation'
  <2>1. UNCHANGED <<cached, creating>>
    BY <1>3 DEF Recheck, Dial
  <2>2. \A u \in Callers : /\ poolPc'[u] \in Section <=> poolPc[u] \in Section
                           /\ poolPc'[u] \in Filling => poolPc[u] \in Filling \/ ~cached
    BY <1>3 DEF Recheck, Dial, PoolTypeOK
  <2> QED BY <2>1, <2>2 DEF Creation, OneCreator, MarkedWhileCreated
<1>4. ASSUME NEW t \in Callers, InsertEndpoint(t) PROVE Creation'
  <2>1. \A u \in Callers : poolPc'[u] \in Section <=> poolPc[u] \in Section
    BY <1>4 DEF InsertEndpoint, PoolTypeOK
  <2>2. \A u \in Callers : poolPc[u] \in Section => u = t
    BY <1>4 DEF InsertEndpoint, Creation, OneCreator
  <2>3. \A u \in Callers : poolPc'[u] \notin Filling
    BY <1>4, <2>2 DEF InsertEndpoint, PoolTypeOK
  <2> QED BY <1>4, <2>1, <2>3 DEF InsertEndpoint, Creation, OneCreator, MarkedWhileCreated
\* Releasing the mark: the creator is the only task in the section.
<1>5. ASSUME NEW t \in Callers, PoolRelease(t) PROVE Creation'
  <2>1. \A u \in Callers : poolPc[u] \in Section => u = t
    BY <1>5 DEF PoolRelease, Creation, OneCreator
  <2>2. \A u \in Callers : poolPc'[u] \notin Section
    BY <1>5, <2>1 DEF PoolRelease, PoolTypeOK
  <2> QED BY <1>5, <2>2 DEF PoolRelease, Creation, OneCreator, MarkedWhileCreated
<1>6. ASSUME RemoveEndpoint \/ UNCHANGED poolVars PROVE Creation'
  BY <1>6 DEF RemoveEndpoint, poolVars, Creation, OneCreator, MarkedWhileCreated
<1> QED BY <1>1, <1>2, <1>3, <1>4, <1>5, <1>6 DEF PoolNext, PoolStep

\* Creation is serialised and marked in every behaviour.
LEMMA CreationAlways == PoolSpec => []Creation
<1>1. PoolInit => Creation
  BY DEF PoolInit, Creation, OneCreator, MarkedWhileCreated, Section, Filling
<1> QED BY <1>1, CreationStep, PoolTypeCorrect, PTL DEF PoolSpec

\* Duplicate creation for one address is serialised, for any number of callers.
THEOREM CreationSerialised == PoolSpec => []OneCreator
BY CreationAlways, PTL DEF Creation

\* The mark is set exactly while a task creates: no return path of get_or_create
\* leaks it.
THEOREM MarkNotLeaked == PoolSpec => []MarkedWhileCreated
BY CreationAlways, PTL DEF Creation

\* get_or_create never replaces an endpoint that is in the cache.
THEOREM EndpointNotReplaced == PoolSpec => NeverReplaced
<1>1. Creation /\ [PoolNext]_poolVars => [\A t \in Callers : InsertEndpoint(t) => ~cached]_poolVars
  BY DEF Creation, InsertEndpoint, Filling
<1> QED BY <1>1, CreationAlways, PTL DEF PoolSpec, NeverReplaced
=============================================================================
