-------------------------- MODULE ReconnectProofs --------------------------
(***************************************************************************)
(* Proofs about Reconnect, for any number of tasks and calls, with and     *)
(* without cancellation.                                                   *)
(***************************************************************************)
EXTENDS Reconnect, TLAPS

\* A task that owns the dial in progress: it leads, or its guard is to be dropped.
Active == Leading \cup {"dropping"}

\* After the leader has cleared the shared connection, and before it publishes.
Cleared == Leading \ {"clearConn"}

\* The inductive invariant: the Notify in ReconnectState is the owner's, so that
\* there is one owner, and what the owner knows of the shared slots stays true.
Leadership ==
    /\ inFlight => done # None
    /\ \A t \in Tasks : pc[t] \in Active => inFlight /\ done = t
    /\ \A t \in Tasks : pc[t] \in Leading => attempt[t] # 0
    /\ \A t \in Tasks : pc[t] = "clearConn" => ~Live
    /\ \A t \in Tasks : pc[t] \in Cleared => connection = None
    /\ \A t \in Tasks : pc[t] \in {"okLock", "publish"} => authStream \in {attempt[t], None}
    /\ AuthStreamOfConnection

\* A new client is well typed.
LEMMA TypeInit == Init => TypeOK
<1> SUFFICES ASSUME Init PROVE TypeOK
  OBVIOUS
<1>1. reply \in [Tasks -> Replies]
  BY DEF Init, Replies
<1>2. pc \in [Tasks -> PCs] /\ real \in [Tasks -> BOOLEAN] /\ sub \in [Tasks -> Option(Tasks)]
  BY DEF Init, PCs, Option
<1>3. attempt \in [Tasks -> Nat] /\ calls \in 0..MaxCalls /\ dials \in Nat
  BY ReconnectConstants DEF Init
<1> QED BY <1>1, <1>2, <1>3 DEF Init, TypeOK, Option

\* What Return does, in types.
LEMMA ReturnType ==
    ASSUME TypeOK, NEW t \in Tasks, NEW r \in Replies, Return(t, r)
    PROVE  /\ pc' \in [Tasks -> PCs] /\ reply' \in [Tasks -> Replies] /\ attempt' \in [Tasks -> Nat]
           /\ sub' \in [Tasks -> Option(Tasks)] /\ woken' \in SUBSET Tasks
BY DEF Return, Goto, TypeOK, PCs, Option

\* The replies that calls build are replies.
LEMMA RepliesType ==
    ASSUME TypeOK
    PROVE  /\ connection # None => Ok \in Replies
           /\ lastFailure # None => SharedError \in Replies
           /\ \A t \in Tasks : attempt[t] # 0 => [kind |-> "ok", of |-> attempt[t]] \in Replies
BY DEF TypeOK, Ok, SharedError, Replies, Option, Attempts

\* Every step of connect and of its guard keeps the types.
LEMMA TypeStep == TypeOK /\ Leadership /\ [Next]_vars => TypeOK'
<1> SUFFICES ASSUME TypeOK, Leadership, [Next]_vars PROVE TypeOK'
  OBVIOUS
<1> USE ReconnectConstants DEF PCs, Leading, Goto, Unlock
<1>1. ASSUME NEW t \in Tasks, NEW r \in BOOLEAN, Call(t, r) PROVE TypeOK'
  BY <1>1 DEF Call, TypeOK, shared, state
<1>2. ASSUME NEW t \in Tasks,
             \/ Lock(t) \/ FailLock(t) \/ OkLock(t) \/ JoinLock(t) \/ WakeLock(t)
      PROVE  TypeOK'
  BY <1>2 DEF Lock, FailLock, OkLock, JoinLock, WakeLock, Acquire, TypeOK, shared, state, Option
\* The steps that may return from the call.
<1>3. ASSUME NEW t \in Tasks,
             Check(t) \/ DecideReturn(t) \/ JoinCheck(t) \/ JoinDecide(t) \/ WakeCheck(t) \/ WakeDecide(t)
      PROVE  TypeOK'
  <2>1. UNCHANGED <<shared, state, real, calls, dials, cancelled>> /\ holder' \in {holder, None}
    BY <1>3 DEF Check, DecideReturn, JoinCheck, JoinDecide, WakeCheck, WakeDecide
  <2>2. \/ \E r \in Replies : Return(t, r)
        \/ (\E l \in PCs : Goto(t, l)) /\ UNCHANGED <<reply, attempt, sub, woken>>
    BY <1>3, RepliesType DEF Check, DecideReturn, JoinCheck, JoinDecide, WakeCheck, WakeDecide, Live
  <2>3. /\ pc' \in [Tasks -> PCs] /\ reply' \in [Tasks -> Replies] /\ attempt' \in [Tasks -> Nat]
        /\ sub' \in [Tasks -> Option(Tasks)] /\ woken' \in SUBSET Tasks
    <3>1. CASE \E r \in Replies : Return(t, r)
      BY <3>1, ReturnType
    <3>2. CASE (\E l \in PCs : Goto(t, l)) /\ UNCHANGED <<reply, attempt, sub, woken>>
      BY <3>2 DEF TypeOK
    <3> QED BY <2>2, <3>1, <3>2
  <2> QED BY <2>1, <2>3 DEF TypeOK, shared, state, Option
<1>4. ASSUME NEW t \in Tasks, DecideJoin(t) PROVE TypeOK'
  <2>1. attempt' \in [Tasks -> Nat]
    <3>1. done \in Tasks
      BY <1>4 DEF DecideJoin, Leadership, TypeOK, Option
    <3>2. attempt' = [attempt EXCEPT ![t] = attempt[done]]
      BY <1>4 DEF DecideJoin
    <3> QED BY <3>1, <3>2 DEF TypeOK
  <2> QED BY <1>4, <2>1 DEF DecideJoin, TypeOK, shared, Option
<1>5. ASSUME NEW t \in Tasks, DecideLead(t) PROVE TypeOK'
  BY <1>5 DEF DecideLead, TypeOK, shared, Option
<1>6. ASSUME NEW t \in Tasks, ClearConn(t) \/ ClearAuth(t) \/ Dial(t) \/ Wake(t) PROVE TypeOK'
  <2>1. CASE ClearConn(t) \/ ClearAuth(t)
    BY <2>1 DEF ClearConn, ClearAuth, TypeOK, state, Option
  <2>2. CASE Dial(t) \/ Wake(t)
    BY <2>2 DEF Dial, Wake, TypeOK, shared, state
  <2> QED BY <1>6, <2>1, <2>2
<1>7. ASSUME NEW t \in Tasks, Fail(t) \/ SetAuth(t) \/ Publish(t) PROVE TypeOK'
  <2>1. attempt[t] \in Attempts
    BY <1>7 DEF Fail, SetAuth, Publish, Leadership, TypeOK, Attempts
  <2>2. CASE Fail(t)
    BY <2>1, <2>2 DEF Fail, TypeOK, shared, Option, Replies
  <2>3. CASE SetAuth(t)
    BY <2>1, <2>3 DEF SetAuth, TypeOK, state, Option
  <2>4. CASE Publish(t)
    <3>1. reply' \in [Tasks -> Replies]
      BY <2>1, <2>4 DEF Publish, TypeOK, Replies
    <3> QED BY <2>1, <2>4, <3>1 DEF Publish, TypeOK, Option
  <2> QED BY <1>7, <2>2, <2>3, <2>4
<1>8. ASSUME NEW t \in Tasks, NotifyWaiters(t) \/ Cancel(t) \/ GuardDrop(t) PROVE TypeOK'
  <2>1. CASE NotifyWaiters(t)
    BY <2>1 DEF NotifyWaiters, TypeOK, shared, state, Option
  <2>2. CASE Cancel(t)
    BY <2>2 DEF Cancel, TypeOK, shared, state, Option
  <2>3. CASE GuardDrop(t)
    <3>1. inFlight' \in BOOLEAN /\ done' \in Option(Tasks) /\ woken' \in SUBSET Tasks
      BY <2>3 DEF GuardDrop, TypeOK, Option
    <3> QED BY <2>3, <3>1 DEF GuardDrop, TypeOK, shared
  <2> QED BY <1>8, <2>1, <2>2, <2>3
<1>9. ASSUME ConnectionLost \/ AuthWriteFails \/ BackoffElapses PROVE TypeOK'
  BY <1>9 DEF ConnectionLost, AuthWriteFails, BackoffElapses, TypeOK, shared, state, Option
<1>10. CASE UNCHANGED vars
  BY <1>10 DEF vars, TypeOK, shared, state
<1> QED BY <1>1, <1>2, <1>3, <1>4, <1>5, <1>6, <1>7, <1>8, <1>9, <1>10 DEF Next, Step, Finished

-----------------------------------------------------------------------------
\* Every step keeps at most one leader, who owns the connection slot.
LEMMA LeadershipStep == TypeOK /\ Leadership /\ [Next]_vars => Leadership'
<1> SUFFICES ASSUME TypeOK, Leadership, [Next]_vars PROVE Leadership'
  OBVIOUS
<1> USE ReconnectConstants DEF Active, Cleared, Leading, Goto, Unlock, AuthStreamOfConnection
<1>t. pc \in [Tasks -> PCs] /\ attempt \in [Tasks -> Nat]
  BY DEF TypeOK
\* Steps of a task that does not own the dial: they change none of the shared
\* slots, and the task does not become the owner.
<1>1. ASSUME NEW t \in Tasks, pc[t] \notin Active, pc'[t] \notin Active,
             pc' = [pc EXCEPT ![t] = pc'[t]],
             \A u \in Tasks : u # t => attempt'[u] = attempt[u],
             UNCHANGED <<shared, inFlight, done>>
      PROVE  Leadership'
  <2>1. \A u \in Tasks : (pc'[u] \in Active => u # t) /\ (u # t => pc'[u] = pc[u])
    BY <1>1, <1>t
  <2> QED BY <2>1, <1>1 DEF Leadership, Live, shared
<1>2. ASSUME NEW t \in Tasks, NEW r \in BOOLEAN, Call(t, r) PROVE Leadership'
  BY <1>1, <1>2, <1>t DEF Call, state
<1>3. ASSUME NEW t \in Tasks, Lock(t) \/ JoinLock(t) \/ WakeLock(t) \/ Wake(t) PROVE Leadership'
  BY <1>1, <1>3, <1>t DEF Lock, JoinLock, WakeLock, Acquire, Wake, state
<1>4. ASSUME NEW t \in Tasks,
             Check(t) \/ DecideReturn(t) \/ JoinCheck(t) \/ JoinDecide(t) \/ WakeCheck(t) \/ WakeDecide(t)
      PROVE  Leadership'
  BY <1>1, <1>4, <1>t DEF Check, DecideReturn, JoinCheck, JoinDecide, WakeCheck, WakeDecide, Return, state
<1>5. ASSUME NEW t \in Tasks, DecideJoin(t) PROVE Leadership'
  BY <1>1, <1>5, <1>t DEF DecideJoin
<1>6. ASSUME NEW t \in Tasks, NotifyWaiters(t) PROVE Leadership'
  BY <1>1, <1>6, <1>t DEF NotifyWaiters, state
\* Taking the lead: nobody owns a dial, and the connection was found dead.
<1>7. ASSUME NEW t \in Tasks, DecideLead(t) PROVE Leadership'
  <2>1. \A u \in Tasks : pc'[u] \in Active => u = t
    BY <1>7, <1>t DEF DecideLead, Leadership
  <2>2. pc'[t] = "clearConn" /\ attempt'[t] # 0
    BY <1>7, <1>t DEF DecideLead, TypeOK
  <2> QED BY <1>7, <2>1, <2>2 DEF DecideLead, MayDial, Leadership, Live, shared
\* The owner's own steps.
<1>8. ASSUME NEW t \in Tasks,
             ClearConn(t) \/ ClearAuth(t) \/ Dial(t) \/ FailLock(t) \/ SetAuth(t) \/ OkLock(t)
      PROVE  Leadership'
  <2>1. \A u \in Tasks : pc[u] \in Active <=> u = t
    BY <1>8 DEF ClearConn, ClearAuth, Dial, FailLock, SetAuth, OkLock, Acquire, Leadership
  <2>2. \A u \in Tasks : pc'[u] \in Active <=> u = t
    BY <1>8, <1>t, <2>1 DEF ClearConn, ClearAuth, Dial, FailLock, SetAuth, OkLock, Acquire
  <2>3. inFlight' = inFlight /\ done' = done /\ attempt' = attempt
    BY <1>8 DEF ClearConn, ClearAuth, Dial, FailLock, SetAuth, OkLock, Acquire, state
  <2>4. CASE ClearConn(t)
    BY <1>t, <2>1, <2>2, <2>3, <2>4 DEF ClearConn, Leadership
  <2>5. CASE ClearAuth(t)
    BY <1>t, <2>1, <2>2, <2>3, <2>5 DEF ClearAuth, Leadership
  <2>6. CASE Dial(t)
    BY <1>t, <2>1, <2>2, <2>3, <2>6 DEF Dial, Leadership, shared
  <2>7. CASE FailLock(t)
    BY <1>t, <2>1, <2>2, <2>3, <2>7 DEF FailLock, Acquire, Leadership, shared
  <2>8. CASE SetAuth(t)
    BY <1>t, <2>1, <2>2, <2>3, <2>8 DEF SetAuth, Leadership
  <2>9. CASE OkLock(t)
    BY <1>t, <2>1, <2>2, <2>3, <2>9 DEF OkLock, Acquire, Leadership, shared
  <2> QED BY <1>8, <2>4, <2>5, <2>6, <2>7, <2>8, <2>9
\* Giving the lead up: the owner leaves and takes the mark with it.
<1>9. ASSUME NEW t \in Tasks, Fail(t) \/ Publish(t) PROVE Leadership'
  <2>1. \A u \in Tasks : pc[u] \in Active <=> u = t
    BY <1>9 DEF Fail, Publish, Leadership
  <2>2. \A u \in Tasks : pc'[u] \notin Active
    BY <1>9, <1>t, <2>1 DEF Fail, Publish
  <2>3. inFlight' = FALSE
    BY <1>9 DEF Fail, Publish
  <2>4. AuthStreamOfConnection'
    BY <1>9 DEF Fail, Publish, Leadership, shared
  <2> QED BY <2>2, <2>3, <2>4 DEF Leadership
<1>10. ASSUME NEW t \in Tasks, Cancel(t) PROVE Leadership'
  <2>1. CASE pc[t] \in Leading
    <3>1. pc' = [pc EXCEPT ![t] = "dropping"] /\ UNCHANGED <<shared, inFlight, done>>
      BY <1>10, <2>1 DEF Cancel, state
    <3>2. \A u \in Tasks : pc[u] \in Active <=> u = t
      BY <2>1 DEF Leadership
    <3>3. \A u \in Tasks : pc'[u] \in Active <=> u = t
      BY <1>t, <3>1, <3>2
    <3> QED BY <1>t, <2>1, <3>1, <3>3 DEF Leadership, shared
  <2>2. CASE pc[t] \notin Leading
    BY <1>1, <1>10, <1>t, <2>2 DEF Cancel, state
  <2> QED BY <2>1, <2>2
<1>11. ASSUME NEW t \in Tasks, GuardDrop(t) PROVE Leadership'
  <2>1. \A u \in Tasks : pc[u] \in Active <=> u = t
    BY <1>11 DEF GuardDrop, Leadership
  <2>2. \A u \in Tasks : pc'[u] \notin Active
    BY <1>11, <1>t, <2>1 DEF GuardDrop
  <2>3. inFlight' => done' # None
    BY <1>11 DEF GuardDrop, Leadership
  <2> QED BY <1>11, <2>2, <2>3 DEF GuardDrop, Leadership, shared
<1>12. ASSUME ConnectionLost \/ AuthWriteFails \/ BackoffElapses PROVE Leadership'
  BY <1>12 DEF ConnectionLost, AuthWriteFails, BackoffElapses, Leadership, Live, shared, state
<1>13. CASE UNCHANGED vars
  BY <1>13 DEF vars, shared, state, Leadership, Live
<1> QED BY <1>2, <1>3, <1>4, <1>5, <1>6, <1>7, <1>8, <1>9, <1>10, <1>11, <1>12, <1>13
        DEF Next, Step, Finished

\* There is at most one leader in every behaviour.
LEMMA LeadershipAlways == Spec => [](TypeOK /\ Leadership)
<1>1. Init => Leadership
  BY DEF Init, Leadership, Active, Leading, Cleared, AuthStreamOfConnection
<1> QED BY <1>1, TypeInit, TypeStep, LeadershipStep, PTL DEF Spec

\* The shared slots, ReconnectState and the callers keep their types.
THEOREM TypeCorrect == Spec => []TypeOK
BY LeadershipAlways, PTL

\* One handshake at a time, however many callers there are and whichever of them
\* are cancelled.
THEOREM SingleLeader == Spec => []OneLeader
<1>1. Leadership => OneLeader
  BY DEF Leadership, OneLeader, Active
<1> QED BY <1>1, LeadershipAlways, PTL

\* Underlay auth is never written to the stream of a connection other than the
\* one that callers see.
THEOREM AuthStreamMatches == Spec => []AuthStreamOfConnection
<1>1. Leadership => AuthStreamOfConnection
  BY DEF Leadership
<1> QED BY <1>1, LeadershipAlways, PTL

\* A leader never discards a working connection, although it acts on a check it
\* made some awaits earlier.
THEOREM LiveConnectionKept == Spec => NeverDiscardsLive
<1>1. Leadership /\ [Next]_vars => [\A t \in Tasks : ClearConn(t) => ~Live]_vars
  BY DEF Leadership, ClearConn
<1> QED BY <1>1, LeadershipAlways, PTL DEF Spec, NeverDiscardsLive

-----------------------------------------------------------------------------
\* Where a caller that waits for the dial in progress can be.
Joined == {"joinCheck", "joinLock", "joinDecide", "wait"}

\* Whoever shares the leader's dial, other than the leader, still waits for it: it
\* has subscribed to the leader's Notify, which has not fired.
WaitersShare ==
    \A t, u \in Tasks : pc[t] \in Leading /\ u # t /\ attempt[u] = attempt[t]
                          => pc[u] \in Joined /\ sub[u] = t /\ u \notin woken

\* record_failure is set exactly if a real request has a part in the dial, as long as
\* no such request was cancelled.
RecordMeansAsked ==
    \A t \in Tasks : pc[t] \in Leading =>
      /\ \A u \in Tasks : real[u] /\ attempt[u] = attempt[t] => recordFailure
      /\ recordFailure /\ ~cancelled => \E u \in Tasks : real[u] /\ attempt[u] = attempt[t]

\* A caller has a dial only while it leads or waits (or tries again), and dials have
\* different numbers: these and the two above are inductive together.
Asking ==
    /\ \A t \in Tasks : attempt[t] <= dials
    /\ \A t \in Tasks : pc[t] \in {"idle", "check", "dropping"} => attempt[t] = 0
    /\ WaitersShare
    /\ RecordMeansAsked

\* A step of t that keeps its part in a dial and everybody's requests.
LEMMA AskingMove ==
    ASSUME TypeOK, Asking, NEW t \in Tasks, NEW l \in PCs, Goto(t, l),
           l \in Leading <=> pc[t] \in Leading,
           l \in {"idle", "check", "dropping"} => attempt[t] = 0,
           \A v \in Tasks : pc[v] \in Leading /\ v # t => attempt[t] # attempt[v] \/ l \in Joined,
           UNCHANGED <<recordFailure, real, attempt, sub, woken, dials, cancelled>>
    PROVE  Asking'
<1>1. pc'[t] = l /\ \A u \in Tasks : u # t => pc'[u] = pc[u]
  BY DEF Goto, TypeOK
<1>2. \A u \in Tasks : pc'[u] \in Leading <=> pc[u] \in Leading
  BY <1>1
<1>3. RecordMeansAsked'
  BY <1>2 DEF Asking, RecordMeansAsked
<1>4. WaitersShare'
  <2> SUFFICES ASSUME NEW v \in Tasks, NEW u \in Tasks, pc'[v] \in Leading, u # v, attempt[u] = attempt[v]
               PROVE  pc'[u] \in Joined /\ sub[u] = v /\ u \notin woken
    BY DEF WaitersShare
  <2>1. pc[v] \in Leading
    BY <1>2
  <2>2. pc[u] \in Joined /\ sub[u] = v /\ u \notin woken
    BY <2>1 DEF Asking, WaitersShare
  <2> QED BY <1>1, <2>1, <2>2
<1>5. \A u \in Tasks : pc'[u] \in {"idle", "check", "dropping"} => attempt[u] = 0
  BY <1>1 DEF Asking
<1> QED BY <1>3, <1>4, <1>5 DEF Asking

\* The call of t ends: nobody else's part changes, and the dial in progress loses a
\* request only by a cancellation.
LEMMA AskingLeave ==
    ASSUME TypeOK, Asking, Leadership, NEW t \in Tasks, NEW l \in {"idle", "dropping"}, Goto(t, l),
           attempt' = [attempt EXCEPT ![t] = 0],
           sub' = [sub EXCEPT ![t] = None],
           woken' = woken \ {t},
           UNCHANGED <<recordFailure, real, dials>>,
           \/ cancelled'
           \/ ~cancelled /\ \A v \in Tasks : pc[v] \in Leading /\ v # t => attempt[t] # attempt[v]
    PROVE  Asking'
<1>1. /\ pc'[t] = l /\ \A u \in Tasks : u # t => pc'[u] = pc[u]
      /\ attempt'[t] = 0 /\ \A u \in Tasks : u # t => attempt'[u] = attempt[u]
      /\ \A u \in Tasks : u # t => sub'[u] = sub[u]
  BY DEF Goto, TypeOK
<1>2. \A u \in Tasks : pc'[u] \in Leading => u # t /\ pc[u] \in Leading /\ attempt[u] # 0
  BY <1>1 DEF Leading, Leadership
<1>3. RecordMeansAsked'
  <2> SUFFICES ASSUME NEW v \in Tasks, pc'[v] \in Leading
               PROVE  /\ \A u \in Tasks : real[u] /\ attempt'[u] = attempt'[v] => recordFailure
                      /\ recordFailure /\ ~cancelled' => \E u \in Tasks : real[u] /\ attempt'[u] = attempt'[v]
    BY DEF RecordMeansAsked
  <2>1. v # t /\ pc[v] \in Leading /\ attempt'[v] = attempt[v] /\ attempt[v] # 0
    BY <1>1, <1>2
  <2>2. \A u \in Tasks : real[u] /\ attempt'[u] = attempt'[v] => recordFailure
    BY <1>1, <2>1 DEF Asking, RecordMeansAsked
  <2>3. ASSUME recordFailure, ~cancelled' PROVE \E u \in Tasks : real[u] /\ attempt'[u] = attempt'[v]
    <3>1. ~cancelled /\ attempt[t] # attempt[v]
      BY <2>1, <2>3
    <3>2. PICK u \in Tasks : real[u] /\ attempt[u] = attempt[v]
      BY <2>1, <2>3, <3>1 DEF Asking, RecordMeansAsked
    <3> QED BY <1>1, <2>1, <3>1, <3>2
  <2> QED BY <2>2, <2>3
<1>4. WaitersShare'
  BY <1>1, <1>2 DEF Asking, WaitersShare
<1>5. \A u \in Tasks : attempt'[u] <= dials
  BY <1>1 DEF Asking, TypeOK
<1>6. \A u \in Tasks : pc'[u] \in {"idle", "check", "dropping"} => attempt'[u] = 0
  BY <1>1 DEF Asking
<1> QED BY <1>3, <1>4, <1>5, <1>6 DEF Asking

\* Every step keeps record_failure in line with the requests that share the dial.
LEMMA AskingStep == TypeOK /\ Leadership /\ Asking /\ [Next]_vars => Asking'
<1> SUFFICES ASSUME TypeOK, Leadership, Asking, [Next]_vars PROVE Asking'
  OBVIOUS
<1> USE ReconnectConstants
<1>a. \A v, u \in Tasks : pc[v] \in Leading /\ u # v /\ pc[u] \notin Joined => attempt[u] # attempt[v]
  BY DEF Asking, WaitersShare
<1>b. \A v, u \in Tasks : pc[v] \in Leading /\ u # v /\ u \in woken => attempt[u] # attempt[v]
  BY DEF Asking, WaitersShare
<1>c. \A v \in Tasks : pc[v] \in Leading => inFlight /\ done = v /\ ~Live
  BY DEF Leadership, Active, Cleared, Live
<1>1. ASSUME NEW t \in Tasks, NEW r \in BOOLEAN, Call(t, r) PROVE Asking'
  <2>1. /\ pc'[t] = "check" /\ \A u \in Tasks : u # t => pc'[u] = pc[u]
        /\ \A u \in Tasks : u # t => real'[u] = real[u]
        /\ UNCHANGED <<recordFailure, attempt, sub, woken, dials, cancelled>>
        /\ pc[t] = "idle"
    BY <1>1 DEF Call, Goto, TypeOK, state
  <2>2. attempt[t] = 0
    BY <2>1 DEF Asking
  <2>3. \A u \in Tasks : pc'[u] \in Leading => u # t /\ pc[u] \in Leading /\ attempt[u] # 0
    BY <2>1 DEF Leading, Leadership
  <2>4. RecordMeansAsked'
    BY <2>1, <2>2, <2>3 DEF Asking, RecordMeansAsked
  <2>5. WaitersShare'
    BY <2>1, <2>2, <2>3 DEF Asking, WaitersShare
  <2>6. \A u \in Tasks : pc'[u] \in {"idle", "check", "dropping"} => attempt'[u] = 0
    BY <2>1, <2>2 DEF Asking
  <2>7. \A u \in Tasks : attempt'[u] <= dials'
    BY <2>1 DEF Asking
  <2> QED BY <2>4, <2>5, <2>6, <2>7 DEF Asking
<1>2. ASSUME NEW t \in Tasks, Lock(t) \/ WakeLock(t) PROVE Asking'
  <2>1. PICK l \in {"decide", "wakeDecide"} : Goto(t, l)
    BY <1>2 DEF Lock, WakeLock, Acquire
  <2>2. pc[t] \notin Leading /\ pc[t] \notin Joined /\ UNCHANGED <<recordFailure, real, attempt, sub, woken, dials, cancelled>>
    BY <1>2 DEF Lock, WakeLock, Acquire, state, Leading, Joined
  <2>3. l \in PCs /\ l \notin Leading /\ l \notin {"idle", "check", "dropping"}
    BY DEF PCs, Leading
  <2> QED BY <1>a, <2>1, <2>2, <2>3, AskingMove
<1>3. ASSUME NEW t \in Tasks, JoinLock(t) \/ FailLock(t) \/ OkLock(t) PROVE Asking'
  <2>1. CASE JoinLock(t)
    <3>1. Goto(t, "joinDecide") /\ pc[t] = "joinLock"
           /\ UNCHANGED <<recordFailure, real, attempt, sub, woken, dials, cancelled>>
      BY <2>1 DEF JoinLock, Acquire, state
    <3> QED BY <3>1, AskingMove DEF PCs, Leading, Joined
  <2>2. CASE FailLock(t) \/ OkLock(t)
    <3>1. PICK l \in {"fail", "publish"} : Goto(t, l)
      BY <2>2 DEF FailLock, OkLock, Acquire
    <3>2. pc[t] \in Leading /\ UNCHANGED <<recordFailure, real, attempt, sub, woken, dials, cancelled>>
      BY <2>2 DEF FailLock, OkLock, Acquire, state, Leading
    <3>3. \A v \in Tasks : pc[v] \in Leading => v = t
      BY <1>c, <3>2
    <3>4. l \in PCs /\ l \in Leading /\ l \notin {"idle", "check", "dropping"}
      BY DEF PCs, Leading
    <3> QED BY <3>1, <3>2, <3>3, <3>4, AskingMove
  <2> QED BY <1>3, <2>1, <2>2
\* The leader's own steps.
<1>4. ASSUME NEW t \in Tasks, ClearConn(t) \/ ClearAuth(t) \/ Dial(t) \/ SetAuth(t) PROVE Asking'
  <2>1. PICK l \in {"clearAuth", "dial", "setAuth", "failLock", "okLock"} : Goto(t, l)
    BY <1>4 DEF ClearConn, ClearAuth, Dial, SetAuth
  <2>2. pc[t] \in Leading /\ UNCHANGED <<recordFailure, real, attempt, sub, woken, dials, cancelled>>
    BY <1>4 DEF ClearConn, ClearAuth, Dial, SetAuth, state, Leading
  <2>3. \A v \in Tasks : pc[v] \in Leading => v = t
    BY <1>c, <2>2
  <2>4. l \in PCs /\ l \in Leading /\ l \notin {"idle", "check", "dropping"}
    BY DEF PCs, Leading
  <2> QED BY <2>1, <2>2, <2>3, <2>4, AskingMove
<1>5. ASSUME NEW t \in Tasks, Wake(t) PROVE Asking'
  <2>1. Goto(t, "wakeCheck") /\ pc[t] = "wait" /\ t \in woken
         /\ UNCHANGED <<recordFailure, real, attempt, sub, woken, dials, cancelled>>
    BY <1>5 DEF Wake, state
  <2> QED BY <1>b, <2>1, AskingMove DEF PCs, Leading
\* The steps that may return from the call: nobody whose dial is in progress does.
<1>6. ASSUME NEW t \in Tasks,
             Check(t) \/ DecideReturn(t) \/ JoinCheck(t) \/ JoinDecide(t) \/ WakeCheck(t) \/ WakeDecide(t)
      PROVE  Asking'
  <2>1. UNCHANGED <<recordFailure, real, dials, cancelled>> /\ pc[t] \notin Leading
    BY <1>6 DEF Check, DecideReturn, JoinCheck, JoinDecide, WakeCheck, WakeDecide, state, Leading
  <2>2. ASSUME NEW r, Return(t, r), \A v \in Tasks : pc[v] \in Leading /\ v # t => attempt[t] # attempt[v]
        PROVE  Asking'
    <3>1. cancelled' \/ ~cancelled
      BY <2>1 DEF TypeOK
    <3> QED BY <2>1, <2>2, <3>1, AskingLeave DEF Return
  <2>3. ASSUME NEW l \in PCs, Goto(t, l), l \notin Leading, l \notin {"idle", "check", "dropping"},
               UNCHANGED <<attempt, sub, woken>>,
               \A v \in Tasks : pc[v] \in Leading /\ v # t => attempt[t] # attempt[v] \/ l \in Joined
        PROVE  Asking'
    BY <2>1, <2>3, AskingMove
  <2>4. CASE Check(t) \/ WakeCheck(t) \/ DecideReturn(t) \/ WakeDecide(t)
    <3>1. \A v \in Tasks : pc[v] \in Leading /\ v # t => attempt[t] # attempt[v]
      BY <1>a, <2>4 DEF Check, WakeCheck, DecideReturn, WakeDecide, Joined
    <3>2. \/ \E r : Return(t, r)
          \/ \E l \in {"lock", "wakeLock"} : Goto(t, l) /\ UNCHANGED <<attempt, sub, woken>>
      BY <2>4 DEF Check, WakeCheck, DecideReturn, WakeDecide
    <3> QED BY <2>2, <2>3, <3>1, <3>2 DEF PCs, Leading
  <2>5. CASE JoinCheck(t)
    <3>1. CASE Live /\ Return(t, Ok)
      BY <1>c, <2>2, <3>1
    <3>2. CASE ~Live /\ Goto(t, "joinLock") /\ UNCHANGED <<reply, attempt, sub, woken>>
      BY <2>3, <3>2 DEF PCs, Leading, Joined
    <3> QED BY <2>5, <3>1, <3>2 DEF JoinCheck
  <2>6. CASE JoinDecide(t)
    <3>1. CASE inFlight /\ Goto(t, "wait") /\ UNCHANGED <<reply, attempt, sub, woken>>
      BY <2>3, <3>1 DEF PCs, Leading, Joined
    <3>2. CASE ~inFlight
      <4>1. \A v \in Tasks : pc[v] \notin Leading
        BY <1>c, <3>2
      <4>2. (\E r : Return(t, r)) \/ (Goto(t, "lock") /\ UNCHANGED <<attempt, sub, woken>>)
        BY <2>6, <3>2 DEF JoinDecide
      <4> QED BY <2>2, <2>3, <4>1, <4>2 DEF PCs, Leading
    <3> QED BY <2>6, <3>1, <3>2 DEF JoinDecide
  <2> QED BY <1>6, <2>4, <2>5, <2>6
\* A caller joins: its request is added to record_failure in the same critical section.
<1>7. ASSUME NEW t \in Tasks, DecideJoin(t) PROVE Asking'
  <2>1. done \in Tasks
    BY <1>7 DEF DecideJoin, Leadership, TypeOK, Option
  <2>2. /\ pc[t] = "decide" /\ pc'[t] = "joinCheck" /\ \A u \in Tasks : u # t => pc'[u] = pc[u]
        /\ attempt'[t] = attempt[done] /\ \A u \in Tasks : u # t => attempt'[u] = attempt[u]
        /\ sub'[t] = done /\ \A u \in Tasks : u # t => sub'[u] = sub[u]
        /\ woken' = woken \ {t}
        /\ UNCHANGED <<real, dials, cancelled>>
    BY <1>7 DEF DecideJoin, Goto, TypeOK
  <2>3. recordFailure' = (recordFailure \/ real[t])
    BY <1>7 DEF DecideJoin
  <2>4. \A u \in Tasks : pc'[u] \in Leading => u # t /\ pc[u] \in Leading /\ u = done
    BY <1>c, <2>2 DEF Leading
  <2>5. WaitersShare'
    BY <2>2, <2>4 DEF Asking, WaitersShare, Joined
  <2>6. RecordMeansAsked'
    <3> SUFFICES ASSUME NEW v \in Tasks, pc'[v] \in Leading
                 PROVE  /\ \A u \in Tasks : real[u] /\ attempt'[u] = attempt'[v] => recordFailure'
                        /\ recordFailure' /\ ~cancelled => \E u \in Tasks : real[u] /\ attempt'[u] = attempt'[v]
      BY <2>2 DEF RecordMeansAsked
    <3>1. v # t /\ pc[v] \in Leading /\ v = done /\ attempt'[v] = attempt[v]
      BY <2>2, <2>4
    <3>2. \A u \in Tasks : real[u] /\ attempt'[u] = attempt'[v] => recordFailure'
      BY <2>2, <2>3, <3>1 DEF Asking, RecordMeansAsked
    <3>3. ASSUME recordFailure', ~cancelled PROVE \E u \in Tasks : real[u] /\ attempt'[u] = attempt'[v]
      <4>1. CASE real[t]
        BY <2>2, <3>1, <4>1
      <4>2. CASE recordFailure
        <5>1. PICK u \in Tasks : real[u] /\ attempt[u] = attempt[v]
          BY <3>1, <3>3, <4>2 DEF Asking, RecordMeansAsked
        <5>2. u # t
          BY <1>a, <2>2, <3>1, <5>1 DEF Joined
        <5> QED BY <2>2, <3>1, <5>1, <5>2
      <4> QED BY <2>3, <3>3, <4>1, <4>2
    <3> QED BY <3>2, <3>3
  <2>7. \A u \in Tasks : attempt'[u] <= dials'
    BY <2>1, <2>2 DEF Asking
  <2>8. \A u \in Tasks : pc'[u] \in {"idle", "check", "dropping"} => attempt'[u] = 0
    BY <2>2 DEF Asking
  <2> QED BY <2>5, <2>6, <2>7, <2>8 DEF Asking
\* A new leader: no dial was in progress, and nobody has its number yet.
<1>8. ASSUME NEW t \in Tasks, DecideLead(t) PROVE Asking'
  <2>1. /\ pc'[t] = "clearConn" /\ \A u \in Tasks : u # t => pc'[u] = pc[u]
        /\ attempt'[t] = dials + 1 /\ \A u \in Tasks : u # t => attempt'[u] = attempt[u]
        /\ dials' = dials + 1 /\ UNCHANGED real /\ ~inFlight
    BY <1>8 DEF DecideLead, Goto, TypeOK
  <2>2. recordFailure' = real[t]
    BY <1>8 DEF DecideLead
  <2>3. \A u \in Tasks : pc'[u] \in Leading => u = t
    BY <1>c, <2>1
  <2>4. \A u \in Tasks : u # t => attempt'[u] # attempt'[t]
    BY <2>1 DEF Asking, TypeOK
  <2>5. \A u \in Tasks : attempt'[u] <= dials'
    BY <2>1 DEF Asking, TypeOK
  <2>6. WaitersShare'
    BY <2>3, <2>4 DEF WaitersShare
  <2>7. RecordMeansAsked'
    BY <2>1, <2>2, <2>3, <2>4 DEF RecordMeansAsked
  <2>8. \A u \in Tasks : pc'[u] \in {"idle", "check", "dropping"} => attempt'[u] = 0
    BY <2>1 DEF Asking
  <2> QED BY <2>5, <2>6, <2>7, <2>8 DEF Asking
\* The dial is over: there is no leader until the next one.
<1>9. ASSUME NEW t \in Tasks, Fail(t) \/ Publish(t) PROVE Asking'
  <2>1. pc[t] \in Leading /\ pc'[t] = "notify" /\ (\A u \in Tasks : u # t => pc'[u] = pc[u])
         /\ UNCHANGED <<attempt, dials>>
    BY <1>9 DEF Fail, Publish, Leading, Goto, TypeOK
  <2>2. \A u \in Tasks : pc'[u] \notin Leading
    BY <1>c, <2>1 DEF Leading
  <2>3. WaitersShare' /\ RecordMeansAsked'
    BY <2>2 DEF WaitersShare, RecordMeansAsked
  <2>4. \A u \in Tasks : pc'[u] \in {"idle", "check", "dropping"} => attempt'[u] = 0
    BY <2>1 DEF Asking
  <2> QED BY <2>1, <2>3, <2>4 DEF Asking
\* A former leader notifies the waiters of its own dial only.
<1>10. ASSUME NEW t \in Tasks, NotifyWaiters(t) PROVE Asking'
  <2>1. /\ pc[t] = "notify" /\ pc'[t] = "idle" /\ \A u \in Tasks : u # t => pc'[u] = pc[u]
        /\ attempt'[t] = 0 /\ \A u \in Tasks : u # t => attempt'[u] = attempt[u]
        /\ woken' = woken \cup {w \in Tasks : sub[w] = t}
        /\ UNCHANGED <<recordFailure, real, sub, dials, cancelled>>
    BY <1>10 DEF NotifyWaiters, Goto, TypeOK, state
  <2>2. \A u \in Tasks : pc'[u] \in Leading => u # t /\ pc[u] \in Leading /\ attempt[u] # 0
    BY <2>1 DEF Leading, Leadership
  <2>3. WaitersShare'
    BY <2>1, <2>2 DEF Asking, WaitersShare
  <2>4. \A v \in Tasks : pc[v] \in Leading => attempt[t] # attempt[v]
    BY <1>a, <2>1 DEF Joined, Leading
  <2>5. RecordMeansAsked'
    BY <2>1, <2>2, <2>4 DEF Asking, RecordMeansAsked
  <2>6. \A u \in Tasks : attempt'[u] <= dials'
    BY <2>1 DEF Asking, TypeOK
  <2>7. \A u \in Tasks : pc'[u] \in {"idle", "check", "dropping"} => attempt'[u] = 0
    BY <2>1 DEF Asking
  <2> QED BY <2>3, <2>5, <2>6, <2>7 DEF Asking
<1>11. ASSUME NEW t \in Tasks, Cancel(t) PROVE Asking'
  <2>1. PICK l \in {"idle", "dropping"} : Goto(t, l)
    BY <1>11 DEF Cancel
  <2>2. cancelled' /\ UNCHANGED <<recordFailure, real, dials>>
        /\ attempt' = [attempt EXCEPT ![t] = 0] /\ sub' = [sub EXCEPT ![t] = None] /\ woken' = woken \ {t}
    BY <1>11 DEF Cancel, state
  <2> QED BY <2>1, <2>2, AskingLeave
\* A cancelled leader's guard: there is no other leader.
<1>12. ASSUME NEW t \in Tasks, GuardDrop(t) PROVE Asking'
  <2>1. pc[t] = "dropping" /\ pc'[t] = "idle" /\ (\A u \in Tasks : u # t => pc'[u] = pc[u])
         /\ UNCHANGED <<attempt, dials>>
    BY <1>12 DEF GuardDrop, Goto, TypeOK
  <2>2. \A u \in Tasks : pc'[u] \notin Leading
    BY <1>c, <2>1 DEF Leading, Leadership, Active
  <2>3. WaitersShare' /\ RecordMeansAsked'
    BY <2>2 DEF WaitersShare, RecordMeansAsked
  <2>4. \A u \in Tasks : pc'[u] \in {"idle", "check", "dropping"} => attempt'[u] = 0
    BY <2>1 DEF Asking
  <2> QED BY <2>1, <2>3, <2>4 DEF Asking
<1>13. ASSUME ConnectionLost \/ AuthWriteFails \/ BackoffElapses \/ UNCHANGED vars PROVE Asking'
  <2>1. UNCHANGED <<pc, recordFailure, real, attempt, sub, woken, dials, cancelled>>
    BY <1>13 DEF ConnectionLost, AuthWriteFails, BackoffElapses, vars, state
  <2> QED BY <2>1 DEF Asking, WaitersShare, RecordMeansAsked
<1> QED BY <1>1, <1>2, <1>3, <1>4, <1>5, <1>6, <1>7, <1>8, <1>9, <1>10, <1>11, <1>12, <1>13
        DEF Next, Step, Finished

\* A failed dial arms the backoff if a real request led it or waits for it, and, if
\* nobody was cancelled, only then, although the requests come and go while it runs.
THEOREM BackoffOnRequest == Spec => BackoffMatchesRequest
<1>1. Init => Asking
  BY DEF Init, Asking, WaitersShare, RecordMeansAsked, Leading
<1>2. TypeOK /\ Asking /\ [Next]_vars =>
        [\A t \in Tasks : Fail(t) =>
           LET asked == \E u \in Tasks : real[u] /\ attempt[u] = attempt[t] IN
           /\ asked => lastFailure' = attempt[t] /\ backoff'
           /\ ~asked /\ ~cancelled => UNCHANGED <<lastFailure, backoff>>]_vars
  <2> SUFFICES ASSUME TypeOK, Asking, NEW t \in Tasks, Fail(t)
               PROVE  LET asked == \E u \in Tasks : real[u] /\ attempt[u] = attempt[t] IN
                      /\ asked => lastFailure' = attempt[t] /\ backoff'
                      /\ ~asked /\ ~cancelled => UNCHANGED <<lastFailure, backoff>>
    OBVIOUS
  <2>1. pc[t] \in Leading
    BY DEF Fail, Leading
  <2>2. (\E u \in Tasks : real[u] /\ attempt[u] = attempt[t]) => recordFailure
    BY <2>1 DEF Asking, RecordMeansAsked
  <2>3. ~(\E u \in Tasks : real[u] /\ attempt[u] = attempt[t]) /\ ~cancelled => ~recordFailure
    BY <2>1 DEF Asking, RecordMeansAsked
  <2>4. recordFailure => lastFailure' = attempt[t] /\ backoff'
    BY DEF Fail
  <2>5. ~recordFailure => UNCHANGED <<lastFailure, backoff>>
    BY DEF Fail
  <2> QED BY <2>2, <2>3, <2>4, <2>5
<1> QED BY <1>1, <1>2, AskingStep, LeadershipAlways, PTL DEF Spec, BackoffMatchesRequest
=============================================================================
