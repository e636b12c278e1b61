----------------------------- MODULE Reconnect -----------------------------
(***************************************************************************)
(* JuicityClient::connect / preconnect (client/src/client.rs): every local *)
(* proxy connection and UDP session shares one QUIC connection, and one    *)
(* task at a time (the leader) dials it while the others wait.             *)
(*                                                                         *)
(* reconnect_lock is a tokio Mutex that is taken in several short critical *)
(* sections; `holder` makes it explicit because ReconnectGuard::drop only  *)
(* try_locks it.  A call is split at every await and at every acquisition  *)
(* and release of that lock.  connection and auth_uni_stream have locks of *)
(* their own, each held for one access.                                    *)
(*                                                                         *)
(* Cancelling a caller (dropping its future) is possible at its awaits.    *)
(***************************************************************************)
EXTENDS Naturals, FiniteSets

CONSTANTS
    Tasks,        \* tasks that use the client
    MaxCalls,     \* bound: number of connect/preconnect calls
    None          \* Option::None

ASSUME ReconnectConstants ==
    /\ MaxCalls \in Nat
    /\ None \notin Tasks
    /\ None \notin Nat

VARIABLES
    connection,   \* the shared connection: None, or the attempt that made it
    alive,        \* whether that connection is still open (close_reason() is none)
    authStream,   \* auth_uni_stream: None, or the attempt it was opened by
    holder,       \* the task that holds reconnect_lock, or None
    inFlight,     \* ReconnectState::in_flight
    recordFailure,\* ReconnectState::record_failure
    done,         \* ReconnectState::done: the leader whose Notify it is, or None
    lastFailure,  \* ReconnectState::last_failure: the failed attempt, or None
    backoff,      \* whether reconnect_delay(attempts) has not elapsed since then
    pc,           \* where each caller is
    real,         \* real[t]: t called connect, not preconnect
    attempt,      \* attempt[t]: the dial t leads or waits for
    sub,          \* sub[t]: the leader on whose Notify t has a Notified future
    woken,        \* tasks whose Notified future has fired
    reply,        \* reply[t]: what the last call of t returned
    calls,        \* calls so far
    dials,        \* dials started so far
    cancelled     \* some call has been cancelled

shared == <<connection, alive, authStream>>
state  == <<inFlight, recordFailure, done, lastFailure, backoff>>
vars   == <<shared, holder, state, pc, real, attempt, sub, woken, reply, calls, dials, cancelled>>

\* Dials are numbered from 1; 0 stands for no dial.
Attempts == Nat \ {0}
Option(S) == S \cup {None}

\* Between in_flight = true and its reset by the same task.
Leading == {"clearConn", "clearAuth", "dial", "failLock", "fail", "setAuth", "okLock", "publish"}

PCs == {"idle", "check", "lock", "decide", "joinCheck", "joinLock", "joinDecide", "wait",
        "wakeCheck", "wakeLock", "wakeDecide", "notify", "dropping"} \cup Leading

Replies == {[kind |-> "none"], [kind |-> "leader error"]}
             \cup [kind : {"ok", "shared error"}, of : Attempts]

TypeOK ==
    /\ connection \in Option(Attempts)
    /\ alive \in BOOLEAN
    /\ authStream \in Option(Attempts)
    /\ holder \in Option(Tasks)
    /\ inFlight \in BOOLEAN
    /\ recordFailure \in BOOLEAN
    /\ done \in Option(Tasks)
    /\ lastFailure \in Option(Attempts)
    /\ backoff \in BOOLEAN
    /\ pc \in [Tasks -> PCs]
    /\ real \in [Tasks -> BOOLEAN]
    /\ attempt \in [Tasks -> Nat]
    /\ sub \in [Tasks -> Option(Tasks)]
    /\ woken \in SUBSET Tasks
    /\ reply \in [Tasks -> Replies]
    /\ calls \in 0..MaxCalls
    /\ dials \in Nat
    /\ cancelled \in BOOLEAN

Init ==
    /\ connection = None /\ alive = FALSE /\ authStream = None
    /\ holder = None
    /\ inFlight = FALSE /\ recordFailure = FALSE /\ done = None
    /\ lastFailure = None /\ backoff = FALSE
    /\ pc = [t \in Tasks |-> "idle"]
    /\ real = [t \in Tasks |-> FALSE]
    /\ attempt = [t \in Tasks |-> 0]
    /\ sub = [t \in Tasks |-> None]
    /\ woken = {}
    /\ reply = [t \in Tasks |-> [kind |-> "none"]]
    /\ calls = 0
    /\ dials = 0
    /\ cancelled = FALSE

-----------------------------------------------------------------------------
(* Helpers                                                                 *)

\* live_connection() returns Some
Live == connection # None /\ alive

Goto(t, l) == pc' = [pc EXCEPT ![t] = l]

\* The call of t returns r; its locals (the Notified future among them) drop.
Return(t, r) ==
    /\ Goto(t, "idle")
    /\ reply' = [reply EXCEPT ![t] = r]
    /\ attempt' = [attempt EXCEPT ![t] = 0]
    /\ sub' = [sub EXCEPT ![t] = None]
    /\ woken' = woken \ {t}

Ok == [kind |-> "ok", of |-> connection]
SharedError == [kind |-> "shared error", of |-> lastFailure]

\* reconnect_lock.lock().await
Acquire(t, from, to) ==
    /\ pc[t] = from
    /\ holder = None
    /\ holder' = t
    /\ Goto(t, to)
    /\ UNCHANGED <<shared, state, real, attempt, sub, woken, reply, calls, dials, cancelled>>

Unlock == holder' = None

-----------------------------------------------------------------------------
(* connect_inner                                                           *)

\* connect() (r = TRUE) or preconnect() (r = FALSE)
Call(t, r) ==
    /\ pc[t] = "idle"
    /\ calls < MaxCalls
    /\ calls' = calls + 1
    /\ real' = [real EXCEPT ![t] = r]
    /\ Goto(t, "check")
    /\ UNCHANGED <<shared, holder, state, attempt, sub, woken, reply, dials, cancelled>>

\* The first look at the connection, without the lock.
Check(t) ==
    /\ pc[t] = "check"
    /\ \/ Live /\ Return(t, Ok)
       \/ ~Live /\ Goto(t, "lock") /\ UNCHANGED <<reply, attempt, sub, woken>>
    /\ UNCHANGED <<shared, holder, state, real, calls, dials, cancelled>>

Lock(t) == Acquire(t, "lock", "decide")

\* Under the lock a backoff window answers with the recorded failure.
DecideReturn(t) ==
    /\ pc[t] = "decide"
    /\ \/ Live /\ Return(t, Ok)
       \/ ~Live /\ lastFailure # None /\ backoff /\ Return(t, SharedError)
    /\ Unlock
    /\ UNCHANGED <<shared, state, real, calls, dials, cancelled>>

\* Mutant: the connection is not looked at again under the lock.
MayDial_NoRecheck == ~(lastFailure # None /\ backoff)

MayDial == ~Live /\ ~(lastFailure # None /\ backoff)

\* Mutant: a waiter does not add its request to record_failure.
DecideJoin_NoRecord(t) ==
    /\ pc[t] = "decide"
    /\ MayDial
    /\ inFlight
    /\ sub' = [sub EXCEPT ![t] = done]
    /\ woken' = woken \ {t}
    /\ attempt' = [attempt EXCEPT ![t] = attempt[done]]
    /\ Unlock
    /\ Goto(t, "joinCheck")
    /\ UNCHANGED <<shared, state, real, reply, calls, dials, cancelled>>

\* Somebody is dialing: subscribe to its Notify before unlocking.
DecideJoin(t) ==
    /\ pc[t] = "decide"
    /\ MayDial
    /\ inFlight
    /\ recordFailure' = (recordFailure \/ real[t])
    /\ sub' = [sub EXCEPT ![t] = done]
    /\ woken' = woken \ {t}
    /\ attempt' = [attempt EXCEPT ![t] = attempt[done]]
    /\ Unlock
    /\ Goto(t, "joinCheck")
    /\ UNCHANGED <<shared, inFlight, done, lastFailure, backoff, real, reply, calls, dials, cancelled>>

\* Nobody is: become the leader.
DecideLead(t) ==
    /\ pc[t] = "decide"
    /\ MayDial
    /\ ~inFlight
    /\ inFlight' = TRUE
    /\ recordFailure' = real[t]
    /\ done' = t
    /\ sub' = [sub EXCEPT ![t] = None]
    /\ woken' = woken \ {t}
    /\ dials' = dials + 1
    /\ attempt' = [attempt EXCEPT ![t] = dials + 1]
    /\ Unlock
    /\ Goto(t, "clearConn")
    /\ UNCHANGED <<shared, lastFailure, backoff, real, reply, calls, cancelled>>

-----------------------------------------------------------------------------
(* lead_reconnect                                                          *)

\* Mutant: the dead connection stays in its slot while the leader dials.
ClearConn_Skipped(t) ==
    /\ pc[t] = "clearConn"
    /\ Goto(t, "clearAuth")
    /\ UNCHANGED <<shared, holder, state, real, attempt, sub, woken, reply, calls, dials, cancelled>>

\* *self.connection.write().await = None
ClearConn(t) ==
    /\ pc[t] = "clearConn"
    /\ connection' = None
    /\ alive' = FALSE
    /\ Goto(t, "clearAuth")
    /\ UNCHANGED <<authStream, holder, state, real, attempt, sub, woken, reply, calls, dials, cancelled>>

\* *self.auth_uni_stream.lock().await = None
ClearAuth(t) ==
    /\ pc[t] = "clearAuth"
    /\ authStream' = None
    /\ Goto(t, "dial")
    /\ UNCHANGED <<connection, alive, holder, state, real, attempt, sub, woken, reply, calls, dials, cancelled>>

\* Resolve, try_addresses, connect_to_address: every address has a timeout, so
\* this ends with a connection and its auth stream, or with the last error.
Dial(t) ==
    /\ pc[t] = "dial"
    /\ \/ Goto(t, "setAuth")
       \/ Goto(t, "failLock")
    /\ UNCHANGED <<shared, holder, state, real, attempt, sub, woken, reply, calls, dials, cancelled>>

FailLock(t) == Acquire(t, "failLock", "fail")

\* A failure is recorded for backoff only if a real request took part.
Fail(t) ==
    /\ pc[t] = "fail"
    /\ IF recordFailure
       THEN lastFailure' = attempt[t] /\ backoff' = TRUE
       ELSE UNCHANGED <<lastFailure, backoff>>
    /\ inFlight' = FALSE
    /\ done' = None
    /\ reply' = [reply EXCEPT ![t] = [kind |-> "leader error"]]
    /\ Unlock
    /\ Goto(t, "notify")
    /\ UNCHANGED <<shared, recordFailure, real, attempt, sub, woken, calls, dials, cancelled>>

\* *self.auth_uni_stream.lock().await = Some(uni)
SetAuth(t) ==
    /\ pc[t] = "setAuth"
    /\ authStream' = attempt[t]
    /\ Goto(t, "okLock")
    /\ UNCHANGED <<connection, alive, holder, state, real, attempt, sub, woken, reply, calls, dials, cancelled>>

OkLock(t) == Acquire(t, "okLock", "publish")

\* Publish the connection and reset ReconnectState in one critical section.  The
\* peer may have closed the new connection already.
Publish(t) ==
    /\ pc[t] = "publish"
    /\ connection' = attempt[t]
    /\ alive' \in BOOLEAN
    /\ inFlight' = FALSE /\ recordFailure' = FALSE /\ done' = None
    /\ lastFailure' = None /\ backoff' = FALSE
    /\ reply' = [reply EXCEPT ![t] = [kind |-> "ok", of |-> attempt[t]]]
    /\ Unlock
    /\ Goto(t, "notify")
    /\ UNCHANGED <<authStream, real, attempt, sub, woken, calls, dials, cancelled>>

\* Mutant: a Notified future counts only once it has been polled.
NotifyWaiters_Polled(t) ==
    /\ pc[t] = "notify"
    /\ woken' = woken \cup {w \in Tasks : sub[w] = t /\ pc[w] = "wait"}
    /\ attempt' = [attempt EXCEPT ![t] = 0]
    /\ Goto(t, "idle")
    /\ UNCHANGED <<shared, holder, state, real, sub, reply, calls, dials, cancelled>>

\* guard.disarm(); notify.notify_waiters(); return
NotifyWaiters(t) ==
    /\ pc[t] = "notify"
    /\ woken' = woken \cup {w \in Tasks : sub[w] = t}
    /\ attempt' = [attempt EXCEPT ![t] = 0]
    /\ Goto(t, "idle")
    /\ UNCHANGED <<shared, holder, state, real, sub, reply, calls, dials, cancelled>>

-----------------------------------------------------------------------------
(* wait_for_reconnect                                                      *)

\* Before waiting: the connection may be there already.
JoinCheck(t) ==
    /\ pc[t] = "joinCheck"
    /\ \/ Live /\ Return(t, Ok)
       \/ ~Live /\ Goto(t, "joinLock") /\ UNCHANGED <<reply, attempt, sub, woken>>
    /\ UNCHANGED <<shared, holder, state, real, calls, dials, cancelled>>

JoinLock(t) == Acquire(t, "joinLock", "joinDecide")

\* Under the lock again: if no attempt is in flight any more, its outcome is the
\* answer (or, for an unrecorded failure, a reason to retry).
JoinDecide(t) ==
    /\ pc[t] = "joinDecide"
    /\ \/ inFlight /\ Goto(t, "wait") /\ UNCHANGED <<reply, attempt, sub, woken>>
       \/ ~inFlight /\ Live /\ Return(t, Ok)
       \/ ~inFlight /\ ~Live /\ lastFailure # None /\ Return(t, SharedError)
       \/ ~inFlight /\ ~Live /\ lastFailure = None /\ Goto(t, "lock")
            /\ UNCHANGED <<reply, attempt, sub, woken>>
    /\ Unlock
    /\ UNCHANGED <<shared, state, real, calls, dials, cancelled>>

\* notified.await completes
Wake(t) ==
    /\ pc[t] = "wait"
    /\ t \in woken
    /\ Goto(t, "wakeCheck")
    /\ UNCHANGED <<shared, holder, state, real, attempt, sub, woken, reply, calls, dials, cancelled>>

WakeCheck(t) ==
    /\ pc[t] = "wakeCheck"
    /\ \/ Live /\ Return(t, Ok)
       \/ ~Live /\ Goto(t, "wakeLock") /\ UNCHANGED <<reply, attempt, sub, woken>>
    /\ UNCHANGED <<shared, holder, state, real, calls, dials, cancelled>>

WakeLock(t) == Acquire(t, "wakeLock", "wakeDecide")

\* The recorded failure is the answer; an unrecorded one means retry.
WakeDecide(t) ==
    /\ pc[t] = "wakeDecide"
    /\ \/ lastFailure # None /\ Return(t, SharedError)
       \/ lastFailure = None /\ Goto(t, "lock") /\ UNCHANGED <<reply, attempt, sub, woken>>
    /\ Unlock
    /\ UNCHANGED <<shared, state, real, calls, dials, cancelled>>

-----------------------------------------------------------------------------
(* Cancellation and the environment                                        *)

\* The future of t is dropped at an await.  A MutexGuard it holds across the
\* await is released first; a leader then still has its ReconnectGuard to drop.
Cancel(t) ==
    /\ pc[t] \notin {"idle", "wakeDecide", "fail", "notify", "dropping"}
    /\ pc[t] = "joinDecide" => ~inFlight
    /\ holder' = IF holder = t THEN None ELSE holder
    /\ Goto(t, IF pc[t] \in Leading THEN "dropping" ELSE "idle")
    /\ attempt' = [attempt EXCEPT ![t] = 0]
    /\ sub' = [sub EXCEPT ![t] = None]
    /\ woken' = woken \ {t}
    /\ cancelled' = TRUE
    /\ UNCHANGED <<shared, state, real, reply, calls, dials>>

\* ReconnectGuard::drop: try_lock, and do nothing if the lock is taken.
GuardDrop(t) ==
    /\ pc[t] = "dropping"
    /\ IF holder = None
       THEN /\ inFlight' = FALSE
            /\ done' = None
            /\ woken' = woken \cup {w \in Tasks : sub[w] = done /\ done # None}
       ELSE UNCHANGED <<inFlight, done, woken>>
    /\ Goto(t, "idle")
    /\ UNCHANGED <<shared, holder, recordFailure, lastFailure, backoff, real, attempt, sub, reply, calls, dials, cancelled>>

\* The QUIC connection closes.
ConnectionLost ==
    /\ Live
    /\ alive' = FALSE
    /\ UNCHANGED <<connection, authStream, holder, state, pc, real, attempt, sub, woken, reply, calls, dials, cancelled>>

\* A write on the auth stream fails in send_underlay_auth. Its caller may have got an
\* earlier connection, and finds the stream of one that is about to be published.
AuthWriteFails ==
    /\ authStream # None
    /\ authStream' = None
    /\ UNCHANGED <<connection, alive, holder, state, pc, real, attempt, sub, woken, reply, calls, dials, cancelled>>

\* reconnect_delay(attempts) has elapsed since the last recorded failure.
BackoffElapses ==
    /\ backoff
    /\ backoff' = FALSE
    /\ UNCHANGED <<shared, holder, inFlight, recordFailure, done, lastFailure, pc, real, attempt, sub, woken, reply, calls, dials, cancelled>>

Step(t) ==
    \/ Check(t) \/ Lock(t) \/ DecideReturn(t) \/ DecideJoin(t) \/ DecideLead(t)
    \/ ClearConn(t) \/ ClearAuth(t) \/ Dial(t) \/ FailLock(t) \/ Fail(t)
    \/ SetAuth(t) \/ OkLock(t) \/ Publish(t) \/ NotifyWaiters(t)
    \/ JoinCheck(t) \/ JoinLock(t) \/ JoinDecide(t)
    \/ Wake(t) \/ WakeCheck(t) \/ WakeLock(t) \/ WakeDecide(t)

\* The calls of the bounded run are over.
Finished ==
    /\ calls = MaxCalls
    /\ \A t \in Tasks : pc[t] = "idle"
    /\ UNCHANGED vars

Next ==
    \/ \E t \in Tasks, r \in BOOLEAN : Call(t, r)
    \/ \E t \in Tasks : Step(t) \/ Cancel(t) \/ GuardDrop(t)
    \/ ConnectionLost
    \/ AuthWriteFails
    \/ BackoffElapses
    \/ Finished

Spec == Init /\ [][Next]_vars

\* Every runnable task is polled again, and every dial ends (it has timeouts).
Fairness == \A t \in Tasks : WF_vars(Step(t)) /\ WF_vars(GuardDrop(t))

FairSpec == Spec /\ Fairness

-----------------------------------------------------------------------------
(* Properties                                                              *)

\* "Other callers wait ... instead of starting a second handshake": at most one
\* task is between deciding to dial and publishing the outcome.
OneLeader == \A t, u \in Tasks : pc[t] \in Leading /\ pc[u] \in Leading => t = u

\* The auth stream is stored before the connection is visible and dropped after
\* it: underlay auth is never written to the stream of another connection.
AuthStreamOfConnection == connection # None => authStream \in {connection, None}

\* A leader never throws away a connection that works, although it decided to
\* dial some awaits before it clears the slot.
NeverDiscardsLive == [][\A t \in Tasks : ClearConn(t) => ~Live]_vars

\* "A preconnect-only attempt must not arm backoff": a failed attempt is recorded if
\* its leader or a caller that waits for it made a real request; otherwise it is not,
\* unless such a caller has given up meanwhile.
BackoffMatchesRequest ==
    [][\A t \in Tasks : Fail(t) =>
         LET asked == \E u \in Tasks : real[u] /\ attempt[u] = attempt[t] IN
         /\ asked => lastFailure' = attempt[t] /\ backoff'
         /\ ~asked /\ ~cancelled => UNCHANGED <<lastFailure, backoff>>]_vars

\* "a completion cannot be missed": without cancellations every call of connect and
\* preconnect returns, whichever attempts fail and whoever notifies when.
CallsReturn == \A t \in Tasks : pc[t] = "check" ~> (pc[t] = "idle" \/ cancelled)

\* "The guard clears in_flight if this task is cancelled before it publishes a
\* result": in_flight is never left set with no leader to clear it.
InFlightHasLeader ==
    inFlight => \E t \in Tasks : pc[t] \in Leading \cup {"dropping"}
=============================================================================
