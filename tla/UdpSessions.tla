---------------------------- MODULE UdpSessions ----------------------------
(***************************************************************************)
(* Client-side UDP sessions of one source address: the port forwarder      *)
(* (client/src/forwarder.rs) and the SOCKS5 UDP association                *)
(* (client/src/local.rs) run the same protocol over the maps `sessions`    *)
(* and `opening`.  Tasks: the receive loop, one opener per new session,    *)
(* and per session a writer, a reader and a supervisor; plus the cleanup   *)
(* task.  Sources share nothing but the loop, so one source is enough.     *)
(*                                                                         *)
(* The entry of a session owns the sender of its queue, the writer owns    *)
(* the receiver: removing the entry ends the writer once the queue is      *)
(* drained, and a writer that has ended makes the queue "closed".          *)
(***************************************************************************)
EXTENDS Naturals, FiniteSets

CONSTANTS
    MaxSessions,  \* bound: session ids (session_seq)
    QueueCap,     \* capacity of a session's mpsc channel
    Socks,        \* TRUE for a UDP association, FALSE for a port forward
    NoSession     \* Option::None

ASSUME UdpSessionsConstants ==
    /\ MaxSessions \in Nat
    /\ QueueCap \in Nat \ {0}
    /\ Socks \in BOOLEAN
    /\ NoSession \notin Nat

Ids == 1..MaxSessions

VARIABLES
    entry,     \* the id in `sessions` for the source, or NoSession
    idle,      \* the entry was not touched for CLIENT_UDP_SESSION_IDLE_TIMEOUT
    opening,   \* whether `opening` contains the source
    seq,       \* ids handed out by session_seq
    opener,    \* opener[i]: the task that opens session i
    queue,     \* queue[i]: datagrams waiting in the channel of session i
    writer,    \* writer[i], reader[i]: "none", "running", "aborted" or "ended"
    reader,
    sup,       \* sup[i]: the supervisor of session i
    recvLoop,  \* the receive loop
    cancelled  \* the CancellationToken that the loop's drop guard fires

tasks == <<opener, queue, writer, reader, sup>>
sessionsVars  == <<entry, idle, opening, seq, tasks, recvLoop, cancelled>>

TaskStates == {"none", "running", "aborted", "ended"}
LoopStates == {"recv", "recheck", "remove", "open", "exited"}
SupStates  == {"none", "watch", "awaitReader", "awaitWriter", "check", "remove", "ended"}

SessionsTypeOK ==
    /\ entry \in Ids \cup {NoSession}
    /\ idle \in BOOLEAN
    /\ opening \in BOOLEAN
    /\ seq \in 0..MaxSessions
    /\ opener \in [Ids -> {"none", "dialing", "guard", "ended"}]
    /\ queue \in [Ids -> 0..QueueCap]
    /\ writer \in [Ids -> TaskStates]
    /\ reader \in [Ids -> TaskStates]
    /\ sup \in [Ids -> SupStates]
    /\ recvLoop \in [pc : LoopStates, id : Ids \cup {NoSession}]
    /\ cancelled \in BOOLEAN

SessionsInit ==
    /\ entry = NoSession
    /\ idle = FALSE
    /\ opening = FALSE
    /\ seq = 0
    /\ opener = [i \in Ids |-> "none"]
    /\ queue = [i \in Ids |-> 0]
    /\ writer = [i \in Ids |-> "none"]
    /\ reader = [i \in Ids |-> "none"]
    /\ sup = [i \in Ids |-> "none"]
    /\ recvLoop = [pc |-> "recv", id |-> NoSession]
    /\ cancelled = FALSE

\* The receiver half is gone: tx.is_closed(), TrySendError::Closed
Closed(i) == writer[i] = "ended"

SessionAbort(s) == IF s = "running" THEN "aborted" ELSE s

LoopAt(l, i) == recvLoop' = [pc |-> l, id |-> i]

-----------------------------------------------------------------------------
(* The receive loop                                                        *)

\* Mutant: the session's channel is unbounded.
ReceivePacket_Unbounded ==
    /\ recvLoop.pc = "recv"
    /\ \/ /\ entry # NoSession /\ ~Closed(entry)
          /\ queue' = [queue EXCEPT ![entry] = @ + 1]
          /\ idle' = FALSE
          /\ UNCHANGED recvLoop
       \/ /\ entry = NoSession
          /\ LoopAt("open", NoSession)
          /\ UNCHANGED <<idle, queue>>
    /\ UNCHANGED <<entry, opening, seq, opener, writer, reader, sup, cancelled>>

\* A datagram of the source: sessions.get, touch, try_send.  A full queue drops
\* it; a closed one, or no entry, leads to opening a session.
ReceivePacket ==
    /\ recvLoop.pc = "recv"
    /\ \/ /\ entry # NoSession /\ ~Closed(entry)
          /\ queue' = [queue EXCEPT ![entry] = IF @ < QueueCap THEN @ + 1 ELSE @]
          /\ idle' = FALSE
          /\ UNCHANGED recvLoop
       \/ /\ entry # NoSession /\ Closed(entry)
          /\ idle' = FALSE
          /\ LoopAt("recheck", entry)
          /\ UNCHANGED queue
       \/ /\ entry = NoSession
          /\ LoopAt("open", NoSession)
          /\ UNCHANGED <<idle, queue>>
    /\ UNCHANGED <<entry, opening, seq, opener, writer, reader, sup, cancelled>>

\* The closed session is removed if the entry is still the same one; the check
\* releases its shard reference before the removal.
LoopRecheck ==
    /\ recvLoop.pc = "recheck"
    /\ LoopAt(IF entry = recvLoop.id THEN "remove" ELSE "open", recvLoop.id)
    /\ UNCHANGED <<entry, idle, opening, seq, tasks, cancelled>>

LoopRemove ==
    /\ recvLoop.pc = "remove"
    /\ entry' = NoSession
    /\ LoopAt("open", NoSession)
    /\ UNCHANGED <<idle, opening, seq, tasks, cancelled>>

\* spawn_udp_forward_session / spawn_udp_assoc_session: opening.insert decides.
LoopOpen ==
    /\ recvLoop.pc = "open"
    /\ \/ opening /\ UNCHANGED <<seq, opener, opening>>
       \/ /\ ~opening /\ seq < MaxSessions
          /\ opening' = TRUE
          /\ seq' = seq + 1
          /\ opener' = [opener EXCEPT ![seq + 1] = "dialing"]
    /\ LoopAt("recv", NoSession)
    /\ UNCHANGED <<entry, idle, queue, writer, reader, sup, cancelled>>

\* The bound on ids: the run opens no more sessions.
LoopBound ==
    /\ recvLoop.pc = "open"
    /\ ~opening /\ seq = MaxSessions
    /\ LoopAt("recv", NoSession)
    /\ UNCHANGED <<entry, idle, opening, seq, tasks, cancelled>>

\* The loop ends: a socket error, or for an association the NAT timer or the
\* closed control connection, which clear the map first.  The drop guard cancels.
LoopExit ==
    /\ recvLoop.pc = "recv"
    /\ LoopAt("exited", NoSession)
    /\ cancelled' = TRUE
    /\ entry' \in IF Socks THEN {entry, NoSession} ELSE {entry}
    /\ UNCHANGED <<idle, opening, seq, tasks>>

-----------------------------------------------------------------------------
(* Opening a session                                                       *)

\* open_udp_stream fails: only the OpeningGuard is left to drop.
OpenFails(i) ==
    /\ opener[i] = "dialing"
    /\ opener' = [opener EXCEPT ![i] = "guard"]
    /\ UNCHANGED <<entry, idle, opening, seq, queue, writer, reader, sup, recvLoop, cancelled>>

\* open_udp_stream succeeds: sessions.insert, then the three tasks are spawned.
OpenSucceeds(i) ==
    /\ opener[i] = "dialing"
    /\ entry' = i
    /\ idle' = FALSE
    /\ writer' = [writer EXCEPT ![i] = "running"]
    /\ reader' = [reader EXCEPT ![i] = "running"]
    /\ sup' = [sup EXCEPT ![i] = "watch"]
    /\ opener' = [opener EXCEPT ![i] = "guard"]
    /\ UNCHANGED <<opening, seq, queue, recvLoop, cancelled>>

\* OpeningGuard::drop
OpenEnds(i) ==
    /\ opener[i] = "guard"
    /\ opening' = FALSE
    /\ opener' = [opener EXCEPT ![i] = "ended"]
    /\ UNCHANGED <<entry, idle, seq, queue, writer, reader, sup, recvLoop, cancelled>>

-----------------------------------------------------------------------------
(* Writer, reader and supervisor                                           *)

\* rx.recv() yields a datagram, which is sent.
WriterSends(i) ==
    /\ writer[i] = "running"
    /\ queue[i] > 0
    /\ queue' = [queue EXCEPT ![i] = @ - 1]
    /\ UNCHANGED <<entry, idle, opening, seq, opener, writer, reader, sup, recvLoop, cancelled>>

EndTask(f, i) == f' = [f EXCEPT ![i] = "ended"]

\* The entry is gone and the queue drained (rx.recv() is None), or abort().
WriterStops(i) ==
    /\ \/ writer[i] = "running" /\ queue[i] = 0 /\ entry # i
       \/ writer[i] = "aborted"
    /\ EndTask(writer, i)
    /\ UNCHANGED <<entry, idle, opening, seq, opener, queue, reader, sup, recvLoop, cancelled>>

\* The writer's idle timer fires, or a send fails.
WriterFails(i) ==
    /\ writer[i] = "running"
    /\ EndTask(writer, i)
    /\ UNCHANGED <<entry, idle, opening, seq, opener, queue, reader, sup, recvLoop, cancelled>>

ReaderStops(i) ==
    /\ reader[i] = "aborted"
    /\ EndTask(reader, i)
    /\ UNCHANGED <<entry, idle, opening, seq, opener, queue, writer, sup, recvLoop, cancelled>>

\* The stream ends, the reader's idle timer fires, or send_to fails.
ReaderFails(i) ==
    /\ reader[i] = "running"
    /\ EndTask(reader, i)
    /\ UNCHANGED <<entry, idle, opening, seq, opener, queue, writer, sup, recvLoop, cancelled>>

\* Mutant: the reader is not aborted when the writer ends.
Supervise_NoAbort(i) ==
    /\ sup[i] = "watch"
    /\ writer[i] = "ended"
    /\ sup' = [sup EXCEPT ![i] = "awaitReader"]
    /\ UNCHANGED <<entry, idle, opening, seq, opener, queue, writer, reader, recvLoop, cancelled>>

\* select! over the two tasks and the token.
Supervise(i) ==
    /\ sup[i] = "watch"
    /\ \/ /\ writer[i] = "ended"
          /\ reader' = [reader EXCEPT ![i] = SessionAbort(@)]
          /\ sup' = [sup EXCEPT ![i] = "awaitReader"]
          /\ UNCHANGED writer
       \/ /\ reader[i] = "ended"
          /\ writer' = [writer EXCEPT ![i] = SessionAbort(@)]
          /\ sup' = [sup EXCEPT ![i] = "awaitWriter"]
          /\ UNCHANGED reader
       \/ /\ cancelled
          /\ writer' = [writer EXCEPT ![i] = SessionAbort(@)]
          /\ reader' = [reader EXCEPT ![i] = SessionAbort(@)]
          /\ sup' = [sup EXCEPT ![i] = "check"]
    /\ UNCHANGED <<entry, idle, opening, seq, opener, queue, recvLoop, cancelled>>

\* `let _ = reader.await` / `let _ = writer.await`
SupAwait(i) ==
    /\ \/ sup[i] = "awaitReader" /\ reader[i] = "ended"
       \/ sup[i] = "awaitWriter" /\ writer[i] = "ended"
    /\ sup' = [sup EXCEPT ![i] = "check"]
    /\ UNCHANGED <<entry, idle, opening, seq, opener, queue, writer, reader, recvLoop, cancelled>>

\* sessions.get: is the entry still this session's?  The reference is dropped.
SupCheck(i) ==
    /\ sup[i] = "check"
    /\ sup' = [sup EXCEPT ![i] = IF entry = i THEN "remove" ELSE "ended"]
    /\ UNCHANGED <<entry, idle, opening, seq, opener, queue, writer, reader, recvLoop, cancelled>>

\* sessions.remove, whatever is there by now.
SupRemove(i) ==
    /\ sup[i] = "remove"
    /\ entry' = NoSession
    /\ sup' = [sup EXCEPT ![i] = "ended"]
    /\ UNCHANGED <<idle, opening, seq, opener, queue, writer, reader, recvLoop, cancelled>>

-----------------------------------------------------------------------------
(* Cleanup                                                                 *)

\* No datagram arrives for longer than the idle timeout.
IdlePasses ==
    /\ entry # NoSession
    /\ idle' = TRUE
    /\ UNCHANGED <<entry, opening, seq, tasks, recvLoop, cancelled>>

\* sessions.retain in the periodic task.  The forwarder's ends with the loop, an
\* association's only with its control connection.
Cleanup ==
    /\ entry # NoSession
    /\ Closed(entry) \/ idle
    /\ recvLoop.pc = "exited" => Socks
    /\ entry' = NoSession
    /\ UNCHANGED <<idle, opening, seq, tasks, recvLoop, cancelled>>

SessionStep(i) ==
    \/ OpenFails(i) \/ OpenSucceeds(i) \/ OpenEnds(i)
    \/ WriterSends(i) \/ WriterStops(i) \/ ReaderStops(i)
    \/ Supervise(i) \/ SupAwait(i) \/ SupCheck(i) \/ SupRemove(i)

LoopStep == LoopRecheck \/ LoopRemove \/ LoopOpen \/ LoopBound

\* The loop has ended and every task with it.
SessionFinished ==
    /\ recvLoop.pc = "exited"
    /\ \A i \in Ids : opener[i] \in {"none", "ended"} /\ sup[i] \in {"none", "ended"}
    /\ UNCHANGED sessionsVars

SessionsNext ==
    \/ ReceivePacket \/ LoopStep \/ LoopExit
    \/ \E i \in Ids : SessionStep(i) \/ WriterFails(i) \/ ReaderFails(i)
    \/ IdlePasses \/ Cleanup
    \/ SessionFinished

SessionsSpec == SessionsInit /\ [][SessionsNext]_sessionsVars

\* Every spawned task is polled; an open ends because connecting has timeouts.
SessionsFairness ==
    /\ WF_sessionsVars(LoopStep)
    /\ \A i \in Ids :
         /\ WF_sessionsVars(OpenFails(i) \/ OpenSucceeds(i)) /\ WF_sessionsVars(OpenEnds(i))
         /\ WF_sessionsVars(WriterSends(i) \/ WriterStops(i)) /\ WF_sessionsVars(ReaderStops(i))
         /\ WF_sessionsVars(Supervise(i) \/ SupAwait(i) \/ SupCheck(i) \/ SupRemove(i))

SessionsFairSpec == SessionsSpec /\ SessionsFairness

-----------------------------------------------------------------------------
(* Properties                                                              *)

\* A session that lost its entry (idle, replaced, or removed by mistake) ends: its stream,
\* its tasks and their sockets are not held until a NAT timeout.  When the loop exits, all
\* sessions are cancelled and the map is left empty, also when one was still being opened.
DetachedSessions(i) == sup[i] # "none" /\ entry # i
SessionsReleased ==
    /\ \A i \in Ids : DetachedSessions(i) ~> writer[i] = "ended" /\ reader[i] = "ended" /\ sup[i] = "ended"
    /\ cancelled ~> entry = NoSession /\ \A i \in Ids :
          writer[i] \in {"none", "ended"} /\ reader[i] \in {"none", "ended"}

\* "Remove session only if the entry hasn't been replaced by a new session for
\* the same src_addr": a supervisor never removes the entry of another session.
RemovesOnlyOwn == [][\A i \in Ids : SupRemove(i) => entry \in {i, NoSession}]_sessionsVars
=============================================================================
