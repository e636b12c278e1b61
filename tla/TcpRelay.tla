------------------------------ MODULE TcpRelay ------------------------------
(***************************************************************************)
(* The TCP relay of the server (server/src/tcp.rs): two copy directions    *)
(* between a QUIC stream and a TCP socket, and an idle timer, all polled   *)
(* by one future.                                                          *)
(*                                                                         *)
(* Progress is recorded in an atomic as whole milliseconds since the start *)
(* plus one.  Time advances in ticks, TicksPerMs of them per millisecond,  *)
(* so the rounding is part of the model.  Data is a byte count.            *)
(***************************************************************************)
EXTENDS Naturals

CONSTANTS
    IdleTimeout,  \* idle_timeout, in milliseconds
    TicksPerMs,   \* resolution of the clock
    MaxBytes,     \* bound: bytes sent by each side
    MaxTime       \* bound: ticks

ASSUME TcpRelayConstants ==
    /\ IdleTimeout \in Nat \ {0}
    /\ TicksPerMs \in Nat \ {0}
    /\ MaxBytes \in Nat
    /\ MaxTime \in Nat

Directions == {"up", "down"}

VARIABLES
    copyPc,    \* copyPc[d]: "read", "write", "shutdown" or "done"
    got,       \* got[d]: bytes read in direction d
    left,      \* left[d]: bytes of the chunk in hand not yet written
    put,       \* put[d]: bytes written in direction d
    activity,  \* the atomic: millisecond of the last progress, plus one
    lastSeen,  \* the value the idle timer waits on
    relayNow,  \* ticks since `base`
    progress,  \* tick of the last successful read or write
    result     \* "running", "ok", "error" or "timeout"

copies    == <<copyPc, got, left, put>>
relayVars == <<copies, activity, lastSeen, relayNow, progress, result>>

RelayTypeOK ==
    /\ copyPc \in [Directions -> {"read", "write", "shutdown", "done"}]
    /\ got \in [Directions -> Nat]
    /\ left \in [Directions -> Nat]
    /\ put \in [Directions -> Nat]
    /\ activity \in Nat /\ lastSeen \in Nat
    /\ relayNow \in Nat /\ progress \in Nat
    /\ result \in {"running", "ok", "error", "timeout"}

RelayInit ==
    /\ copyPc = [d \in Directions |-> "read"]
    /\ got = [d \in Directions |-> 0]
    /\ left = [d \in Directions |-> 0]
    /\ put = [d \in Directions |-> 0]
    /\ activity = 1 /\ lastSeen = 1
    /\ relayNow = 0 /\ progress = 0
    /\ result = "running"

-----------------------------------------------------------------------------
(* copy_direction                                                          *)

\* Mutant: the atomic holds the elapsed milliseconds without the plus one.
Record_Truncates == activity' = relayNow \div TicksPerMs /\ progress' = relayNow

\* activity.store(base.elapsed().as_millis() + 1)
Record == activity' = (relayNow \div TicksPerMs) + 1 /\ progress' = relayNow

\* reader.read returns n > 0 bytes.
Read(d) ==
    /\ result = "running" /\ copyPc[d] = "read"
    /\ \E n \in 1..(MaxBytes - got[d]) :
         /\ got' = [got EXCEPT ![d] = @ + n]
         /\ left' = [left EXCEPT ![d] = n]
    /\ copyPc' = [copyPc EXCEPT ![d] = "write"]
    /\ Record
    /\ UNCHANGED <<put, lastSeen, relayNow, result>>

\* reader.read returns 0: the writer is shut down, the other direction goes on.
Eof(d) ==
    /\ result = "running" /\ copyPc[d] = "read"
    /\ copyPc' = [copyPc EXCEPT ![d] = "shutdown"]
    /\ UNCHANGED <<got, left, put, activity, lastSeen, relayNow, progress, result>>

\* Mutant: a partial write is taken for a complete one.
Write_Once(d) ==
    /\ result = "running" /\ copyPc[d] = "write"
    /\ \E n \in 1..left[d] : put' = [put EXCEPT ![d] = @ + n]
    /\ left' = [left EXCEPT ![d] = 0]
    /\ copyPc' = [copyPc EXCEPT ![d] = "read"]
    /\ Record
    /\ UNCHANGED <<got, lastSeen, relayNow, result>>

\* writer.write takes part of the chunk; the loop ends when nothing remains.
Write(d) ==
    /\ result = "running" /\ copyPc[d] = "write"
    /\ \E n \in 1..left[d] :
         /\ put' = [put EXCEPT ![d] = @ + n]
         /\ left' = [left EXCEPT ![d] = @ - n]
         /\ copyPc' = [copyPc EXCEPT ![d] = IF left[d] = n THEN "read" ELSE "write"]
    /\ Record
    /\ UNCHANGED <<got, lastSeen, relayNow, result>>

\* writer.shutdown() completes; try_join! is done when both directions are.
ShutDown(d) ==
    /\ result = "running" /\ copyPc[d] = "shutdown"
    /\ copyPc' = [copyPc EXCEPT ![d] = "done"]
    /\ result' = IF \A c \in Directions \ {d} : copyPc[c] = "done" THEN "ok" ELSE "running"
    /\ UNCHANGED <<got, left, put, activity, lastSeen, relayNow, progress>>

\* A read, write or shutdown fails, or a write takes nothing: try_join! returns.
CopyFails(d) ==
    /\ result = "running" /\ copyPc[d] # "done"
    /\ result' = "error"
    /\ UNCHANGED <<copies, activity, lastSeen, relayNow, progress>>

-----------------------------------------------------------------------------
(* The idle timer                                                          *)

IdleDeadline == (lastSeen + IdleTimeout) * TicksPerMs

\* sleep_until(deadline) returns: no progress since `last` ends the relay.
IdleFires ==
    /\ result = "running" /\ relayNow >= IdleDeadline
    /\ IF activity = lastSeen
       THEN result' = "timeout" /\ UNCHANGED lastSeen
       ELSE lastSeen' = activity /\ UNCHANGED result
    /\ UNCHANGED <<copies, activity, relayNow, progress>>

\* Time passes; a timer that is due is handled first.
RelayTick ==
    /\ result = "running"
    /\ relayNow < MaxTime /\ relayNow < IdleDeadline
    /\ relayNow' = relayNow + 1
    /\ UNCHANGED <<copies, activity, lastSeen, progress, result>>

\* The relay has returned, or the bounded run is over.
RelayFinished == (result # "running" \/ relayNow = MaxTime) /\ UNCHANGED relayVars

RelayNext ==
    \/ \E d \in Directions : Read(d) \/ Eof(d) \/ Write(d) \/ ShutDown(d) \/ CopyFails(d)
    \/ IdleFires
    \/ RelayTick
    \/ RelayFinished

RelaySpec == RelayInit /\ [][RelayNext]_relayVars

-----------------------------------------------------------------------------
(* Properties                                                              *)

\* "expire only when neither direction makes progress": the relay times out only after
\* a full idle timeout without a successful read or write, although the atomic rounds to
\* milliseconds and the timer looks at it only when it fires; and a relay without progress
\* is gone one timeout later, up to the rounding: re-arming costs no second timeout.
TimesOutWhenIdle ==
    /\ result = "timeout" => relayNow >= progress + IdleTimeout * TicksPerMs
    /\ result = "running" => relayNow <= progress + (IdleTimeout + 1) * TicksPerMs

\* A direction is shut down only after every byte read from it was written, and
\* the relay succeeds only when both are: an EOF leaves the reverse direction up.
NothingTruncated ==
    /\ \A d \in Directions : copyPc[d] \in {"shutdown", "done"} => put[d] = got[d]
    /\ result = "ok" => \A d \in Directions : copyPc[d] = "done"
=============================================================================
