---------------------------- MODULE DemuxSocket ----------------------------
(***************************************************************************)
(* DemuxUdpSocket::poll_recv (server/src/underlay_socket.rs): one UDP port *)
(* is shared by QUIC and by raw underlay datagrams.  Quinn's endpoint      *)
(* driver polls the socket; the wrapper keeps the QUIC buffers for it and  *)
(* puts the others into the bounded channel of the packet loop.            *)
(*                                                                         *)
(* A received buffer is [quic, segs]: its kind and the number of datagrams *)
(* that receive offload put into it.  Buffers are named by their place in  *)
(* the arrival order.  poll_recv is split at each call of the inner poll   *)
(* and at each try_send, which run beside the packet loop.                 *)
(*                                                                         *)
(* The inner socket registers the driver's waker only when it returns      *)
(* Pending, and a registered waker fires once (tokio's readiness).         *)
(***************************************************************************)
EXTENDS Naturals, Sequences, SequencesExt

CONSTANTS
    BatchSize,   \* buffers one inner poll fills at most
    MaxBatches,  \* MAX_DEMUX_BATCHES_PER_POLL
    MaxIdle,     \* MAX_IDLE_POLL_BEFORE_YIELD
    Capacity,    \* UNDERLAY_CHANNEL_CAPACITY
    MaxSegs,     \* bound: datagrams per buffer
    MaxArrivals  \* bound: buffers arriving

ASSUME DemuxConstants ==
    /\ BatchSize \in Nat \ {0} /\ MaxBatches \in Nat \ {0}
    /\ MaxIdle \in Nat /\ Capacity \in Nat \ {0}
    /\ MaxSegs \in Nat \ {0} /\ MaxArrivals \in Nat

\* A buffer is QUIC or not by its first byte; an empty one is not, and holds no
\* datagram.  The segments of a QUIC buffer are Quinn's business.
Buffer == [quic : {TRUE}, segs : {1}] \cup [quic : {FALSE}, segs : 0..MaxSegs]

VARIABLES
    arrived,    \* the buffers that arrived at the socket
    taken,      \* how many of them the inner polls have returned
    quinn,      \* the buffers handed to Quinn, in order
    channel,    \* the underlay channel: datagrams <<buffer, segment>>
    received,   \* the datagrams the packet loop took out of it
    dropped,    \* the datagrams dropped because the channel was full
    idle,       \* idle_poll_count
    batch,      \* 0 outside poll_recv, else the inner polls made so far
    bufs,       \* the buffers of the last inner poll, or none once they are sorted
    slot,       \* the slot of `bufs` the loop is at, from 1
    keep,       \* the QUIC buffers found, which are moved to the front of `bufs`
    seg,        \* the segments of that slot already forwarded
    armed,      \* the driver's waker is registered with the inner socket
    scheduled   \* the driver is scheduled to be polled

sorted == <<quinn, channel, received, dropped>>
loop   == <<bufs, slot, keep, seg>>
demuxVars   == <<arrived, taken, sorted, loop, idle, batch, armed, scheduled>>

\* poll_recv is not running; 1..MaxBatches count its inner polls.
Outside == 0

DemuxTypeOK ==
    /\ arrived \in Seq(Buffer)
    /\ taken \in 0..Len(arrived)
    /\ quinn \in Seq(1..Len(arrived)) /\ bufs \in Seq(1..Len(arrived))
    /\ {channel, received} \subseteq Seq(Nat \X Nat) /\ Len(channel) <= Capacity
    /\ slot \in 1..(Len(bufs) + 1) /\ keep \in 0..(slot - 1) /\ seg \in 0..MaxSegs
    /\ idle \in 0..MaxIdle
    /\ batch \in 0..MaxBatches
    /\ armed \in BOOLEAN /\ scheduled \in BOOLEAN

DemuxInit ==
    /\ arrived = <<>> /\ taken = 0
    /\ quinn = <<>> /\ channel = <<>> /\ received = <<>> /\ dropped = {}
    /\ bufs = <<>> /\ slot = 1 /\ keep = 0 /\ seg = 0
    /\ idle = 0 /\ batch = Outside
    /\ armed = FALSE /\ scheduled = TRUE

-----------------------------------------------------------------------------
(* The inner poll of poll_recv                                             *)

\* poll_recv runs and asks the inner socket.
Asking == batch # Outside /\ bufs = <<>>

\* Quinn's driver is polled and calls poll_recv.
Poll ==
    /\ scheduled /\ batch = Outside
    /\ scheduled' = FALSE
    /\ batch' = 1
    /\ UNCHANGED <<arrived, taken, sorted, loop, idle, armed>>

\* The inner socket is empty: it registers the waker.
InnerPending ==
    /\ Asking
    /\ taken = Len(arrived)
    /\ armed' = TRUE
    /\ idle' = 0
    /\ batch' = Outside
    /\ UNCHANGED <<arrived, taken, sorted, loop, scheduled>>

\* The inner socket fails; Quinn polls again after a transient error.
InnerFails ==
    /\ Asking
    /\ batch' = Outside
    /\ scheduled' = TRUE
    /\ UNCHANGED <<arrived, taken, sorted, loop, idle, armed>>

\* The inner socket returns a batch.
InnerReady ==
    LET n == IF Len(arrived) - taken < BatchSize THEN Len(arrived) - taken ELSE BatchSize IN
    /\ Asking
    /\ taken < Len(arrived)
    /\ taken' = taken + n
    /\ bufs' = [i \in 1..n |-> taken + i]
    /\ UNCHANGED <<arrived, sorted, slot, keep, seg, idle, batch, armed, scheduled>>

-----------------------------------------------------------------------------
(* The loop over the batch, which sorts it in place                        *)

Swap(s, i, j) == [s EXCEPT ![i] = s[j], ![j] = s[i]]

\* The loop is at a QUIC buffer, or at another one.
AtQuic == slot <= Len(bufs) /\ arrived[bufs[slot]].quic
AtOther == slot <= Len(bufs) /\ ~arrived[bufs[slot]].quic

\* Mutant: QUIC buffers are counted but not moved to the front.
KeepBuffer_NoSwap ==
    /\ AtQuic
    /\ keep' = keep + 1
    /\ slot' = slot + 1
    /\ UNCHANGED <<arrived, taken, sorted, bufs, seg, idle, batch, armed, scheduled>>

\* A QUIC buffer is swapped to the kept ones.
KeepBuffer ==
    /\ AtQuic
    /\ bufs' = Swap(bufs, keep + 1, slot)
    /\ keep' = keep + 1
    /\ slot' = slot + 1
    /\ UNCHANGED <<arrived, taken, sorted, seg, idle, batch, armed, scheduled>>

\* try_send of the next segment of another buffer: into the channel, or dropped.
ForwardSegment ==
    LET dgram == <<bufs[slot], seg + 1>> IN
    /\ AtOther /\ seg < arrived[bufs[slot]].segs
    /\ IF Len(channel) < Capacity
       THEN channel' = Append(channel, dgram) /\ UNCHANGED dropped
       ELSE dropped' = dropped \cup {dgram} /\ UNCHANGED channel
    /\ seg' = seg + 1
    /\ UNCHANGED <<arrived, taken, quinn, received, bufs, slot, keep, idle, batch, armed, scheduled>>

\* The buffer is forwarded; an empty one at once.
EndBuffer ==
    /\ AtOther /\ seg = arrived[bufs[slot]].segs
    /\ slot' = slot + 1
    /\ seg' = 0
    /\ UNCHANGED <<arrived, taken, sorted, bufs, keep, idle, batch, armed, scheduled>>

\* The batch is sorted.  Its QUIC buffers go to Quinn, which polls again; without any, the
\* next inner poll follows until the budget is spent, and then the driver is woken at once,
\* or, after MaxIdle such polls, not at all.
EndBatch ==
    /\ bufs # <<>> /\ slot = Len(bufs) + 1
    /\ quinn' = quinn \o SubSeq(bufs, 1, keep)
    /\ bufs' = <<>> /\ slot' = 1 /\ keep' = 0
    /\ \/ /\ keep > 0
          /\ idle' = 0 /\ scheduled' = TRUE /\ batch' = Outside
       \/ /\ keep = 0 /\ batch < MaxBatches
          /\ batch' = batch + 1
          /\ UNCHANGED <<idle, scheduled>>
       \/ /\ keep = 0 /\ batch = MaxBatches
          /\ batch' = Outside
          /\ IF idle >= MaxIdle
             THEN idle' = 0 /\ UNCHANGED scheduled
             ELSE idle' = idle + 1 /\ scheduled' = TRUE
    /\ UNCHANGED <<arrived, taken, channel, received, dropped, seg, armed>>

-----------------------------------------------------------------------------
(* The environment                                                         *)

\* A buffer arrives; the registered waker, if any, fires.
Arrive(b) ==
    /\ Len(arrived) < MaxArrivals
    /\ arrived' = Append(arrived, b)
    /\ scheduled' = (scheduled \/ armed)
    /\ armed' = FALSE
    /\ UNCHANGED <<taken, sorted, loop, idle, batch>>

\* Another event of the endpoint (a timer, a transmit) wakes the driver.
OtherWake ==
    /\ ~scheduled
    /\ scheduled' = TRUE
    /\ UNCHANGED <<arrived, taken, sorted, loop, idle, batch, armed>>

\* run_underlay_packet_loop takes a datagram.
Consume ==
    /\ channel # <<>>
    /\ received' = Append(received, Head(channel))
    /\ channel' = Tail(channel)
    /\ UNCHANGED <<arrived, taken, quinn, dropped, loop, idle, batch, armed, scheduled>>

DemuxNext ==
    \/ Poll \/ InnerPending \/ InnerFails \/ InnerReady
    \/ KeepBuffer \/ ForwardSegment \/ EndBuffer \/ EndBatch
    \/ \E b \in Buffer : Arrive(b)
    \/ OtherWake
    \/ Consume

DemuxSpec == DemuxInit /\ [][DemuxNext]_demuxVars

-----------------------------------------------------------------------------
(* Properties                                                              *)

\* The buffers the loop is through with, and the datagrams they and the one it is at held.
Handled == taken - Len(bufs) + slot - 1
Forwarded ==
    {d \in (1..(Handled + 1)) \X (1..MaxSegs) :
       IF d[1] <= Handled THEN ~arrived[d[1]].quic /\ d[2] <= arrived[d[1]].segs
       ELSE d[2] <= seg}

Before(x, y) == x[1] < y[1] \/ (x[1] = y[1] /\ x[2] < y[2])

\* The in-place sorting and the bounded channel lose, repeat and reorder nothing: Quinn
\* gets exactly the QUIC buffers that were taken, in arrival order, across batches and
\* yields, and every underlay datagram taken is with the packet loop, in the channel (in
\* order) or counted as dropped, exactly one of these, whatever the packet loop takes
\* out while a batch is sorted.
DemuxLossless ==
    LET out == received \o channel
        kept == quinn \o SubSeq(bufs, 1, keep) IN
    /\ \A i, j \in 1..Len(kept) : i < j => kept[i] < kept[j]
    /\ ToSet(kept) = {b \in 1..Handled : arrived[b].quic}
    /\ \A i, j \in 1..Len(out) : i < j => Before(out[i], out[j])
    /\ ToSet(out) \cap dropped = {}
    /\ ToSet(out) \cup dropped = Forwarded

\* "this task sleeps until the runtime re-schedules it (or until new I/O events
\* trigger the waker registered by the inner socket)": a driver that sleeps has
\* its waker registered, so the arrival of a datagram wakes it.
SleepsArmed == batch = Outside /\ ~scheduled => armed
=============================================================================
