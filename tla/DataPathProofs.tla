--------------------------- MODULE DataPathProofs ---------------------------
(***************************************************************************)
(* Proofs about the parts that carry data: the TCP relay's idle timer and  *)
(* its two copy directions, the in-place sorting of the UDP demultiplexer  *)
(* and the codec; and about MCDataPath, which puts them together with the  *)
(* endpoint pool and the resolver.                                         *)
(***************************************************************************)
EXTENDS Integers, MCDataPath, UdpEndpointPoolProofs, DnsResolverProofs, SequenceTheorems, TLAPS

-----------------------------------------------------------------------------
(* Arithmetic of the millisecond clock.                                    *)

\* Rounding down and multiplying back loses less than one unit.
LEMMA DivBounds ==
    ASSUME NEW p \in Nat, NEW t \in Nat \ {0}
    PROVE  /\ p \div t \in Nat
           /\ (p \div t) * t <= p
           /\ p < (p \div t) * t + t
<1>1. p = t * (p \div t) + (p % t) /\ p \div t \in Int /\ p % t \in 0..(t - 1)
  OBVIOUS
<1>2. p \div t >= 0
  OBVIOUS
<1>3. t * (p \div t) = (p \div t) * t
  BY <1>1
<1> QED
  BY <1>1, <1>2, <1>3

\* A product with a larger factor is larger.
LEMMA TimesMonotone ==
    ASSUME NEW x \in Nat, NEW y \in Nat, NEW t \in Nat, x <= y
    PROVE  x * t \in Nat /\ x * t <= y * t
<1> DEFINE z == y - x
<1>1. z \in Nat /\ y = x + z
  OBVIOUS
<1>2. z * t \in Nat /\ x * t \in Nat
  BY <1>1
<1>3. (x + z) * t = x * t + z * t
  BY <1>1
<1> QED
  BY <1>1, <1>2, <1>3

\* Rounding down keeps the order.
LEMMA DivMonotone ==
    ASSUME NEW p \in Nat, NEW q \in Nat, NEW t \in Nat \ {0}, p <= q
    PROVE  p \div t <= q \div t
<1> SUFFICES ASSUME p \div t > q \div t PROVE FALSE
  BY DivBounds
<1> DEFINE x == p \div t
           y == q \div t
<1>1. x \in Nat /\ y \in Nat /\ x * t <= p /\ q < y * t + t
  BY DivBounds
<1>2. y + 1 <= x
  BY <1>1
<1> HIDE DEF x, y
<1>3. (y + 1) * t <= x * t
  BY <1>1, <1>2, TimesMonotone
<1>4. (y + 1) * t = y * t + t
  BY <1>1
<1>5. y * t \in Nat /\ x * t \in Nat
  BY <1>1
<1> QED
  BY <1>1, <1>3, <1>4, <1>5

-----------------------------------------------------------------------------
(* TcpRelay: the idle timer.                                               *)

\* The atomic is the rounded time of the last progress, the timer waits on a value the
\* atomic had, and time does not pass a deadline that is due.
ClockInv ==
    /\ activity = (progress \div TicksPerMs) + 1
    /\ progress <= relayNow
    /\ lastSeen <= activity
    /\ result = "running" => relayNow <= IdleDeadline
    /\ result = "timeout" => activity = lastSeen /\ relayNow >= IdleDeadline

\* Every byte read is written or in hand, and a chunk is in hand only while it is being
\* written.
CopyInv ==
    /\ \A d \in Directions :
         /\ got[d] = put[d] + left[d]
         /\ copyPc[d] # "write" => left[d] = 0
    /\ result = "ok" => \A d \in Directions : copyPc[d] = "done"

\* A relay that has just started satisfies all three.
LEMMA RelayStart == RelayInit => RelayTypeOK /\ ClockInv /\ CopyInv
<1> SUFFICES ASSUME RelayInit PROVE RelayTypeOK /\ ClockInv /\ CopyInv
  OBVIOUS
<1>1. RelayTypeOK
  BY DEF RelayInit, RelayTypeOK
<1>2. CopyInv
  BY DEF RelayInit, CopyInv
<1>3. 0 \div TicksPerMs = 0
  BY TcpRelayConstants, DivBounds
<1>4. (1 + IdleTimeout) * TicksPerMs \in Nat
  BY TcpRelayConstants
<1>5. ClockInv
  BY <1>3, <1>4 DEF RelayInit, ClockInv, IdleDeadline
<1> QED
  BY <1>1, <1>2, <1>5

\* The value the atomic gets from a read or a write, and the new deadline it allows.
LEMMA RecordSound ==
    ASSUME RelayTypeOK, ClockInv, Record
    PROVE  activity' \in Nat /\ progress' = relayNow /\ activity <= activity'
           /\ activity' = (progress' \div TicksPerMs) + 1
<1>1. relayNow \div TicksPerMs \in Nat /\ progress \div TicksPerMs \in Nat
  BY TcpRelayConstants, DivBounds DEF RelayTypeOK
<1>2. progress \div TicksPerMs <= relayNow \div TicksPerMs
  BY TcpRelayConstants, DivMonotone DEF RelayTypeOK, ClockInv
<1> QED
  BY <1>1, <1>2 DEF Record, ClockInv

\* Every step of the copies and of the timer keeps the types.
LEMMA RelayTypeStep ==
    RelayTypeOK /\ ClockInv /\ [RelayNext]_relayVars => RelayTypeOK'
<1> SUFFICES ASSUME RelayTypeOK, ClockInv, [RelayNext]_relayVars PROVE RelayTypeOK'
  OBVIOUS
<1> USE TcpRelayConstants
<1>1. ASSUME NEW d \in Directions, Read(d) PROVE RelayTypeOK'
  <2>1. activity' \in Nat /\ progress' \in Nat
    BY <1>1, RecordSound DEF Read, RelayTypeOK
  <2>2. got' \in [Directions -> Nat] /\ left' \in [Directions -> Nat]
    BY <1>1 DEF Read, RelayTypeOK
  <2> QED
    BY <1>1, <2>1, <2>2 DEF Read, RelayTypeOK
<1>2. ASSUME NEW d \in Directions, Eof(d) \/ ShutDown(d) \/ CopyFails(d) PROVE RelayTypeOK'
  BY <1>2 DEF Eof, ShutDown, CopyFails, RelayTypeOK, copies
<1>3. ASSUME NEW d \in Directions, Write(d) PROVE RelayTypeOK'
  <2>1. activity' \in Nat /\ progress' \in Nat
    BY <1>3, RecordSound DEF Write, RelayTypeOK
  <2>2. put' \in [Directions -> Nat] /\ left' \in [Directions -> Nat]
    BY <1>3 DEF Write, RelayTypeOK
  <2>3. copyPc' \in [Directions -> {"read", "write", "shutdown", "done"}]
    BY <1>3 DEF Write, RelayTypeOK
  <2> QED
    BY <1>3, <2>1, <2>2, <2>3 DEF Write, RelayTypeOK
<1>4. CASE IdleFires \/ RelayTick
  BY <1>4 DEF IdleFires, RelayTick, RelayTypeOK, copies
<1>5. CASE UNCHANGED relayVars
  BY <1>5 DEF relayVars, copies, RelayTypeOK
<1> QED
  BY <1>1, <1>2, <1>3, <1>4, <1>5 DEF RelayNext, RelayFinished

\* Reads, writes, ticks and the timer keep the clock facts: a record made now is not behind
\* progress, and a timer that finds a newer record waits again.
LEMMA ClockStep ==
    RelayTypeOK /\ ClockInv /\ [RelayNext]_relayVars => ClockInv'
<1> SUFFICES ASSUME RelayTypeOK, ClockInv, [RelayNext]_relayVars PROVE ClockInv'
  OBVIOUS
<1> USE TcpRelayConstants
<1>1. ASSUME NEW d \in Directions, Read(d) \/ Write(d) PROVE ClockInv'
  <2>1. Record /\ UNCHANGED <<lastSeen, relayNow, result>> /\ result = "running"
    BY <1>1 DEF Read, Write
  <2>2. IdleDeadline' = IdleDeadline
    BY <2>1 DEF IdleDeadline
  <2> QED
    BY <2>1, <2>2, RecordSound DEF ClockInv, RelayTypeOK
<1>2. ASSUME NEW d \in Directions, Eof(d) \/ ShutDown(d) \/ CopyFails(d) PROVE ClockInv'
  <2>1. UNCHANGED <<activity, progress, lastSeen, relayNow>> /\ result = "running"
        /\ result' \in {"running", "ok", "error"}
    BY <1>2 DEF Eof, ShutDown, CopyFails
  <2>2. IdleDeadline' = IdleDeadline
    BY <2>1 DEF IdleDeadline
  <2> QED
    BY <2>1, <2>2 DEF ClockInv
<1>3. CASE IdleFires
  <2>1. CASE activity = lastSeen
    BY <1>3, <2>1 DEF IdleFires, ClockInv, IdleDeadline
  <2>2. CASE activity # lastSeen
    <3>1. lastSeen' = activity /\ result' = "running" /\ UNCHANGED <<activity, progress, relayNow>>
      BY <1>3, <2>2 DEF IdleFires
    <3>2. lastSeen + IdleTimeout \in Nat /\ activity + IdleTimeout \in Nat
          /\ lastSeen + IdleTimeout <= activity + IdleTimeout
      BY DEF RelayTypeOK, ClockInv
    <3>3. (lastSeen + IdleTimeout) * TicksPerMs <= (activity + IdleTimeout) * TicksPerMs
          /\ (activity + IdleTimeout) * TicksPerMs \in Nat
          /\ (lastSeen + IdleTimeout) * TicksPerMs \in Nat
      BY <3>2, TimesMonotone
    <3>4. relayNow <= (lastSeen + IdleTimeout) * TicksPerMs
      BY <1>3 DEF ClockInv, IdleDeadline, IdleFires
    <3>5. relayNow' <= IdleDeadline'
      BY <3>1, <3>3, <3>4 DEF IdleDeadline, RelayTypeOK
    <3> QED
      BY <3>1, <3>5 DEF ClockInv, RelayTypeOK
  <2> QED
    BY <2>1, <2>2
<1>4. CASE RelayTick
  <2>1. (lastSeen + IdleTimeout) * TicksPerMs \in Nat
    BY DEF RelayTypeOK
  <2> QED
    BY <1>4, <2>1 DEF RelayTick, ClockInv, IdleDeadline, RelayTypeOK
<1>5. CASE UNCHANGED relayVars
  BY <1>5 DEF relayVars, ClockInv, IdleDeadline
<1> QED
  BY <1>1, <1>2, <1>3, <1>4, <1>5 DEF RelayNext, RelayFinished

\* Every read, partial write, EOF and shutdown accounts for the bytes it moves.
LEMMA CopyStep ==
    RelayTypeOK /\ CopyInv /\ [RelayNext]_relayVars => CopyInv'
<1> SUFFICES ASSUME RelayTypeOK, CopyInv, [RelayNext]_relayVars PROVE CopyInv'
  OBVIOUS
<1>1. ASSUME NEW d \in Directions, Read(d) PROVE CopyInv'
  <2>1. left[d] = 0 /\ result' = "running"
    BY <1>1 DEF CopyInv, Read
  <2>2. PICK n \in 1..(MaxBytes - got[d]) :
          got' = [got EXCEPT ![d] = @ + n] /\ left' = [left EXCEPT ![d] = n]
    BY <1>1 DEF Read
  <2>3. ASSUME NEW c \in Directions
        PROVE  got'[c] = put'[c] + left'[c] /\ (copyPc'[c] # "write" => left'[c] = 0)
    <3>1. CASE c = d
      BY <1>1, <2>1, <2>2, <3>1, TcpRelayConstants DEF Read, CopyInv, RelayTypeOK
    <3>2. CASE c # d
      BY <1>1, <2>2, <3>2 DEF Read, CopyInv, RelayTypeOK
    <3> QED
      BY <3>1, <3>2
  <2> QED
    BY <2>1, <2>3 DEF CopyInv
<1>2. ASSUME NEW d \in Directions, Eof(d) PROVE CopyInv'
  BY <1>2 DEF CopyInv, Eof, RelayTypeOK
<1>3. ASSUME NEW d \in Directions, Write(d) PROVE CopyInv'
  <2>1. PICK n \in 1..left[d] :
          /\ put' = [put EXCEPT ![d] = @ + n]
          /\ left' = [left EXCEPT ![d] = @ - n]
          /\ copyPc' = [copyPc EXCEPT ![d] = IF left[d] = n THEN "read" ELSE "write"]
    BY <1>3 DEF Write
  <2>2. got' = got /\ result' = "running"
    BY <1>3 DEF Write
  <2>3. ASSUME NEW c \in Directions
        PROVE  got'[c] = put'[c] + left'[c] /\ (copyPc'[c] # "write" => left'[c] = 0)
    <3>1. CASE c = d
      BY <2>1, <2>2, <3>1 DEF CopyInv, RelayTypeOK
    <3>2. CASE c # d
      BY <2>1, <2>2, <3>2 DEF CopyInv, RelayTypeOK
    <3> QED
      BY <3>1, <3>2
  <2> QED
    BY <2>2, <2>3 DEF CopyInv
<1>4. ASSUME NEW d \in Directions, ShutDown(d) PROVE CopyInv'
  BY <1>4 DEF CopyInv, ShutDown, RelayTypeOK
<1>5. ASSUME NEW d \in Directions, CopyFails(d) PROVE CopyInv'
  BY <1>5 DEF CopyInv, CopyFails, copies
<1>6. CASE IdleFires \/ RelayTick
  BY <1>6 DEF CopyInv, IdleFires, RelayTick, copies
<1>7. CASE UNCHANGED relayVars
  BY <1>7 DEF CopyInv, relayVars, copies
<1> QED
  BY <1>1, <1>2, <1>3, <1>4, <1>5, <1>6, <1>7 DEF RelayNext, RelayFinished

\* The three hold in every behaviour of the relay.
LEMMA RelayAlways == RelaySpec => [](RelayTypeOK /\ ClockInv /\ CopyInv)
<1>1. RelayTypeOK /\ ClockInv /\ CopyInv /\ [RelayNext]_relayVars
        => RelayTypeOK' /\ ClockInv' /\ CopyInv'
  BY RelayTypeStep, ClockStep, CopyStep
<1> QED
  BY RelayStart, <1>1, PTL DEF RelaySpec

\* The idle timer of relay_tcp ends exactly the relays without progress, for every
\* timeout and every resolution of the clock: never before a full timeout has passed
\* since the last read or write, and never more than a millisecond's rounding after it.
THEOREM IdleExact == RelaySpec => []TimesOutWhenIdle
<1>1. RelayTypeOK /\ ClockInv => TimesOutWhenIdle
  <2> SUFFICES ASSUME RelayTypeOK, ClockInv PROVE TimesOutWhenIdle
    OBVIOUS
  <2> DEFINE q == progress \div TicksPerMs
  <2>1. q \in Nat /\ q * TicksPerMs <= progress /\ progress < q * TicksPerMs + TicksPerMs
    BY TcpRelayConstants, DivBounds DEF RelayTypeOK
  <2>2. activity = q + 1
    BY DEF ClockInv
  <2> HIDE DEF q
  <2>3. (activity + IdleTimeout) * TicksPerMs
          = q * TicksPerMs + TicksPerMs + IdleTimeout * TicksPerMs
    BY <2>1, <2>2, TcpRelayConstants
  <2>4. (IdleTimeout + 1) * TicksPerMs = IdleTimeout * TicksPerMs + TicksPerMs
    BY TcpRelayConstants
  <2>5. IdleTimeout * TicksPerMs \in Nat /\ q * TicksPerMs \in Nat
    BY <2>1, TcpRelayConstants
  <2>6. lastSeen + IdleTimeout <= activity + IdleTimeout
        /\ lastSeen + IdleTimeout \in Nat /\ activity + IdleTimeout \in Nat
    BY TcpRelayConstants DEF RelayTypeOK, ClockInv
  <2>7. (lastSeen + IdleTimeout) * TicksPerMs <= (activity + IdleTimeout) * TicksPerMs
        /\ (lastSeen + IdleTimeout) * TicksPerMs \in Nat
    BY <2>6, TimesMonotone, TcpRelayConstants
  <2>8. result = "timeout" => relayNow >= progress + IdleTimeout * TicksPerMs
    BY <2>1, <2>3, <2>5, TcpRelayConstants DEF ClockInv, IdleDeadline, RelayTypeOK
  <2>9. result = "running" => relayNow <= progress + (IdleTimeout + 1) * TicksPerMs
    BY <2>1, <2>3, <2>4, <2>5, <2>7, TcpRelayConstants DEF ClockInv, IdleDeadline, RelayTypeOK
  <2> QED
    BY <2>8, <2>9 DEF TimesOutWhenIdle
<1> QED
  BY RelayAlways, <1>1, PTL

\* The two copy directions of relay_tcp lose nothing: a direction is shut down only when
\* all that was read from it is written, whatever part of a chunk each write takes, and
\* the relay ends well only when both are.
THEOREM RelayLossless == RelaySpec => []NothingTruncated
<1>1. RelayTypeOK /\ CopyInv => NothingTruncated
  BY DEF RelayTypeOK, CopyInv, NothingTruncated
<1> QED
  BY RelayAlways, <1>1, PTL

-----------------------------------------------------------------------------
(* DemuxSocket: sorting in place.                                          *)

Out == received \o channel
Kept == quinn \o SubSeq(bufs, 1, keep)

\* The slots the loop has not reached hold the batch as it came, and the segments of the
\* buffer at hand are forwarded one after the other.
BatchShape ==
    /\ Len(bufs) <= taken
    /\ \A j \in slot..Len(bufs) : bufs[j] = taken - Len(bufs) + j
    /\ AtOther => seg <= arrived[bufs[slot]].segs
    /\ ~AtOther => seg = 0

\* A socket that nothing has arrived at satisfies the invariant.
LEMMA DemuxStart == DemuxInit => DemuxTypeOK /\ BatchShape /\ DemuxLossless
<1> SUFFICES ASSUME DemuxInit PROVE DemuxTypeOK /\ BatchShape /\ DemuxLossless
  OBVIOUS
<1> USE DemuxConstants
<1>0. /\ bufs = <<>> /\ arrived = <<>> /\ quinn = <<>> /\ channel = <<>> /\ received = <<>>
      /\ taken = 0 /\ slot = 1 /\ keep = 0 /\ seg = 0 /\ idle = 0 /\ batch = 0
      /\ Len(bufs) = 0 /\ Len(arrived) = 0 /\ Len(channel) = 0
  BY DEF DemuxInit, Outside
<1>1. DemuxTypeOK
  <2>1. \A S : <<>> \in Seq(S)
    BY EmptySeq
  <2>2. armed \in BOOLEAN /\ scheduled \in BOOLEAN
    BY DEF DemuxInit
  <2>3. {channel, received} \subseteq Seq(Nat \X Nat)
    BY <1>0, <2>1
  <2> QED
    BY <1>0, <2>1, <2>2, <2>3 DEF DemuxTypeOK
<1>2. BatchShape
  BY <1>0 DEF BatchShape, AtOther
<1>3. received \o channel = <<>> /\ quinn \o SubSeq(bufs, 1, keep) = <<>>
  BY DEF DemuxInit
<1>4. Handled = 0
  <2>1. Handled = 0 - 0 + 1 - 1
    BY <1>0, Zenon DEF Handled
  <2> QED
    BY <2>1
<1>5. Forwarded = {}
  BY <1>4 DEF Forwarded, DemuxInit
<1>6. ToSet(<<>>) = {} /\ \A i, j \in 1..Len(<<>>) : FALSE
  BY DEF ToSet
<1>7. {b \in 1..Handled : arrived[b].quic} = {}
  BY <1>4
<1>8. dropped = {}
  BY DEF DemuxInit
<1>9. DemuxLossless
  <2>1. \A i, j \in 1..Len(<<>>) : i < j => Before(<<>>[i], <<>>[j])
    BY <1>6
  <2>2. \A i, j \in 1..Len(<<>>) : i < j => <<>>[i] < <<>>[j]
    BY <1>6
  <2> QED
    BY <1>3, <1>5, <1>6, <1>7, <1>8, <2>1, <2>2 DEF DemuxLossless
<1> QED
  BY <1>1, <1>2, <1>9

\* Appending the largest element keeps an ascending sequence ascending.
LEMMA AppendAscending ==
    ASSUME NEW s \in Seq(Nat), NEW x \in Nat,
           \A i, j \in 1..Len(s) : i < j => s[i] < s[j],
           \A y \in ToSet(s) : y < x
    PROVE  /\ \A i, j \in 1..Len(Append(s, x)) : i < j => Append(s, x)[i] < Append(s, x)[j]
           /\ ToSet(Append(s, x)) = ToSet(s) \cup {x}
<1> DEFINE t == Append(s, x)
<1>1. Len(t) = Len(s) + 1 /\ Len(s) \in Nat /\ t[Len(s) + 1] = x /\ DOMAIN t = 1..(Len(s) + 1)
      /\ DOMAIN s = 1..Len(s) /\ \A i \in 1..Len(s) : t[i] = s[i]
  OBVIOUS
<1> HIDE DEF t
<1>2. \A i \in 1..Len(s) : s[i] < x
  BY <1>1 DEF ToSet
<1>3. \A i, j \in 1..Len(t) : i < j => t[i] < t[j]
  BY <1>1, <1>2
<1>4. ToSet(t) = ToSet(s) \cup {x}
  BY <1>1 DEF ToSet
<1> QED
  BY <1>3, <1>4 DEF t

\* The same for datagrams and their order.
LEMMA AppendBefore ==
    ASSUME NEW s \in Seq(Nat \X Nat), NEW x \in Nat \X Nat,
           \A i, j \in 1..Len(s) : i < j => Before(s[i], s[j]),
           \A y \in ToSet(s) : Before(y, x)
    PROVE  /\ \A i, j \in 1..Len(Append(s, x)) : i < j => Before(Append(s, x)[i], Append(s, x)[j])
           /\ ToSet(Append(s, x)) = ToSet(s) \cup {x}
<1> DEFINE t == Append(s, x)
<1>1. Len(t) = Len(s) + 1 /\ Len(s) \in Nat /\ t[Len(s) + 1] = x /\ DOMAIN t = 1..(Len(s) + 1)
      /\ DOMAIN s = 1..Len(s) /\ \A i \in 1..Len(s) : t[i] = s[i]
  OBVIOUS
<1> HIDE DEF t
<1>2. \A i \in 1..Len(s) : Before(s[i], x)
  BY <1>1 DEF ToSet
<1>3. ASSUME NEW i \in 1..Len(t), NEW j \in 1..Len(t), i < j
      PROVE  Before(t[i], t[j])
  <2>1. i \in 1..Len(s) /\ t[i] = s[i]
    BY <1>1, <1>3
  <2>2. CASE j \in 1..Len(s)
    <3>1. t[j] = s[j]
      BY <1>1, <2>2
    <3> QED
      BY <1>3, <2>1, <2>2, <3>1
  <2>3. CASE j = Len(s) + 1
    <3>1. t[j] = x
      BY <1>1, <2>3
    <3> QED
      BY <1>2, <2>1, <3>1
  <2> QED
    BY <1>1, <2>2, <2>3, SMTT(30)
<1>4. ToSet(t) = ToSet(s) \cup {x}
  <2>1. \A i \in DOMAIN t : t[i] \in ToSet(s) \cup {x}
    BY <1>1 DEF ToSet
  <2>2. \A i \in DOMAIN s : s[i] \in ToSet(t)
    BY <1>1 DEF ToSet
  <2>3. x \in ToSet(t)
    <3>1. Len(s) + 1 \in DOMAIN t
      BY <1>1
    <3> QED
      BY <1>1, <3>1, Zenon DEF ToSet
  <2> QED
    BY <2>1, <2>2, <2>3 DEF ToSet
<1> QED
  BY <1>3, <1>4 DEF t

\* What the loop is at is the buffer after the handled ones.
LEMMA AtNext ==
    ASSUME DemuxTypeOK, BatchShape
    PROVE  /\ Handled \in 0..taken
           /\ slot <= Len(bufs) => bufs[slot] = Handled + 1 /\ Handled + 1 \in 1..taken
<1>1. Len(bufs) \in Nat
  BY DEF DemuxTypeOK
<1> QED
  BY <1>1, SMTT(30) DEF DemuxTypeOK, BatchShape, Handled

\* Appending to the second of two sequences, and moving its head to the end of the first.
LEMMA ConcatAppend ==
    ASSUME NEW S, NEW s \in Seq(S), NEW t \in Seq(S), NEW x \in S
    PROVE  s \o Append(t, x) = Append(s \o t, x)
<1> DEFINE u == s \o Append(t, x)
           v == Append(s \o t, x)
<1>1. u \in Seq(S) /\ v \in Seq(S) /\ Len(u) = Len(v)
  OBVIOUS
<1>2. ASSUME NEW i \in 1..Len(u) PROVE u[i] = v[i]
  OBVIOUS
<1> HIDE DEF u, v
<1>3. u = v
  BY <1>1, <1>2, SeqEqual
<1> QED
  BY <1>3 DEF u, v

\* Moving the head of the second sequence to the end of the first changes nothing: the
\* channel hands a datagram to its consumer.
LEMMA ConcatShift ==
    ASSUME NEW S, NEW s \in Seq(S), NEW t \in Seq(S), t # <<>>
    PROVE  Append(s, Head(t)) \o Tail(t) = s \o t
<1> DEFINE u == Append(s, Head(t)) \o Tail(t)
           v == s \o t
<1>1. u \in Seq(S) /\ v \in Seq(S) /\ Len(u) = Len(v)
  OBVIOUS
<1>2. ASSUME NEW i \in 1..Len(u) PROVE u[i] = v[i]
  OBVIOUS
<1> HIDE DEF u, v
<1>3. u = v
  BY <1>1, <1>2, SeqEqual
<1> QED
  BY <1>3 DEF u, v

\* The number of segments of a buffer.
LEMMA SegsBounded ==
    ASSUME NEW s \in Seq(Buffer), NEW i \in 1..Len(s)
    PROVE  s[i].segs \in 0..MaxSegs
<1>1. s[i] \in Buffer
  BY ElementOfSeq
<1>2. CASE s[i] \in [quic : {TRUE}, segs : {1}]
  <2>1. s[i].segs = 1
    BY <1>2
  <2> QED
    BY <2>1, DemuxConstants
<1>3. CASE s[i] \in [quic : {FALSE}, segs : 0..MaxSegs]
  BY <1>3
<1> QED
  BY <1>1, <1>2, <1>3 DEF Buffer

\* Exchanging two slots of a sequence.
LEMMA SwapSlots ==
    ASSUME NEW S, NEW s \in Seq(S), NEW i \in 1..Len(s), NEW j \in 1..Len(s)
    PROVE  /\ Swap(s, i, j) \in Seq(S) /\ Len(Swap(s, i, j)) = Len(s)
           /\ Swap(s, i, j)[i] = s[j]
           /\ \A k \in 1..Len(s) : k \notin {i, j} => Swap(s, i, j)[k] = s[k]
<1> DEFINE t == [s EXCEPT ![i] = s[j]]
<1>1. s[i] \in S /\ s[j] \in S
  BY ElementOfSeq
<1>2. t \in Seq(S) /\ Len(t) = Len(s) /\ \A k \in 1..Len(s) : t[k] = IF k = i THEN s[j] ELSE s[k]
  BY <1>1, ExceptSeq
<1>3. Swap(s, i, j) = [t EXCEPT ![j] = s[i]]
  BY DEF Swap
<1> HIDE DEF t
<1>4. /\ [t EXCEPT ![j] = s[i]] \in Seq(S) /\ Len([t EXCEPT ![j] = s[i]]) = Len(s)
      /\ \A k \in 1..Len(s) : [t EXCEPT ![j] = s[i]][k] = IF k = j THEN s[i] ELSE t[k]
  BY <1>1, <1>2, ExceptSeq
<1> QED
  BY <1>2, <1>3, <1>4

\* A batch never holds more than what arrived.
BatchCount == IF Len(arrived) - taken < BatchSize THEN Len(arrived) - taken ELSE BatchSize

\* Every poll, swap and forwarded segment keeps the types and the shape of the batch.
LEMMA DemuxTypeStep ==
    ASSUME DemuxTypeOK, BatchShape, [DemuxNext]_demuxVars
    PROVE  DemuxTypeOK' /\ BatchShape'
<1> USE DemuxConstants
<1>0. Len(arrived) \in Nat /\ Len(bufs) \in Nat /\ taken \in Nat
  BY DEF DemuxTypeOK
<1>1. CASE Poll \/ InnerPending \/ InnerFails \/ OtherWake \/ UNCHANGED demuxVars
  <2>1. UNCHANGED <<arrived, taken, sorted, loop>>
    BY <1>1 DEF Poll, InnerPending, InnerFails, OtherWake, demuxVars
  <2>2. BatchShape'
    BY <2>1 DEF BatchShape, AtOther, sorted, loop
  <2>3. idle' \in 0..MaxIdle /\ batch' \in 0..MaxBatches
    BY <1>1 DEF Poll, InnerPending, InnerFails, OtherWake, demuxVars, DemuxTypeOK, Outside
  <2>4. armed' \in BOOLEAN /\ scheduled' \in BOOLEAN
    BY <1>1 DEF Poll, InnerPending, InnerFails, OtherWake, demuxVars, DemuxTypeOK
  <2>5. DemuxTypeOK'
    BY <2>1, <2>3, <2>4 DEF DemuxTypeOK, sorted, loop
  <2> QED
    BY <2>2, <2>5
<1>2. CASE InnerReady
  <2>1. /\ bufs = <<>> /\ Len(bufs) = 0 /\ slot = 1 /\ keep = 0 /\ seg = 0
    <3>1. bufs = <<>> /\ Len(bufs) = 0
      BY <1>2 DEF InnerReady, Asking
    <3>2. slot = 1
      BY <3>1 DEF DemuxTypeOK
    <3>3. ~AtOther
      BY <3>1, <3>2 DEF AtOther
    <3> QED
      BY <3>1, <3>2, <3>3 DEF DemuxTypeOK, BatchShape
  <2>2. /\ BatchCount \in Nat \ {0} /\ taken' = taken + BatchCount /\ taken + BatchCount <= Len(arrived)
        /\ bufs' = [i \in 1..BatchCount |-> taken + i]
        /\ UNCHANGED <<arrived, sorted, slot, keep, seg, idle, batch, armed, scheduled>>
    BY <1>0, <1>2 DEF InnerReady, BatchCount, DemuxTypeOK
  <2> HIDE DEF BatchCount
  <2>3. /\ Len(bufs') = BatchCount /\ \A i \in 1..BatchCount : bufs'[i] = taken + i
        /\ bufs' \in Seq(1..Len(arrived))
    BY <1>0, <2>2
  <2>4. taken' \in 0..Len(arrived')
    BY <1>0, <2>2
  <2>5. slot' \in 1..(Len(bufs') + 1) /\ keep' \in 0..(slot' - 1) /\ seg' \in 0..MaxSegs
    BY <2>1, <2>2, <2>3
  <2>6. DemuxTypeOK'
    BY <2>2, <2>3, <2>4, <2>5 DEF DemuxTypeOK, sorted
  <2>7. seg' = 0 /\ (AtOther' => seg' <= arrived'[bufs'[slot']].segs)
    <3>1. ASSUME AtOther' PROVE arrived'[bufs'[slot']].segs \in Nat
      <4>1. slot' \in 1..Len(bufs')
        BY <2>6, <3>1 DEF DemuxTypeOK, AtOther
      <4>2. bufs'[slot'] \in 1..Len(arrived')
        BY <2>6, <4>1, ElementOfSeq DEF DemuxTypeOK
      <4>3. arrived'[bufs'[slot']].segs \in 0..MaxSegs
        BY <2>6, <4>2, SegsBounded DEF DemuxTypeOK
      <4> QED
        BY <4>3
    <3> QED
      BY <2>1, <2>2, <3>1
  <2>8. \A j \in slot'..Len(bufs') : bufs'[j] = taken' - Len(bufs') + j
    BY <1>0, <2>1, <2>2, <2>3
  <2>9. BatchShape'
    BY <1>0, <2>1, <2>2, <2>3, <2>7, <2>8 DEF BatchShape
  <2> QED
    BY <2>6, <2>9
<1>3. CASE KeepBuffer
  <2>1. /\ slot \in 1..Len(bufs) /\ keep + 1 \in 1..slot /\ seg = 0
        /\ bufs' = Swap(bufs, keep + 1, slot) /\ keep' = keep + 1 /\ slot' = slot + 1
        /\ UNCHANGED <<arrived, taken, sorted, seg, idle, batch, armed, scheduled>>
    BY <1>0, <1>3 DEF KeepBuffer, AtQuic, AtOther, DemuxTypeOK, BatchShape
  <2>2. /\ bufs' \in Seq(1..Len(arrived)) /\ Len(bufs') = Len(bufs)
        /\ \A j \in (slot + 1)..Len(bufs) : bufs'[j] = bufs[j]
    <3>1. keep + 1 \in 1..Len(bufs) /\ keep \in Nat /\ slot \in Nat
      BY <1>0, <2>1 DEF DemuxTypeOK
    <3>2. bufs \in Seq(1..Len(arrived))
      BY DEF DemuxTypeOK
    <3> DEFINE t == Swap(bufs, keep + 1, slot)
    <3>4. slot \in 1..Len(bufs)
      BY <2>1
    <3>5. /\ t \in Seq(1..Len(arrived)) /\ Len(t) = Len(bufs)
          /\ \A k \in 1..Len(bufs) : k \notin {keep + 1, slot} => t[k] = bufs[k]
      <4> DEFINE S == 1..Len(arrived)
                 i == keep + 1
      <4>1. bufs \in Seq(S) /\ i \in 1..Len(bufs)
        BY <3>1, <3>2
      <4> HIDE DEF S, i
      <4>2. /\ Swap(bufs, i, slot) \in Seq(S) /\ Len(Swap(bufs, i, slot)) = Len(bufs)
            /\ \A k \in 1..Len(bufs) : k \notin {i, slot} => Swap(bufs, i, slot)[k] = bufs[k]
        BY <4>1, <3>4, SwapSlots
      <4> QED
        BY <4>2 DEF S, i
    <3>6. bufs' = t
      BY <2>1
    <3> HIDE DEF t
    <3>3. /\ bufs' \in Seq(1..Len(arrived)) /\ Len(bufs') = Len(bufs)
          /\ \A k \in 1..Len(bufs) : k \notin {keep + 1, slot} => bufs'[k] = bufs[k]
      BY <3>5, <3>6
    <3> QED
      BY <1>0, <2>1, <3>1, <3>3
  <2>3. DemuxTypeOK'
    BY <1>0, <2>1, <2>2 DEF DemuxTypeOK, sorted
  <2>4. seg' = 0 /\ (AtOther' => seg' <= arrived'[bufs'[slot']].segs)
    <3>1. ASSUME AtOther' PROVE arrived'[bufs'[slot']].segs \in Nat
      <4>1. slot' \in 1..Len(bufs')
        BY <2>3, <3>1 DEF DemuxTypeOK, AtOther
      <4>2. bufs'[slot'] \in 1..Len(arrived')
        BY <2>3, <4>1, ElementOfSeq DEF DemuxTypeOK
      <4>3. arrived'[bufs'[slot']].segs \in 0..MaxSegs
        BY <2>3, <4>2, SegsBounded DEF DemuxTypeOK
      <4> QED
        BY <4>3
    <3> QED
      BY <2>1, <3>1
  <2>5. BatchShape'
    <3>1. \A j \in slot'..Len(bufs') : bufs'[j] = taken' - Len(bufs') + j
      <4>1. \A j \in (slot + 1)..Len(bufs) : j \in slot..Len(bufs)
        BY <1>0, <2>1
      <4>2. \A j \in (slot + 1)..Len(bufs) : bufs'[j] = taken - Len(bufs) + j
        BY <4>1, <2>2 DEF BatchShape
      <4> QED
        BY <4>2, <2>1, <2>2
    <3>2. Len(bufs') <= taken'
      BY <2>1, <2>2 DEF BatchShape
    <3> QED
      BY <2>4, <3>1, <3>2 DEF BatchShape
  <2> QED
    BY <2>3, <2>5
<1>4. CASE ForwardSegment
  <2>1. /\ slot \in 1..Len(bufs) /\ AtOther /\ seg < arrived[bufs[slot]].segs
        /\ seg' = seg + 1
        /\ UNCHANGED <<arrived, taken, quinn, received, bufs, slot, keep, idle, batch, armed, scheduled>>
    <3>1. slot \in 1..Len(bufs)
      BY <1>0, <1>4 DEF ForwardSegment, AtOther, DemuxTypeOK
    <3> QED
      BY <1>4, <3>1 DEF ForwardSegment
  <2>2. bufs[slot] \in 1..Len(arrived)
    BY <2>1, ElementOfSeq DEF DemuxTypeOK
  <2>3. arrived[bufs[slot]].segs \in 0..MaxSegs
    BY <2>2, SegsBounded DEF DemuxTypeOK
  <2>4. seg' \in 0..MaxSegs /\ seg' <= arrived[bufs[slot]].segs
    BY <2>1, <2>3, SMTT(30) DEF DemuxTypeOK
  <2>5. channel' \in Seq(Nat \X Nat) /\ Len(channel') <= Capacity
    <3> DEFINE dgram == <<bufs[slot], seg + 1>>
    <3>1. dgram \in Nat \X Nat
      <4>1. bufs[slot] \in Nat /\ seg + 1 \in Nat
        BY <1>0, <2>2 DEF DemuxTypeOK
      <4> QED
        BY <4>1
    <3>0. channel \in Seq(Nat \X Nat) /\ Len(channel) <= Capacity /\ Len(channel) \in Nat
      BY DEF DemuxTypeOK
    <3>2. channel' = channel \/ (channel' = Append(channel, dgram) /\ Len(channel) < Capacity)
      BY <1>4 DEF ForwardSegment
    <3> HIDE DEF dgram
    <3>3. Append(channel, dgram) \in Seq(Nat \X Nat) /\ Len(Append(channel, dgram)) = Len(channel) + 1
      BY <3>0, <3>1, AppendProperties
    <3>4. CASE channel' = channel
      BY <3>0, <3>4
    <3>5. CASE channel' = Append(channel, dgram) /\ Len(channel) < Capacity
      BY <3>0, <3>3, <3>5
    <3> QED
      BY <3>2, <3>4, <3>5
  <2>6. AtOther'
    BY <2>1 DEF AtOther
  <2> QED
    BY <2>1, <2>4, <2>5, <2>6 DEF DemuxTypeOK, BatchShape
<1>5. CASE EndBuffer
  <2>1. /\ slot \in 1..Len(bufs) /\ slot' = slot + 1 /\ seg' = 0
        /\ UNCHANGED <<arrived, taken, sorted, bufs, keep, idle, batch, armed, scheduled>>
    BY <1>0, <1>5 DEF EndBuffer, AtOther, DemuxTypeOK
  <2>2. DemuxTypeOK'
    BY <1>0, <2>1 DEF DemuxTypeOK, sorted
  <2>3. AtOther' => seg' <= arrived'[bufs'[slot']].segs
    <3>1. ASSUME AtOther' PROVE arrived'[bufs'[slot']].segs \in Nat
      <4>1. slot' \in 1..Len(bufs')
        BY <2>2, <3>1 DEF DemuxTypeOK, AtOther
      <4>2. bufs'[slot'] \in 1..Len(arrived')
        BY <2>2, <4>1, ElementOfSeq DEF DemuxTypeOK
      <4>3. arrived'[bufs'[slot']].segs \in 0..MaxSegs
        BY <2>2, <4>2, SegsBounded DEF DemuxTypeOK
      <4> QED
        BY <4>3
    <3> QED
      BY <2>1, <3>1
  <2>4. BatchShape'
    BY <1>0, <2>1, <2>3, SMTT(30) DEF BatchShape
  <2> QED
    BY <2>2, <2>4
<1>6. CASE EndBatch
  <2>1. /\ slot = Len(bufs) + 1 /\ quinn' = quinn \o SubSeq(bufs, 1, keep)
        /\ bufs' = <<>> /\ slot' = 1 /\ keep' = 0
        /\ UNCHANGED <<arrived, taken, channel, received, dropped, seg, armed>>
    BY <1>6 DEF EndBatch
  <2>2. ~AtOther /\ seg = 0
    BY <1>0, <2>1 DEF AtOther, BatchShape
  <2>3. SubSeq(bufs, 1, keep) \in Seq(1..Len(arrived))
    BY <1>0, <2>1, SMTT(30) DEF DemuxTypeOK
  <2>4. quinn' \in Seq(1..Len(arrived))
    BY <2>1, <2>3 DEF DemuxTypeOK
  <2>5. bufs' \in Seq(1..Len(arrived)) /\ Len(bufs') = 0
    BY <2>1
  <2>6. idle' \in 0..MaxIdle /\ batch' \in 0..MaxBatches
    <3>1. idle \in 0..MaxIdle /\ batch \in 0..MaxBatches
      BY DEF DemuxTypeOK
    <3>2. \/ idle' = 0 /\ batch' = 0
          \/ idle' = idle /\ batch' = batch + 1 /\ batch < MaxBatches
          \/ idle' = idle + 1 /\ ~(idle >= MaxIdle) /\ batch' = 0
      BY <1>6 DEF EndBatch, Outside
    <3> QED
      BY <3>1, <3>2
  <2>7. scheduled' \in BOOLEAN
    BY <1>6 DEF EndBatch, DemuxTypeOK
  <2>8. DemuxTypeOK'
    BY <2>1, <2>2, <2>4, <2>5, <2>6, <2>7 DEF DemuxTypeOK
  <2>9. BatchShape'
    BY <1>0, <2>1, <2>2, <2>5 DEF BatchShape, AtOther
  <2> QED
    BY <2>8, <2>9
<1>7. ASSUME NEW b \in Buffer, Arrive(b) PROVE DemuxTypeOK' /\ BatchShape'
  <2>1. arrived' = Append(arrived, b) /\ UNCHANGED <<taken, sorted, loop, idle, batch>>
        /\ armed' = FALSE /\ scheduled' = (scheduled \/ armed)
    BY <1>7 DEF Arrive
  <2>2. arrived' \in Seq(Buffer) /\ Len(arrived') = Len(arrived) + 1
        /\ \A i \in 1..Len(arrived) : arrived'[i] = arrived[i]
    BY <2>1 DEF DemuxTypeOK
  <2>3. 1..Len(arrived) \subseteq 1..Len(arrived')
    BY <1>0, <2>2
  <2>4. quinn' \in Seq(1..Len(arrived')) /\ bufs' \in Seq(1..Len(arrived'))
    BY <2>1, <2>3, SeqMonotonic DEF DemuxTypeOK, sorted, loop
  <2>5. taken' \in 0..Len(arrived')
    BY <1>0, <2>1, <2>2 DEF DemuxTypeOK
  <2>6. armed' \in BOOLEAN /\ scheduled' \in BOOLEAN
    BY <2>1 DEF DemuxTypeOK
  <2>7. DemuxTypeOK'
    BY <2>1, <2>2, <2>4, <2>5, <2>6 DEF DemuxTypeOK, sorted, loop
  <2>8. ASSUME slot <= Len(bufs) PROVE arrived'[bufs[slot]] = arrived[bufs[slot]]
    <3>1. slot \in 1..Len(bufs)
      BY <1>0, <2>8 DEF DemuxTypeOK
    <3>2. bufs[slot] \in 1..Len(arrived)
      BY <3>1, ElementOfSeq DEF DemuxTypeOK
    <3> QED
      BY <2>2, <3>2
  <2>9. AtOther' = AtOther
    BY <2>1, <2>8 DEF AtOther, loop
  <2>10. BatchShape'
    BY <2>1, <2>8, <2>9 DEF BatchShape, loop, AtOther
  <2> QED
    BY <2>7, <2>10
<1>8. CASE Consume
  <2>1. UNCHANGED <<arrived, taken, quinn, dropped, loop, idle, batch, armed, scheduled>>
        /\ received' = Append(received, Head(channel)) /\ channel' = Tail(channel) /\ channel # <<>>
    BY <1>8 DEF Consume
  <2>2. received' \in Seq(Nat \X Nat) /\ channel' \in Seq(Nat \X Nat) /\ Len(channel') = Len(channel) - 1
    BY <2>1 DEF DemuxTypeOK
  <2>3. DemuxTypeOK'
    BY <2>1, <2>2 DEF DemuxTypeOK, loop
  <2>4. BatchShape'
    BY <2>1 DEF BatchShape, AtOther, loop
  <2> QED
    BY <2>3, <2>4
<1> QED
  BY <1>1, <1>2, <1>3, <1>4, <1>5, <1>6, <1>7, <1>8 DEF DemuxNext

\* DemuxLossless in terms of what it compares.
QuicHandled == {b \in 1..Handled : arrived[b].quic}
Ascends(kept) == \A i, j \in 1..Len(kept) : i < j => kept[i] < kept[j]
InOrder(out) == \A i, j \in 1..Len(out) : i < j => Before(out[i], out[j])

\* DemuxLossless part by part, before a step ...
LEMMA LosslessParts ==
    DemuxLossless <=> /\ Ascends(Kept) /\ ToSet(Kept) = QuicHandled
                      /\ InOrder(Out) /\ ToSet(Out) \cap dropped = {}
                      /\ ToSet(Out) \cup dropped = Forwarded
  BY DEF DemuxLossless, Ascends, Kept, QuicHandled, InOrder, Out

\* ... and after it.
LEMMA LosslessNext ==
    ASSUME Ascends(Kept'), ToSet(Kept') = QuicHandled',
           InOrder(Out'), ToSet(Out') \cap dropped' = {},
           ToSet(Out') \cup dropped' = Forwarded'
    PROVE  DemuxLossless'
  BY DEF DemuxLossless, Ascends, Kept, QuicHandled, InOrder, Out

\* A step that changes none of them.
LEMMA LosslessFrame ==
    ASSUME DemuxLossless, Kept' = Kept, Out' = Out, dropped' = dropped,
           QuicHandled' = QuicHandled, Forwarded' = Forwarded
    PROVE  DemuxLossless'
<1>1. Ascends(Kept') /\ InOrder(Out')
  BY LosslessParts
<1> QED
  BY <1>1, LosslessParts, LosslessNext

\* Every step loses, repeats and reorders nothing: a kept buffer goes behind the ones kept,
\* an underlay segment to the channel or to the dropped ones.
LEMMA DemuxStep ==
    ASSUME DemuxTypeOK, BatchShape, DemuxLossless, [DemuxNext]_demuxVars
    PROVE  DemuxLossless'
<1> USE DemuxConstants
<1>0. Len(arrived) \in Nat /\ Len(bufs) \in Nat /\ taken \in Nat /\ slot \in Nat /\ Handled \in Nat
      /\ Handled <= taken /\ taken <= Len(arrived)
  BY AtNext DEF DemuxTypeOK
<1>a. Out \in Seq(Nat \X Nat)
  BY ConcatProperties DEF Out, DemuxTypeOK
<1>b. Kept \in Seq(Nat)
  <2>1. quinn \in Seq(Nat) /\ bufs \in Seq(Nat)
    <3>1. 1..Len(arrived) \subseteq Nat
      BY <1>0
    <3> QED
      BY <3>1, SeqMonotonic DEF DemuxTypeOK
  <2>2. SubSeq(bufs, 1, keep) \in Seq(Nat)
    BY <1>0, <2>1 DEF DemuxTypeOK
  <2> QED
    BY <2>1, <2>2, ConcatProperties DEF Kept
<1>1. CASE Poll \/ InnerPending \/ InnerFails \/ OtherWake \/ UNCHANGED demuxVars
  <2>1. UNCHANGED <<arrived, taken, quinn, channel, received, dropped, bufs, slot, keep, seg>>
    BY <1>1 DEF Poll, InnerPending, InnerFails, OtherWake, demuxVars, sorted, loop
  <2>2. Kept' = Kept /\ Out' = Out
    BY <2>1 DEF Kept, Out
  <2>3. Handled' = Handled
    BY <2>1 DEF Handled
  <2>4. QuicHandled' = QuicHandled /\ Forwarded' = Forwarded
    BY <2>1, <2>3 DEF QuicHandled, Forwarded
  <2> QED
    BY <2>1, <2>2, <2>4, LosslessFrame
<1>2. CASE InnerReady
  <2>1. /\ bufs = <<>> /\ Len(bufs) = 0 /\ slot = 1 /\ keep = 0
    <3>1. bufs = <<>> /\ Len(bufs) = 0
      BY <1>2 DEF InnerReady, Asking
    <3>2. slot = 1
      BY <3>1 DEF DemuxTypeOK
    <3> QED
      BY <3>1, <3>2 DEF DemuxTypeOK
  <2>2. /\ BatchCount \in Nat \ {0} /\ taken' = taken + BatchCount
        /\ bufs' = [i \in 1..BatchCount |-> taken + i]
        /\ UNCHANGED <<arrived, quinn, channel, received, dropped, slot, keep, seg>>
    BY <1>0, <1>2 DEF InnerReady, BatchCount, DemuxTypeOK, sorted
  <2> HIDE DEF BatchCount
  <2>3. Len(bufs') = BatchCount
    BY <2>2
  <2>4. Handled' = Handled
    BY <1>0, <2>1, <2>2, <2>3 DEF Handled
  <2>5. SubSeq(bufs, 1, 0) = <<>> /\ SubSeq(bufs', 1, 0) = <<>>
    BY SubSeqEmpty
  <2>6. Kept' = Kept /\ Out' = Out
    BY <2>1, <2>2, <2>5 DEF Kept, Out
  <2>7. QuicHandled' = QuicHandled /\ Forwarded' = Forwarded
    BY <2>2, <2>4 DEF QuicHandled, Forwarded
  <2> QED
    BY <2>2, <2>6, <2>7, LosslessFrame
<1>3. CASE KeepBuffer
  <2>1. /\ slot \in 1..Len(bufs) /\ keep + 1 \in 1..slot /\ seg = 0 /\ keep \in Nat
        /\ bufs' = Swap(bufs, keep + 1, slot) /\ keep' = keep + 1 /\ slot' = slot + 1
        /\ UNCHANGED <<arrived, taken, quinn, channel, received, dropped, seg>>
    BY <1>0, <1>3 DEF KeepBuffer, AtQuic, AtOther, DemuxTypeOK, BatchShape, sorted
  <2>2. bufs[slot] = Handled + 1 /\ arrived[Handled + 1].quic
    BY <1>3, <2>1, AtNext DEF KeepBuffer, AtQuic
  <2>3. /\ bufs' \in Seq(Nat) /\ Len(bufs') = Len(bufs) /\ bufs'[keep + 1] = Handled + 1
        /\ \A k \in 1..keep : bufs'[k] = bufs[k]
    <3> DEFINE i == keep + 1
    <3>1. bufs \in Seq(Nat)
      <4>1. 1..Len(arrived) \subseteq Nat
        BY <1>0
      <4> QED
        BY <4>1, SeqMonotonic DEF DemuxTypeOK
    <3>2. i \in 1..Len(bufs) /\ slot \in 1..Len(bufs)
      BY <1>0, <2>1
    <3>3. \A k \in 1..keep : k \in 1..Len(bufs) /\ k \notin {i, slot}
      BY <1>0, <2>1
    <3>4. bufs' = Swap(bufs, i, slot)
      BY <2>1
    <3> HIDE DEF i
    <3>5. /\ Swap(bufs, i, slot) \in Seq(Nat) /\ Len(Swap(bufs, i, slot)) = Len(bufs)
          /\ Swap(bufs, i, slot)[i] = bufs[slot]
          /\ \A k \in 1..Len(bufs) : k \notin {i, slot} => Swap(bufs, i, slot)[k] = bufs[k]
      BY <3>1, <3>2, SwapSlots
    <3> QED
      BY <2>2, <3>3, <3>4, <3>5 DEF i
  <2>4. Kept' = Append(Kept, Handled + 1)
    <3>1. quinn \in Seq(Nat)
      <4>1. 1..Len(arrived) \subseteq Nat
        BY <1>0
      <4> QED
        BY <4>1, SeqMonotonic DEF DemuxTypeOK
    <3>2. bufs \in Seq(Nat)
      <4>1. 1..Len(arrived) \subseteq Nat
        BY <1>0
      <4> QED
        BY <4>1, SeqMonotonic DEF DemuxTypeOK
    <3>3. SubSeq(bufs', 1, keep + 1) = SubSeq(bufs', 1, keep) \o <<bufs'[keep + 1]>>
      <4>1. 1 \in 1..Len(bufs') /\ keep + 1 \in 1..Len(bufs') /\ (keep + 1) - 1 = keep
        BY <1>0, <2>1, <2>3
      <4> QED
        BY <4>1, <2>3, SubSeqRecursiveSecond
    <3>4. SubSeq(bufs', 1, keep) = SubSeq(bufs, 1, keep)
      <4> DEFINE u == SubSeq(bufs', 1, keep)
                 v == SubSeq(bufs, 1, keep)
      <4>0. \A k \in 1..keep : k \in 1..Len(bufs)
        BY <1>0, <2>1
      <4>1. \A k \in 1..keep : bufs[k] \in Nat /\ bufs'[k] \in Nat
        <5>1. \A k \in 1..Len(bufs) : bufs[k] \in Nat
          BY <3>2
        <5>2. \A k \in 1..Len(bufs) : bufs'[k] \in Nat
          BY <2>3
        <5> QED
          BY <4>0, <5>1, <5>2, Zenon
      <4>2. u \in Seq(Nat) /\ Len(u) = keep /\ \A k \in 1..keep : u[k] = bufs'[k]
        BY <2>1, <4>1, SubSeqProperties
      <4>3. v \in Seq(Nat) /\ Len(v) = keep /\ \A k \in 1..keep : v[k] = bufs[k]
        BY <2>1, <4>1, SubSeqProperties
      <4> HIDE DEF u, v
      <4>4. u = v
        BY <2>3, <4>2, <4>3, SeqEqual
      <4> QED
        BY <4>4 DEF u, v
    <3>5. SubSeq(bufs, 1, keep) \in Seq(Nat) /\ <<Handled + 1>> \in Seq(Nat) /\ Handled + 1 \in Nat
      BY <1>0, <2>1, <3>2
    <3>6. Kept' = quinn \o (SubSeq(bufs, 1, keep) \o <<Handled + 1>>)
      BY <2>1, <2>3, <3>3, <3>4 DEF Kept
    <3>7. Kept' = quinn \o Append(SubSeq(bufs, 1, keep), Handled + 1)
      BY <3>5, <3>6, AppendIsConcat
    <3> QED
      <4> DEFINE v == SubSeq(bufs, 1, keep)
                 x == Handled + 1
      <4>1. v \in Seq(Nat) /\ x \in Nat /\ Kept = quinn \o v /\ Kept' = quinn \o Append(v, x)
        BY <3>5, <3>7 DEF Kept
      <4> HIDE DEF v, x
      <4>2. quinn \o Append(v, x) = Append(quinn \o v, x)
        BY <3>1, <4>1, ConcatAppend
      <4>3. Kept' = Append(Kept, x)
        BY <4>1, <4>2, Zenon
      <4> QED
        BY <4>3 DEF x
  <2>5. Handled' = Handled + 1
    BY <1>0, <2>1, <2>3 DEF Handled
  <2>6. QuicHandled' = QuicHandled \cup {Handled + 1}
    BY <1>0, <2>1, <2>2, <2>5 DEF QuicHandled
  <2>7. Ascends(Append(Kept, Handled + 1)) /\ ToSet(Append(Kept, Handled + 1)) = ToSet(Kept) \cup {Handled + 1}
    <3>1. ToSet(Kept) = QuicHandled /\ Ascends(Kept) /\ Handled + 1 \in Nat
      BY LosslessParts, <1>0
    <3>2. \A y \in ToSet(Kept) : y < Handled + 1
      BY <1>0, <3>1 DEF QuicHandled
    <3> QED
      BY <1>b, <3>1, <3>2, AppendAscending DEF Ascends
  <2>8. Out' = Out
    BY <2>1 DEF Out
  <2>9. Forwarded' = Forwarded
    <3>1. ~(Handled + 1 <= Handled) /\ \A x \in 1..MaxSegs : ~(x <= seg)
      BY <1>0, <2>1
    <3>2. \A d \in Forwarded' : d \in Forwarded
      BY <1>0, <2>1, <2>2, <2>5 DEF Forwarded
    <3>3. \A d \in Forwarded : d \in Forwarded'
      BY <1>0, <2>1, <2>2, <2>5 DEF Forwarded
    <3> QED
      BY <3>2, <3>3
  <2> QED
    BY <2>1, <2>4, <2>6, <2>7, <2>8, <2>9, LosslessParts, LosslessNext
<1>4. CASE ForwardSegment
  <2> DEFINE dgram == <<Handled + 1, seg + 1>>
  <2>1. /\ slot \in 1..Len(bufs) /\ AtOther /\ seg < arrived[bufs[slot]].segs
        /\ seg' = seg + 1 /\ seg \in Nat /\ bufs[slot] = Handled + 1
        /\ UNCHANGED <<arrived, taken, quinn, received, bufs, slot, keep>>
    <3>1. slot \in 1..Len(bufs)
      BY <1>0, <1>4 DEF ForwardSegment, AtOther, DemuxTypeOK
    <3>2. bufs[slot] = Handled + 1
      BY <3>1, AtNext
    <3>3. seg \in Nat
      BY DEF DemuxTypeOK
    <3> QED
      BY <1>4, <3>1, <3>2, <3>3 DEF ForwardSegment
  <2>2. arrived[Handled + 1].segs \in 0..MaxSegs
    <3>1. Handled + 1 \in 1..Len(arrived)
      BY <2>1, AtNext, <1>0
    <3> QED
      BY <3>1, SegsBounded DEF DemuxTypeOK
  <2>3. seg + 1 \in 1..MaxSegs
    BY <2>1, <2>2
  <2>4. dgram \in Nat \X Nat
    BY <1>0, <2>1
  <2>5. Handled' = Handled
    BY <2>1 DEF Handled
  <2>6. Kept' = Kept
    BY <2>1 DEF Kept
  <2>7. QuicHandled' = QuicHandled
    BY <2>1, <2>5 DEF QuicHandled
  <2>8. Forwarded' = Forwarded \cup {dgram}
    <3>1. ASSUME NEW d \in Forwarded' PROVE d \in Forwarded \cup {dgram}
      <4>1. d \in (1..(Handled + 1)) \X (1..MaxSegs)
            /\ IF d[1] <= Handled THEN ~arrived[d[1]].quic /\ d[2] <= arrived[d[1]].segs ELSE d[2] <= seg + 1
        BY <2>1, <2>5 DEF Forwarded
      <4>2. CASE d[1] <= Handled \/ d[2] <= seg
        BY <4>1, <4>2 DEF Forwarded
      <4>3. CASE ~(d[1] <= Handled) /\ ~(d[2] <= seg)
        <5>1. d[1] = Handled + 1 /\ d[2] = seg + 1
          BY <1>0, <2>1, <4>1, <4>3
        <5>2. d = <<d[1], d[2]>>
          BY <4>1
        <5> QED
          BY <5>1, <5>2
      <4> QED
        BY <4>2, <4>3
    <3>2. ASSUME NEW d \in Forwarded PROVE d \in Forwarded'
      BY <1>0, <2>1, <2>5 DEF Forwarded
    <3>3. dgram \in Forwarded'
      <4>1. dgram \in (1..(Handled + 1)) \X (1..MaxSegs) /\ dgram[1] = Handled + 1 /\ dgram[2] = seg + 1
        BY <1>0, <2>1, <2>3
      <4>2. ~(Handled + 1 <= Handled)
        BY <1>0
      <4> HIDE DEF dgram
      <4> QED
        BY <2>1, <2>5, <4>1, <4>2 DEF Forwarded
    <3> QED
      BY <3>1, <3>2, <3>3
  <2>9. \A y \in Forwarded : Before(y, dgram) /\ y # dgram
    <3> SUFFICES ASSUME NEW y \in Forwarded PROVE Before(y, dgram) /\ y # dgram
      OBVIOUS
    <3>1. /\ y[1] \in 1..(Handled + 1) /\ y[2] \in 1..MaxSegs
          /\ ~(y[1] <= Handled) => y[2] <= seg
      BY DEF Forwarded
    <3>2. dgram[1] = Handled + 1 /\ dgram[2] = seg + 1
      OBVIOUS
    <3>3. Before(y, dgram)
      BY <1>0, <2>1, <3>1, <3>2 DEF Before
    <3>4. ~(Before(dgram, dgram))
      BY <1>0, <2>1, <3>2 DEF Before
    <3> QED
      BY <3>3, <3>4
  <2>10. channel \in Seq(Nat \X Nat) /\ received \in Seq(Nat \X Nat)
    BY DEF DemuxTypeOK
  <2>11. \/ channel' = Append(channel, dgram) /\ dropped' = dropped
         \/ dropped' = dropped \cup {dgram} /\ channel' = channel
    BY <1>4, <2>1 DEF ForwardSegment
  <2> HIDE DEF dgram
  <2>12. CASE channel' = Append(channel, dgram) /\ dropped' = dropped
    <3>1. Out' = Append(Out, dgram)
      <4>1. received \o Append(channel, dgram) = Append(received \o channel, dgram)
        <5> DEFINE D == Nat \X Nat
        <5>1. dgram \in D /\ received \in Seq(D) /\ channel \in Seq(D)
          BY <2>4, <2>10
        <5> HIDE DEF D
        <5> QED
          BY <5>1, ConcatAppend
      <4>2. Out' = received \o Append(channel, dgram)
        BY <2>1, <2>12 DEF Out
      <4> QED
        BY <4>1, <4>2, Zenon DEF Out
    <3>2. InOrder(Out) /\ ToSet(Out) \subseteq Forwarded
      BY LosslessParts
    <3>3. InOrder(Append(Out, dgram)) /\ ToSet(Append(Out, dgram)) = ToSet(Out) \cup {dgram}
      BY <1>a, <2>4, <2>9, <3>2, AppendBefore DEF InOrder
    <3>4. ToSet(Out') \cap dropped' = {}
      BY <2>9, <2>12, <3>1, <3>3, LosslessParts
    <3>5. ToSet(Out') \cup dropped' = Forwarded'
      BY <2>8, <2>12, <3>1, <3>3, LosslessParts
    <3> QED
      BY <2>6, <2>7, <3>1, <3>3, <3>4, <3>5, LosslessParts, LosslessNext
  <2>13. CASE dropped' = dropped \cup {dgram} /\ channel' = channel
    <3>1. Out' = Out
      BY <2>1, <2>13 DEF Out
    <3>2. ToSet(Out') \cap dropped' = {}
      BY <2>9, <2>13, <3>1, LosslessParts
    <3>3. ToSet(Out') \cup dropped' = Forwarded'
      BY <2>8, <2>13, <3>1, LosslessParts
    <3> QED
      BY <2>6, <2>7, <3>1, <3>2, <3>3, LosslessParts, LosslessNext
  <2> QED
    BY <2>11, <2>12, <2>13
<1>5. CASE EndBuffer
  <2>1. /\ slot \in 1..Len(bufs) /\ slot' = slot + 1 /\ seg' = 0 /\ seg = arrived[bufs[slot]].segs
        /\ ~arrived[bufs[slot]].quic
        /\ UNCHANGED <<arrived, taken, quinn, channel, received, dropped, bufs, keep>>
    BY <1>0, <1>5 DEF EndBuffer, AtOther, DemuxTypeOK, sorted
  <2>2. bufs[slot] = Handled + 1
    BY <2>1, AtNext
  <2>3. Handled' = Handled + 1
    BY <1>0, <2>1 DEF Handled
  <2>4. Kept' = Kept /\ Out' = Out
    BY <2>1 DEF Kept, Out
  <2>5. QuicHandled' = QuicHandled
    BY <1>0, <2>1, <2>2, <2>3 DEF QuicHandled
  <2>6. Forwarded' = Forwarded
    <3>1. ASSUME NEW d \in Forwarded' PROVE d \in Forwarded
      <4>1. d \in (1..(Handled + 2)) \X (1..MaxSegs) /\ d[1] \in Nat /\ d[2] \in Nat
            /\ IF d[1] <= Handled + 1 THEN ~arrived[d[1]].quic /\ d[2] <= arrived[d[1]].segs ELSE d[2] <= 0
        BY <1>0, <2>1, <2>3 DEF Forwarded
      <4>2. d[2] > 0
        BY <4>1
      <4>3. d[1] \in 1..(Handled + 1) /\ ~arrived[d[1]].quic /\ d[2] <= arrived[d[1]].segs
        BY <1>0, <4>1, <4>2
      <4>4. d \in (1..(Handled + 1)) \X (1..MaxSegs)
        BY <4>1, <4>3
      <4>5. CASE d[1] <= Handled
        BY <4>3, <4>4, <4>5 DEF Forwarded
      <4>6. CASE d[1] = Handled + 1
        BY <1>0, <2>1, <2>2, <4>3, <4>4, <4>6 DEF Forwarded
      <4> QED
        BY <1>0, <4>3, <4>5, <4>6
    <3>2. ASSUME NEW d \in Forwarded PROVE d \in Forwarded'
      <4>1. d \in (1..(Handled + 1)) \X (1..MaxSegs)
            /\ IF d[1] <= Handled THEN ~arrived[d[1]].quic /\ d[2] <= arrived[d[1]].segs ELSE d[2] <= seg
        BY DEF Forwarded
      <4>2. d[1] \in 1..(Handled + 1) /\ d \in (1..(Handled' + 1)) \X (1..MaxSegs)
        BY <1>0, <2>3, <4>1
      <4>3. CASE d[1] <= Handled
        BY <1>0, <2>1, <2>3, <4>1, <4>2, <4>3 DEF Forwarded
      <4>4. CASE d[1] = Handled + 1
        BY <1>0, <2>1, <2>2, <2>3, <4>1, <4>2, <4>4 DEF Forwarded
      <4> QED
        BY <1>0, <4>2, <4>3, <4>4
    <3> QED
      BY <3>1, <3>2
  <2> QED
    BY <2>1, <2>4, <2>5, <2>6, LosslessFrame
<1>6. CASE EndBatch
  <2>1. /\ slot = Len(bufs) + 1 /\ quinn' = quinn \o SubSeq(bufs, 1, keep)
        /\ bufs' = <<>> /\ slot' = 1 /\ keep' = 0 /\ Len(bufs') = 0
        /\ UNCHANGED <<arrived, taken, channel, received, dropped, seg>>
    BY <1>6 DEF EndBatch
  <2>2. Handled' = Handled
    BY <1>0, <2>1 DEF Handled
  <2>3. SubSeq(bufs', 1, 0) = <<>>
    BY SubSeqEmpty
  <2>4. quinn' = Kept /\ Kept' = quinn' \o <<>>
    BY <2>1, <2>3 DEF Kept
  <2>5. Kept' = Kept
    BY <1>b, <2>4, ConcatEmptySeq
  <2>6. Out' = Out
    BY <2>1 DEF Out
  <2>7. QuicHandled' = QuicHandled /\ Forwarded' = Forwarded
    BY <2>1, <2>2 DEF QuicHandled, Forwarded
  <2> QED
    BY <2>1, <2>5, <2>6, <2>7, LosslessFrame
<1>7. ASSUME NEW b \in Buffer, Arrive(b) PROVE DemuxLossless'
  <2>1. arrived' = Append(arrived, b)
        /\ UNCHANGED <<taken, quinn, channel, received, dropped, bufs, slot, keep, seg>>
    BY <1>7 DEF Arrive, sorted, loop
  <2>2. \A i \in 1..Handled : arrived'[i] = arrived[i]
    BY <1>0, <2>1 DEF DemuxTypeOK
  <2>3. Kept' = Kept /\ Out' = Out
    BY <2>1 DEF Kept, Out
  <2>4. Handled' = Handled
    BY <2>1 DEF Handled
  <2>5. QuicHandled' = QuicHandled
    BY <2>2, <2>4 DEF QuicHandled
  <2>6. Forwarded' = Forwarded
    <3>1. \A d \in (1..(Handled + 1)) \X (1..MaxSegs) : d[1] <= Handled => d[1] \in 1..Handled
      BY <1>0
    <3> QED
      BY <2>1, <2>2, <2>4, <3>1 DEF Forwarded
  <2> QED
    BY <2>1, <2>3, <2>5, <2>6, LosslessFrame
<1>8. CASE Consume
  <2>1. UNCHANGED <<arrived, taken, quinn, dropped, bufs, slot, keep, seg>>
        /\ received' = Append(received, Head(channel)) /\ channel' = Tail(channel) /\ channel # <<>>
    BY <1>8 DEF Consume, loop
  <2>2. Handled' = Handled
    BY <2>1 DEF Handled
  <2>3. Kept' = Kept
    BY <2>1 DEF Kept
  <2>4. QuicHandled' = QuicHandled /\ Forwarded' = Forwarded
    BY <2>1, <2>2 DEF QuicHandled, Forwarded
  <2>5. Out' = Out
    <3>1. channel \in Seq(Nat \X Nat) /\ received \in Seq(Nat \X Nat)
      BY DEF DemuxTypeOK
    <3> QED
      BY <2>1, <3>1, ConcatShift DEF Out
  <2> QED
    BY <2>1, <2>3, <2>4, <2>5, LosslessFrame
<1> QED
  BY <1>1, <1>2, <1>3, <1>4, <1>5, <1>6, <1>7, <1>8 DEF DemuxNext

\* The demultiplexer keeps its invariant in every behaviour.
LEMMA DemuxAlways == DemuxSpec => [](DemuxTypeOK /\ BatchShape /\ DemuxLossless)
<1>1. DemuxTypeOK /\ BatchShape /\ DemuxLossless /\ [DemuxNext]_demuxVars
        => DemuxTypeOK' /\ BatchShape' /\ DemuxLossless'
  BY DemuxTypeStep, DemuxStep
<1> QED
  BY DemuxStart, <1>1, PTL DEF DemuxSpec

\* The in-place partition of poll_recv and its try_send loop lose, repeat and reorder
\* nothing, for every batch size, channel capacity, number of segments and interleaving
\* with the packet loop.
THEOREM DemuxKeepsAll == DemuxSpec => []DemuxLossless
  BY DemuxAlways, PTL

-----------------------------------------------------------------------------
(* WireCodec: bytes and numbers.                                           *)

Byte == 0..MaxU8

\* The limits of one and two bytes, for every base.
LEMMA Limits ==
    /\ MaxU8 \in Nat /\ MaxU8 >= 5 /\ MaxU16 \in Nat
    /\ Base * Base \in Nat /\ MaxU16 = Base * Base - 1 /\ MaxU16 >= Base + 1
<1>1. Base \in Nat /\ Base >= 6
  BY CodecConstants
<1>2. 6 * Base <= Base * Base /\ Base * Base \in Nat
  BY <1>1, TimesMonotone
<1>3. 6 * Base >= Base + 30
  BY <1>1
<1> QED
  BY <1>1, <1>2, <1>3 DEF MaxU8, MaxU16

\* to_be_bytes and from_be_bytes of a number that fits.
LEMMA U16Sound ==
    ASSUME NEW n \in 0..MaxU16
    PROVE  /\ U16(n) \in Seq(Byte) /\ Len(U16(n)) = 2
           /\ U16(n)[1] = n \div Base /\ U16(n)[2] = n % Base
           /\ (n \div Base) * Base + (n % Base) = n
           /\ n \div Base \in Byte /\ n % Base \in Byte
<1> DEFINE q == n \div Base
           r == n % Base
<1>0. Base \in Nat \ {0} /\ n \in Nat
  BY CodecConstants, Limits
<1>1. q \in Nat /\ q * Base <= n
  BY <1>0, DivBounds
<1>2. n = Base * q + r /\ r \in 0..(Base - 1)
  BY <1>0
<1>3. U16(n) = <<q, r>>
  BY DEF U16
<1> HIDE DEF q, r
<1>4. q <= Base - 1
  <2> SUFFICES ASSUME q >= Base PROVE FALSE
    BY <1>0, <1>1
  <2>1. Base * Base <= q * Base
    BY <1>0, <1>1, TimesMonotone
  <2>2. q * Base \in Nat
    BY <1>0, <1>1
  <2> QED
    BY <1>0, <1>1, <2>1, <2>2, Limits
<1>5. Base * q = q * Base
  BY <1>0, <1>1
<1>6. q \in Byte /\ r \in Byte
  BY <1>0, <1>1, <1>2, <1>4 DEF Byte, MaxU8
<1>7. q * Base + r = n
  BY <1>0, <1>1, <1>2, <1>5
<1>8. U16(n) \in Seq(Byte) /\ Len(U16(n)) = 2 /\ U16(n)[1] = q /\ U16(n)[2] = r
  BY <1>3, <1>6
<1> QED
  BY <1>6, <1>7, <1>8, Zenon DEF q, r

\* Bytes that are all the same.
LEMMA FillIs ==
    ASSUME NEW S, NEW x \in S, NEW n \in Nat
    PROVE  Fill(x, n) \in Seq(S) /\ Len(Fill(x, n)) = n
  BY DEF Fill

\* What is left of bytes when the first n are taken away.
LEMMA DropIs ==
    ASSUME NEW S, NEW b \in Seq(S), NEW n \in 0..Len(b)
    PROVE  /\ Drop(b, n) \in Seq(S) /\ Len(Drop(b, n)) = Len(b) - n
           /\ \A j \in 1..(Len(b) - n) : Drop(b, n)[j] = b[n + j]
  BY DEF Drop

\* Taking m away, then n, takes m + n away.
LEMMA DropDrop ==
    ASSUME NEW S, NEW b \in Seq(S), NEW m \in Nat, NEW n \in Nat, m + n <= Len(b)
    PROVE  Drop(Drop(b, m), n) = Drop(b, m + n)
<1> DEFINE c == Drop(b, m)
           d == Drop(c, n)
           e == Drop(b, m + n)
<1>0. m \in 0..Len(b) /\ m + n \in 0..Len(b) /\ Len(b) \in Nat
  OBVIOUS
<1>1. c \in Seq(S) /\ Len(c) = Len(b) - m /\ \A j \in 1..(Len(b) - m) : c[j] = b[m + j]
  BY <1>0, DropIs
<1>2. e \in Seq(S) /\ Len(e) = Len(b) - (m + n) /\ \A j \in 1..(Len(b) - (m + n)) : e[j] = b[m + n + j]
  BY <1>0, DropIs
<1> HIDE DEF c, e
<1>3. n \in 0..Len(c)
  BY <1>0, <1>1
<1>4. d \in Seq(S) /\ Len(d) = Len(c) - n /\ \A j \in 1..(Len(c) - n) : d[j] = c[n + j]
  BY <1>1, <1>3, DropIs
<1> HIDE DEF d
<1>5. Len(d) = Len(e)
  BY <1>0, <1>1, <1>2, <1>4
<1>6. \A j \in 1..Len(e) : d[j] = e[j]
  BY <1>0, <1>1, <1>2, <1>4
<1>7. d = e
  BY <1>2, <1>4, <1>5, <1>6, SeqEqual
<1> QED
  BY <1>7 DEF d, c, e

-----------------------------------------------------------------------------
(* WireCodec: addresses.                                                   *)

\* A host that has an encoding, empty or not.
Encodable(h) ==
    /\ h \in [is : {"v4", "v6", "name"}, bytes : Seq(Byte)]
    /\ h.is = "v4" => Len(h.bytes) = V4Len
    /\ h.is = "v6" => Len(h.bytes) = V6Len
    /\ h.is = "name" => Len(h.bytes) <= MaxU8

TypeByte(h) == CASE h.is = "v4" -> IPV4 [] h.is = "v6" -> IPV6 [] h.is = "name" -> DOMAIN_NAME

\* The bytes before those of the host.
Lead(h) == IF h.is = "name" THEN <<DOMAIN_NAME, Len(h.bytes)>> ELSE <<TypeByte(h)>>

AddrBytes(h, p) == Lead(h) \o h.bytes \o U16(p)
AddrLen(h) == Len(Lead(h)) + Len(h.bytes) + 2

\* b begins with a host and a port.
StartsWith(b, h, p) ==
    LET k == Len(Lead(h)) IN
    /\ b \in Seq(Byte) /\ Len(b) >= AddrLen(h)
    /\ b[1] = TypeByte(h)
    /\ h.is = "name" => b[2] = Len(h.bytes)
    /\ \A j \in 1..Len(h.bytes) : b[k + j] = h.bytes[j]
    /\ b[k + Len(h.bytes) + 1] = p \div Base
    /\ b[k + Len(h.bytes) + 2] = p % Base

\* The bytes of a concatenation.
LEMMA ConcatIs ==
    ASSUME NEW S, NEW s \in Seq(S), NEW t \in Seq(S)
    PROVE  /\ s \o t \in Seq(S) /\ Len(s \o t) = Len(s) + Len(t)
           /\ \A j \in 1..Len(s) : (s \o t)[j] = s[j]
           /\ \A j \in 1..Len(t) : (s \o t)[Len(s) + j] = t[j]
  OBVIOUS

\* The bytes before a host: its type and, for a name, the length.
LEMMA LeadIs ==
    ASSUME NEW h, Encodable(h)
    PROVE  /\ Lead(h) \in Seq(Byte) /\ Len(Lead(h)) = (IF h.is = "name" THEN 2 ELSE 1)
           /\ Lead(h)[1] = TypeByte(h)
           /\ h.is = "name" => Lead(h)[2] = Len(h.bytes)
           /\ TypeByte(h) \in Byte /\ Len(h.bytes) \in Nat
<1>1. TypeByte(h) \in Byte /\ Len(h.bytes) \in Nat
  BY Limits DEF TypeByte, Encodable, Byte, IPV4, IPV6, DOMAIN_NAME
<1>2. CASE h.is = "name"
  <2>1. Lead(h) = <<DOMAIN_NAME, Len(h.bytes)>> /\ TypeByte(h) = DOMAIN_NAME /\ Len(h.bytes) \in Byte
    BY <1>1, <1>2 DEF Lead, TypeByte, Encodable, Byte
  <2> QED
    BY <1>1, <1>2, <2>1
<1>3. CASE h.is # "name"
  <2>1. Lead(h) = <<TypeByte(h)>>
    BY <1>3 DEF Lead
  <2> QED
    BY <1>1, <1>3, <2>1
<1> QED
  BY <1>2, <1>3

\* The encoding of an address, whatever follows it, begins with the address.
LEMMA AddrStarts ==
    ASSUME NEW h, Encodable(h), NEW p \in 0..MaxU16, NEW r \in Seq(Byte)
    PROVE  /\ AddrBytes(h, p) \in Seq(Byte) /\ Len(AddrBytes(h, p)) = AddrLen(h)
           /\ AddrLen(h) \in Nat
           /\ StartsWith(AddrBytes(h, p) \o r, h, p)
<1> DEFINE l == Lead(h)
           d == h.bytes
           u == U16(p)
           c == l \o d
           e == c \o u
           b == e \o r
<1>1. l \in Seq(Byte) /\ d \in Seq(Byte) /\ u \in Seq(Byte) /\ Len(u) = 2
      /\ u[1] = p \div Base /\ u[2] = p % Base
  BY LeadIs, U16Sound DEF Encodable
<1>2. /\ Len(l) = (IF h.is = "name" THEN 2 ELSE 1) /\ l[1] = TypeByte(h)
      /\ h.is = "name" => l[2] = Len(d)
  BY LeadIs
<1>3. AddrBytes(h, p) = e /\ AddrLen(h) = Len(l) + Len(d) + 2
  BY DEF AddrBytes, AddrLen
<1> HIDE DEF l, d, u
<1>4. c \in Seq(Byte) /\ Len(c) = Len(l) + Len(d)
      /\ (\A j \in 1..Len(l) : c[j] = l[j]) /\ (\A j \in 1..Len(d) : c[Len(l) + j] = d[j])
  BY <1>1, ConcatIs
<1> HIDE DEF c
<1>5. e \in Seq(Byte) /\ Len(e) = Len(c) + Len(u)
      /\ (\A j \in 1..Len(c) : e[j] = c[j]) /\ (\A j \in 1..Len(u) : e[Len(c) + j] = u[j])
  <2>1. c \in Seq(Byte) /\ u \in Seq(Byte)
    BY <1>1, <1>4
  <2> QED
    BY <2>1, ConcatIs
<1> HIDE DEF e
<1>6. b \in Seq(Byte) /\ Len(b) = Len(e) + Len(r) /\ (\A j \in 1..Len(e) : b[j] = e[j])
  <2>1. e \in Seq(Byte)
    BY <1>5
  <2> QED
    BY <2>1, ConcatIs
<1> HIDE DEF b
<1>7. Len(l) \in 1..2 /\ Len(d) \in Nat /\ Len(r) \in Nat /\ Len(c) \in Nat /\ Len(e) = Len(l) + Len(d) + 2
  BY <1>1, <1>2, <1>4, <1>5
<1>8. \A j \in 1..Len(c) : b[j] = c[j]
  BY <1>4, <1>5, <1>6, <1>7
<1>9. b[1] = l[1] /\ (h.is = "name" => b[2] = l[2])
  BY <1>2, <1>4, <1>7, <1>8
<1>10. \A j \in 1..Len(d) : b[Len(l) + j] = d[j]
  BY <1>4, <1>7, <1>8
<1>11. b[Len(l) + Len(d) + 1] = u[1] /\ b[Len(l) + Len(d) + 2] = u[2]
  BY <1>1, <1>4, <1>5, <1>6, <1>7
<1>12. Len(b) >= AddrLen(h)
  BY <1>3, <1>6, <1>7
<1>13. StartsWith(b, h, p)
  BY <1>1, <1>2, <1>6, <1>9, <1>10, <1>11, <1>12 DEF StartsWith, l, d
<1>14. b = AddrBytes(h, p) \o r
  BY <1>3 DEF b
<1>15. AddrLen(h) \in Nat /\ Len(e) = AddrLen(h)
  BY <1>3, <1>7
<1> QED
  BY <1>3, <1>5, <1>13, <1>14, <1>15, Zenon

\* Reading an address gives it back, and leaves what follows it.
LEMMA AddrReads ==
    ASSUME NEW h, Encodable(h), NEW p \in 0..MaxU16, NEW e \in BOOLEAN, e \/ h.bytes # <<>>,
           NEW b, StartsWith(b, h, p)
    PROVE  ReadAddr(b, e) = [st |-> "ok", host |-> h, port |-> p, rest |-> Drop(b, AddrLen(h))]
<1> DEFINE k == Len(Lead(h))
           n == Len(h.bytes)
           rest == Drop(b, k)
<1>0. b \in Seq(Byte) /\ Len(b) \in Nat /\ k \in 1..2 /\ n \in Nat /\ Len(b) >= k + n + 2
      /\ k = (IF h.is = "name" THEN 2 ELSE 1) /\ AddrLen(h) = k + n + 2
      /\ h.is \in {"v4", "v6", "name"} /\ h.bytes \in Seq(Byte)
      /\ h = [is |-> h.is, bytes |-> h.bytes]
  BY LeadIs DEF StartsWith, Encodable, AddrLen
<1>1. /\ b[1] = TypeByte(h) /\ (h.is = "name" => b[2] = n)
      /\ (\A j \in 1..n : b[k + j] = h.bytes[j])
      /\ b[k + n + 1] = p \div Base /\ b[k + n + 2] = p % Base
  BY DEF StartsWith
<1>2. b # <<>> /\ (h.is = "name" => Len(b) > 1)
  BY <1>0
<1>3. TypeByte(h) = (IF h.is = "name" THEN 3 ELSE IF h.is = "v4" THEN 1 ELSE 4)
  BY <1>0 DEF TypeByte, IPV4, IPV6, DOMAIN_NAME
<1>s. /\ h.is = "v4" => n = V4Len
      /\ h.is = "v6" => n = V6Len
      /\ h.is = "name" => e \/ n # 0
  BY <1>0 DEF Encodable
<1> HIDE DEF k, n
<1>4. rest \in Seq(Byte) /\ Len(rest) = Len(b) - k /\ \A j \in 1..(Len(b) - k) : rest[j] = b[k + j]
  <2>1. k \in 0..Len(b)
    BY <1>0
  <2> QED
    <3>1. b \in Seq(Byte)
      BY <1>0
    <3> QED
      BY <2>1, <3>1, DropIs
<1>5. Drop(rest, n + 2) = Drop(b, k + (n + 2))
  BY <1>0, DropDrop
<1> HIDE DEF rest
<1>6. n \in 0..Len(rest) /\ n + 2 <= Len(rest) /\ Len(rest) \in Nat
  BY <1>0, <1>4
<1>7. SubSeq(rest, 1, n) = h.bytes
  <2> DEFINE s == SubSeq(rest, 1, n)
  <2>1. s \in Seq(Byte) /\ Len(s) = n /\ \A j \in 1..n : s[j] = rest[j]
    BY <1>0, <1>4, <1>6, SMTT(30)
  <2> HIDE DEF s
  <2>0. \A j \in 1..n : j \in 1..(Len(b) - k)
    BY <1>0
  <2>2. \A j \in 1..n : s[j] = h.bytes[j]
    BY <1>1, <1>4, <2>0, <2>1, Zenon
  <2>3. s = h.bytes
    BY <1>0, <2>1, <2>2, SeqEqual DEF n
  <2> QED
    BY <2>3 DEF s
<1>8. FromU16(Drop(rest, n)) = p
  <2> DEFINE f == Drop(rest, n)
  <2>1. \A j \in 1..(Len(rest) - n) : f[j] = rest[n + j]
    BY <1>4, <1>6, DropIs, ZenonT(60)
  <2> HIDE DEF f
  <2>2. f[1] = rest[n + 1] /\ f[2] = rest[n + 2]
    <3>1. 1 \in 1..(Len(rest) - n) /\ 2 \in 1..(Len(rest) - n)
      BY <1>6
    <3> QED
      BY <2>1, <3>1, Zenon
  <2>3. rest[n + 1] = b[k + n + 1] /\ rest[n + 2] = b[k + n + 2]
    <3>1. n + 1 \in 1..(Len(b) - k) /\ n + 2 \in 1..(Len(b) - k)
      BY <1>0
    <3>2. rest[n + 1] = b[k + (n + 1)] /\ rest[n + 2] = b[k + (n + 2)]
      BY <1>4, <3>1, Zenon
    <3>3. k + (n + 1) = k + n + 1 /\ k + (n + 2) = k + n + 2
      BY <1>0
    <3> QED
      BY <3>2, <3>3, Zenon
  <2>4. f[1] = p \div Base /\ f[2] = p % Base
    BY <1>1, <2>2, <2>3
  <2>5. FromU16(f) = f[1] * Base + f[2]
    BY DEF FromU16
  <2>6. FromU16(f) = p
    BY <2>4, <2>5, U16Sound, Zenon
  <2> QED
    BY <2>6 DEF f
<1>9. Drop(rest, n + 2) = Drop(b, AddrLen(h))
  BY <1>0, <1>5
<1> DEFINE name == b[1] = DOMAIN_NAME
           size == CASE b[1] = IPV4 -> V4Len [] b[1] = IPV6 -> V6Len
                     [] name -> (IF Len(b) > 1 THEN b[2] ELSE 0) [] OTHER -> 0
           tail == Drop(b, IF name THEN 2 ELSE 1)
<1>10. name <=> h.is = "name"
  BY <1>0, <1>1, <1>3 DEF DOMAIN_NAME
<1>11. size = n
  BY <1>0, <1>1, <1>2, <1>3, <1>s DEF DOMAIN_NAME, IPV4, IPV6
<1>12. tail = rest
  BY <1>0, <1>10 DEF rest
<1>13. b[1] \in {IPV4, IPV6, DOMAIN_NAME}
  BY <1>0, <1>1, <1>3 DEF DOMAIN_NAME, IPV4, IPV6
<1>14. (CASE b[1] = IPV4 -> "v4" [] b[1] = IPV6 -> "v6" [] name -> "name") = h.is
  BY <1>0, <1>1, <1>3 DEF DOMAIN_NAME, IPV4, IPV6
<1> DEFINE kind == CASE b[1] = IPV4 -> "v4" [] b[1] = IPV6 -> "v6" [] name -> "name"
           answer == CASE b[1] \notin {IPV4, IPV6, DOMAIN_NAME} -> [st |-> Bad]
                       [] name /\ ~e /\ Len(b) > 1 /\ size = 0 -> [st |-> Bad]
                       [] OTHER -> IF (name /\ Len(b) = 1) \/ Len(tail) < size + 2 THEN [st |-> Short]
                                   ELSE [st |-> "ok", host |-> [is |-> kind, bytes |-> SubSeq(tail, 1, size)],
                                         port |-> FromU16(Drop(tail, size)), rest |-> Drop(tail, size + 2)]
<1>15. ReadAddr(b, e) = answer
  BY <1>2 DEF ReadAddr
<1>16. kind = h.is
  BY <1>14
<1>17. ~(name /\ ~e /\ Len(b) > 1 /\ size = 0)
  BY <1>10, <1>11, <1>s
<1>18. ~((name /\ Len(b) = 1) \/ Len(tail) < size + 2)
  BY <1>0, <1>2, <1>6, <1>10, <1>11, <1>12
<1> HIDE DEF name, size, tail, kind
<1>19. answer = [st |-> "ok", host |-> [is |-> kind, bytes |-> SubSeq(tail, 1, size)],
                 port |-> FromU16(Drop(tail, size)), rest |-> Drop(tail, size + 2)]
  BY <1>13, <1>17, <1>18
<1> HIDE DEF answer
<1>20. SubSeq(tail, 1, size) = h.bytes /\ FromU16(Drop(tail, size)) = p /\ Drop(tail, size + 2) = Drop(b, AddrLen(h))
  BY <1>7, <1>8, <1>9, <1>11, <1>12
<1>21. [is |-> kind, bytes |-> SubSeq(tail, 1, size)] = h
  BY <1>0, <1>16, <1>20, Zenon
<1> QED
  BY <1>15, <1>19, <1>20, <1>21, Zenon

-----------------------------------------------------------------------------
(* WireCodec: what the encoders produce.                                   *)

\* Taking a known beginning away, or taking it.
LEMMA DropConcat ==
    ASSUME NEW S, NEW s \in Seq(S), NEW t \in Seq(S)
    PROVE  Drop(s \o t, Len(s)) = t /\ SubSeq(s \o t, 1, Len(s)) = s
<1> DEFINE c == s \o t
           d == Drop(c, Len(s))
           e == SubSeq(c, 1, Len(s))
<1>1. c \in Seq(S) /\ Len(c) = Len(s) + Len(t)
      /\ (\A j \in 1..Len(s) : c[j] = s[j]) /\ (\A j \in 1..Len(t) : c[Len(s) + j] = t[j])
  BY ConcatIs
<1> HIDE DEF c
<1>2. Len(s) \in 0..Len(c) /\ Len(s) \in Nat /\ Len(t) \in Nat
  BY <1>1
<1>3. d \in Seq(S) /\ Len(d) = Len(c) - Len(s) /\ \A j \in 1..(Len(c) - Len(s)) : d[j] = c[Len(s) + j]
  BY <1>1, <1>2, DropIs, ZenonT(60)
<1>4. e \in Seq(S) /\ Len(e) = Len(s) /\ \A j \in 1..Len(s) : e[j] = c[j]
  BY <1>1, <1>2
<1> HIDE DEF d, e
<1>5. d = t
  <2>1. Len(d) = Len(t) /\ \A j \in 1..Len(t) : d[j] = t[j]
    BY <1>1, <1>2, <1>3
  <2> QED
    BY <1>3, <2>1, SeqEqual
<1>6. e = s
  <2>1. \A j \in 1..Len(s) : e[j] = s[j]
    BY <1>1, <1>4
  <2> QED
    BY <1>4, <2>1, SeqEqual
<1> QED
  BY <1>5, <1>6 DEF d, e, c

\* A reader of an address that comes first.
LEMMA ReadsAddr ==
    ASSUME NEW h, Encodable(h), NEW p \in 0..MaxU16, NEW e \in BOOLEAN, e \/ h.bytes # <<>>,
           NEW r \in Seq(Byte)
    PROVE  ReadAddr(AddrBytes(h, p) \o r, e) = [st |-> "ok", host |-> h, port |-> p, rest |-> r]
<1> DEFINE a == AddrBytes(h, p)
           b == a \o r
<1>1. a \in Seq(Byte) /\ Len(a) = AddrLen(h) /\ StartsWith(b, h, p)
  BY AddrStarts
<1>2. ReadAddr(b, e) = [st |-> "ok", host |-> h, port |-> p, rest |-> Drop(b, AddrLen(h))]
  BY <1>1, AddrReads
<1>3. Drop(b, Len(a)) = r
  BY <1>1, DropConcat
<1>4. Drop(b, AddrLen(h)) = r
  BY <1>1, <1>3, Zenon
<1> QED
  BY <1>2, <1>4, Zenon

\* The hosts of the model, by kind.
LEMMA HostIs ==
    ASSUME NEW h \in Hosts
    PROVE  /\ h \in [is : {"v4", "v6", "name", "colon"}, bytes : Seq(Byte)]
           /\ h.is = "v4" => Len(h.bytes) = V4Len
           /\ h.is = "v6" => Len(h.bytes) = V6Len
           /\ h.is = "colon" => h.bytes = <<1, 2>>
<1> USE CodecConstants, Limits
<1>0. {1, 2, 3, 4} \subseteq Byte
  BY DEF Byte
<1>1. CASE \E x \in {1, 3} : h = [is |-> "v4", bytes |-> Fill(x, V4Len)]
  <2>1. PICK x \in {1, 3} : h = [is |-> "v4", bytes |-> Fill(x, V4Len)]
    BY <1>1
  <2>a. x \in Byte /\ V4Len \in Nat
    BY <1>0
  <2>2. Fill(x, V4Len) \in Seq(Byte) /\ Len(Fill(x, V4Len)) = V4Len
    BY <2>a, FillIs
  <2> QED
    BY <2>1, <2>2
<1>2. CASE h = [is |-> "v6", bytes |-> Fill(3, V6Len)]
  <2>a. 3 \in Byte /\ V6Len \in Nat
    BY <1>0
  <2>2. Fill(3, V6Len) \in Seq(Byte) /\ Len(Fill(3, V6Len)) = V6Len
    BY <2>a, FillIs
  <2> QED
    BY <1>2, <2>2
<1>3. CASE h = [is |-> "colon", bytes |-> <<1, 2>>]
  <2>1. <<1, 2>> \in Seq(Byte)
    BY <1>0
  <2> QED
    BY <1>3, <2>1
<1>4. CASE \E n \in {0, 1, MaxU8, MaxU8 + 1} : h = [is |-> "name", bytes |-> Fill(1, n)]
  <2>1. PICK n \in {0, 1, MaxU8, MaxU8 + 1} : h = [is |-> "name", bytes |-> Fill(1, n)]
    BY <1>4
  <2>2. n \in Nat
    OBVIOUS
  <2>3. Fill(1, n) \in Seq(Byte)
    BY <1>0, <2>2, FillIs
  <2> QED
    BY <2>1, <2>3
<1> QED
  BY <1>1, <1>2, <1>3, <1>4 DEF Hosts

\* Ports and payloads fit their fields, or are one too large.
LEMMA PortsAndPayloads ==
    /\ Ports \subseteq 0..MaxU16
    /\ \A d \in Payloads : d \in Seq(Byte) /\ Len(d) \in Nat
<1>1. Ports \subseteq 0..MaxU16
  BY CodecConstants, Limits DEF Ports
<1>2. 4 \in Byte /\ {0, 1, MaxU16, MaxU16 + 1} \subseteq Nat
  BY Limits DEF Byte
<1>3. ASSUME NEW n \in {0, 1, MaxU16, MaxU16 + 1} PROVE Fill(4, n) \in Seq(Byte) /\ Len(Fill(4, n)) \in Nat
  BY <1>2, FillIs
<1> QED
  BY <1>1, <1>3 DEF Payloads

\* No encoding is the mark of a refusal.
LEMMA NotBad == \A s \in Seq(Byte) : s # Bad
<1>1. Byte \subseteq Nat
  BY Limits DEF Byte
<1>2. ASSUME NEW s \in Seq(Byte) PROVE s # Bad
  <2>1. Len(s) \in Nat /\ s = [i \in 1..Len(s) |-> s[i]] /\ \A i \in 1..Len(s) : s[i] \in Nat
    BY <1>1
  <2>2. s \in Seq(Nat)
    BY <2>1
  <2> QED
    BY <2>2, CodecConstants
<1> QED
  BY <1>2

\* Parts that were all encoded are concatenated.
LEMMA JoinedAll ==
    /\ \A a, b \in Seq(Byte) : Joined(<<a, b>>) = a \o b
    /\ \A a, b, c \in Seq(Byte) : Joined(<<a, b, c>>) = a \o b \o c
<1>1. ASSUME NEW a \in Seq(Byte), NEW b \in Seq(Byte) PROVE Joined(<<a, b>>) = a \o b
  <2>1. a # Bad /\ b # Bad
    BY NotBad
  <2> QED
    BY <2>1 DEF Joined
<1>2. ASSUME NEW a \in Seq(Byte), NEW b \in Seq(Byte), NEW c \in Seq(Byte)
      PROVE  Joined(<<a, b, c>>) = a \o b \o c
  <2>1. a # Bad /\ b # Bad /\ c # Bad
    BY NotBad
  <2> QED
    BY <2>1 DEF Joined
<1> QED
  BY <1>1, <1>2

\* One part that was refused refuses the whole.
LEMMA JoinedRefused ==
    /\ \A a : Joined(<<a, Bad>>) = Bad
    /\ \A a : Joined(<<Bad, a>>) = Bad
    /\ \A a, c : Joined(<<a, Bad, c>>) = Bad
    /\ \A b, c : Joined(<<Bad, b, c>>) = Bad
  BY DEF Joined

\* Two bytes, written one after the other.
LEMMA TwoBytes ==
    ASSUME NEW a, NEW b
    PROVE  <<a>> \o <<b>> = <<a, b>>
<1> DEFINE S == {a, b}
           s == <<a>>
           t == <<b>>
           u == <<a, b>>
           c == s \o t
<1>1. s \in Seq(S) /\ t \in Seq(S) /\ u \in Seq(S) /\ Len(s) = 1 /\ Len(t) = 1 /\ Len(u) = 2
      /\ s[1] = a /\ t[1] = b /\ u[1] = a /\ u[2] = b
  OBVIOUS
<1> HIDE DEF s, t, u, S
<1>2. c \in Seq(S) /\ Len(c) = 2 /\ c[1] = s[1] /\ c[2] = t[1]
  BY <1>1, ConcatIs
<1> HIDE DEF c
<1>3. \A i \in 1..2 : c[i] = u[i]
  BY <1>1, <1>2
<1>4. c = u
  BY <1>1, <1>2, <1>3, SeqEqual
<1> QED
  BY <1>4 DEF c, s, t, u

\* A name, its length before it.
LEMMA NameAddr ==
    ASSUME NEW h, h \in [is : {"name"}, bytes : Seq(Byte)], NEW p \in 0..MaxU16
    PROVE  LET a == Joined(<<<<DOMAIN_NAME>>, NameBytes(h.bytes), U16(p)>>) IN
           /\ Encodable(h) => a = AddrBytes(h, p)
           /\ ~Encodable(h) => a = Bad
<1> DEFINE n == Len(h.bytes)
           a == Joined(<<<<DOMAIN_NAME>>, NameBytes(h.bytes), U16(p)>>)
<1>0. Encodable(h) <=> n <= MaxU8
  BY DEF Encodable
<1>u. U16(p) \in Seq(Byte) /\ <<DOMAIN_NAME>> \in Seq(Byte) /\ n \in Nat
  BY U16Sound, Limits DEF DOMAIN_NAME, Byte
<1>1. CASE n > MaxU8
  <2>1. NameBytes(h.bytes) = Bad
    BY <1>1 DEF NameBytes
  <2>2. a = Bad
    BY <2>1, JoinedRefused
  <2> QED
    BY <1>0, <1>1, <1>u, <2>2, Limits
<1>2. CASE ~(n > MaxU8)
  <2> DEFINE x == <<n>>
             y == x \o h.bytes
             z == <<DOMAIN_NAME>>
  <2>1. NameBytes(h.bytes) = y
    BY <1>2 DEF NameBytes
  <2>2. x \in Seq(Byte) /\ h.bytes \in Seq(Byte) /\ n \in Byte
    BY <1>2, <1>u, Limits DEF Byte
  <2>3. y \in Seq(Byte)
    BY <2>2, ConcatIs
  <2>z. z \in Seq(Byte)
    BY <1>u
  <2>6. z \o x = <<DOMAIN_NAME, n>>
    BY <2>2, TwoBytes
  <2> HIDE DEF y, z
  <2>4. a = z \o y \o U16(p)
    <3>1. Joined(<<z, y, U16(p)>>) = z \o y \o U16(p)
      BY <1>u, <2>z, <2>3, JoinedAll, ZenonT(60)
    <3> QED
      BY <3>1, <2>1, Zenon DEF z
  <2>5. z \o y = (z \o x) \o h.bytes
    BY <2>z, <2>2, ConcatAssociative, SMTT(30) DEF y
  <2>7. Lead(h) = <<DOMAIN_NAME, n>>
    BY DEF Lead
  <2>8. AddrBytes(h, p) = (Lead(h) \o h.bytes) \o U16(p)
    BY DEF AddrBytes
  <2> HIDE DEF x, y, z
  <2>9. a = AddrBytes(h, p)
    BY <2>4, <2>5, <2>6, <2>7, <2>8, Zenon
  <2> QED
    BY <1>0, <1>2, <1>u, <2>9, Limits
<1> QED
  BY <1>1, <1>2

\* build_trojanc_addr refuses a host, or encodes it.
LEMMA TrojancAddrIs ==
    ASSUME NEW h \in Hosts, NEW p \in 0..MaxU16
    PROVE  \/ TrojancAddr(h, p) = Bad /\ h.is \in {"name", "colon"}
           \/ TrojancAddr(h, p) = AddrBytes(h, p) /\ Encodable(h) /\ h.bytes # <<>>
<1>0. /\ h \in [is : {"v4", "v6", "name", "colon"}, bytes : Seq(Byte)]
      /\ h.is = "v4" => Len(h.bytes) = V4Len
      /\ h.is = "v6" => Len(h.bytes) = V6Len
      /\ V4Len \in Nat \ {0} /\ V6Len \in Nat \ {0}
  BY HostIs, CodecConstants
<1>1. CASE h.is \in {"v4", "v6"}
  <2>1. Encodable(h) /\ h.bytes # <<>>
    BY <1>0, <1>1 DEF Encodable
  <2>2. TrojancAddr(h, p) = <<TypeByte(h)>> \o h.bytes \o U16(p)
    BY <1>1 DEF TrojancAddr, TypeByte
  <2>3. Lead(h) = <<TypeByte(h)>>
    BY <1>1 DEF Lead
  <2> QED
    BY <2>1, <2>2, <2>3 DEF AddrBytes
<1>2. CASE h.is = "colon"
  BY <1>2 DEF TrojancAddr
<1>3. CASE h.is = "name"
  <2>1. TrojancAddr(h, p) = IF h.bytes = <<>> THEN Bad
                            ELSE Joined(<<<<DOMAIN_NAME>>, NameBytes(h.bytes), U16(p)>>)
    BY <1>3 DEF TrojancAddr
  <2>2. h \in [is : {"name"}, bytes : Seq(Byte)]
    BY <1>0, <1>3
  <2> QED
    BY <1>3, <2>1, <2>2, NameAddr
<1> QED
  BY <1>0, <1>1, <1>2, <1>3

-----------------------------------------------------------------------------
(* WireCodec: frames, what one message is on the stream.                   *)

DatagramBytes(h, p, d) == AddrBytes(h, p) \o U16(Len(d)) \o d
AuthBytes(h, p) == <<2, 1>> \o AddrBytes(h, p)
HeaderBytes(net, h, p) == IF h.bytes = <<>> THEN <<net, NONE>> ELSE <<net>> \o AddrBytes(h, p)

\* The host and port of a frame, encoded, are bytes.
LEMMA AddrIsBytes ==
    ASSUME NEW h, Encodable(h), NEW p \in 0..MaxU16
    PROVE  AddrBytes(h, p) \in Seq(Byte)
<1>1. <<>> \in Seq(Byte)
  OBVIOUS
<1> QED
  BY <1>1, AddrStarts

\* Concatenation of bytes, in the forms the proofs below cite.
LEMMA Concats ==
    /\ \A a, b \in Seq(Byte) : a \o b \in Seq(Byte)
    /\ \A a, b, c \in Seq(Byte) : (a \o b) \o c = a \o (b \o c)
  BY ConcatIs, ConcatAssociative

\* quic_to_remote and read_one_udp_response read a datagram back.
LEMMA DatagramReads ==
    ASSUME NEW h, Encodable(h), h.bytes # <<>>, NEW p \in 0..MaxU16,
           NEW d \in Seq(Byte), Len(d) <= MaxU16, NEW t \in Seq(Byte)
    PROVE  /\ DatagramBytes(h, p, d) \in Seq(Byte)
           /\ ReadDatagram(DatagramBytes(h, p, d) \o t) = [st |-> "ok", msg |-> <<h, p, d>>, rest |-> t]
<1> DEFINE a == AddrBytes(h, p)
           n == Len(d)
           u == U16(n)
           body == d \o t
           r == u \o body
           b == DatagramBytes(h, p, d) \o t
<1>0. a \in Seq(Byte)
  BY AddrIsBytes
<1>1. n \in 0..MaxU16 /\ n \in Nat
  BY Limits
<1>2. u \in Seq(Byte) /\ Len(u) = 2 /\ u[1] * Base + u[2] = n
  <2> HIDE DEF n
  <2>1. /\ U16(n) \in Seq(Byte) /\ Len(U16(n)) = 2
        /\ U16(n)[1] = n \div Base /\ U16(n)[2] = n % Base
        /\ (n \div Base) * Base + (n % Base) = n
    BY <1>1, U16Sound
  <2> QED
    BY <2>1, Zenon
<1> HIDE DEF a, u
<1>3. DatagramBytes(h, p, d) = a \o u \o d
  BY DEF DatagramBytes, a, u
<1>4. DatagramBytes(h, p, d) \in Seq(Byte) /\ b = a \o r /\ r \in Seq(Byte) /\ body \in Seq(Byte)
  <2>1. a \o u \in Seq(Byte) /\ body \in Seq(Byte)
    BY <1>0, <1>2, Concats, Zenon
  <2>2. (a \o u) \o d \in Seq(Byte) /\ r \in Seq(Byte)
    BY <1>2, <2>1, Concats, Zenon
  <2>3. (a \o u \o d) \o t = a \o r
    <3>1. ((a \o u) \o d) \o t = (a \o u) \o (d \o t)
      BY <2>1, Concats, Zenon
    <3>2. (a \o u) \o (d \o t) = a \o (u \o (d \o t))
      BY <1>0, <1>2, <2>1, Concats, ZenonT(60)
    <3> QED
      BY <3>1, <3>2, Zenon
  <2> QED
    BY <1>3, <2>1, <2>2, <2>3, Zenon
<1>5. ReadAddr(a \o r, FALSE) = [st |-> "ok", host |-> h, port |-> p, rest |-> r]
  <2> HIDE DEF r
  <2> QED
    BY <1>4, ReadsAddr DEF a
<1> DEFINE x == ReadAddr(b, FALSE)
<1>6. x = [st |-> "ok", host |-> h, port |-> p, rest |-> r]
  BY <1>4, <1>5, Zenon
<1>7. Drop(r, 2) = body /\ SubSeq(body, 1, n) = d /\ Drop(body, n) = t
  <2>1. Drop(r, Len(u)) = body
    <3> HIDE DEF body
    <3> QED
      BY <1>2, <1>4, DropConcat
  <2>2. SubSeq(body, 1, n) = d /\ Drop(body, n) = t
    BY DropConcat
  <2> QED
    BY <1>2, <2>1, <2>2, Zenon
<1>8. Len(r) >= 2 /\ r[1] = u[1] /\ r[2] = u[2] /\ Len(body) >= n
  <2>1. Len(body) = n + Len(t) /\ Len(t) \in Nat
    BY ConcatIs
  <2> HIDE DEF body
  <2>a. u \in Seq(Byte) /\ body \in Seq(Byte)
    BY <1>2, <1>4
  <2>b. Len(r) = Len(u) + Len(body) /\ \A j \in 1..Len(u) : r[j] = u[j]
    BY <2>a, ConcatIs
  <2>2. Len(r) = 2 + Len(body) /\ \A j \in 1..2 : r[j] = u[j]
    BY <1>2, <2>b
  <2> HIDE DEF r
  <2> QED
    BY <1>1, <2>1, <2>2
<1> HIDE DEF b, r, body
<1>9. FromU16(r) = n
  BY <1>2, <1>8, Zenon DEF FromU16
<1>10. ~(Len(r) < 2) /\ ~(Len(body) < n)
  <2>1. Len(r) \in Nat /\ Len(body) \in Nat
    BY <1>4
  <2> QED
    BY <1>1, <1>8, <2>1
<1> HIDE DEF x, n
<1>11. x.st = "ok" /\ x.host = h /\ x.port = p /\ x.rest = r
  BY <1>6
<1>12. ReadDatagram(b) = [st |-> "ok", msg |-> <<h, p, d>>, rest |-> t]
  BY <1>7, <1>9, <1>10, <1>11 DEF ReadDatagram, x
<1> QED
  BY <1>4, <1>12 DEF b

\* read_underlay_auth_async reads a frame back, and refuses one without a host.
LEMMA AuthReads ==
    ASSUME NEW h, Encodable(h), NEW p \in 0..MaxU16, NEW t \in Seq(Byte)
    PROVE  /\ AuthBytes(h, p) \in Seq(Byte)
           /\ h.bytes # <<>> => ReadAuth(AuthBytes(h, p) \o t) = [st |-> "ok", msg |-> <<h, p, <<2, 1>>>>, rest |-> t]
           /\ h.bytes = <<>> => ReadAuth(AuthBytes(h, p) \o t).st = Bad
<1> DEFINE a == AddrBytes(h, p)
           k == <<2, 1>>
           r == a \o t
           b == AuthBytes(h, p) \o t
<1>0. a \in Seq(Byte)
  BY AddrIsBytes
<1>1. k \in Seq(Byte) /\ Len(k) = 2
  BY Limits DEF Byte
<1>2. StartsWith(r, h, p)
  BY AddrStarts
<1> HIDE DEF a, k
<1>3. AuthBytes(h, p) = k \o a
  BY DEF AuthBytes, a, k
<1>4. AuthBytes(h, p) \in Seq(Byte) /\ r \in Seq(Byte) /\ b = k \o r
  <2>1. k \o a \in Seq(Byte) /\ r \in Seq(Byte)
    BY <1>0, <1>1, Concats, Zenon
  <2>2. (k \o a) \o t = k \o (a \o t)
    BY <1>0, <1>1, Concats, Zenon
  <2> QED
    BY <1>3, <2>1, <2>2, Zenon
<1>5. Drop(b, 2) = r /\ SubSeq(b, 1, 2) = k /\ Len(b) = 2 + Len(r) /\ Len(r) \in Nat
  <2> HIDE DEF r
  <2>1. k \in Seq(Byte) /\ r \in Seq(Byte)
    BY <1>1, <1>4
  <2>2. Drop(k \o r, Len(k)) = r /\ SubSeq(k \o r, 1, Len(k)) = k
    BY <2>1, DropConcat
  <2>3. Len(k \o r) = Len(k) + Len(r) /\ Len(r) \in Nat
    BY <2>1, ConcatIs
  <2> QED
    BY <1>1, <1>4, <2>2, <2>3, Zenon
<1> HIDE DEF b
<1> DEFINE x == ReadAddr(Drop(b, 2), FALSE)
<1>6. ~(Len(b) < 2)
  BY <1>5
<1>7. ReadAuth(b) = IF x.st # "ok" THEN x
                    ELSE [st |-> "ok", msg |-> <<x.host, x.port, SubSeq(b, 1, 2)>>, rest |-> x.rest]
  BY <1>6 DEF ReadAuth
<1>8. ASSUME h.bytes # <<>> PROVE ReadAuth(b) = [st |-> "ok", msg |-> <<h, p, k>>, rest |-> t]
  <2>1. ReadAddr(r, FALSE) = [st |-> "ok", host |-> h, port |-> p, rest |-> t]
    BY <1>8, ReadsAddr DEF a
  <2>2. x = [st |-> "ok", host |-> h, port |-> p, rest |-> t]
    BY <1>5, <2>1, Zenon
  <2> HIDE DEF x, r
  <2>3. x.st = "ok" /\ x.host = h /\ x.port = p /\ x.rest = t
    BY <2>2
  <2> QED
    BY <1>5, <1>7, <2>3, Zenon
<1>9. ASSUME h.bytes = <<>> PROVE ReadAuth(b).st = Bad
  <2> HIDE DEF r
  <2>0. h.is = "name" /\ Len(h.bytes) = 0
    <3>1. Len(h.bytes) = 0
      BY <1>9
    <3> QED
      BY <3>1, CodecConstants DEF Encodable
  <2>1. r \in Seq(Byte) /\ Len(r) >= 4 /\ r[1] = 3 /\ r[2] = 0
    <3>1. TypeByte(h) = 3 /\ Len(Lead(h)) = 2
      BY <2>0, LeadIs DEF TypeByte, DOMAIN_NAME
    <3>2. AddrLen(h) = 4
      BY <2>0, <3>1 DEF AddrLen
    <3> QED
      BY <1>2, <1>4, <2>0, <3>1, <3>2 DEF StartsWith
  <2>2. ReadAddr(r, FALSE) = [st |-> Bad]
    <3>1. r # <<>>
      BY <2>1
    <3> QED
      BY <2>1, <3>1 DEF ReadAddr, IPV4, IPV6, DOMAIN_NAME
  <2>3. x = [st |-> Bad]
    BY <1>5, <2>2, Zenon
  <2> HIDE DEF x
  <2>4. x.st = Bad /\ Bad # "ok"
    BY <2>3, CodecConstants
  <2> QED
    BY <1>7, <2>4, Zenon
<1> QED
  BY <1>4, <1>8, <1>9, Zenon DEF b, k

\* read_proxy_header_async reads a stream header back, the one without a host included.
LEMMA HeaderReads ==
    ASSUME NEW h, Encodable(h), NEW p \in 0..MaxU16, NEW t \in Seq(Byte), NEW net \in {1, 3},
           h.bytes = <<>> => p = 0
    PROVE  /\ HeaderBytes(net, h, p) \in Seq(Byte)
           /\ HeaderBytes(net, h, p) \o t # <<>>
           /\ (HeaderBytes(net, h, p) \o t)[1] = net
           /\ ReadHeader(HeaderBytes(net, h, p) \o t) = [st |-> "ok", host |-> h, port |-> p, rest |-> t]
<1> DEFINE f == HeaderBytes(net, h, p)
           b == f \o t
<1>n. net \in Byte /\ NONE \in Byte /\ NONE >= 5
  BY Limits DEF Byte, NONE
<1>1. CASE h.bytes = <<>>
  <2>1. f = <<net, NONE>>
    BY <1>1 DEF HeaderBytes
  <2>2. f \in Seq(Byte) /\ Len(f) = 2 /\ f[1] = net /\ f[2] = NONE
    BY <1>n, <2>1
  <2> HIDE DEF f
  <2>3. b \in Seq(Byte) /\ Len(b) = 2 + Len(t) /\ \A j \in 1..2 : b[j] = f[j]
    <3>1. f \in Seq(Byte)
      BY <2>2
    <3>2. b \in Seq(Byte) /\ Len(b) = Len(f) + Len(t) /\ \A j \in 1..Len(f) : b[j] = f[j]
      BY <3>1, ConcatIs
    <3> QED
      BY <2>2, <3>2, Zenon
  <2>4. Drop(b, 2) = t
    BY <2>2, DropConcat
  <2> HIDE DEF b
  <2>5. b[1] = net /\ b[2] = NONE /\ Len(b) > 1 /\ b # <<>>
    BY <2>2, <2>3
  <2>6. h = [is |-> "name", bytes |-> <<>>]
    <3>1. Len(h.bytes) = 0
      BY <1>1
    <3>2. h.is = "name"
      BY <3>1, CodecConstants DEF Encodable
    <3> QED
      BY <1>1, <3>2 DEF Encodable
  <2>7. ReadHeader(b) = [st |-> "ok", host |-> [is |-> "name", bytes |-> <<>>], port |-> 0, rest |-> Drop(b, 2)]
    BY <2>5, Zenon DEF ReadHeader
  <2>8. ReadHeader(b) = [st |-> "ok", host |-> h, port |-> p, rest |-> t]
    BY <1>1, <2>4, <2>6, <2>7, Zenon
  <2> QED
    BY <2>2, <2>5, <2>8 DEF b, f
<1>2. CASE h.bytes # <<>>
  <2> DEFINE a == AddrBytes(h, p)
             k == <<net>>
             r == a \o t
  <2>0. a \in Seq(Byte)
    BY AddrIsBytes
  <2>1. k \in Seq(Byte) /\ Len(k) = 1 /\ k[1] = net
    BY <1>n
  <2>2. StartsWith(r, h, p)
    BY AddrStarts
  <2>3. ReadAddr(r, TRUE) = [st |-> "ok", host |-> h, port |-> p, rest |-> t]
    BY ReadsAddr
  <2> HIDE DEF a, k
  <2>4. f = k \o a
    BY <1>2 DEF HeaderBytes, a, k
  <2>5. f \in Seq(Byte) /\ r \in Seq(Byte) /\ b = k \o r
    <3>1. k \o a \in Seq(Byte) /\ r \in Seq(Byte)
      BY <2>0, <2>1, Concats, Zenon
    <3>2. (k \o a) \o t = k \o (a \o t)
      BY <2>0, <2>1, Concats, Zenon
    <3> QED
      BY <2>4, <3>1, <3>2, Zenon
  <2> HIDE DEF r
  <2>6. Drop(b, 1) = r /\ Len(b) = 1 + Len(r) /\ b[1] = net /\ \A j \in 1..Len(r) : b[1 + j] = r[j]
    <3>1. k \in Seq(Byte) /\ r \in Seq(Byte)
      BY <2>1, <2>5
    <3>2. Drop(k \o r, Len(k)) = r
      BY <3>1, DropConcat
    <3>3. /\ Len(k \o r) = Len(k) + Len(r) /\ \A j \in 1..Len(k) : (k \o r)[j] = k[j]
          /\ \A j \in 1..Len(r) : (k \o r)[Len(k) + j] = r[j]
      BY <3>1, ConcatIs
    <3>4. 1 \in 1..Len(k)
      BY <2>1
    <3> QED
      BY <2>1, <2>5, <3>2, <3>3, <3>4, Zenon
  <2> HIDE DEF f, b
  <2>7. Len(r) \in Nat /\ Len(r) > 0 /\ r[1] # NONE
    <3>1. r[1] = TypeByte(h) /\ Len(r) >= AddrLen(h) /\ r \in Seq(Byte)
      BY <2>2 DEF StartsWith
    <3>2. TypeByte(h) \in {1, 3, 4}
      BY DEF TypeByte, Encodable, IPV4, IPV6, DOMAIN_NAME
    <3>3. AddrLen(h) >= 2
      BY LeadIs DEF AddrLen, Encodable
    <3>4. Len(r) \in Nat /\ AddrLen(h) \in Nat
      BY <3>1, LeadIs DEF AddrLen
    <3>5. r[1] # NONE
      BY <1>n, <3>1, <3>2, Limits DEF NONE
    <3> QED
      BY <3>1, <3>3, <3>4, <3>5
  <2>8. b # <<>> /\ b[2] # NONE
    BY <2>6, <2>7
  <2>9. ReadHeader(b) = ReadAddr(Drop(b, 1), TRUE)
    BY <2>8, Zenon DEF ReadHeader
  <2> QED
    BY <2>3, <2>5, <2>6, <2>8, <2>9, Zenon DEF b, f, r
<1> QED
  BY <1>1, <1>2

\* parse_socks5_udp_request reads what build_socks5_udp_packet wrote for an address.
LEMMA SocksReads ==
    ASSUME NEW h, Encodable(h), h.is \in {"v4", "v6"}, NEW p \in 0..MaxU16, NEW d \in Seq(Byte)
    PROVE  ParseSocksUdp(SocksUdpPacket(h, p, d)) = <<h, p, d>>
<1> DEFINE z == <<0, 0, 0>>
           k == <<TypeByte(h)>>
           u == U16(p)
           a == AddrBytes(h, p)
           r == a \o d
           b == SocksUdpPacket(h, p, d)
<1>1. a = k \o h.bytes \o u
  BY DEF AddrBytes, Lead
<1>2. b = z \o (k \o h.bytes) \o u \o d
  BY DEF SocksUdpPacket, TypeByte
<1>3. z \in Seq(Byte) /\ Len(z) = 3 /\ z[3] = 0
  BY Limits DEF Byte
<1>4. k \in Seq(Byte) /\ h.bytes \in Seq(Byte) /\ u \in Seq(Byte) /\ a \in Seq(Byte)
  <2>1. TypeByte(h) \in Byte
    BY LeadIs
  <2> QED
    BY <2>1, AddrIsBytes, U16Sound DEF Encodable
<1>5. ReadAddr(r, TRUE) = [st |-> "ok", host |-> h, port |-> p, rest |-> d]
  BY ReadsAddr
<1>l. StartsWith(r, h, p)
  BY AddrStarts
<1>6. Len(r) \in Nat /\ Len(r) >= 1 /\ r \in Seq(Byte)
  <2>1. AddrLen(h) \in Nat /\ AddrLen(h) >= 1
    BY LeadIs DEF AddrLen
  <2> QED
    BY <1>l, <2>1 DEF StartsWith
<1> HIDE DEF z, k, u, a
<1>7. b = z \o r
  <2> DEFINE v == k \o h.bytes
  <2>1. v \in Seq(Byte)
    BY <1>4, Concats, Zenon
  <2> HIDE DEF v
  <2>2. a = v \o u /\ b = ((z \o v) \o u) \o d
    BY <1>1, <1>2 DEF v
  <2>3. (z \o v) \o u = z \o (v \o u)
    <3>1. z \in Seq(Byte) /\ v \in Seq(Byte) /\ u \in Seq(Byte)
      BY <1>3, <1>4, <2>1
    <3> QED
      BY <3>1, Concats, Zenon
  <2>4. (z \o a) \o d = z \o (a \o d)
    <3>1. z \in Seq(Byte) /\ a \in Seq(Byte) /\ d \in Seq(Byte)
      BY <1>3, <1>4
    <3> QED
      BY <3>1, Concats, Zenon
  <2> QED
    BY <2>2, <2>3, <2>4, Zenon
<1> HIDE DEF r, b
<1>8. Drop(b, 3) = r /\ Len(b) = 3 + Len(r) /\ b[3] = 0
  <2>1. z \in Seq(Byte) /\ r \in Seq(Byte)
    BY <1>3, <1>6
  <2>2. Drop(z \o r, Len(z)) = r
    BY <2>1, DropConcat
  <2>3. Len(z \o r) = Len(z) + Len(r) /\ \A j \in 1..Len(z) : (z \o r)[j] = z[j]
    BY <2>1, ConcatIs
  <2>4. 3 \in 1..Len(z)
    BY <1>3
  <2> QED
    BY <1>3, <1>7, <2>2, <2>3, <2>4, Zenon
<1> DEFINE x == ReadAddr(Drop(b, 3), TRUE)
<1>9. x = [st |-> "ok", host |-> h, port |-> p, rest |-> d]
  BY <1>5, <1>8, Zenon DEF r, a
<1> HIDE DEF x
<1>10. x.st = "ok" /\ x.host = h /\ x.port = p /\ x.rest = d
  BY <1>9
<1>11. ~(Len(b) < 4)
  BY <1>6, <1>8
<1>12. ParseSocksUdp(b) = <<x.host, x.port, x.rest>>
  BY <1>8, <1>10, <1>11, Zenon DEF ParseSocksUdp, x
<1> QED
  BY <1>10, <1>12, Zenon DEF b

\* build_proxy_header refuses a host, or encodes it.
LEMMA ProxyHeaderIs ==
    ASSUME NEW h \in Hosts, NEW p \in 0..MaxU16, NEW net \in {1, 3}
    PROVE  \/ ProxyHeader(net, h, p) = Bad /\ h.bytes # <<>> /\ TrojancAddr(h, p) = Bad
           \/ ProxyHeader(net, h, p) = HeaderBytes(net, h, p) /\ Encodable(h)
<1>n. <<net>> \in Seq(Byte)
  BY Limits DEF Byte
<1>1. CASE h.bytes = <<>>
  <2>1. Len(h.bytes) = 0
    BY <1>1
  <2>2. h.is = "name"
    BY <1>1, <2>1, HostIs, CodecConstants
  <2>3. Encodable(h)
    BY <2>1, <2>2, HostIs, Limits DEF Encodable
  <2> QED
    BY <1>1, <2>3 DEF ProxyHeader, HeaderBytes
<1>2. CASE h.bytes # <<>>
  <2>1. ProxyHeader(net, h, p) = Joined(<<<<net>>, TrojancAddr(h, p)>>)
    BY <1>2 DEF ProxyHeader
  <2>2. CASE TrojancAddr(h, p) = Bad
    BY <1>2, <2>1, <2>2, JoinedRefused
  <2>3. CASE TrojancAddr(h, p) = AddrBytes(h, p) /\ Encodable(h)
    <3> DEFINE a == AddrBytes(h, p)
               k == <<net>>
    <3>1. a \in Seq(Byte) /\ k \in Seq(Byte)
      BY <1>n, <2>3, AddrIsBytes
    <3>2. ProxyHeader(net, h, p) = Joined(<<k, a>>)
      BY <2>1, <2>3
    <3> HIDE DEF a, k
    <3>3. Joined(<<k, a>>) = k \o a
      BY <3>1, JoinedAll
    <3>4. HeaderBytes(net, h, p) = k \o a
      BY <1>2 DEF HeaderBytes, a, k
    <3> QED
      BY <2>3, <3>2, <3>3, <3>4, Zenon
  <2> QED
    BY <2>2, <2>3, TrojancAddrIs
<1> QED
  BY <1>1, <1>2

\* send_udp_datagram refuses a host or a payload, or encodes them.
LEMMA DatagramIs ==
    ASSUME NEW h \in Hosts, NEW p \in 0..MaxU16, NEW d \in Seq(Byte)
    PROVE  \/ Datagram(h, p, d) = Bad
           \/ /\ Datagram(h, p, d) = DatagramBytes(h, p, d) /\ Encodable(h) /\ h.bytes # <<>>
              /\ Len(d) <= MaxU16 /\ TrojancAddr(h, p) # Bad
<1> DEFINE x == TrojancAddr(h, p)
           y == PacketLen(d)
<1>0. Datagram(h, p, d) = Joined(<<x, y, d>>)
  BY DEF Datagram
<1>1. CASE x = Bad
  BY <1>0, <1>1, JoinedRefused
<1>2. CASE Len(d) > MaxU16
  <2>1. y = Bad
    BY <1>2 DEF PacketLen
  <2> HIDE DEF x, y
  <2> QED
    BY <1>0, <2>1, JoinedRefused
<1>3. CASE x # Bad /\ ~(Len(d) > MaxU16)
  <2>1. x = AddrBytes(h, p) /\ Encodable(h) /\ h.bytes # <<>>
    BY <1>3, TrojancAddrIs
  <2>2. Len(d) <= MaxU16 /\ Len(d) \in 0..MaxU16
    BY <1>3, Limits
  <2>3. y = U16(Len(d)) /\ y \in Seq(Byte)
    BY <1>3, <2>2, U16Sound DEF PacketLen
  <2>4. x \in Seq(Byte)
    BY <2>1, AddrIsBytes
  <2> HIDE DEF x, y
  <2>5. Joined(<<x, y, d>>) = x \o y \o d
    BY <2>3, <2>4, JoinedAll
  <2>6. DatagramBytes(h, p, d) = x \o y \o d
    BY <2>1, <2>3, Zenon DEF DatagramBytes
  <2>7. Datagram(h, p, d) = DatagramBytes(h, p, d)
    BY <1>0, <2>5, <2>6, Zenon
  <2> QED
    BY <1>3, <2>1, <2>2, <2>7, Zenon DEF x
<1> QED
  BY <1>1, <1>2, <1>3

\* write_underlay_metadata_async refuses a host, or encodes it, as a name if it is no
\* address.
LEMMA MetadataIs ==
    ASSUME NEW h \in Hosts, NEW p \in 0..MaxU16
    PROVE  \/ UnderlayMetadata(h, p) = Bad
           \/ UnderlayMetadata(h, p) = AddrBytes(Name(h), p) /\ Encodable(Name(h))
<1>0. h \in [is : {"v4", "v6", "name", "colon"}, bytes : Seq(Byte)]
  BY HostIs
<1>1. CASE h.is \in {"v4", "v6"}
  <2>1. Name(h) = h
    BY <1>0, <1>1 DEF Name
  <2>2. UnderlayMetadata(h, p) = TrojancAddr(h, p)
    BY <1>1 DEF UnderlayMetadata
  <2> QED
    BY <2>1, <2>2, TrojancAddrIs
<1>2. CASE h.is \notin {"v4", "v6"}
  <2>1. Name(h) \in [is : {"name"}, bytes : Seq(Byte)] /\ Name(h).bytes = h.bytes
    BY <1>0, <1>2 DEF Name
  <2> DEFINE g == Name(h)
  <2>2. UnderlayMetadata(h, p) = Joined(<<<<DOMAIN_NAME>>, NameBytes(g.bytes), U16(p)>>)
    BY <1>2, <2>1 DEF UnderlayMetadata
  <2> HIDE DEF g
  <2>3. g \in [is : {"name"}, bytes : Seq(Byte)]
    BY <2>1 DEF g
  <2>4. LET a == Joined(<<<<DOMAIN_NAME>>, NameBytes(g.bytes), U16(p)>>) IN
        (Encodable(g) => a = AddrBytes(g, p)) /\ (~Encodable(g) => a = Bad)
    BY <2>3, NameAddr
  <2> QED
    BY <2>2, <2>4, Zenon DEF g
<1> QED
  BY <1>1, <1>2

-----------------------------------------------------------------------------
(* WireCodec: a stream of frames.                                          *)

\* A message that the reader of carrier c gets back, unless its host is empty.
SoundMsg(c, m) ==
    /\ m = <<m[1], m[2], m[3]>> /\ Encodable(m[1]) /\ m[2] \in 0..MaxU16 /\ m[3] \in Seq(Byte)
    /\ c = "tcp" => m[3] = <<>> /\ (m[1].bytes = <<>> => m[2] = 0)
    /\ c \in {"udp", "reply"} => m[1].bytes # <<>> /\ Len(m[3]) <= MaxU16
    /\ c = "reply" => m[1].is \in {"v4", "v6"}
    /\ c = "auth" => m[3] = <<2, 1>>

Frame(c, m) ==
    CASE c = "tcp" -> HeaderBytes(1, m[1], m[2])
      [] c = "auth" -> AuthBytes(m[1], m[2])
      [] OTHER -> DatagramBytes(m[1], m[2], m[3])

Carriers == {"tcp", "udp", "auth", "reply"}

\* A frame is made of bytes.
LEMMA FrameIsBytes ==
    ASSUME NEW c \in Carriers, NEW m, SoundMsg(c, m)
    PROVE  Frame(c, m) \in Seq(Byte)
<1>0. Encodable(m[1]) /\ m[2] \in 0..MaxU16 /\ m[3] \in Seq(Byte) /\ <<>> \in Seq(Byte)
  BY DEF SoundMsg
<1>1. CASE c = "tcp"
  <2>1. m[1].bytes = <<>> => m[2] = 0
    BY <1>1 DEF SoundMsg
  <2>2. HeaderBytes(1, m[1], m[2]) \in Seq(Byte)
    BY <1>0, <2>1, HeaderReads
  <2> QED
    BY <1>1, <2>2 DEF Frame
<1>2. CASE c = "auth"
  <2>1. AuthBytes(m[1], m[2]) \in Seq(Byte)
    BY <1>0, AuthReads
  <2> QED
    BY <1>2, <2>1 DEF Frame
<1>3. CASE c \in {"udp", "reply"}
  <2>1. m[1].bytes # <<>> /\ Len(m[3]) <= MaxU16
    BY <1>3 DEF SoundMsg
  <2>2. DatagramBytes(m[1], m[2], m[3]) \in Seq(Byte)
    BY <1>0, <2>1, DatagramReads
  <2> QED
    BY <1>3, <2>2 DEF Frame
<1> QED
  BY <1>1, <1>2, <1>3 DEF Carriers

\* w holds the frames of the messages after the first k, and then tail: rests[i] is what
\* follows the frame of message i.
TrailOf(c, ms, k, rests, tail) ==
    /\ rests \in [k..Len(ms) -> Seq(Byte)]
    /\ rests[Len(ms)] = tail
    /\ \A i \in (k + 1)..Len(ms) : rests[i - 1] = Frame(c, ms[i]) \o rests[i]

Carries(c, ms, k, w, tail) == \E rests : TrailOf(c, ms, k, rests, tail) /\ rests[k] = w

\* A stream without messages.
LEMMA CarriesNone == \A c : Carries(c, <<>>, 0, <<>>, <<>>)
<1> TAKE c
<1> DEFINE rests == [i \in 0..0 |-> <<>>]
<1>1. rests \in [0..Len(<<>>) -> Seq(Byte)] /\ rests[0] = <<>> /\ Len(<<>>) = 0
  OBVIOUS
<1>2. TrailOf(c, <<>>, 0, rests, <<>>)
  BY <1>1 DEF TrailOf
<1> QED
  BY <1>1, <1>2 DEF Carries

\* Bytes written to the end follow everything that is on the stream.
LEMMA CarriesMore ==
    ASSUME NEW c \in Carriers, NEW M, NEW ms \in Seq(M), NEW k \in 0..Len(ms), NEW w,
           Carries(c, ms, k, w, <<>>), NEW x \in Seq(Byte),
           \A i \in 1..Len(ms) : SoundMsg(c, ms[i])
    PROVE  Carries(c, ms, k, w \o x, x)
<1> DEFINE n == Len(ms)
<1>0. n \in Nat /\ k \in Nat /\ k <= n
  OBVIOUS
<1>1. PICK rests : TrailOf(c, ms, k, rests, <<>>) /\ rests[k] = w
  BY DEF Carries
<1>2. rests \in [k..n -> Seq(Byte)] /\ rests[n] = <<>>
      /\ \A i \in (k + 1)..n : rests[i - 1] = Frame(c, ms[i]) \o rests[i]
  BY <1>1 DEF TrailOf
<1> DEFINE more == [i \in k..n |-> rests[i] \o x]
<1>3. ASSUME NEW i \in k..n PROVE rests[i] \o x \in Seq(Byte)
  <2>1. rests[i] \in Seq(Byte)
    BY <1>2
  <2> QED
    BY <2>1, Concats, Zenon
<1>4. more \in [k..n -> Seq(Byte)]
  BY <1>3
<1>5. more[n] = x
  <2>1. more[n] = <<>> \o x
    BY <1>0, <1>2
  <2> QED
    BY <2>1
<1>6. ASSUME NEW i \in (k + 1)..n PROVE more[i - 1] = Frame(c, ms[i]) \o more[i]
  <2>1. i \in k..n /\ i - 1 \in k..n /\ i \in 1..n
    BY <1>0
  <2>2. rests[i] \in Seq(Byte) /\ Frame(c, ms[i]) \in Seq(Byte)
    <3>1. SoundMsg(c, ms[i])
      BY <2>1
    <3> QED
      BY <1>2, <2>1, <3>1, FrameIsBytes
  <2>3. more[i - 1] = rests[i - 1] \o x /\ more[i] = rests[i] \o x
    BY <2>1
  <2>4. rests[i - 1] = Frame(c, ms[i]) \o rests[i]
    BY <1>2
  <2>5. (Frame(c, ms[i]) \o rests[i]) \o x = Frame(c, ms[i]) \o (rests[i] \o x)
    BY <2>2, Concats, Zenon
  <2> QED
    BY <2>3, <2>4, <2>5, Zenon
<1>7. more[k] = w \o x
  <2>1. k \in k..n
    BY <1>0
  <2>2. more[k] = rests[k] \o x
    BY <2>1, Zenon
  <2> QED
    BY <1>1, <2>2, Zenon
<1> HIDE DEF more
<1>8. TrailOf(c, ms, k, more, x)
  BY <1>4, <1>5, <1>6 DEF TrailOf
<1> QED
  BY <1>7, <1>8 DEF Carries

\* A frame written to the end adds its message.
LEMMA CarriesWritten ==
    ASSUME NEW c \in Carriers, NEW M, NEW ms \in Seq(M), NEW k \in 0..Len(ms), NEW w,
           Carries(c, ms, k, w, <<>>), NEW m \in M, SoundMsg(c, m),
           \A i \in 1..Len(ms) : SoundMsg(c, ms[i])
    PROVE  Carries(c, Append(ms, m), k, w \o Frame(c, m), <<>>)
<1> DEFINE n == Len(ms)
           x == Frame(c, m)
           ns == Append(ms, m)
<1>0. n \in Nat /\ k \in Nat /\ k <= n
  OBVIOUS
<1>x. x \in Seq(Byte)
  BY FrameIsBytes
<1> HIDE DEF x
<1>1. Carries(c, ms, k, w \o x, x)
  BY <1>x, CarriesMore
<1>2. PICK rests : TrailOf(c, ms, k, rests, x) /\ rests[k] = w \o x
  BY <1>1 DEF Carries
<1>3. rests \in [k..n -> Seq(Byte)] /\ rests[n] = x
      /\ \A i \in (k + 1)..n : rests[i - 1] = Frame(c, ms[i]) \o rests[i]
  BY <1>2 DEF TrailOf
<1>4. Len(ns) = n + 1 /\ ns[n + 1] = m /\ \A i \in 1..n : ns[i] = ms[i]
  OBVIOUS
<1> DEFINE more == [i \in k..(n + 1) |-> IF i = n + 1 THEN <<>> ELSE rests[i]]
<1>5. more \in [k..(n + 1) -> Seq(Byte)]
  BY <1>0, <1>3
<1>6. more[n + 1] = <<>>
  BY <1>0
<1>7. ASSUME NEW i \in (k + 1)..(n + 1) PROVE more[i - 1] = Frame(c, ns[i]) \o more[i]
  <2>1. CASE i = n + 1
    <3>1. more[i - 1] = x /\ more[i] = <<>> /\ ns[i] = m
      BY <1>0, <1>3, <1>4, <2>1
    <3>2. x \o <<>> = x
      BY <1>x
    <3> QED
      BY <3>1, <3>2, Zenon DEF x
  <2>2. CASE i # n + 1
    <3>1. i \in (k + 1)..n /\ i \in 1..n
      BY <1>0, <2>2
    <3>2. more[i - 1] = rests[i - 1] /\ more[i] = rests[i]
      BY <1>0, <3>1
    <3> QED
      BY <1>3, <1>4, <3>1, <3>2, Zenon
  <2> QED
    BY <2>1, <2>2
<1>8. more[k] = w \o x
  BY <1>0, <1>2
<1> HIDE DEF more, ns
<1>9. TrailOf(c, ns, k, more, <<>>)
  BY <1>4, <1>5, <1>6, <1>7 DEF TrailOf
<1>10. Carries(c, ns, k, w \o x, <<>>)
  BY <1>8, <1>9 DEF Carries
<1> QED
  BY <1>10 DEF ns, x

\* A reader finds the next frame first, or the tail.
LEMMA CarriesNext ==
    ASSUME NEW c, NEW M, NEW ms \in Seq(M), NEW k \in 0..Len(ms), NEW w, NEW tail,
           Carries(c, ms, k, w, tail)
    PROVE  /\ w \in Seq(Byte)
           /\ k = Len(ms) => w = tail
           /\ k < Len(ms) => \E r \in Seq(Byte) : w = Frame(c, ms[k + 1]) \o r /\ Carries(c, ms, k + 1, r, tail)
<1> DEFINE n == Len(ms)
<1>0. n \in Nat /\ k \in Nat /\ k <= n
  OBVIOUS
<1>1. PICK rests : TrailOf(c, ms, k, rests, tail) /\ rests[k] = w
  BY DEF Carries
<1>2. rests \in [k..n -> Seq(Byte)] /\ rests[n] = tail
      /\ \A i \in (k + 1)..n : rests[i - 1] = Frame(c, ms[i]) \o rests[i]
  BY <1>1 DEF TrailOf
<1>3. w \in Seq(Byte) /\ (k = n => w = tail)
  BY <1>0, <1>1, <1>2
<1>4. ASSUME k < n PROVE \E r \in Seq(Byte) : w = Frame(c, ms[k + 1]) \o r /\ Carries(c, ms, k + 1, r, tail)
  <2> DEFINE r == rests[k + 1]
             more == [i \in (k + 1)..n |-> rests[i]]
  <2>1. r \in Seq(Byte) /\ more \in [(k + 1)..n -> Seq(Byte)] /\ more[n] = tail /\ more[k + 1] = r
    BY <1>0, <1>2, <1>4
  <2>2. w = Frame(c, ms[k + 1]) \o r
    <3>1. k + 1 \in (k + 1)..n /\ (k + 1) - 1 = k
      BY <1>0, <1>4
    <3> QED
      BY <1>1, <1>2, <3>1
  <2>3. ASSUME NEW i \in (k + 1 + 1)..n PROVE more[i - 1] = Frame(c, ms[i]) \o more[i]
    <3>1. i \in (k + 1)..n /\ i - 1 \in (k + 1)..n
      BY <1>0
    <3> QED
      BY <1>2, <3>1
  <2> HIDE DEF more, r
  <2>4. TrailOf(c, ms, k + 1, more, tail)
    BY <2>1, <2>3 DEF TrailOf
  <2>5. Carries(c, ms, k + 1, r, tail)
    BY <2>1, <2>4 DEF Carries
  <2> QED
    BY <2>1, <2>2, <2>5
<1> QED
  BY <1>3, <1>4

-----------------------------------------------------------------------------
(* WireCodec: the invariant.                                               *)

CodecMsgs == (Hosts \cup {Name(h) : h \in Hosts}) \X Ports \X (Payloads \cup {<<2, 1>>})

\* The header that opens a UDP stream names the host of its first message.
UdpHeader == HeaderBytes(3, written[1][1], written[1][2])

OnWire(w, tail) ==
    /\ Carries(carrier, written, Len(decoded), w, tail)
    /\ tail # <<>> => carrier = "auth" /\ writing = "stopped" /\ tail \in {<< 2 >>, <<2, 1>>}
    /\ wire = IF carrier = "udp" /\ reading = "header" /\ written # <<>> THEN UdpHeader \o w ELSE w

\* What was decoded is what was written first; as long as the reader reads, the stream
\* holds the frames of the other messages, and at most the start of one that was given up.
CodecInv ==
    /\ CodecTypeOK
    /\ \A i \in 1..Len(written) : SoundMsg(carrier, written[i])
    /\ decoded \in Seq(CodecMsgs) /\ Len(decoded) <= Len(written)
    /\ \A i \in 1..Len(decoded) : decoded[i] = written[i]
    /\ reading = "ended" => carrier = "auth"
    /\ reading = "header" => carrier \in {"tcp", "udp"} /\ decoded = <<>>
    /\ carrier = "udp" /\ reading = "message" => written # <<>>
    /\ reading # "ended" => \E w, tail : OnWire(w, tail)

\* What appending one element changes.
LEMMA AppendIs ==
    ASSUME NEW S, NEW s \in Seq(S), NEW e \in S
    PROVE  /\ Append(s, e) \in Seq(S) /\ Len(Append(s, e)) = Len(s) + 1
           /\ Append(s, e)[Len(s) + 1] = e /\ \A i \in 1..Len(s) : Append(s, e)[i] = s[i]
  OBVIOUS

\* A writer that accepts message m puts its frame at the end, behind a header if it is
\* the first of a UDP stream.
LEMMA WritesFrame ==
    ASSUME CodecInv, NEW m \in CodecMsgs, SoundMsg(carrier, m), Len(written) < MaxMsgs,
           carrier = "auth" => writing = "open",
           written' = Append(written, m),
           wire' = wire \o (IF carrier = "udp" /\ written = <<>>
                            THEN HeaderBytes(3, m[1], m[2]) \o Frame(carrier, m) ELSE Frame(carrier, m)),
           UNCHANGED <<carrier, decoded, reading, writing>>
    PROVE  CodecInv'
<1> DEFINE f == Frame(carrier, m)
           g == HeaderBytes(3, m[1], m[2])
           n == Len(written)
           k == Len(decoded)
<1>0. /\ carrier \in Carriers /\ written \in Seq(CodecMsgs) /\ wire \in Seq(Byte)
      /\ \A i \in 1..n : SoundMsg(carrier, written[i])
      /\ decoded \in Seq(CodecMsgs) /\ k <= n /\ \A i \in 1..k : decoded[i] = written[i]
      /\ n \in Nat /\ k \in 0..n
  BY DEF CodecInv, CodecTypeOK, CodecMsgs, Carriers, Byte
<1>1. f \in Seq(Byte)
  BY <1>0, FrameIsBytes
<1>2. carrier = "udp" => g \in Seq(Byte) /\ g \o f \in Seq(Byte)
  <2> SUFFICES ASSUME carrier = "udp" PROVE g \in Seq(Byte) /\ g \o f \in Seq(Byte)
    OBVIOUS
  <2>1. Encodable(m[1]) /\ m[2] \in 0..MaxU16 /\ m[1].bytes # <<>> /\ <<>> \in Seq(Byte) /\ 3 \in {1, 3}
    BY DEF SoundMsg
  <2>2. g \in Seq(Byte)
    BY <2>1, HeaderReads
  <2> QED
    BY <1>1, <2>2, Concats, Zenon
<1> HIDE DEF f, g
<1>3. wire' = wire \o (IF carrier = "udp" /\ written = <<>> THEN g \o f ELSE f)
  BY DEF f, g
<1>4. written' \in Seq(CodecMsgs) /\ Len(written') = n + 1 /\ written'[n + 1] = m
      /\ (\A i \in 1..n : written'[i] = written[i]) /\ written' # <<>>
  <2>1. /\ Append(written, m) \in Seq(CodecMsgs) /\ Len(Append(written, m)) = n + 1
        /\ Append(written, m)[n + 1] = m /\ \A i \in 1..n : Append(written, m)[i] = written[i]
    BY <1>0, AppendIs
  <2>2. n + 1 # 0
    BY <1>0
  <2>3. \A s \in Seq(CodecMsgs) : Len(s) # 0 => s # <<>>
    OBVIOUS
  <2> QED
    BY <2>1, <2>2, <2>3, Zenon
<1>5. CodecTypeOK'
  <2>1. wire' \in Seq(Byte)
    BY <1>0, <1>1, <1>2, <1>3, Concats, ZenonT(60)
  <2> QED
    BY <1>0, <1>4, <2>1, CodecConstants DEF CodecInv, CodecTypeOK, CodecMsgs, Byte
<1>6. (\A i \in 1..Len(written) : SoundMsg(carrier, written[i]))'
  <2>1. ASSUME NEW i \in 1..(n + 1) PROVE SoundMsg(carrier, written'[i])
    <3>1. i = n + 1 \/ i \in 1..n
      BY <1>0
    <3> QED
      BY <1>0, <1>4, <3>1
  <2> QED
    BY <1>4, <2>1
<1>7. (decoded \in Seq(CodecMsgs) /\ Len(decoded) <= Len(written) /\ \A i \in 1..Len(decoded) : decoded[i] = written[i])'
  <2>1. \A i \in 1..k : i \in 1..n
    BY <1>0
  <2> QED
    BY <1>0, <1>4, <2>1
<1>8. (/\ reading = "ended" => carrier = "auth"
       /\ reading = "header" => carrier \in {"tcp", "udp"} /\ decoded = <<>>
       /\ carrier = "udp" /\ reading = "message" => written # <<>>)'
  BY <1>4 DEF CodecInv
<1>9. ASSUME reading # "ended" PROVE (\E w, tail : OnWire(w, tail))'
  <2>1. PICK w, tail : OnWire(w, tail)
    BY <1>9 DEF CodecInv
  <2>2. tail = <<>> /\ Carries(carrier, written, k, w, <<>>)
    BY <2>1 DEF OnWire
  <2>3. w \in Seq(Byte) /\ (k = n => w = <<>>)
    BY <1>0, <2>2, CarriesNext
  <2>4. Carries(carrier, written', k, w \o f, <<>>)
    <3>1. Carries(carrier, Append(written, m), k, w \o Frame(carrier, m), <<>>)
      BY <1>0, <2>2, CarriesWritten
    <3> QED
      BY <3>1, Zenon DEF f
  <2>5. wire' = IF carrier = "udp" /\ reading = "header" THEN HeaderBytes(3, written'[1][1], written'[1][2]) \o (w \o f)
                ELSE w \o f
    <3>1. CASE carrier = "udp" /\ reading = "header" /\ written = <<>>
      <4>1. wire = w /\ n = 0 /\ k = 0
        BY <1>0, <2>1, <3>1 DEF OnWire
      <4>2. w = <<>>
        BY <2>3, <4>1
      <4>3. wire' = <<>> \o (g \o f) /\ w \o f = <<>> \o f
        BY <1>3, <3>1, <4>1, <4>2
      <4>4. wire' = g \o f /\ w \o f = f
        <5>1. f \in Seq(Byte) /\ g \o f \in Seq(Byte)
          BY <1>1, <1>2, <3>1
        <5> HIDE DEF n, k
        <5>2. <<>> \o f = f /\ <<>> \o (g \o f) = g \o f
          BY <5>1, ConcatEmptySeq
        <5> QED
          BY <4>3, <5>2, Zenon
      <4>5. written'[1] = m
        BY <1>4, <4>1
      <4> QED
        BY <3>1, <4>4, <4>5, Zenon DEF g
    <3>2. CASE carrier = "udp" /\ reading = "header" /\ written # <<>>
      <4>1. wire = UdpHeader \o w /\ wire' = wire \o f
        BY <1>3, <2>1, <3>2 DEF OnWire
      <4>2. n # 0 /\ written'[1] = written[1]
        BY <1>0, <1>4, <3>2
      <4>3. UdpHeader \in Seq(Byte)
        <5> DEFINE x == written[1]
        <5>1. SoundMsg("udp", x)
          BY <1>0, <3>2, <4>2
        <5>2. Encodable(x[1]) /\ x[2] \in 0..MaxU16 /\ x[1].bytes # <<>> /\ <<>> \in Seq(Byte) /\ 3 \in {1, 3}
          BY <5>1 DEF SoundMsg
        <5>3. HeaderBytes(3, x[1], x[2]) \in Seq(Byte)
          BY <5>2, HeaderReads
        <5> QED
          BY <5>3 DEF UdpHeader
      <4>4. (UdpHeader \o w) \o f = UdpHeader \o (w \o f)
        BY <1>1, <2>3, <4>3, Concats, Zenon
      <4>5. UdpHeader = HeaderBytes(3, written'[1][1], written'[1][2])
        BY <4>2, Zenon DEF UdpHeader
      <4> QED
        BY <3>2, <4>1, <4>4, <4>5, Zenon
    <3>3. CASE ~(carrier = "udp" /\ reading = "header")
      <4>1. wire = w
        BY <2>1, <3>3 DEF OnWire
      <4>2. ~(carrier = "udp" /\ written = <<>>)
        BY <1>9, <3>3 DEF CodecInv, CodecTypeOK
      <4> QED
        BY <1>3, <3>3, <4>1, <4>2
    <3> QED
      BY <3>1, <3>2, <3>3
  <2>v. PICK v : v = w \o f
    OBVIOUS
  <2>6. OnWire(v, <<>>)'
    <3>1. Carries(carrier', written', Len(decoded'), w \o f, <<>>)
      BY <2>4
    <3>2. wire' = IF carrier' = "udp" /\ reading' = "header" /\ written' # <<>> THEN UdpHeader' \o (w \o f)
                  ELSE w \o f
      BY <1>4, <2>5, Zenon DEF UdpHeader
    <3> QED
      BY <2>v, <3>1, <3>2, Zenon DEF OnWire
  <2> QED
    BY <2>6
<1>10. reading' # "ended" => (\E w, tail : OnWire(w, tail))'
  BY <1>9
<1> QED
  BY <1>5, <1>6, <1>7, <1>8, <1>10 DEF CodecInv

\* A writer that refuses a message leaves the stream as it is.
LEMMA WritesNothing ==
    ASSUME CodecInv, writing' \in {writing, "stopped"}, UNCHANGED <<carrier, decoded, reading, written, wire>>
    PROVE  CodecInv'
<1>1. CodecTypeOK'
  BY DEF CodecInv, CodecTypeOK
<1>2. ASSUME NEW w, NEW tail, OnWire(w, tail) PROVE OnWire(w, tail)'
  BY <1>2 DEF OnWire, UdpHeader
<1>3. reading' # "ended" => (\E w, tail : OnWire(w, tail))'
  BY <1>2 DEF CodecInv
<1> QED
  BY <1>1, <1>3 DEF CodecInv

\* The messages the model offers are typed, and sound when their parts were encoded.
LEMMA OfferedMsgs ==
    ASSUME NEW h \in Hosts, NEW p \in Ports
    PROVE  /\ \A d \in Payloads : <<h, p, d>> \in CodecMsgs
           /\ <<h, 0, <<>>>> \in CodecMsgs /\ <<h, p, <<>>>> \in CodecMsgs
           /\ <<Name(h), p, <<2, 1>>>> \in CodecMsgs
<1>1. 0 \in Ports
  BY DEF Ports
<1>2. <<>> \in Payloads
  <2>1. Fill(4, 0) = <<>>
    <3>1. Fill(4, 0) \in Seq({4}) /\ Len(Fill(4, 0)) = 0
      BY FillIs
    <3> QED
      BY <3>1
  <2> QED
    BY <2>1 DEF Payloads
<1> QED
  BY <1>1, <1>2, Zenon DEF CodecMsgs

\* open_tcp_stream keeps the invariant.
LEMMA OpenTcpStep ==
    ASSUME CodecInv, NEW h \in Hosts, NEW p \in Ports, OpenTcp(h, p) PROVE CodecInv'
<1> DEFINE q == IF h.bytes = <<>> THEN 0 ELSE p
           m == <<h, q, <<>>>>
           x == ProxyHeader(1, h, p)
<1>1. carrier = "tcp" /\ written = <<>> /\ UNCHANGED <<carrier, decoded, reading>> /\ WriteBatch(x, m)
  BY DEF OpenTcp
<1>2. p \in 0..MaxU16 /\ q \in 0..MaxU16 /\ m \in CodecMsgs
  <2>1. p \in 0..MaxU16 /\ 0 \in 0..MaxU16
    BY PortsAndPayloads, Limits
  <2>2. <<h, 0, <<>>>> \in CodecMsgs /\ <<h, p, <<>>>> \in CodecMsgs
    BY OfferedMsgs
  <2> QED
    BY <2>1, <2>2, Zenon
<1>3. CASE x = Bad
  BY <1>1, <1>3, WritesNothing DEF WriteBatch
<1>4. CASE x # Bad
  <2>1. x = HeaderBytes(1, h, p) /\ Encodable(h)
    BY <1>2, <1>4, ProxyHeaderIs
  <2>2. written' = Append(written, m) /\ wire' = wire \o x /\ UNCHANGED writing
    BY <1>1, <1>4 DEF WriteBatch
  <2>3. HeaderBytes(1, h, p) = HeaderBytes(1, h, q)
    BY DEF HeaderBytes
  <2> HIDE DEF q, x
  <2>4. m = <<m[1], m[2], m[3]>> /\ m[1] = h /\ m[2] = q /\ m[3] = <<>>
    OBVIOUS
  <2>q. h.bytes = <<>> => q = 0
    BY DEF q
  <2> HIDE DEF m
  <2>5. SoundMsg(carrier, m)
    BY <1>1, <1>2, <2>1, <2>4, <2>q DEF SoundMsg
  <2>6. Frame(carrier, m) = x
    BY <1>1, <2>1, <2>3, <2>4 DEF Frame
  <2>7. wire' = wire \o (IF carrier = "udp" /\ written = <<>>
                         THEN HeaderBytes(3, m[1], m[2]) \o Frame(carrier, m) ELSE Frame(carrier, m))
    BY <1>1, <2>2, <2>6
  <2>8. Len(written) < MaxMsgs
    BY <1>1, CodecConstants
  <2>9. UNCHANGED <<carrier, decoded, reading, writing>> /\ carrier # "auth"
    BY <1>1, <2>2
  <2> QED
    BY <1>2, <2>2, <2>5, <2>7, <2>8, <2>9, WritesFrame
<1> QED
  BY <1>3, <1>4

\* open_udp_stream and send_udp_datagram keep the invariant.
LEMMA SendUdpStep ==
    ASSUME CodecInv, NEW h \in Hosts, NEW p \in Ports, NEW d \in Payloads, SendUdp(h, p, d) PROVE CodecInv'
<1> DEFINE m == <<h, p, d>>
           x == IF written = <<>> THEN Joined(<<ProxyHeader(3, h, p), Datagram(h, p, d)>>) ELSE Datagram(h, p, d)
<1>1. carrier = "udp" /\ Len(written) < MaxMsgs /\ UNCHANGED <<carrier, decoded, reading>> /\ WriteBatch(x, m)
  BY DEF SendUdp
<1>2. p \in 0..MaxU16 /\ m \in CodecMsgs /\ d \in Seq(Byte) /\ 3 \in {1, 3}
  BY PortsAndPayloads, OfferedMsgs
<1>3. CASE x = Bad
  BY <1>1, <1>3, WritesNothing DEF WriteBatch
<1>4. CASE x # Bad
  <2>1. Datagram(h, p, d) # Bad
    BY <1>4, JoinedRefused
  <2>2. /\ Datagram(h, p, d) = DatagramBytes(h, p, d) /\ Encodable(h) /\ h.bytes # <<>>
        /\ Len(d) <= MaxU16 /\ TrojancAddr(h, p) # Bad
    BY <1>2, <2>1, DatagramIs
  <2>3. ProxyHeader(3, h, p) = HeaderBytes(3, h, p)
    BY <1>2, <2>2, ProxyHeaderIs
  <2>4. DatagramBytes(h, p, d) \in Seq(Byte) /\ HeaderBytes(3, h, p) \in Seq(Byte)
    <3>1. <<>> \in Seq(Byte)
      OBVIOUS
    <3> QED
      BY <1>2, <2>2, <3>1, DatagramReads, HeaderReads
  <2>5. Joined(<<HeaderBytes(3, h, p), DatagramBytes(h, p, d)>>) = HeaderBytes(3, h, p) \o DatagramBytes(h, p, d)
    BY <2>4, JoinedAll
  <2>6. x = IF written = <<>> THEN HeaderBytes(3, h, p) \o DatagramBytes(h, p, d) ELSE DatagramBytes(h, p, d)
    BY <2>2, <2>3, <2>5, Zenon
  <2>7. written' = Append(written, m) /\ wire' = wire \o x /\ UNCHANGED writing
    BY <1>1, <1>4 DEF WriteBatch
  <2>8. m = <<m[1], m[2], m[3]>> /\ m[1] = h /\ m[2] = p /\ m[3] = d
    OBVIOUS
  <2> HIDE DEF m, x
  <2>9. SoundMsg(carrier, m)
    BY <1>1, <1>2, <2>2, <2>8 DEF SoundMsg
  <2>10. Frame(carrier, m) = DatagramBytes(h, p, d)
    BY <1>1, <2>8 DEF Frame
  <2>11. wire' = wire \o (IF carrier = "udp" /\ written = <<>>
                          THEN HeaderBytes(3, m[1], m[2]) \o Frame(carrier, m) ELSE Frame(carrier, m))
    BY <1>1, <2>6, <2>7, <2>8, <2>10, Zenon
  <2>12. UNCHANGED <<carrier, decoded, reading, writing>> /\ carrier # "auth"
    BY <1>1, <2>7
  <2> QED
    BY <1>1, <1>2, <2>7, <2>9, <2>11, <2>12, WritesFrame
<1> QED
  BY <1>3, <1>4

\* relay_responses keeps the invariant.
LEMMA SendReplyStep ==
    ASSUME CodecInv, NEW h \in IpHosts, NEW p \in Ports, NEW d \in Payloads, SendReply(h, p, d) PROVE CodecInv'
<1> DEFINE m == <<h, p, d>>
           x == Datagram(h, p, d)
<1>1. carrier = "reply" /\ Len(written) < MaxMsgs /\ UNCHANGED <<carrier, decoded, reading>> /\ WriteBatch(x, m)
  BY DEF SendReply
<1>h. h \in Hosts /\ h.is \in {"v4", "v6"}
  BY DEF IpHosts
<1>2. p \in 0..MaxU16 /\ m \in CodecMsgs /\ d \in Seq(Byte)
  BY <1>h, PortsAndPayloads, OfferedMsgs
<1>3. CASE x = Bad
  BY <1>1, <1>3, WritesNothing DEF WriteBatch
<1>4. CASE x # Bad
  <2>2. /\ x = DatagramBytes(h, p, d) /\ Encodable(h) /\ h.bytes # <<>>
        /\ Len(d) <= MaxU16
    BY <1>2, <1>4, <1>h, DatagramIs
  <2>7. written' = Append(written, m) /\ wire' = wire \o x /\ UNCHANGED writing
    BY <1>1, <1>4 DEF WriteBatch
  <2>8. m = <<m[1], m[2], m[3]>> /\ m[1] = h /\ m[2] = p /\ m[3] = d
    OBVIOUS
  <2> HIDE DEF m, x
  <2>9. SoundMsg(carrier, m)
    BY <1>1, <1>2, <1>h, <2>2, <2>8 DEF SoundMsg
  <2>10. Frame(carrier, m) = x
    BY <1>1, <2>2, <2>8 DEF Frame
  <2>11. wire' = wire \o (IF carrier = "udp" /\ written = <<>>
                          THEN HeaderBytes(3, m[1], m[2]) \o Frame(carrier, m) ELSE Frame(carrier, m))
    BY <1>1, <2>7, <2>10
  <2>12. UNCHANGED <<carrier, decoded, reading, writing>> /\ carrier # "auth"
    BY <1>1, <2>7
  <2> QED
    BY <1>1, <1>2, <2>7, <2>9, <2>11, <2>12, WritesFrame
<1> QED
  BY <1>3, <1>4

\* send_underlay_auth keeps the invariant, also when it fails part of the way.
LEMMA SendAuthStep ==
    ASSUME CodecInv, NEW h \in Hosts, NEW p \in Ports, NEW pskOk \in BOOLEAN, SendAuth(h, p, pskOk) PROVE CodecInv'
<1> DEFINE meta == IF pskOk THEN UnderlayMetadata(h, p) ELSE Bad
           psk == AuthPrefix(pskOk)
           m == <<Name(h), p, psk>>
<1>1. /\ carrier = "auth" /\ writing = "open" /\ Len(written) < MaxMsgs /\ UNCHANGED <<carrier, decoded, reading>>
      /\ wire' = wire \o psk \o (IF meta = Bad THEN <<>> ELSE meta)
      /\ written' = IF meta = Bad THEN written ELSE Append(written, m)
      /\ writing' = IF meta = Bad THEN "stopped" ELSE writing
  BY DEF SendAuth
<1>2. psk \in Seq(Byte) /\ psk \in {<< 2 >>, <<2, 1>>} /\ p \in 0..MaxU16 /\ wire \in Seq(Byte)
  <2>1. psk \in {<< 2 >>, <<2, 1>>}
    BY DEF AuthPrefix
  <2>2. << 2 >> \in Seq(Byte) /\ <<2, 1>> \in Seq(Byte)
    BY Limits DEF Byte
  <2>3. p \in 0..MaxU16 /\ wire \in Seq(Byte)
    BY PortsAndPayloads DEF Byte, CodecInv, CodecTypeOK
  <2> QED
    BY <2>1, <2>2, <2>3, Zenon
<1>3. CASE meta = Bad
  <2> HIDE DEF psk, meta
  <2>1. wire' = wire \o psk /\ written' = written /\ writing' = "stopped"
    <3>1. wire \o psk \in Seq(Byte)
      BY <1>2, Concats, Zenon
    <3>2. (wire \o psk) \o <<>> = wire \o psk
      BY <3>1, ConcatEmptySeq
    <3> QED
      BY <1>1, <1>3, <3>2
  <2>2. wire' \in Seq(Byte)
    BY <1>2, <2>1, Concats, Zenon
  <2>3. CodecTypeOK'
    BY <1>1, <2>1, <2>2 DEF CodecInv, CodecTypeOK, Byte
  <2>4. ASSUME reading # "ended" PROVE (\E w, tail : OnWire(w, tail))'
    <3>1. PICK w, tail : OnWire(w, tail)
      BY <2>4 DEF CodecInv
    <3>2. tail = <<>> /\ Carries(carrier, written, Len(decoded), w, <<>>) /\ wire = w
      BY <1>1, <3>1 DEF OnWire
    <3>3. carrier \in Carriers /\ written \in Seq(CodecMsgs) /\ Len(decoded) \in 0..Len(written)
          /\ \A i \in 1..Len(written) : SoundMsg(carrier, written[i])
      BY DEF CodecInv, CodecTypeOK, CodecMsgs, Carriers
    <3>4. Carries(carrier, written, Len(decoded), w \o psk, psk)
      BY <1>2, <3>2, <3>3, CarriesMore
    <3>5. PICK v, e : v = w \o psk /\ e = psk
      OBVIOUS
    <3>6. Carries(carrier', written', Len(decoded'), v, e) /\ wire' = v
      BY <1>1, <2>1, <3>2, <3>4, <3>5, Zenon
    <3>7. OnWire(v, e)'
      BY <1>1, <1>2, <2>1, <3>5, <3>6 DEF OnWire
    <3> QED
      BY <3>7
  <2> QED
    BY <1>1, <2>1, <2>3, <2>4 DEF CodecInv
<1>4. CASE meta # Bad
  <2>1. meta = AddrBytes(Name(h), p) /\ Encodable(Name(h)) /\ pskOk
    BY <1>2, <1>4, MetadataIs
  <2>2. psk = <<2, 1>>
    BY <2>1 DEF AuthPrefix
  <2>3. m \in CodecMsgs
    BY <2>2, OfferedMsgs
  <2>4. m = <<m[1], m[2], m[3]>> /\ m[1] = Name(h) /\ m[2] = p /\ m[3] = psk
    OBVIOUS
  <2>5. meta \in Seq(Byte)
    BY <1>2, <2>1, AddrIsBytes
  <2> HIDE DEF m, psk, meta
  <2>6. SoundMsg(carrier, m)
    BY <1>1, <1>2, <2>1, <2>2, <2>4 DEF SoundMsg
  <2>7. Frame(carrier, m) = psk \o meta
    BY <1>1, <2>1, <2>2, <2>4 DEF Frame, AuthBytes
  <2>8. wire' = wire \o (psk \o meta)
    <3>1. (wire \o psk) \o meta = wire \o (psk \o meta)
      BY <1>2, <2>5, Concats, Zenon
    <3> QED
      BY <1>1, <1>4, <3>1
  <2>9. wire' = wire \o (IF carrier = "udp" /\ written = <<>>
                         THEN HeaderBytes(3, m[1], m[2]) \o Frame(carrier, m) ELSE Frame(carrier, m))
    BY <1>1, <2>7, <2>8
  <2>10. UNCHANGED <<carrier, decoded, reading, writing>> /\ written' = Append(written, m)
    BY <1>1, <1>4
  <2> QED
    BY <1>1, <2>3, <2>6, <2>9, <2>10, WritesFrame
<1> QED
  BY <1>3, <1>4

\* Nothing, or the start of an auth frame that was given up, keeps a reader waiting.
LEMMA TailsAreShort ==
    /\ ReadDatagram(<<>>).st = Short
    /\ \A t \in {<<>>, << 2 >>, <<2, 1>>} : ReadAuth(t).st = Short
<1>1. ReadAddr(<<>>, FALSE) = [st |-> Short]
  BY DEF ReadAddr
<1>2. ReadDatagram(<<>>).st = Short
  <2> DEFINE a == ReadAddr(<<>>, FALSE)
  <2>a. a = [st |-> Short]
    BY <1>1
  <2> HIDE DEF a
  <2>1. a.st = Short
    BY <2>a
  <2>2. Short # "ok"
    BY DEF Short
  <2> QED
    BY <2>1, <2>2, Zenon DEF ReadDatagram, a
<1>3. ASSUME NEW t \in {<<>>, << 2 >>} PROVE ReadAuth(t).st = Short
  <2>1. Len(t) < 2
    OBVIOUS
  <2> QED
    BY <2>1 DEF ReadAuth
<1>4. ReadAuth(<<2, 1>>).st = Short
  <2> DEFINE b == <<2, 1>>
  <2>1. ~(Len(b) < 2)
    OBVIOUS
  <2>2. Drop(b, 2) = <<>>
    BY DEF Drop
  <2>3. ReadAddr(Drop(b, 2), FALSE) = [st |-> Short]
    BY <1>1, <2>2, Zenon
  <2> HIDE DEF b
  <2> DEFINE a == ReadAddr(Drop(b, 2), FALSE)
  <2>a. a = [st |-> Short]
    BY <2>3
  <2> HIDE DEF a
  <2>4. a.st = Short
    BY <2>a
  <2>5. Short # "ok"
    BY DEF Short
  <2>6. ReadAuth(b) = a
    BY <2>1, <2>4, <2>5, Zenon DEF ReadAuth, a
  <2> QED
    BY <2>4, <2>6, Zenon DEF b
<1> QED
  BY <1>2, <1>3, <1>4

\* A reader that takes the next message off the stream.
LEMMA ReadsFrame ==
    ASSUME CodecInv, Len(decoded) < Len(written), NEW r \in Seq(Byte), NEW tail,
           Carries(carrier, written, Len(decoded) + 1, r, tail),
           tail # <<>> => carrier = "auth" /\ writing = "stopped" /\ tail \in {<< 2 >>, <<2, 1>>},
           wire' = r, decoded' = Append(decoded, written[Len(decoded) + 1]), reading' = "message",
           UNCHANGED <<carrier, written, writing>>
    PROVE  CodecInv'
<1> DEFINE k == Len(decoded)
           n == Len(written)
           m == written[k + 1]
<1>0. /\ written \in Seq(CodecMsgs) /\ decoded \in Seq(CodecMsgs) /\ k \in Nat /\ n \in Nat
      /\ k < n /\ k + 1 \in 1..n /\ \A i \in 1..k : decoded[i] = written[i]
  BY DEF CodecInv, CodecTypeOK, CodecMsgs
<1>m. m \in CodecMsgs
  BY <1>0
<1> HIDE DEF m
<1>1. decoded' = Append(decoded, m)
  BY DEF m
<1>2. decoded' \in Seq(CodecMsgs) /\ Len(decoded') = k + 1 /\ decoded'[k + 1] = m
      /\ \A i \in 1..k : decoded'[i] = decoded[i]
  <2>1. /\ Append(decoded, m) \in Seq(CodecMsgs) /\ Len(Append(decoded, m)) = k + 1
        /\ Append(decoded, m)[k + 1] = m /\ \A i \in 1..k : Append(decoded, m)[i] = decoded[i]
    BY <1>0, <1>m, AppendIs
  <2> QED
    BY <1>1, <2>1, Zenon
<1>3. CodecTypeOK'
  BY DEF CodecInv, CodecTypeOK, Byte
<1>4. ASSUME NEW i \in 1..(k + 1) PROVE decoded'[i] = written[i]
  <2>1. i = k + 1 \/ i \in 1..k
    BY <1>0
  <2> QED
    BY <1>0, <1>2, <2>1 DEF m
<1>5. written # <<>>
  BY <1>0
<1>6. OnWire(r, tail)'
  <2>1. Carries(carrier', written', Len(decoded'), r, tail)
    BY <1>2
  <2> QED
    BY <2>1 DEF OnWire
<1>7. (decoded \in Seq(CodecMsgs) /\ Len(decoded) <= Len(written) /\ \A i \in 1..Len(decoded) : decoded[i] = written[i])'
  BY <1>0, <1>2, <1>4
<1>8. reading' # "ended" => (\E w, t : OnWire(w, t))'
  BY <1>6
<1> QED
  BY <1>3, <1>5, <1>7, <1>8 DEF CodecInv

\* Reading the header keeps the invariant.
LEMMA ServerReadsHeaderStep ==
    ASSUME CodecInv, ServerReadsHeader PROVE CodecInv'
<1> DEFINE n == Len(written)
           r == ReadHeader(wire)
<1>1. /\ reading = "header" /\ wire # <<>> /\ UNCHANGED <<carrier, written, writing>>
      /\ r.st # Bad => /\ reading' = "message" /\ wire' = r.rest
                       /\ decoded' = IF wire[1] = 1 THEN Append(decoded, <<r.host, r.port, <<>>>>) ELSE decoded
  BY DEF ServerReadsHeader
<1>2. /\ carrier \in {"tcp", "udp"} /\ carrier \in Carriers /\ decoded = <<>> /\ Len(decoded) = 0
      /\ written \in Seq(CodecMsgs) /\ n \in Nat /\ 0 \in 0..n
      /\ \A i \in 1..n : SoundMsg(carrier, written[i])
  BY <1>1 DEF CodecInv, CodecTypeOK, CodecMsgs, Carriers
<1>3. PICK w, tail : OnWire(w, tail)
  BY <1>1 DEF CodecInv
<1>4. tail = <<>> /\ Carries(carrier, written, 0, w, <<>>)
  BY <1>2, <1>3 DEF OnWire
<1>5. /\ w \in Seq(Byte) /\ (0 = n => w = <<>>)
      /\ 0 < n => \E x \in Seq(Byte) : w = Frame(carrier, written[1]) \o x /\ Carries(carrier, written, 1, x, <<>>)
  <2>1. PICK k \in 0..n : k = 0
    BY <1>2
  <2>2. /\ w \in Seq(Byte) /\ (k = n => w = <<>>)
        /\ k < n => \E x \in Seq(Byte) : w = Frame(carrier, written[k + 1]) \o x /\ Carries(carrier, written, k + 1, x, <<>>)
    <3>1. Carries(carrier, written, k, w, <<>>) /\ written \in Seq(CodecMsgs)
      BY <1>2, <1>4, <2>1, Zenon
    <3> QED
      BY <3>1, CarriesNext
  <2>3. k + 1 = 1
    BY <2>1
  <2> QED
    BY <2>1, <2>2, <2>3, Zenon
<1>6. 0 < n
  <2> SUFFICES ASSUME n = 0 PROVE FALSE
    BY <1>2
  <2>1. written = <<>>
    BY <1>2
  <2>2. wire = w
    BY <1>3, <2>1 DEF OnWire
  <2> QED
    BY <1>1, <1>5, <2>2
<1> DEFINE m == written[1]
<1>7. SoundMsg(carrier, m) /\ written # <<>>
  BY <1>2, <1>6
<1> HIDE DEF m, r
<1>8. Encodable(m[1]) /\ m[2] \in 0..MaxU16 /\ m = <<m[1], m[2], m[3]>>
  BY <1>7 DEF SoundMsg
<1>b. Bad # "ok"
  BY CodecConstants
<1>9. CASE carrier = "tcp"
  <2>1. m[3] = <<>> /\ (m[1].bytes = <<>> => m[2] = 0) /\ 1 \in {1, 3}
    BY <1>7, <1>9 DEF SoundMsg
  <2>2. PICK x \in Seq(Byte) : w = Frame(carrier, m) \o x /\ Carries(carrier, written, 1, x, <<>>)
    BY <1>5, <1>6, Zenon DEF m
  <2>3. wire = HeaderBytes(1, m[1], m[2]) \o x
    BY <1>3, <1>9, <2>2 DEF OnWire, Frame
  <2> DEFINE f == HeaderBytes(1, m[1], m[2])
  <2>4. (f \o x)[1] = 1 /\ ReadHeader(f \o x) = [st |-> "ok", host |-> m[1], port |-> m[2], rest |-> x]
    BY <1>8, <2>1, HeaderReads
  <2>5. wire[1] = 1 /\ r = [st |-> "ok", host |-> m[1], port |-> m[2], rest |-> x]
    BY <2>3, <2>4, Zenon DEF r
  <2>6. r.st = "ok" /\ r.host = m[1] /\ r.port = m[2] /\ r.rest = x
    BY <2>5
  <2>7. reading' = "message" /\ wire' = x /\ decoded' = Append(decoded, m)
    BY <1>1, <1>8, <1>b, <2>1, <2>5, <2>6, Zenon
  <2>8. /\ Len(decoded) < Len(written) /\ Carries(carrier, written, Len(decoded) + 1, x, <<>>)
        /\ decoded' = Append(decoded, written[Len(decoded) + 1])
    <3>1. Len(decoded) + 1 = 1
      BY <1>2
    <3> QED
      BY <1>2, <1>6, <2>2, <2>7, <3>1, Zenon DEF m
  <2> QED
    BY <1>1, <2>7, <2>8, ReadsFrame
<1>10. CASE carrier = "udp"
  <2>1. m[1].bytes # <<>> /\ 3 \in {1, 3}
    BY <1>7, <1>10 DEF SoundMsg
  <2> DEFINE f == HeaderBytes(3, m[1], m[2])
  <2>2. wire = f \o w
    BY <1>1, <1>3, <1>7, <1>10, Zenon DEF OnWire, UdpHeader, m
  <2>3. (f \o w)[1] = 3 /\ ReadHeader(f \o w) = [st |-> "ok", host |-> m[1], port |-> m[2], rest |-> w]
    BY <1>5, <1>8, <2>1, HeaderReads
  <2>4. wire[1] = 3 /\ r = [st |-> "ok", host |-> m[1], port |-> m[2], rest |-> w]
    BY <2>2, <2>3, Zenon DEF r
  <2>5. r.st = "ok" /\ r.rest = w
    BY <2>4
  <2>6. reading' = "message" /\ wire' = w /\ decoded' = decoded
    BY <1>1, <1>b, <2>4, <2>5
  <2>7. OnWire(w, <<>>)'
    <3>1. Carries(carrier', written', Len(decoded'), w, <<>>)
      BY <1>1, <1>2, <1>4, <2>6, Zenon
    <3> QED
      BY <2>6, <3>1 DEF OnWire
  <2>8. CodecTypeOK'
    BY <1>1, <1>5, <2>6 DEF CodecInv, CodecTypeOK, Byte
  <2>9. reading' # "ended" => (\E v, t : OnWire(v, t))'
    BY <2>7
  <2> QED
    BY <1>1, <1>7, <2>6, <2>8, <2>9 DEF CodecInv
<1> QED
  BY <1>2, <1>9, <1>10

\* Reading one more message keeps the invariant.
LEMMA ReadMessageStep ==
    ASSUME CodecInv, ReadMessage PROVE CodecInv'
<1> DEFINE n == Len(written)
           k == Len(decoded)
           r == IF carrier = "auth" THEN ReadAuth(wire) ELSE ReadDatagram(wire)
           m == written[k + 1]
<1>1. /\ reading = "message" /\ carrier # "tcp" /\ r.st # Short /\ UNCHANGED <<carrier, written, writing>>
      /\ r.st = Bad => reading' = "ended" /\ UNCHANGED <<wire, decoded>>
      /\ r.st # Bad => /\ wire' = r.rest /\ UNCHANGED reading
                       /\ decoded' = Append(decoded, IF carrier = "reply"
                            THEN ParseSocksUdp(SocksUdpPacket(r.msg[1], r.msg[2], r.msg[3])) ELSE r.msg)
  BY DEF ReadMessage
<1>2. /\ carrier \in {"udp", "auth", "reply"} /\ carrier \in Carriers
      /\ written \in Seq(CodecMsgs) /\ n \in Nat /\ k \in 0..n
      /\ \A i \in 1..n : SoundMsg(carrier, written[i])
  BY <1>1 DEF CodecInv, CodecTypeOK, CodecMsgs, Carriers
<1>3. PICK w, tail : OnWire(w, tail)
  BY <1>1 DEF CodecInv
<1>4. /\ Carries(carrier, written, k, w, tail) /\ wire = w
      /\ tail # <<>> => carrier = "auth" /\ writing = "stopped" /\ tail \in {<< 2 >>, <<2, 1>>}
  BY <1>1, <1>3 DEF OnWire
<1>5. /\ k = n => w = tail
      /\ k < n => \E x \in Seq(Byte) : w = Frame(carrier, m) \o x /\ Carries(carrier, written, k + 1, x, tail)
  BY <1>2, <1>4, CarriesNext, ZenonT(60)
<1>6. k < n
  <2> SUFFICES ASSUME k = n PROVE FALSE
    BY <1>2
  <2>1. wire = tail
    BY <1>4, <1>5
  <2>2. CASE carrier = "auth"
    <3>1. wire \in {<<>>, << 2 >>, <<2, 1>>}
      BY <1>4, <2>1
    <3> QED
      BY <1>1, <2>2, <3>1, TailsAreShort
  <2>3. CASE carrier # "auth"
    <3>1. wire = <<>>
      BY <1>4, <2>1, <2>3
    <3> QED
      BY <1>1, <2>3, <3>1, TailsAreShort
  <2> QED
    BY <2>2, <2>3
<1>7. PICK x \in Seq(Byte) : w = Frame(carrier, m) \o x /\ Carries(carrier, written, k + 1, x, tail)
  BY <1>5, <1>6
<1>8. SoundMsg(carrier, m)
  BY <1>2, <1>6
<1> HIDE DEF m, r
<1>9. Encodable(m[1]) /\ m[2] \in 0..MaxU16 /\ m[3] \in Seq(Byte) /\ m = <<m[1], m[2], m[3]>>
  BY <1>8 DEF SoundMsg
<1>b. Bad # "ok"
  BY CodecConstants
<1>10. ASSUME r = [st |-> "ok", msg |-> m, rest |-> x] PROVE CodecInv'
  <2>1. r.st = "ok" /\ r.msg = m /\ r.rest = x
    BY <1>10
  <2>2. carrier = "reply" => ParseSocksUdp(SocksUdpPacket(m[1], m[2], m[3])) = m
    <3> SUFFICES ASSUME carrier = "reply" PROVE ParseSocksUdp(SocksUdpPacket(m[1], m[2], m[3])) = m
      OBVIOUS
    <3>1. m[1].is \in {"v4", "v6"}
      BY <1>8 DEF SoundMsg
    <3>2. ParseSocksUdp(SocksUdpPacket(m[1], m[2], m[3])) = <<m[1], m[2], m[3]>>
      BY <1>9, <3>1, SocksReads
    <3> QED
      BY <1>9, <3>2, Zenon
  <2>3. wire' = x /\ reading' = "message" /\ decoded' = Append(decoded, m)
    BY <1>1, <1>b, <2>1, <2>2, Zenon
  <2>4. decoded' = Append(decoded, written[Len(decoded) + 1])
    BY <2>3 DEF m
  <2> QED
    BY <1>1, <1>4, <1>6, <1>7, <2>3, <2>4, ReadsFrame
<1>11. CASE carrier \in {"udp", "reply"}
  <2>1. m[1].bytes # <<>> /\ Len(m[3]) <= MaxU16
    BY <1>8, <1>11 DEF SoundMsg
  <2> DEFINE f == DatagramBytes(m[1], m[2], m[3])
  <2>2. wire = f \o x
    BY <1>4, <1>7, <1>11 DEF Frame
  <2>3. ReadDatagram(f \o x) = [st |-> "ok", msg |-> <<m[1], m[2], m[3]>>, rest |-> x]
    BY <1>9, <2>1, DatagramReads
  <2>4. r = ReadDatagram(wire)
    BY <1>11 DEF r
  <2> HIDE DEF f
  <2>5. r = [st |-> "ok", msg |-> m, rest |-> x]
    BY <1>9, <2>2, <2>3, <2>4, Zenon
  <2> QED
    BY <1>10, <2>5
<1>12. CASE carrier = "auth"
  <2>1. m[3] = <<2, 1>>
    BY <1>8, <1>12 DEF SoundMsg
  <2> DEFINE f == AuthBytes(m[1], m[2])
  <2>2. wire = f \o x /\ r = ReadAuth(wire)
    BY <1>4, <1>7, <1>12 DEF Frame, r
  <2>3. /\ m[1].bytes # <<>> => ReadAuth(f \o x) = [st |-> "ok", msg |-> <<m[1], m[2], <<2, 1>>>>, rest |-> x]
        /\ m[1].bytes = <<>> => ReadAuth(f \o x).st = Bad
    BY <1>9, AuthReads
  <2> HIDE DEF f
  <2>4. CASE m[1].bytes # <<>>
    <3>1. r = [st |-> "ok", msg |-> m, rest |-> x]
      BY <1>9, <2>1, <2>2, <2>3, <2>4, Zenon
    <3> QED
      BY <1>10, <3>1
  <2>5. CASE m[1].bytes = <<>>
    <3>1. r.st = Bad
      BY <2>2, <2>3, <2>5, Zenon
    <3>2. reading' = "ended" /\ UNCHANGED <<wire, decoded>>
      BY <1>1, <3>1
    <3>3. CodecTypeOK'
      BY <1>1, <3>2 DEF CodecInv, CodecTypeOK
    <3> QED
      BY <1>1, <1>12, <3>2, <3>3 DEF CodecInv
  <2> QED
    BY <2>4, <2>5
<1> QED
  BY <1>2, <1>11, <1>12

\* The invariant holds initially and is kept.
LEMMA CodecInvHolds == CodecSpec => []CodecInv
<1>1. CodecInit => CodecInv
  <2> SUFFICES ASSUME CodecInit PROVE CodecInv
    OBVIOUS
  <2>1. written = <<>> /\ wire = <<>> /\ decoded = <<>> /\ writing = "open" /\ carrier \in Carriers
        /\ reading = IF carrier \in {"tcp", "udp"} THEN "header" ELSE "message"
    BY DEF CodecInit, Carriers
  <2>2. CodecTypeOK
    BY <2>1, CodecConstants DEF CodecTypeOK, Carriers
  <2>3. Carries(carrier, written, Len(decoded), <<>>, <<>>)
    <3>1. Len(decoded) = 0
      BY <2>1
    <3> QED
      BY <2>1, <3>1, CarriesNone, Zenon
  <2>4. OnWire(<<>>, <<>>)
    BY <2>1, <2>3 DEF OnWire
  <2> QED
    BY <2>1, <2>2, <2>4 DEF CodecInv, Carriers
<1>2. CodecInv /\ [CodecNext]_codecVars => CodecInv'
  <2> SUFFICES ASSUME CodecInv, [CodecNext]_codecVars PROVE CodecInv'
    OBVIOUS
  <2>1. CASE ServerReadsHeader
    BY <2>1, ServerReadsHeaderStep
  <2>2. CASE ReadMessage
    BY <2>2, ReadMessageStep
  <2>3. ASSUME NEW h \in Hosts, NEW p \in Ports, OpenTcp(h, p) PROVE CodecInv'
    BY <2>3, OpenTcpStep
  <2>4. ASSUME NEW h \in Hosts, NEW p \in Ports, NEW ok \in BOOLEAN, SendAuth(h, p, ok) PROVE CodecInv'
    BY <2>4, SendAuthStep
  <2>5. ASSUME NEW h \in Hosts, NEW p \in Ports, NEW d \in Payloads, SendUdp(h, p, d) PROVE CodecInv'
    BY <2>5, SendUdpStep
  <2>6. ASSUME NEW h \in IpHosts, NEW p \in Ports, NEW d \in Payloads, SendReply(h, p, d) PROVE CodecInv'
    BY <2>6, SendReplyStep
  <2>7. CASE UNCHANGED codecVars
    BY <2>7, WritesNothing DEF codecVars
  <2> QED
    BY <2>1, <2>2, <2>3, <2>4, <2>5, <2>6, <2>7 DEF CodecNext
<1> QED
  BY <1>1, <1>2, PTL DEF CodecSpec

\* For every base, address length and number of messages: the server and the client
\* decode the messages their peer wrote, in order and unchanged, and only an auth frame
\* without a host makes a reader give up (protocol.rs, local.rs).
THEOREM CodecRoundTrip == CodecSpec => []RoundTrip
<1>1. CodecInv => RoundTrip
  <2> SUFFICES ASSUME CodecInv PROVE RoundTrip
    OBVIOUS
  <2>1. DOMAIN decoded = 1..Len(decoded) /\ Len(decoded) \in Nat /\ Len(written) \in Nat
    BY DEF CodecInv, CodecTypeOK
  <2> QED
    BY <2>1 DEF CodecInv, RoundTrip
<1> QED
  BY <1>1, CodecInvHolds, PTL

-----------------------------------------------------------------------------
(* All the parts of MCDataPath.                                            *)

\* The instance MCDataPath is made of its parts: its behaviours are behaviours of each.
LEMMA PartsBehave == Spec => RelaySpec /\ DemuxSpec /\ PoolSpec /\ DnsSpec /\ CodecSpec
<1>1. Init => RelayInit /\ DemuxInit /\ PoolInit /\ DnsInit /\ CodecInit
  BY DEF Init
<1>2. [Next]_vars => [RelayNext]_relayVars
  BY DEF Next, vars
<1>3. [Next]_vars => [DemuxNext]_demuxVars
  BY DEF Next, vars
<1>4. [Next]_vars => [PoolNext]_poolVars
  BY DEF Next, vars
<1>5. [Next]_vars => [DnsNext]_dnsVars
  BY DEF Next, vars
<1>6. [Next]_vars => [CodecNext]_codecVars
  BY DEF Next, vars
<1> QED
  BY <1>1, <1>2, <1>3, <1>4, <1>5, <1>6, PTL DEF Spec, RelaySpec, DemuxSpec, PoolSpec, DnsSpec, CodecSpec

\* The relay, the demultiplexer, the endpoint pool, the resolver and the codec are well
\* typed in every behaviour of the instance MCDataPath, for every value of its constants.
THEOREM DataPathTypeCorrect == Spec => []TypeOK
<1>1. CodecInv => CodecTypeOK
  BY DEF CodecInv
<1>2. RelayTypeOK /\ DemuxTypeOK /\ PoolTypeOK /\ DnsTypeOK /\ CodecTypeOK => TypeOK
  BY DEF TypeOK
<1> QED
  BY <1>1, <1>2, PartsBehave, RelayAlways, DemuxAlways, PoolTypeCorrect, DnsTypeCorrect, CodecInvHolds, PTL
=============================================================================
