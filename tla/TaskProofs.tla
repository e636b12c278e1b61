----------------------------- MODULE TaskProofs -----------------------------
(***************************************************************************)
(* Proofs about the client's local proxy and UDP sessions, and the types   *)
(* of all the parts that MCTasks puts together.                            *)
(***************************************************************************)
EXTENDS MCTasks, ServerProofs, FiniteSetTheorems, SequenceTheorems

-----------------------------------------------------------------------------
(* LocalProxy.                                                             *)

\* Types that LocalTypeOK leaves to its runs: which functions these are.
LocalTypes ==
    /\ LocalTypeOK
    /\ taken \in [Conns -> Nat]
    /\ buffer \in [Conns -> Seq(1..MaxSent)] /\ relayed \in [Conns -> Seq(1..MaxSent)]

\* The permits in use: one for each connection with a handler, and one for the accept
\* loop from before it accepts.
Busy == {c \in Conns : inbound[c] \in Active}
PermitsCounted == free + Cardinality(Busy) + (IF acceptor = "accept" THEN 1 ELSE 0) = TcpPermits

\* The n bytes read so far are r followed by b.
Numbered(r, b, n) ==
    /\ \A i \in 1..Len(r) : r[i] = i
    /\ \A i \in 1..Len(b) : b[i] = Len(r) + i
    /\ Len(r) + Len(b) = n

\* The bytes read are those relayed, followed by those in the buffer; before the stream is
\* open nothing is relayed and no copy runs.
BytesAccounted ==
    \A c \in Conns :
      /\ Numbered(relayed[c], buffer[c], taken[c])
      /\ inbound[c] # "tunnel" => relayed[c] = <<>> /\ upCopy[c] = "none" /\ downCopy[c] = "none"
      /\ inbound[c] \in {"none", "queued", "head", "done"} => taken[c] = 0
      /\ inbound[c] \notin Active => sent[c] = 0

\* A copy has ended for one of the reasons it may end for.
CopiesEndFor ==
    \A c \in Conns :
      /\ upCopy[c] = "done" =>
           lost[c] \/ app[c] = "gone" \/ (app[c] = "half" /\ taken[c] = sent[c] /\ buffer[c] = <<>>)
      /\ downCopy[c] = "done" => lost[c] \/ app[c] = "gone" \/ remoteEnd[c]

LocalInv == LocalTypes /\ PermitsCounted /\ BytesAccounted /\ CopiesEndFor

\* An accept loop that has just started satisfies the invariant.
LEMMA LocalInitInv == LocalInit => LocalInv
<1> SUFFICES ASSUME LocalInit PROVE LocalInv
  OBVIOUS
<1> USE LocalConstants DEF LocalInit
<1>1. LocalTypes
  BY DEF LocalTypes, LocalTypeOK, LocalPCs
<1>2. PermitsCounted
  <2>1. Busy = {}
    BY DEF Busy, Active
  <2> QED BY <2>1, FS_EmptySet DEF PermitsCounted
<1>3. BytesAccounted /\ CopiesEndFor
  BY DEF BytesAccounted, CopiesEndFor, Numbered
<1> QED BY <1>1, <1>2, <1>3 DEF LocalInv

\* A handler returns from one of these places; from a tunnel only when it is over.
EndsFrom(c) == inbound[c] \in Active /\ (inbound[c] = "tunnel" => TunnelOver(c)) /\ Ends(c)

\* All the ways in which a handler returns.
LEMMA EndsOnly ==
    ASSUME NEW c \in Conns,
           RefuseHead(c) \/ HeadTimeout(c) \/ AssociateEnds(c) \/ StreamFails(c) \/ TunnelEnds(c)
    PROVE  EndsFrom(c)
BY DEF RefuseHead, HeadTimeout, AssociateEnds, StreamFails, TunnelEnds, EndsFrom, Active

\* How the permits in use change with a connection's handler.
LEMMA BusyCount ==
    /\ Cardinality(Busy) \in Nat
    /\ \A c \in Conns : c \notin Busy => Cardinality(Busy \cup {c}) = Cardinality(Busy) + 1
    /\ \A c \in Conns : c \in Busy => Cardinality(Busy \ {c}) = Cardinality(Busy) - 1
<1>1. IsFiniteSet(Busy)
  BY LocalConstants, FS_Subset DEF Busy
<1> QED BY <1>1, FS_CardinalityType, FS_AddElement, FS_RemoveElement

\* Every step of the accept loop and the handlers keeps count of the permits, so that the
\* semaphore never hands out more, or gets back more, than it has.
LEMMA PermitStep ==
    ASSUME LocalTypes, PermitsCounted, [LocalNext]_localVars
    PROVE  PermitsCounted' /\ free' \in 0..TcpPermits /\ acceptor' \in {"acquire", "accept", "sleep"}
<1> USE LocalConstants DEF LocalTypes, LocalTypeOK, loopVars
<1>0. Cardinality(Busy) \in Nat /\ TcpPermits \in Nat /\ free \in Nat
  BY BusyCount
<1>1. CASE UNCHANGED <<acceptor, free>> /\ Busy' = Busy
  BY <1>0, <1>1 DEF PermitsCounted
<1>2. ASSUME NEW c \in Conns, AcceptConn(c) PROVE PermitsCounted' /\ free' = free /\ acceptor' = "acquire"
  <2>1. c \notin Busy /\ Busy' = Busy \cup {c}
    BY <1>2 DEF AcceptConn, Busy, Active
  <2>2. Cardinality(Busy') = Cardinality(Busy) + 1
    BY <2>1, BusyCount
  <2>3. acceptor = "accept" /\ acceptor' = "acquire" /\ free' = free
    BY <1>2 DEF AcceptConn
  <2> QED BY <1>0, <2>2, <2>3 DEF PermitsCounted
<1>3. ASSUME NEW c \in Conns, EndsFrom(c)
      PROVE PermitsCounted' /\ free' = free + 1 /\ acceptor' = acceptor /\ Cardinality(Busy) > 0
  <2>1. c \in Busy /\ Busy' = Busy \ {c}
    BY <1>3 DEF EndsFrom, Ends, Busy, Active
  <2>2. Cardinality(Busy \ {c}) \in Nat
    BY <2>1, LocalConstants, FS_Subset, FS_CardinalityType DEF Busy
  <2>3. Cardinality(Busy') = Cardinality(Busy) - 1 /\ Cardinality(Busy') \in Nat
    BY <2>1, <2>2, BusyCount
  <2>4. acceptor' = acceptor /\ free' = free + 1
    BY <1>3 DEF EndsFrom, Ends
  <2> QED BY <1>0, <2>3, <2>4 DEF PermitsCounted
<1>4. CASE AcquirePermit \/ AcceptFails \/ Resume
  <2>1. Busy' = Busy
    BY <1>4 DEF AcquirePermit, AcceptFails, Resume, Busy
  <2> QED BY <1>0, <1>4, <2>1 DEF PermitsCounted, AcquirePermit, AcceptFails, Resume
<1>5. ASSUME NEW c \in Conns,
             \/ AppConnects(c) \/ AppSends(c) \/ AppCloses(c) \/ ServerFinishes(c) \/ ConnectionLost(c)
             \/ ReadSocksHead(c) \/ ReadHttpHead(c) \/ OpenStream(c) \/ OpenConnect(c) \/ OpenForward(c)
             \/ CopyUp(c) \/ CopyUpEnds(c) \/ CopyDownEnds(c)
      PROVE  UNCHANGED <<acceptor, free>> /\ Busy' = Busy
  BY <1>5 DEF AppConnects, AppSends, AppCloses, ServerFinishes, ConnectionLost, ReadSocksHead, ReadHttpHead,
              HeadRead, OpenStream, OpenConnect, OpenForward, Opened, CopyUp, CopyUpEnds, CopyDownEnds, Busy, Active
<1>6. CASE UNCHANGED localVars
  BY <1>1, <1>6 DEF localVars, Busy
<1>7. ASSUME NEW c \in Conns,
             AcceptConn(c) \/ EndsFrom(c)
      PROVE  PermitsCounted' /\ free' \in 0..TcpPermits /\ acceptor' \in {"acquire", "accept", "sleep"}
  BY <1>0, <1>2, <1>3, <1>7, BusyCount DEF PermitsCounted
<1> HIDE DEF LocalTypes, LocalTypeOK
<1> QED BY <1>1, <1>4, <1>5, <1>6, <1>7, EndsOnly DEF LocalNext

\* Types without the permits.
DataTypes ==
    /\ forwards \in BOOLEAN
    /\ kind \in [Conns -> {"socks", "connect", "plain", "udp", "tunnel", "other"}]
    /\ inbound \in [Conns -> LocalPCs]
    /\ sent \in [Conns -> 0..MaxSent] /\ taken \in [Conns -> Nat] /\ (\A c \in Conns : taken[c] <= sent[c])
    /\ app \in [Conns -> {"open", "half", "gone"}]
    /\ remoteEnd \in [Conns -> BOOLEAN] /\ lost \in [Conns -> BOOLEAN]
    /\ buffer \in [Conns -> Seq(1..MaxSent)] /\ relayed \in [Conns -> Seq(1..MaxSent)]
    /\ upCopy \in [Conns -> {"none", "running", "done"}]
    /\ downCopy \in [Conns -> {"none", "running", "done"}]

DataInv == DataTypes /\ BytesAccounted /\ CopiesEndFor

\* What the handlers do to the bytes: start with nothing, take n with the head, ...
LEMMA NumberedStart ==
    /\ Numbered(<<>>, <<>>, 0)
    /\ \A n \in 0..MaxSent : [i \in 1..n |-> i] \in Seq(1..MaxSent) /\ Numbered(<<>>, [i \in 1..n |-> i], n)
<1>1. Numbered(<<>>, <<>>, 0)
  BY DEF Numbered
<1>2. ASSUME NEW n \in 0..MaxSent
      PROVE  [i \in 1..n |-> i] \in Seq(1..MaxSent) /\ Numbered(<<>>, [i \in 1..n |-> i], n)
  <2> DEFINE b == [i \in 1..n |-> i]
  <2>0. n \in Nat /\ n <= MaxSent
    BY LocalConstants
  <2>1. b \in [1..n -> 1..MaxSent]
    BY <2>0, LocalConstants
  <2>2. b \in Seq(1..MaxSent)
    BY <2>0, <2>1, SeqDef, ZenonT(60)
  <2>3. Len(b) = n
    BY <2>0, <2>2
  <2> QED BY <2>0, <2>2, <2>3 DEF Numbered
<1> QED BY <1>1, <1>2

\* ... write the buffer, ...
LEMMA NumberedFlush ==
    ASSUME NEW b \in Seq(1..MaxSent), NEW n \in Nat, Numbered(<<>>, b, n)
    PROVE  Numbered(b, <<>>, n)
BY DEF Numbered

\* ... copy the first byte of it, ...
LEMMA NumberedNext ==
    ASSUME NEW r \in Seq(1..MaxSent), NEW b \in Seq(1..MaxSent), NEW n \in Nat, Numbered(r, b, n), b # <<>>
    PROVE  /\ Append(r, Head(b)) \in Seq(1..MaxSent) /\ Tail(b) \in Seq(1..MaxSent)
           /\ Numbered(Append(r, Head(b)), Tail(b), n)
<1>1. /\ Head(b) \in 1..MaxSent /\ Tail(b) \in Seq(1..MaxSent)
      /\ Len(Tail(b)) = Len(b) - 1 /\ \A i \in 1..Len(Tail(b)) : Tail(b)[i] = b[i + 1]
  BY HeadTailProperties, Zenon
<1>0. Head(b) = b[1] /\ Len(b) \in Nat \ {0}
  BY EmptySeq
<1>2. Head(b) = Len(r) + 1
  BY <1>0 DEF Numbered
<1> DEFINE q == Append(r, Head(b))
<1>3. /\ q \in Seq(1..MaxSent) /\ Len(q) = Len(r) + 1 /\ Len(r) \in Nat
      /\ (\A i \in 1..Len(r) : q[i] = r[i]) /\ q[Len(r) + 1] = Head(b)
  BY <1>1, AppendProperties
<1> HIDE DEF q
<1>4. \A i \in 1..Len(q) : q[i] = i
  <2>1. \A i \in 1..Len(r) : r[i] = i
    BY DEF Numbered
  <2> QED BY <1>2, <1>3, <2>1
<1>5. \A i \in 1..Len(Tail(b)) : Tail(b)[i] = Len(q) + i
  BY <1>0, <1>1, <1>3 DEF Numbered
<1>6. Len(q) + Len(Tail(b)) = n
  <2>1. Len(r) + Len(b) = n
    BY DEF Numbered
  <2> QED BY <1>0, <1>1, <1>3, <2>1
<1> QED BY <1>1, <1>3, <1>4, <1>5, <1>6 DEF Numbered, q

\* ... or the next byte of the socket.
LEMMA NumberedTake ==
    ASSUME NEW r \in Seq(1..MaxSent), NEW n \in Nat, n + 1 \in 1..MaxSent, Numbered(r, <<>>, n)
    PROVE  Append(r, n + 1) \in Seq(1..MaxSent) /\ Numbered(Append(r, n + 1), <<>>, n + 1)
<1>0. Len(r) = n
  BY EmptySeq DEF Numbered
<1> DEFINE q == Append(r, n + 1)
<1>1. /\ q \in Seq(1..MaxSent) /\ Len(q) = n + 1
      /\ (\A i \in 1..n : q[i] = r[i]) /\ q[n + 1] = n + 1
  BY <1>0, AppendProperties
<1> HIDE DEF q
<1>2. \A i \in 1..Len(q) : q[i] = i
  BY <1>0, <1>1 DEF Numbered
<1> QED BY <1>1, <1>2 DEF Numbered, q

\* The application, the server and the ends of the copies move no byte.
LEMMA NoByteMoves ==
    ASSUME DataInv, NEW c \in Conns,
           \/ AppConnects(c) \/ AppSends(c) \/ AppCloses(c) \/ ServerFinishes(c) \/ ConnectionLost(c)
           \/ AcceptConn(c) \/ CopyUpEnds(c) \/ CopyDownEnds(c)
    PROVE  DataInv'
<1> USE LocalConstants DEF DataInv, dataVars, loopVars
<1>1. CASE AppConnects(c) \/ AcceptConn(c)
  <2>1. DataTypes'
    BY <1>1, ZenonT(60) DEF DataTypes, AppConnects, AcceptConn, LocalPCs
  <2>2. BytesAccounted' /\ CopiesEndFor'
    BY <1>1 DEF DataTypes, BytesAccounted, CopiesEndFor, AppConnects, AcceptConn, Active
  <2> QED BY <2>1, <2>2
<1>2. CASE AppSends(c)
  <2>1. DataTypes'
    BY <1>2 DEF DataTypes, AppSends
  <2>2. BytesAccounted' /\ CopiesEndFor'
    BY <1>2 DEF DataTypes, BytesAccounted, CopiesEndFor, AppSends, Active
  <2> QED BY <2>1, <2>2
<1>3. CASE AppCloses(c)
  <2>1. PICK a \in {"half", "gone"} : app[c] # "gone" /\ app' = [app EXCEPT ![c] = a] /\ a # app[c]
    BY <1>3 DEF AppCloses
  <2>2. UNCHANGED <<loopVars, kind, inbound, dataVars, upCopy, downCopy, remoteEnd, lost>>
    BY <1>3 DEF AppCloses
  <2>3. DataTypes'
    BY <2>1, <2>2 DEF DataTypes
  <2>4. BytesAccounted' /\ CopiesEndFor'
    BY <2>1, <2>2 DEF DataTypes, BytesAccounted, CopiesEndFor
  <2> QED BY <2>3, <2>4
<1>4. CASE ServerFinishes(c) \/ ConnectionLost(c)
  <2>1. DataTypes'
    BY <1>4 DEF DataTypes, ServerFinishes, ConnectionLost
  <2>2. BytesAccounted'
    BY <1>4 DEF BytesAccounted, ServerFinishes, ConnectionLost
  <2>3. CopiesEndFor'
    <3>1. CASE ServerFinishes(c)
      BY <3>1 DEF DataTypes, CopiesEndFor, ServerFinishes
    <3>2. CASE ConnectionLost(c)
      BY <3>2 DEF DataTypes, CopiesEndFor, ConnectionLost
    <3> QED BY <1>4, <3>1, <3>2
  <2> QED BY <2>1, <2>2, <2>3
<1>5. CASE CopyUpEnds(c)
  <2>1. inbound[c] = "tunnel"
    BY <1>5 DEF CopyUpEnds, BytesAccounted
  <2>2. DataTypes'
    BY <1>5 DEF DataTypes, CopyUpEnds
  <2>3. BytesAccounted' /\ CopiesEndFor'
    BY <1>5, <2>1 DEF DataTypes, BytesAccounted, CopiesEndFor, CopyUpEnds
  <2> QED BY <2>2, <2>3
<1>6. CASE CopyDownEnds(c)
  <2>1. inbound[c] = "tunnel"
    BY <1>6 DEF CopyDownEnds, BytesAccounted
  <2>2. DataTypes'
    BY <1>6 DEF DataTypes, CopyDownEnds
  <2>3. BytesAccounted' /\ CopiesEndFor'
    BY <1>6, <2>1 DEF DataTypes, BytesAccounted, CopiesEndFor, CopyDownEnds
  <2> QED BY <2>2, <2>3
<1> QED BY <1>1, <1>2, <1>3, <1>4, <1>5, <1>6

\* The head of a request is read, with some of the bytes that follow it.
LEMMA HeadInv ==
    ASSUME DataInv, NEW c \in Conns, NEW n \in 0..sent[c], NEW next \in {"open", "associate"}, HeadRead(c, next, n)
    PROVE  DataInv'
<1> USE LocalConstants DEF DataInv, loopVars
<1>0. n \in 0..MaxSent /\ n <= sent[c]
  <2>1. sent[c] \in 0..MaxSent
    BY DEF DataTypes
  <2> QED BY <2>1
<1> DEFINE b == [i \in 1..n |-> i]
<1>1. b \in Seq(1..MaxSent) /\ Numbered(<<>>, b, n)
  BY <1>0, NumberedStart
<1>2. /\ inbound[c] = "head" /\ inbound' = [inbound EXCEPT ![c] = next]
      /\ taken' = [taken EXCEPT ![c] = n] /\ buffer' = [buffer EXCEPT ![c] = b]
      /\ UNCHANGED <<forwards, kind, sent, relayed, app, upCopy, downCopy, remoteEnd, lost>>
  BY DEF HeadRead
<1> HIDE DEF b
<1>3. DataTypes'
  BY <1>0, <1>1, <1>2 DEF DataTypes, LocalPCs
<1>4. BytesAccounted'
  BY <1>0, <1>1, <1>2 DEF DataTypes, BytesAccounted, Active
<1>5. CopiesEndFor'
  BY <1>2, ZenonT(60) DEF DataTypes, CopiesEndFor, BytesAccounted
<1> QED BY <1>3, <1>4, <1>5

\* The stream is open, with or without the leftover of the head written to it.
LEMMA OpenedInv ==
    ASSUME DataInv, NEW c \in Conns, inbound[c] = "open", NEW early \in BOOLEAN, Opened(c, early)
    PROVE  DataInv'
<1> USE LocalConstants DEF DataInv, loopVars
<1> DEFINE r == IF early THEN buffer[c] ELSE relayed[c]
           b == IF early THEN <<>> ELSE buffer[c]
<1>1. /\ inbound' = [inbound EXCEPT ![c] = "tunnel"]
      /\ upCopy' = [upCopy EXCEPT ![c] = "running"] /\ downCopy' = [downCopy EXCEPT ![c] = "running"]
      /\ UNCHANGED <<forwards, kind, sent, taken, app, remoteEnd, lost>>
  BY DEF Opened
<1>2. relayed' = [relayed EXCEPT ![c] = r] /\ buffer' = [buffer EXCEPT ![c] = b]
  <2>1. CASE early
    BY <2>1 DEF Opened
  <2>2. CASE ~early
    BY <2>2 DEF Opened, DataTypes
  <2> QED BY <2>1, <2>2
<1>3. relayed[c] = <<>> /\ buffer[c] \in Seq(1..MaxSent) /\ taken[c] \in Nat /\ relayed[c] \in Seq(1..MaxSent)
  BY DEF DataTypes, BytesAccounted
<1>4. r \in Seq(1..MaxSent) /\ b \in Seq(1..MaxSent) /\ Numbered(r, b, taken[c])
  <2>1. Numbered(<<>>, buffer[c], taken[c])
    BY <1>3 DEF BytesAccounted
  <2> QED BY <1>3, <2>1, NumberedFlush, EmptySeq
<1> HIDE DEF r, b
<1>5. DataTypes'
  BY <1>1, <1>2, <1>4 DEF DataTypes, LocalPCs
<1>6. BytesAccounted'
  BY <1>1, <1>2, <1>4 DEF DataTypes, BytesAccounted, Active
<1>7. CopiesEndFor'
  BY <1>1, <1>2 DEF DataTypes, CopiesEndFor, BytesAccounted
<1> QED BY <1>5, <1>6, <1>7

\* One more byte is relayed, the first of the buffer or the next of the socket.
LEMMA CopyInv == ASSUME DataInv, NEW c \in Conns, CopyUp(c) PROVE DataInv'
<1> USE LocalConstants DEF DataInv, loopVars
<1>0. inbound[c] = "tunnel" /\ upCopy[c] = "running"
  BY DEF CopyUp, BytesAccounted
<1>1. CASE upCopy' = [upCopy EXCEPT ![c] = "done"] /\ lost[c] /\ UNCHANGED <<taken, buffer, relayed>>
  <2>1. DataTypes'
    BY <1>1 DEF DataTypes, CopyUp
  <2>2. BytesAccounted' /\ CopiesEndFor'
    BY <1>0, <1>1 DEF DataTypes, BytesAccounted, CopiesEndFor, CopyUp
  <2> QED BY <2>1, <2>2
<1>2. CASE /\ buffer[c] # <<>>
           /\ relayed' = [relayed EXCEPT ![c] = Append(@, Head(buffer[c]))]
           /\ buffer' = [buffer EXCEPT ![c] = Tail(@)]
           /\ UNCHANGED <<taken, upCopy>>
  <2> DEFINE q == Append(relayed[c], Head(buffer[c]))
             b == Tail(buffer[c])
  <2>1. q \in Seq(1..MaxSent) /\ b \in Seq(1..MaxSent) /\ Numbered(q, b, taken[c])
    <3>1. buffer[c] \in Seq(1..MaxSent) /\ relayed[c] \in Seq(1..MaxSent) /\ taken[c] \in Nat
      BY DEF DataTypes
    <3>2. Numbered(relayed[c], buffer[c], taken[c])
      BY DEF BytesAccounted
    <3> QED BY <1>2, <3>1, <3>2, NumberedNext
  <2>2. relayed' = [relayed EXCEPT ![c] = q] /\ buffer' = [buffer EXCEPT ![c] = b]
    BY <1>2
  <2> HIDE DEF q, b
  <2>3. UNCHANGED <<forwards, kind, inbound, sent, app, downCopy, remoteEnd, lost>>
    BY DEF CopyUp
  <2>4. DataTypes'
    BY <1>2, <2>1, <2>2, <2>3 DEF DataTypes
  <2>5. BytesAccounted'
    <3>1. \A d \in Conns \ {c} : relayed'[d] = relayed[d] /\ buffer'[d] = buffer[d]
      BY <2>2 DEF DataTypes
    <3>2. relayed'[c] = q /\ buffer'[c] = b
      BY <2>2 DEF DataTypes
    <3> QED BY <1>0, <1>2, <2>1, <2>3, <3>1, <3>2 DEF BytesAccounted
  <2>6. CopiesEndFor'
    BY <1>0, <1>2, <2>2, <2>3 DEF DataTypes, CopiesEndFor
  <2> QED BY <2>4, <2>5, <2>6
<1>3. CASE /\ buffer[c] = <<>> /\ taken[c] < sent[c]
           /\ taken' = [taken EXCEPT ![c] = @ + 1]
           /\ relayed' = [relayed EXCEPT ![c] = Append(@, taken[c] + 1)]
           /\ UNCHANGED <<buffer, upCopy>>
  <2> DEFINE q == Append(relayed[c], taken[c] + 1)
  <2>1. relayed[c] \in Seq(1..MaxSent) /\ taken[c] \in Nat /\ taken[c] + 1 \in 1..MaxSent
    BY <1>3 DEF DataTypes
  <2>2. Numbered(relayed[c], <<>>, taken[c])
    BY <1>3 DEF BytesAccounted
  <2>3. q \in Seq(1..MaxSent) /\ Numbered(q, <<>>, taken[c] + 1)
    BY <2>1, <2>2, NumberedTake
  <2>4. relayed' = [relayed EXCEPT ![c] = q]
    BY <1>3
  <2> HIDE DEF q
  <2>5. UNCHANGED <<forwards, kind, inbound, sent, app, downCopy, remoteEnd, lost>>
    BY DEF CopyUp
  <2>6. DataTypes'
    BY <1>3, <2>3, <2>4, <2>5 DEF DataTypes
  <2>7. BytesAccounted'
    <3>1. \A d \in Conns \ {c} : relayed'[d] = relayed[d] /\ taken'[d] = taken[d]
      BY <1>3, <2>4 DEF DataTypes
    <3>2. relayed'[c] = q /\ taken'[c] = taken[c] + 1 /\ buffer'[c] = <<>>
      BY <1>3, <2>4 DEF DataTypes
    <3> QED BY <1>0, <1>3, <2>3, <2>5, <3>1, <3>2 DEF BytesAccounted
  <2>8. CopiesEndFor'
    BY <1>0, <1>3, <2>5 DEF DataTypes, CopiesEndFor
  <2> QED BY <2>6, <2>7, <2>8
<1> QED BY <1>1, <1>2, <1>3 DEF CopyUp

\* A handler that returns leaves nothing behind.
LEMMA EndsInv == ASSUME DataInv, NEW c \in Conns, Ends(c) PROVE DataInv'
<1> USE LocalConstants DEF DataInv, Ends
<1>1. DataTypes'
  BY DEF DataTypes, LocalPCs
<1>2. BytesAccounted'
  BY NumberedStart DEF DataTypes, BytesAccounted, Active
<1>3. CopiesEndFor'
  BY DEF DataTypes, CopiesEndFor
<1> QED BY <1>1, <1>2, <1>3

\* Every step of the local proxy keeps the invariant.
LEMMA LocalStep == LocalInv /\ [LocalNext]_localVars => LocalInv'
<1> SUFFICES ASSUME LocalInv, [LocalNext]_localVars PROVE LocalInv'
  OBVIOUS
<1>0. DataInv /\ LocalTypes /\ PermitsCounted
  BY DEF LocalInv, LocalTypes, LocalTypeOK, DataInv, DataTypes
<1>1. DataInv'
  <2>1. CASE AcquirePermit \/ AcceptFails \/ Resume \/ UNCHANGED localVars
    <3>1. UNCHANGED <<forwards, kind, inbound, dataVars, app, upCopy, downCopy, remoteEnd, lost>>
      BY <2>1 DEF AcquirePermit, AcceptFails, Resume, localVars, dataVars
    <3>2. DataTypes'
      BY <1>0, <3>1 DEF DataInv, DataTypes, dataVars
    <3>3. BytesAccounted' /\ CopiesEndFor'
      BY <1>0, <3>1 DEF DataInv, BytesAccounted, CopiesEndFor, dataVars
    <3> QED BY <3>2, <3>3 DEF DataInv
  <2>2. ASSUME NEW c \in Conns, EndsFrom(c) PROVE DataInv'
    BY <1>0, <2>2, EndsInv DEF EndsFrom
  <2>3. ASSUME NEW c \in Conns, ReadSocksHead(c) \/ ReadHttpHead(c) PROVE DataInv'
    <3>1. 0 \in 0..sent[c]
      BY <1>0 DEF DataInv, DataTypes
    <3>2. CASE ReadSocksHead(c)
      <4>1. PICK next \in {"open", "associate"} : HeadRead(c, next, 0)
        BY <3>2 DEF ReadSocksHead
      <4> QED BY <1>0, <3>1, <4>1, HeadInv
    <3>3. CASE ReadHttpHead(c)
      <4>1. PICK n \in 0..sent[c] : HeadRead(c, "open", n)
        BY <3>3 DEF ReadHttpHead
      <4> QED BY <1>0, <4>1, HeadInv
    <3> QED BY <2>3, <3>2, <3>3
  <2>4. ASSUME NEW c \in Conns, OpenStream(c) \/ OpenConnect(c) \/ OpenForward(c) PROVE DataInv'
    BY <1>0, <2>4, OpenedInv DEF OpenStream, OpenConnect, OpenForward
  <2> QED BY <1>0, <2>1, <2>2, <2>3, <2>4, NoByteMoves, CopyInv, EndsOnly DEF LocalNext
<1>2. LocalTypes'
  <2>1. DataTypes' /\ free' \in 0..TcpPermits /\ acceptor' \in {"acquire", "accept", "sleep"}
    BY <1>0, <1>1, PermitStep DEF DataInv
  <2> QED BY <2>1, LocalConstants DEF DataTypes, LocalTypes, LocalTypeOK
<1> QED BY <1>0, <1>1, <1>2, PermitStep DEF LocalInv, DataInv

\* The QUIC stream of every connection carries what the application sent, in order and
\* without a gap, for any number of connections and bytes, wherever the head's buffer
\* ended and whichever way the stream was opened.
THEOREM StreamsInOrder == LocalSpec => []RelayedInOrder
<1>1. LocalInv => RelayedInOrder
  <2> SUFFICES ASSUME LocalInv, NEW c \in Conns PROVE relayed[c] = [i \in 1..Len(relayed[c]) |-> i]
    BY DEF RelayedInOrder
  <2>1. relayed[c] \in Seq(1..MaxSent) /\ \A i \in 1..Len(relayed[c]) : relayed[c][i] = i
    BY DEF LocalInv, LocalTypes, BytesAccounted, Numbered
  <2>2. relayed[c] \in [1..Len(relayed[c]) -> 1..MaxSent]
    BY <2>1, LenProperties
  <2> QED BY <2>1, <2>2
<1> QED BY LocalInitInv, LocalStep, <1>1, PTL DEF LocalSpec

\* The permits of the accept loop are exactly those of the handlers and its own: none is
\* lost on any error path and none is given back twice.
THEOREM PermitsKept == LocalSpec => []PermitsCounted
<1>1. LocalInv => PermitsCounted
  BY DEF LocalInv
<1> QED BY LocalInitInv, LocalStep, <1>1, PTL DEF LocalSpec

\* A handler leaves a tunnel only after both directions have ended for a reason.
LEMMA HalfCloseStep ==
    ASSUME LocalInv, [LocalNext]_localVars, NEW c \in Conns, inbound[c] = "tunnel", inbound'[c] = "done"
    PROVE  app[c] = "gone" \/ lost[c] \/
             (remoteEnd[c] /\ (kind[c] = "plain" \/ (app[c] = "half" /\ Len(relayed[c]) = sent[c])))
<1>0. inbound \in [Conns -> LocalPCs]
  BY DEF LocalInv, LocalTypes, LocalTypeOK
<1>1. EndsFrom(c)
  <2>1. ASSUME NEW d \in Conns,
               \/ AppConnects(d) \/ AppSends(d) \/ AppCloses(d) \/ ServerFinishes(d) \/ ConnectionLost(d)
               \/ AcceptConn(d) \/ ReadSocksHead(d) \/ ReadHttpHead(d)
               \/ OpenStream(d) \/ OpenConnect(d) \/ OpenForward(d)
               \/ CopyUp(d) \/ CopyUpEnds(d) \/ CopyDownEnds(d)
        PROVE  FALSE
    BY <1>0, <2>1
    DEF AppConnects, AppSends, AppCloses, ServerFinishes, ConnectionLost, AcceptConn, ReadSocksHead,
        ReadHttpHead, HeadRead, OpenStream, OpenConnect, OpenForward, Opened, CopyUp, CopyUpEnds, CopyDownEnds
  <2>2. CASE AcquirePermit \/ AcceptFails \/ Resume \/ UNCHANGED localVars
    BY <2>2 DEF AcquirePermit, AcceptFails, Resume, localVars
  <2>3. ASSUME NEW d \in Conns, EndsFrom(d) PROVE d = c
    BY <1>0, <2>3 DEF EndsFrom, Ends
  <2> QED BY <2>1, <2>2, <2>3, EndsOnly DEF LocalNext
<1>2. TunnelOver(c)
  BY <1>1 DEF EndsFrom
<1>3. buffer[c] = <<>> => Len(relayed[c]) = taken[c]
  <2>1. relayed[c] \in Seq(1..MaxSent) /\ Len(relayed[c]) + Len(buffer[c]) = taken[c]
    BY DEF LocalInv, LocalTypes, BytesAccounted, Numbered
  <2> QED BY <2>1, EmptySeq, LenProperties
<1> QED BY <1>2, <1>3 DEF TunnelOver, LocalInv, CopiesEndFor

\* No tunnel is cut short: a handler returns from one only after the answer has ended and,
\* except in plain HTTP, after every byte of an application that closed its side is on the
\* stream.
THEOREM HalfCloseHonoured == LocalSpec => HalfCloseKept
<1>1. LocalInv /\ [LocalNext]_localVars =>
        [\A c \in Conns :
           inbound[c] = "tunnel" /\ inbound'[c] = "done" =>
             app[c] = "gone" \/ lost[c] \/
               (remoteEnd[c] /\ (kind[c] = "plain" \/ (app[c] = "half" /\ Len(relayed[c]) = sent[c])))]_localVars
  BY HalfCloseStep
<1> QED BY LocalInitInv, LocalStep, <1>1, PTL DEF LocalSpec, HalfCloseKept

-----------------------------------------------------------------------------
(* UdpSessions.                                                            *)

\* The source is in `opening` exactly while one session of it is being opened, and ids are
\* used in order.
OneOpener ==
    /\ opening <=> \E i \in Ids : opener[i] \in {"dialing", "guard"}
    /\ \A i, j \in Ids : opener[i] \in {"dialing", "guard"} /\ opener[j] \in {"dialing", "guard"} => i = j
    /\ \A i \in Ids : i > seq => opener[i] = "none"

\* A supervisor that has left its select has stopped both tasks, or has seen them end.
Supervised ==
    \A i \in Ids :
      /\ sup[i] = "none" <=> writer[i] = "none"
      /\ sup[i] = "none" <=> reader[i] = "none"
      /\ sup[i] \in {"awaitReader", "awaitWriter", "check", "remove", "ended"} =>
           writer[i] \in {"aborted", "ended"} /\ reader[i] \in {"aborted", "ended"}

SessionsInv == SessionsTypeOK /\ OneOpener /\ Supervised

\* A receive loop that has just started satisfies the invariant.
LEMMA SessionsInitInv == SessionsInit => SessionsInv
<1> SUFFICES ASSUME SessionsInit PROVE SessionsInv
  OBVIOUS
<1> USE UdpSessionsConstants DEF SessionsInit
<1>1. idle \in BOOLEAN /\ opening \in BOOLEAN /\ cancelled \in BOOLEAN
  OBVIOUS
<1>2. SessionsTypeOK
  BY <1>1 DEF SessionsTypeOK, TaskStates, LoopStates, SupStates
<1>3. OneOpener /\ Supervised
  BY DEF OneOpener, Supervised
<1> QED BY <1>2, <1>3 DEF SessionsInv

\* The steps of the receive loop and of the cleanup start and stop no task but an opener.
LEMMA LoopStepInv ==
    ASSUME SessionsInv,
           \/ ReceivePacket \/ LoopStep \/ LoopExit \/ IdlePasses \/ Cleanup \/ SessionFinished
           \/ UNCHANGED sessionsVars
    PROVE  SessionsInv'
<1> USE UdpSessionsConstants DEF SessionsInv, tasks, LoopAt
<1>1. CASE ReceivePacket
  <2>1. SessionsTypeOK'
    <3>1. idle' = FALSE \/ idle' = idle
      BY <1>1 DEF ReceivePacket
    <3>2. idle' \in BOOLEAN
      BY <3>1 DEF SessionsTypeOK
    <3>3. recvLoop' \in [pc : LoopStates, id : Ids \cup {NoSession}]
      BY <1>1 DEF SessionsTypeOK, ReceivePacket, LoopStates
    <3>4. queue' \in [Ids -> 0..QueueCap]
      BY <1>1 DEF SessionsTypeOK, ReceivePacket
    <3> QED BY <1>1, <3>2, <3>3, <3>4 DEF SessionsTypeOK, ReceivePacket
  <2> QED BY <1>1, <2>1 DEF OneOpener, Supervised, ReceivePacket
<1>2. CASE LoopRecheck
  <2>1. SessionsTypeOK'
    BY <1>2 DEF SessionsTypeOK, LoopRecheck, LoopStates
  <2> QED BY <1>2, <2>1 DEF OneOpener, Supervised, LoopRecheck
<1>3. CASE LoopRemove \/ LoopBound
  <2>1. SessionsTypeOK'
    BY <1>3 DEF SessionsTypeOK, LoopRemove, LoopBound, LoopStates
  <2> QED BY <1>3, <2>1 DEF OneOpener, Supervised, LoopRemove, LoopBound
<1>4. CASE LoopOpen
  <2>1. CASE opening /\ UNCHANGED <<seq, opener, opening>>
    <3>1. SessionsTypeOK'
      BY <1>4, <2>1 DEF SessionsTypeOK, LoopOpen, LoopStates
    <3> QED BY <1>4, <2>1, <3>1 DEF OneOpener, Supervised, LoopOpen
  <2>2. CASE /\ ~opening /\ seq < MaxSessions /\ opening' = TRUE /\ seq' = seq + 1
             /\ opener' = [opener EXCEPT ![seq + 1] = "dialing"]
    <3>0. seq + 1 \in Ids /\ seq \in Nat
      BY <2>2 DEF SessionsTypeOK, Ids
    <3>1. SessionsTypeOK'
      BY <1>4, <2>2, <3>0 DEF SessionsTypeOK, LoopOpen, LoopStates
    <3>2. OneOpener'
      BY <1>4, <2>2, <3>0 DEF SessionsTypeOK, OneOpener, LoopOpen, Ids
    <3> QED BY <1>4, <3>1, <3>2 DEF Supervised, LoopOpen
  <2> QED BY <1>4, <2>1, <2>2 DEF LoopOpen
<1>5. CASE LoopExit
  <2>1. SessionsTypeOK'
    BY <1>5 DEF SessionsTypeOK, LoopExit, LoopStates
  <2> QED BY <1>5, <2>1 DEF OneOpener, Supervised, LoopExit
<1>6. CASE IdlePasses \/ Cleanup
  <2>1. SessionsTypeOK'
    <3>1. (idle' = TRUE \/ idle' = idle) /\ (entry' = entry \/ entry' = NoSession)
      BY <1>6 DEF IdlePasses, Cleanup
    <3>2. idle \in BOOLEAN /\ entry \in Ids \cup {NoSession}
      BY DEF SessionsTypeOK
    <3>3. idle' \in BOOLEAN
      BY <3>1, <3>2, Zenon
    <3>4. entry' \in Ids \cup {NoSession}
      BY <3>1, <3>2
    <3> QED BY <1>6, <3>3, <3>4 DEF SessionsTypeOK, IdlePasses, Cleanup
  <2> QED BY <1>6, <2>1 DEF OneOpener, Supervised, IdlePasses, Cleanup
<1>7. CASE SessionFinished \/ UNCHANGED sessionsVars
  BY <1>7 DEF SessionsTypeOK, OneOpener, Supervised, SessionFinished, sessionsVars
<1> QED BY <1>1, <1>2, <1>3, <1>4, <1>5, <1>6, <1>7 DEF LoopStep

\* The steps of one session's opener, tasks and supervisor.
LEMMA SessionStepInv ==
    ASSUME SessionsInv, NEW i \in Ids, SessionStep(i) \/ WriterFails(i) \/ ReaderFails(i)
    PROVE  SessionsInv'
<1> USE UdpSessionsConstants DEF SessionsInv, EndTask
<1>1. CASE OpenFails(i) \/ OpenEnds(i)
  <2>1. SessionsTypeOK'
    BY <1>1 DEF SessionsTypeOK, OpenFails, OpenEnds
  <2> QED BY <1>1, <2>1 DEF SessionsTypeOK, OneOpener, Supervised, OpenFails, OpenEnds
<1>2. CASE OpenSucceeds(i)
  <2>1. SessionsTypeOK'
    BY <1>2 DEF SessionsTypeOK, OpenSucceeds, TaskStates, SupStates
  <2> QED BY <1>2, <2>1 DEF SessionsTypeOK, OneOpener, Supervised, OpenSucceeds
<1>3. CASE WriterSends(i)
  <2>1. SessionsTypeOK'
    BY <1>3 DEF SessionsTypeOK, WriterSends
  <2> QED BY <1>3, <2>1 DEF OneOpener, Supervised, WriterSends
<1>4. CASE WriterStops(i) \/ WriterFails(i)
  <2>1. SessionsTypeOK'
    BY <1>4 DEF SessionsTypeOK, WriterStops, WriterFails, TaskStates
  <2> QED BY <1>4, <2>1 DEF SessionsTypeOK, OneOpener, Supervised, WriterStops, WriterFails
<1>5. CASE ReaderStops(i) \/ ReaderFails(i)
  <2>1. SessionsTypeOK'
    BY <1>5 DEF SessionsTypeOK, ReaderStops, ReaderFails, TaskStates
  <2> QED BY <1>5, <2>1 DEF SessionsTypeOK, OneOpener, Supervised, ReaderStops, ReaderFails
<1>6. CASE Supervise(i)
  <2>1. SessionsTypeOK'
    BY <1>6 DEF SessionsTypeOK, Supervise, SessionAbort, TaskStates, SupStates
  <2>2. Supervised'
    <3>1. writer[i] \in {"running", "aborted", "ended"} /\ reader[i] \in {"running", "aborted", "ended"}
      BY <1>6 DEF SessionsTypeOK, Supervise, TaskStates, Supervised
    <3> QED BY <1>6, <3>1 DEF SessionsTypeOK, Supervised, Supervise, SessionAbort
  <2> QED BY <1>6, <2>1, <2>2 DEF OneOpener, Supervise
<1>7. CASE SupAwait(i) \/ SupCheck(i) \/ SupRemove(i)
  <2>1. SessionsTypeOK'
    BY <1>7 DEF SessionsTypeOK, SupAwait, SupCheck, SupRemove, SupStates
  <2>2. Supervised'
    BY <1>7 DEF SessionsTypeOK, Supervised, SupAwait, SupCheck, SupRemove
  <2> QED BY <1>7, <2>1, <2>2 DEF OneOpener, SupAwait, SupCheck, SupRemove
<1> QED BY <1>1, <1>2, <1>3, <1>4, <1>5, <1>6, <1>7 DEF SessionStep

\* Every step of the sessions of a source keeps the invariant.
LEMMA SessionsStep == SessionsInv /\ [SessionsNext]_sessionsVars => SessionsInv'
BY LoopStepInv, SessionStepInv DEF SessionsNext

\* Of one source, at most one session is being opened, and the mark that keeps others from
\* opening one is set exactly as long (OpeningGuard), whatever order openings, failures,
\* datagrams and cleanups come in.
THEOREM OneSessionOpening == SessionsSpec => []OneOpener
<1>1. SessionsInv => OneOpener
  BY DEF SessionsInv
<1> QED BY SessionsInitInv, SessionsStep, <1>1, PTL DEF SessionsSpec

\* A supervisor never returns while one of its two tasks runs on unstopped (the safety half
\* of SessionsReleased).
THEOREM NoTaskOutlivesSupervisor == SessionsSpec => []Supervised
<1>1. SessionsInv => Supervised
  BY DEF SessionsInv
<1> QED BY SessionsInitInv, SessionsStep, <1>1, PTL DEF SessionsSpec

-----------------------------------------------------------------------------
(* All the parts of MCTasks.                                               *)

AllInv == SessionsInv /\ LocalInv /\ UnderlayInv /\ ConnInv /\ CertInv /\ ShutdownInv

\* Every part starts in its invariant.
LEMMA AllInitInv == Init => AllInv
BY SessionsInitInv, LocalInitInv, UnderlayInitInv, ConnInitInv, CertInitInv, ShutdownInitInv DEF Init, AllInv

\* A step of one part leaves the others where they are.
LEMMA AllStep == AllInv /\ [Next]_vars => AllInv'
<1> SUFFICES ASSUME AllInv, [Next]_vars PROVE AllInv'
  OBVIOUS
<1>0. SessionsInv /\ LocalInv /\ UnderlayInv /\ ConnInv /\ CertInv /\ ShutdownInv
  BY DEF AllInv
<1>1. [SessionsNext]_sessionsVars /\ [LocalNext]_localVars /\ [UnderlayNext]_underlayVars
  BY DEF Next, vars
<1>2. [ConnNext]_connVars /\ [CertNext]_certVars /\ [ShutdownNext]_shutdownVars
  BY DEF Next, vars
<1>3. ConnInv'
  BY <1>0, <1>2, ConnTypeStep, ConnAuthStep DEF ConnInv
<1> QED BY <1>0, <1>1, <1>2, <1>3, SessionsStep, LocalStep, UnderlayStep, CertStep, ShutdownStep DEF AllInv

\* Every part of the instance MCTasks is well typed, for every value of its constants.
THEOREM TasksTypeCorrect == FairSpec => []TypeOK
<1>1. AllInv => TypeOK
  BY DEF AllInv, TypeOK, SessionsInv, LocalInv, LocalTypes, UnderlayInv, ConnInv, CertInv, ShutdownInv
<1> QED BY AllInitInv, AllStep, <1>1, PTL DEF FairSpec
=============================================================================
