------------------------------ MODULE TcpProofs ------------------------------
(* What holds of a TCP connection for every stream, header and integer width. *)
EXTENDS TcpConn, SequenceTheorems, TLAPS

\* The facts about the reader that make the type invariant inductive: the third
\* malformed body leaves the loop, and only the deferred function calls DisConnect.
Typed ==
  /\ TypeOK
  /\ pc \in {"none", "scan", "connect", "pushRoom"} => scanTimes \in 1 .. 3
  /\ pc # "ended" => departures = 0
  /\ conn = "backlog" => pc = "none"

LEMMA TypedInit == Init => Typed
<1> SUFFICES ASSUME Init PROVE Typed
  OBVIOUS
<1>1. handled \in Seq(Ops)
  BY EmptySeq DEF Init
<1>2. CpuNum \in Nat
  BY TcpAssumption DEF TcpAssumption
<1>3. /\ stream \in Streams /\ peer = "reading" /\ acceptors = CpuNum /\ conn = "backlog"
      /\ received = 0 /\ pos = 0 /\ at = 1 /\ pc = "none" /\ scanTimes = 1
      /\ registered \in BOOLEAN /\ wpc = "none" /\ departures = 0
  BY DEF Init
<1> QED
  BY <1>1, <1>2, <1>3 DEF Typed, TypeOK

\* A stream is a sequence of packages whose lengths are integers.
LEMMA Packages ==
  ASSUME TypeOK
  PROVE  /\ stream \in Seq([op : Ops, size : 0 .. 2 * Half, stop : Nat])
         /\ \A i \in DOMAIN stream : /\ stream[i] \in [op : Ops, size : 0 .. 2 * Half, stop : Nat]
                                     /\ stream[i].stop = Start(stream, i) + HeaderLength + stream[i].size
                                     /\ PackageLength(stream[i]) \in Int
                                     /\ Decoded(stream[i]) \in Ops
<1>1. stream \in Seq([op : Ops, size : 0 .. 2 * Half, stop : Nat])
  BY TcpAssumption DEF TcpAssumption, TypeOK
<1>2. ASSUME NEW i \in DOMAIN stream
      PROVE  stream[i] \in [op : Ops, size : 0 .. 2 * Half, stop : Nat]
  <2> DEFINE S == [op : Ops, size : 0 .. 2 * Half, stop : Nat]
  <2>1. stream \in Seq(S)
    BY <1>1
  <2> HIDE DEF S
  <2>2. stream[i] \in S
    BY <2>1, LenProperties, ElementOfSeq
  <2> QED
    BY <2>2 DEF S
<1>3. ASSUME NEW i \in DOMAIN stream
      PROVE  stream[i].stop = Start(stream, i) + HeaderLength + stream[i].size
  BY TcpAssumption DEF TcpAssumption, TypeOK
<1>4. ASSUME NEW i \in DOMAIN stream
      PROVE  PackageLength(stream[i]) \in Int
  <2>1. HeaderLength \in Int /\ Half \in Nat /\ Half > 0 /\ stream[i].size \in Int
    BY <1>2, TcpAssumption DEF TcpAssumption
  <2>2. \A n \in Int : Int16(n) \in Int
    BY <2>1 DEF Int16
  <2> QED
    BY <2>1, <2>2 DEF PackageLength
<1>5. ASSUME NEW i \in DOMAIN stream
      PROVE  Decoded(stream[i]) \in Ops
  BY <1>2 DEF Decoded, Ops
<1> QED
  BY <1>1, <1>2, <1>3, <1>4, <1>5

LEMMA TypedNext == Typed /\ [Next]_vars => Typed'
<1> SUFFICES ASSUME Typed, [Next]_vars PROVE Typed'
  OBVIOUS
<1>0. HeaderLength \in Nat \ {0} /\ CpuNum \in Nat \ {0} /\ MaxToken \in Nat
  BY TcpAssumption DEF TcpAssumption
<1> USE DEF Typed, TypeOK, peerVars, scanVars
<1>1. CASE Accept
  BY <1>1 DEF Accept
<1>9. CASE AcceptFails
  <2>1. acceptors' \in 0 .. CpuNum
    BY <1>0, <1>9 DEF AcceptFails
  <2> QED
    BY <1>9, <2>1 DEF AcceptFails
<1>2. ASSUME NEW n \in 1 .. MaxToken, Read(n)
      PROVE  Typed'
  BY <1>0, <1>2 DEF Read
<1>3. CASE ScanEnds \/ TokenPanics \/ PushRoom \/ CallFails
  BY <1>3 DEF ScanEnds, TokenPanics, PushRoom, CallFails
<1>4. CASE Token
  <2> DEFINE p  == stream[at]
             op == Decoded(p)
  <2>1. at \in DOMAIN stream /\ PackageLength(p) <= received - pos /\ PackageLength(p) >= HeaderLength
    BY <1>4 DEF Token, HasToken, Complete, Buffered
  <2>2. PackageLength(p) \in Int /\ op \in Ops /\ p \in [op : Ops, size : 0 .. 2 * Half, stop : Nat]
    BY <2>1, Packages
  <2>3. /\ pc = "scan" /\ pos' = pos + PackageLength(p) /\ handled' = Append(handled, op)
        /\ at' = IF PackageLength(p) = HeaderLength + p.size THEN at + 1 ELSE 0
        /\ scanTimes' = IF op = "malformed" THEN scanTimes + 1 ELSE scanTimes
        /\ pc' = CASE op = "malformed" -> IF scanTimes + 1 > 3 THEN "defer" ELSE "scan"
                   [] op = "blank"     -> "defer"
                   [] op = "build"     -> "connect"
                   [] op = "roomSend"  -> "pushRoom"
                   [] op = "unknown"   -> "scan"
        /\ UNCHANGED <<stream, peer, acceptors, conn, received, registered, wpc, departures>>
    BY <1>4 DEF Token, Consumed, LastTime
  <2> HIDE DEF p, op
  <2>4. pos' \in 0 .. received /\ at' \in Nat
    <3>1. pos' = pos + PackageLength(p) /\ at' \in {at + 1, 0}
      BY <2>3
    <3>2. received \in Nat /\ pos \in 0 .. received /\ at \in Nat
      OBVIOUS
    <3> QED
      BY <1>0, <2>1, <2>2, <3>1, <3>2
  <2>5. handled' \in Seq(Ops)
    BY <2>2, <2>3
  <2>6. /\ scanTimes' \in 1 .. 4 /\ pc' \in {"scan", "defer", "connect", "pushRoom"}
        /\ pc' # "defer" => scanTimes' \in 1 .. 3
    BY <2>2, <2>3 DEF Ops
  <2> QED
    BY <2>3, <2>4, <2>5, <2>6
<1>5. CASE Connected
  BY <1>5 DEF Connected
<1>6. CASE Deferred
  BY <1>6 DEF Deferred, Finished
<1>7. CASE WriteBegins \/ WriteEnds \/ Peer
  BY <1>7 DEF WriteBegins, WriteEnds, Peer
<1>8. CASE UNCHANGED vars
  BY <1>8 DEF vars
<1> QED
  BY <1>1, <1>2, <1>3, <1>4, <1>5, <1>6, <1>7, <1>8, <1>9 DEF Next, Reader

\* Every variable keeps its type; the reader goes round its loop three times at most and
\* takes leave of logic once at most.
THEOREM TypeCorrect == FairSpec => []TypeOK
<1>1. Typed => TypeOK
  BY DEF Typed
<1> QED
  BY TypedInit, TypedNext, <1>1, PTL DEF FairSpec, Spec
-----------------------------------------------------------------------------
\* What a step that decodes nothing leaves of the order.
LEMMA OrderKept ==
  ASSUME InOrder, UNCHANGED <<stream, pos, at, handled>>, pc' = "panic" => ~AllFit
  PROVE  InOrder'
BY DEF InOrder, AllFit

LEMMA OrderNext == Typed /\ InOrder /\ [Next]_vars => InOrder'
<1> SUFFICES ASSUME Typed, InOrder, [Next]_vars PROVE InOrder'
  OBVIOUS
<1>0. HeaderLength \in Nat \ {0}
  BY TcpAssumption DEF TcpAssumption
<1>1. CASE Token
  <2> SUFFICES ASSUME AllFit' PROVE InOrder'
    BY DEF InOrder
  <2> DEFINE p == stream[at]
  <2>1. at \in DOMAIN stream /\ stream' = stream
    BY <1>1 DEF Token, HasToken, peerVars
  <2>2. AllFit /\ PackageLength(p) = HeaderLength + p.size
    BY <2>1 DEF AllFit, Fits
  <2>3. /\ stream \in Seq([op : Ops, size : 0 .. 2 * Half, stop : Nat])
        /\ p.stop = Start(stream, at) + HeaderLength + p.size
        /\ p.size \in Nat /\ p.stop \in Nat
    BY <2>1, Packages, TcpAssumption DEF Typed, TcpAssumption
  <2>4. /\ at = Len(handled) + 1 /\ pos = Start(stream, at) /\ handled \in Seq(Ops) /\ Len(handled) \in Nat
        /\ \A i \in DOMAIN handled : handled[i] = Decoded(stream[i])
    BY <2>2 DEF InOrder, Typed, TypeOK
  <2>5. /\ handled' = Append(handled, Decoded(p)) /\ pos' = pos + PackageLength(p)
        /\ at' = IF PackageLength(p) = HeaderLength + p.size THEN at + 1 ELSE 0
    BY <1>1 DEF Token, Consumed
  <2>6. pc' # "panic"
    <3>1. Decoded(p) \in Ops
      BY <2>1, Packages DEF Typed
    <3> QED
      BY <1>1, <3>1 DEF Token, Ops
  <2>7. at' = at + 1 /\ pos' = p.stop
    <3>1. PackageLength(p) = HeaderLength + p.size /\ p.stop = pos + HeaderLength + p.size
      BY <2>2, <2>3, <2>4
    <3>2. pos \in Nat
      BY DEF Typed, TypeOK
    <3> DEFINE n == PackageLength(p)
               z == p.size
               e == p.stop
    <3>3. n = HeaderLength + z /\ e = pos + HeaderLength + z /\ z \in Nat
      BY <2>3, <3>1
    <3>4. pos' = pos + n /\ at' = IF n = HeaderLength + z THEN at + 1 ELSE 0
      BY <2>5
    <3> HIDE DEF n, z, e
    <3>5. pos' = e
      BY <1>0, <3>2, <3>3, <3>4
    <3> QED
      BY <3>3, <3>4, <3>5 DEF e
  <2>8. Start(stream, at + 1) = p.stop
    BY <2>1, <2>3, <2>4 DEF Start
  <2>9. /\ Len(handled') = at /\ at <= Len(stream)
        /\ \A i \in DOMAIN handled' : handled'[i] = Decoded(stream[i])
    <3> DEFINE d == Decoded(p)
    <3>1. d \in Ops
      BY <2>1, Packages DEF Typed
    <3>2. handled' = Append(handled, d)
      BY <2>5
    <3>6. d = Decoded(stream[at])
      OBVIOUS
    <3> HIDE DEF d
    <3>3. /\ Len(handled') = Len(handled) + 1 /\ handled' \in Seq(Ops)
          /\ \A i \in 1 .. Len(handled) : handled'[i] = handled[i]
          /\ handled'[Len(handled) + 1] = d
      BY <2>4, <3>1, <3>2
    <3>4. at <= Len(stream)
      BY <2>1, <2>3
    <3>5. ASSUME NEW i \in DOMAIN handled'
          PROVE  handled'[i] = Decoded(stream[i])
      <4>1. CASE i = at
        BY <2>4, <3>3, <3>6, <4>1
      <4>2. CASE i # at
        <5>1. i \in DOMAIN handled
          BY <2>4, <3>3, <4>2
        <5> QED
          BY <2>4, <3>3, <5>1
      <4> QED
        BY <4>1, <4>2
    <3> QED
      BY <2>4, <3>3, <3>4, <3>5
  <2> QED
    BY <2>1, <2>4, <2>6, <2>7, <2>8, <2>9 DEF InOrder
\* A token panics only when its length is below a header, which none that fits is.
<1>2. CASE TokenPanics
  <2>1. /\ at \in DOMAIN stream /\ PackageLength(stream[at]) < HeaderLength
        /\ UNCHANGED <<stream, pos, at, handled>>
    BY <1>2 DEF TokenPanics, HasToken, peerVars, scanVars
  <2>2. stream[at].size \in Nat
    BY <2>1, Packages, TcpAssumption DEF Typed, TcpAssumption
  <2>3. ~Fits(stream[at])
    BY <1>0, <2>1, <2>2 DEF Fits
  <2>4. ~AllFit
    BY <2>1, <2>3 DEF AllFit
  <2> QED
    BY <2>1, <2>4, OrderKept
<1>3. CASE \/ Accept \/ AcceptFails \/ ScanEnds \/ PushRoom \/ Connected \/ Deferred \/ CallFails
           \/ WriteBegins \/ WriteEnds \/ Peer \/ \E n \in 1 .. MaxToken : Read(n)
  <2>1. UNCHANGED <<stream, pos, at, handled>>
    BY <1>3 DEF Accept, AcceptFails, ScanEnds, PushRoom, Connected, Deferred, Finished, CallFails,
                WriteBegins, WriteEnds, Peer, Read, peerVars, scanVars
  <2>2. pc' = "panic" => pc = "panic"
    BY <1>3 DEF Accept, AcceptFails, ScanEnds, PushRoom, Connected, Deferred, Finished, CallFails,
                WriteBegins, WriteEnds, Peer, Read, peerVars, scanVars
  <2> QED
    BY <2>1, <2>2, OrderKept DEF InOrder
<1>4. CASE UNCHANGED vars
  <2>1. UNCHANGED <<stream, pos, at, handled, pc>>
    BY <1>4 DEF vars, scanVars, peerVars
  <2> QED
    BY <2>1, OrderKept DEF InOrder
<1> QED
  BY <1>1, <1>2, <1>3, <1>4 DEF Next, Reader

\* However TCP cuts the stream, for any number of packages of any sizes: as long as every
\* length fits its integer, the reader decodes what the peer packed, in order.
THEOREM OrderIsKept == FairSpec => []InOrder
<1>1. Init => InOrder
  BY DEF Init, InOrder, Start
<1> QED
  BY TypedInit, TypedNext, OrderNext, <1>1, PTL DEF FairSpec, Spec
=============================================================================
