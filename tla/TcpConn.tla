------------------------------- MODULE TcpConn -------------------------------
(***************************************************************************)
(* One TCP connection of the connect layer: the goroutine that accepts it  *)
(* (acceptTcp), its reader (readDataFromTcp), its writer (writeDataToTcp)  *)
(* in connect/server_tcp.go, and the packages of pkg/stickpackage.         *)
(*                                                                         *)
(* The peer packs messages one after the other, as StickPackage.Pack does: *)
(* two bytes of version, an int16 with the length of the whole package,    *)
(* and the body.  TCP hands the bytes over in pieces cut anywhere.  A byte *)
(* is known by its position: at the start of a package it is the 'v' of    *)
(* the version, inside a JSON body it is taken for no 'v'.                 *)
(***************************************************************************)
EXTENDS Integers, Sequences

CONSTANTS
  Streams,       \* what the peer may send: sequences of packages [op, size, stop]
  HeaderLength,  \* stickpackage: TcpHeaderLength
  Half,          \* an int16 is in -Half .. Half - 1 (2^15 in the code)
  MaxToken,      \* bufio.MaxScanTokenSize: bytes the scanner holds
  CpuNum         \* goroutines running acceptTcp

\* What a body says: connect me, send to a room, an operation the switch does not
\* know, no token or no room, not JSON.
Ops == {"build", "roomSend", "unknown", "blank", "malformed"}

\* The position of the first byte of the i-th package; stop is that of the next one.
Start(q, i) == IF i = 1 THEN 0 ELSE q[i - 1].stop

ASSUME TcpAssumption ==
  /\ HeaderLength \in Nat \ {0} /\ Half \in Nat /\ MaxToken \in Nat /\ CpuNum \in Nat \ {0}
  /\ HeaderLength < Half /\ MaxToken >= Half
  \* Larger bodies would leave the scanner in the middle of a body.
  /\ Streams \subseteq Seq([op : Ops, size : 0 .. 2 * Half, stop : Nat])
  /\ \A q \in Streams : \A i \in DOMAIN q : q[i].stop = Start(q, i) + HeaderLength + q[i].size

VARIABLES
  stream,              \* the packages the peer sends
  peer,                \* "reading", "stalled" (sends only) or "gone"
  acceptors,           \* goroutines still in acceptTcp
  conn,                \* "backlog", "open", "closed" or "leaked" (accepted, served by nobody)
  received, pos,       \* bytes read from the connection; the first byte not consumed (Scanner)
  at,                  \* the package whose first byte that is; 0 when it is another byte
  pc, scanTimes,       \* reader
  registered,          \* Channel: Room and userId are set
  wpc,                 \* writer
  handled,             \* history: the bodies the reader decoded
  departures           \* history: DisConnect calls answered

peerVars == <<stream, peer>>
scanVars == <<received, pos, at>>
vars == <<peerVars, acceptors, conn, scanVars, pc, scanTimes, registered, wpc, handled, departures>>

\* int16 of n.
Int16(n) == ((n + Half) % (2 * Half)) - Half

\* GetPackageLength: 4 + int16(len(p.Msg)).
PackageLength(p) == Int16(HeaderLength + p.size)
Fits(p) == PackageLength(p) = HeaderLength + p.size

Buffered == received - pos

Init ==
  /\ stream \in Streams /\ peer = "reading"
  /\ acceptors = CpuNum /\ conn = "backlog"
  /\ received = 0 /\ pos = 0 /\ at = 1
  /\ pc = "none" /\ scanTimes = 1 /\ registered = FALSE /\ wpc = "none"
  /\ handled = <<>> /\ departures = 0
-------------------------------------------------------------------------------
(* acceptTcp and ServeTcp. *)

Accept ==
  /\ conn = "backlog" /\ acceptors > 0
  /\ conn' = "open" /\ pc' = "scan" /\ wpc' = "wait"
  /\ UNCHANGED <<peerVars, acceptors, scanVars, scanTimes, registered, handled, departures>>

\* AcceptTCP or an option of the connection fails: the goroutine returns, and an
\* accepted connection is neither served nor closed.
AcceptFails ==
  /\ conn = "backlog" /\ acceptors > 0
  /\ acceptors' = acceptors - 1
  /\ conn' \in {"backlog", "leaked"}
  /\ UNCHANGED <<peerVars, scanVars, pc, scanTimes, registered, wpc, handled, departures>>
-------------------------------------------------------------------------------
(* The reader: bufio.Scanner with the split function of readDataFromTcp, then the      *)
(* switch on the operation.                                                            *)

\* The split function finds more than a header, and as much as the length it announces.
Complete_Beyond(i) == Buffered > HeaderLength /\ PackageLength(stream[i]) < Buffered
Complete(i) == Buffered > HeaderLength /\ PackageLength(stream[i]) <= Buffered
HasToken == at \in DOMAIN stream /\ Complete(at)

\* Scan could not make a token of what it holds: it reads, whatever arrived.
Read(n) ==
  /\ pc = "scan" /\ conn = "open" /\ peer # "gone" /\ ~HasToken
  /\ Buffered + n <= MaxToken /\ received + n <= Start(stream, Len(stream) + 1)
  /\ received' = received + n
  /\ UNCHANGED <<peerVars, acceptors, conn, pos, at, pc, scanTimes, registered, wpc, handled, departures>>

\* The end of the stream, a closed connection, or a full buffer (ErrTooLong).  What is
\* left in the buffer is dropped: at the end the split function makes no token.
ScanEnds ==
  /\ pc = "scan" /\ ~HasToken
  /\ conn = "closed" \/ peer = "gone" \/ Buffered = MaxToken
  /\ pc' = "defer"
  /\ UNCHANGED <<peerVars, acceptors, conn, scanVars, scanTimes, registered, wpc, handled, departures>>

\* A negative length slices out of range, one below the header makes a slice of
\* negative size in Unpack.
TokenPanics ==
  /\ pc = "scan" /\ HasToken /\ PackageLength(stream[at]) < HeaderLength
  /\ pc' = "panic"
  /\ UNCHANGED <<peerVars, acceptors, conn, scanVars, scanTimes, registered, wpc, handled, departures>>

\* What json.Unmarshal makes of the body: an empty or truncated one is not JSON.
Decoded(p) == IF p.size > 0 /\ Fits(p) THEN p.op ELSE "malformed"

\* A break leaves the inner loop; the outer one goes round three times in all.
LastTime_Forgiven(n) == FALSE
LastTime(n) == n + 1 > 3

\* The scanner goes on behind the token, which is the package with its header.
Consumed_Body(p) == PackageLength(p) - HeaderLength
Consumed(p) == PackageLength(p)

Token ==
  LET p  == stream[at]
      op == Decoded(p) IN
  /\ pc = "scan" /\ HasToken /\ PackageLength(p) >= HeaderLength
  /\ pos' = pos + Consumed(p)
  /\ at' = IF Consumed(p) = HeaderLength + p.size THEN at + 1 ELSE 0
  /\ handled' = Append(handled, op)
  /\ scanTimes' = IF op = "malformed" THEN scanTimes + 1 ELSE scanTimes
  /\ pc' = CASE op = "malformed" -> IF LastTime(scanTimes) THEN "defer" ELSE "scan"
             [] op = "blank"     -> "defer"
             [] op = "build"     -> "connect"
             [] op = "roomSend"  -> "pushRoom"
             [] op = "unknown"   -> "scan"
  /\ UNCHANGED <<peerVars, acceptors, conn, received, registered, wpc, departures>>

\* rpc.RpcLogicObj.PushRoom was answered, or failed: the reader does not look.
PushRoom ==
  /\ pc = "pushRoom" /\ pc' = "scan"
  /\ UNCHANGED <<peerVars, acceptors, conn, scanVars, scanTimes, registered, wpc, handled, departures>>

\* operator.Connect: the token is invalid (userId 0), or it is valid and Bucket.Put
\* registers the Channel, or the room refuses it, registered all the same.
Connected ==
  /\ pc = "connect"
  /\ \/ pc' = "defer" /\ UNCHANGED <<registered, conn>>
     \/ pc' = "scan" /\ registered' = TRUE /\ UNCHANGED conn
     \/ pc' = "defer" /\ registered' = TRUE /\ conn' = "closed"
  /\ UNCHANGED <<peerVars, acceptors, scanVars, scanTimes, wpc, handled, departures>>

\* The deferred function: a Channel without Room and user is only closed; otherwise
\* Bucket.DeleteChannel and operator.DisConnect come first.
Finished(left) ==
  /\ conn' = "closed" /\ pc' = "ended" /\ departures' = departures + left
  /\ UNCHANGED <<peerVars, acceptors, scanVars, scanTimes, registered, wpc, handled>>
Deferred == pc = "defer" /\ Finished(IF registered THEN 1 ELSE 0)

\* A call of operator fails: logrus.Fatalf ends the process.
CallFails ==
  /\ pc = "connect" \/ (pc = "defer" /\ registered)
  /\ pc' = "fatal"
  /\ UNCHANGED <<peerVars, acceptors, conn, scanVars, scanTimes, registered, wpc, handled, departures>>
-------------------------------------------------------------------------------
(* The writer: a message of the Channel or a ping of the ticker is due at any time. *)

WriteBegins ==
  /\ wpc = "wait" /\ wpc' = "write"
  /\ UNCHANGED <<peerVars, acceptors, conn, scanVars, pc, scanTimes, registered, handled, departures>>

\* Pack waits while the peer takes nothing, and fails on a connection that is closed or
\* whose peer is gone; the writer then closes the connection and returns.
Failed_Ignored == FALSE
Failed == conn = "closed" \/ peer = "gone"
WriteEnds ==
  /\ wpc = "write"
  /\ \/ ~Failed /\ peer = "reading" /\ wpc' = "wait" /\ UNCHANGED conn
     \/ Failed /\ wpc' = "ended" /\ conn' = "closed"
  /\ UNCHANGED <<peerVars, acceptors, scanVars, pc, scanTimes, registered, handled, departures>>
-------------------------------------------------------------------------------
Peer == /\ conn \in {"open", "closed"} /\ peer # "gone"
        /\ peer' \in {"reading", "stalled", "gone"} \ {peer}
        /\ UNCHANGED <<stream, acceptors, conn, scanVars, pc, scanTimes, registered, wpc, handled, departures>>

Reader == \/ ScanEnds \/ TokenPanics \/ Token \/ PushRoom \/ Connected \/ Deferred
          \/ \E n \in 1 .. MaxToken : Read(n)

Alive == pc \notin {"panic", "fatal"}

Next == Alive /\ (Accept \/ AcceptFails \/ Reader \/ CallFails \/ WriteBegins \/ WriteEnds \/ Peer)

Spec == Init /\ [][Next]_vars

\* Both goroutines run when they can; the ticker fires again and again.  The peer need
\* not send, read or hang up.
FairSpec == Spec /\ WF_vars(Alive /\ Reader) /\ WF_vars(Alive /\ (WriteBegins \/ WriteEnds))
-------------------------------------------------------------------------------
(* Properties. *)

TypeOK ==
  /\ stream \in Streams /\ peer \in {"reading", "stalled", "gone"}
  /\ acceptors \in 0 .. CpuNum /\ conn \in {"backlog", "open", "closed", "leaked"}
  /\ received \in Nat /\ pos \in 0 .. received /\ at \in Nat
  /\ pc \in {"none", "scan", "connect", "pushRoom", "defer", "ended", "panic", "fatal"}
  /\ scanTimes \in 1 .. 4 /\ registered \in BOOLEAN
  /\ wpc \in {"none", "wait", "write", "ended"}
  /\ handled \in Seq(Ops) /\ departures \in 0 .. 1

AllFit == \A i \in DOMAIN stream : Fits(stream[i])

\* However the stream is cut into reads: as long as every length fits an int16, the
\* bodies the reader decoded are those the peer sent, in order, and nothing panics.
InOrder ==
  AllFit => /\ pc # "panic"
            /\ Len(handled) <= Len(stream)
            /\ \A i \in DOMAIN handled : handled[i] = Decoded(stream[i])
            /\ at = Len(handled) + 1 /\ pos = Start(stream, at)

\* A package that arrived is handled without waiting for another one behind it, unless
\* the reader ended or the package has no body: the split function wants one byte more
\* than the header, which for an empty package is the first of the next.
Arrived(i) == i \in DOMAIN stream /\ received >= stream[i].stop /\ stream[i].size > 0
Handled ==
  \A i \in 1 .. 3 :
    (AllFit /\ Arrived(i)) ~> (Len(handled) >= i \/ pc \in {"ended", "fatal"} \/ conn = "closed")

\* When the connection is closed, or one goroutine ended, both end, and a Channel that
\* was registered took its leave of logic: nobody stays in a room without a reader.
BothEnd ==
  (conn = "closed" \/ pc = "ended" \/ wpc = "ended") ~>
     \/ ~Alive
     \/ pc = "ended" /\ wpc = "ended" /\ conn = "closed" /\ (registered <=> departures = 1)
===============================================================================
