------------------------------- MODULE Broadcast -------------------------------
(***************************************************************************)
(* How a connect server hands a message to its connections: the rpc        *)
(* handlers the task layer calls (PushSingleMsg, PushRoomMsg and its two   *)
(* twins in connect/rpc.go), BroadcastRoom and the goroutines of every     *)
(* bucket (connect/bucket.go), Room.Push (connect/room.go), the buffer of  *)
(* a Channel (connect/channel.go) and the write pump of its connection     *)
(* (writePump in connect/server.go, writeDataToTcp in server_tcp.go).      *)
(*                                                                         *)
(* There is one room, whose connections have joined before; how they join  *)
(* and leave beside a Room.Push, step by step, is the subject of Bucket.   *)
(***************************************************************************)
EXTENDS Integers, Sequences, FiniteSets, SequencesExt

CONSTANTS
  Members,        \* Members[b]: the Channels of the room in bucket b, newest first
  Options,        \* what the configuration may say of the buckets, see BucketOptions
  BroadcastSize,  \* connect.go: buffer of each Channel
  Callers,        \* goroutines of task processes, one call at a time each
  Calls,          \* <<k, to>>: caller k may call for connection to, or for Room
  Idlers,         \* the connections whose peers do not read; they may break or leave
  Room,           \* the address of a room message
  Nil

Buckets  == 1 .. Len(Members)
Channels == UNION {ToSet(Members[b]) : b \in Buckets}

\* Goroutines of a bucket and the buffer of each one's channel; MaxMsg bounds the calls.
BucketOptions == [RoutineAmount : Nat \ {0}, RoutineSize : Nat \ {0}, MaxMsg : Nat]

ASSUME BroadcastAssumption ==
  /\ Members \in Seq(Seq(Channels)) /\ Members # <<>>
  /\ \A c \in Channels : \E b \in Buckets : \A d \in Buckets : c \in ToSet(Members[d]) <=> d = b
  /\ \A b \in Buckets : IsInjective(Members[b])
  /\ Options \subseteq BucketOptions /\ BroadcastSize \in Nat
  /\ Room \notin Channels /\ Nil \notin Channels
  /\ Calls \subseteq Callers \X (Channels \cup {Room}) /\ Idlers \subseteq Channels

VARIABLES
  bucketOptions,  \* Bucket: bucketOptions, read when the server starts
  log,            \* history: the calls so far, [by, to]; a message is its index
  hand,           \* caller: the message it is handing over, 0 when it is idle
  at, slot,       \* its handler: the bucket whose turn it is, the goroutine chosen
  found,          \* its handler: the Channel PushSingleMsg found
  routinesNum,    \* Bucket: routinesNum
  routines,       \* Bucket: routines, the goroutines' channels
  pushing, ahead, \* goroutine: the message at hand, the Channels still to come
  room,           \* the Channels of the room, per bucket
  broadcast,      \* Channel: broadcast
  pump,           \* its write pump
  written,        \* history: the messages written to each connection
  missed,         \* history: the messages each Channel dropped
  via             \* history: the goroutine of a bucket a message was given to

callVars    == <<hand, at, slot, found>>
routineVars == <<routinesNum, routines, pushing, ahead>>
chanVars    == <<broadcast, pump, written, missed>>
vars == <<bucketOptions, log, callVars, routineVars, room, chanVars, via>>

\* The goroutines that push to rooms.
Routines == Buckets \X (0 .. bucketOptions.RoutineAmount - 1)

Init ==
  /\ bucketOptions \in Options
  /\ log = <<>> /\ hand = [k \in Callers |-> 0] /\ at = [k \in Callers |-> 0]
  /\ slot = [k \in Callers |-> Nil] /\ found = [k \in Callers |-> Nil]
  /\ routinesNum = [b \in Buckets |-> 0] /\ routines = [w \in Routines |-> <<>>]
  /\ pushing = [w \in Routines |-> 0] /\ ahead = [w \in Routines |-> <<>>]
  /\ room = Members
  /\ broadcast = [c \in Channels |-> <<>>] /\ pump = [c \in Channels |-> "run"]
  /\ written = [c \in Channels |-> <<>>] /\ missed = [c \in Channels |-> {}]
  /\ via = [n \in 1 .. bucketOptions.MaxMsg |-> [b \in Buckets |-> Nil]]

Joined(c) == \E b \in Buckets : c \in ToSet(room[b])
-------------------------------------------------------------------------------
(* Channel.Push never waits: without room in the buffer the message is dropped. *)

Fits_Overrun(c) == Len(broadcast[c]) <= BroadcastSize
Fits(c) == Len(broadcast[c]) < BroadcastSize
Push(c, n) ==
  /\ broadcast' = [broadcast EXCEPT ![c] = IF Fits(c) THEN Append(@, n) ELSE @]
  /\ missed' = [missed EXCEPT ![c] = IF Fits(c) THEN @ ELSE @ \cup {n}]
  /\ UNCHANGED <<pump, written>>
-------------------------------------------------------------------------------
(* The rpc handlers. *)

\* The call arrives.  PushSingleMsg looks the user up in his bucket; when he is not
\* there it answers at once.
Call(k, to) ==
  LET n == Len(log) + 1 IN
  /\ hand[k] = 0 /\ n <= bucketOptions.MaxMsg /\ <<k, to>> \in Calls
  /\ log' = Append(log, [by |-> k, to |-> to])
  /\ \/ /\ to = Room
        /\ hand' = [hand EXCEPT ![k] = n] /\ at' = [at EXCEPT ![k] = 1]
        /\ UNCHANGED found
     \/ /\ to # Room /\ Joined(to)
        /\ hand' = [hand EXCEPT ![k] = n] /\ found' = [found EXCEPT ![k] = to]
        /\ UNCHANGED at
     \/ to # Room /\ ~Joined(to) /\ UNCHANGED <<hand, at, found>>
  /\ UNCHANGED <<bucketOptions, slot, routineVars, room, chanVars, via>>

\* PushSingleMsg: Push to the Channel found, which may have left since.
PushSingle(k) ==
  /\ found[k] # Nil
  /\ Push(found[k], hand[k])
  /\ hand' = [hand EXCEPT ![k] = 0] /\ found' = [found EXCEPT ![k] = Nil]
  /\ UNCHANGED <<bucketOptions, log, at, slot, routineVars, room, via>>

\* BroadcastRoom: num := atomic.AddUint64(&b.routinesNum, 1) % bucketOptions.RoutineAmount
Choose(k) ==
  LET b   == at[k]
      num == (routinesNum[b] + 1) % bucketOptions.RoutineAmount IN
  /\ b # 0 /\ slot[k] = Nil
  /\ routinesNum' = [routinesNum EXCEPT ![b] = num]
  /\ slot' = [slot EXCEPT ![k] = num]
  /\ via' = [via EXCEPT ![hand[k]][b] = num]
  /\ UNCHANGED <<bucketOptions, log, hand, at, found, routines, pushing, ahead, room, chanVars>>

\* b.routines[num] <- pushRoomMsgReq waits while the channel is full.  The handler
\* goes on with the next bucket and answers after the last.
Queue_Front(q, n) == <<n>> \o q
Queue(q, n) == Append(q, n)
Following_Skip(b) == b + 2
Following(b) == b + 1
Send(k) ==
  LET b    == at[k]
      w    == <<b, slot[k]>>
      last == Following(b) \notin Buckets IN
  /\ slot[k] # Nil /\ Len(routines[w]) < bucketOptions.RoutineSize
  /\ routines' = [routines EXCEPT ![w] = Queue(@, hand[k])]
  /\ slot' = [slot EXCEPT ![k] = Nil]
  /\ at' = [at EXCEPT ![k] = IF last THEN 0 ELSE Following(b)]
  /\ hand' = [hand EXCEPT ![k] = IF last THEN 0 ELSE @]
  /\ UNCHANGED <<bucketOptions, log, found, routinesNum, pushing, ahead, room, chanVars, via>>
-------------------------------------------------------------------------------
(* A goroutine of Bucket.PushRoom. *)

Take(w) ==
  /\ pushing[w] = 0 /\ routines[w] # <<>>
  /\ pushing' = [pushing EXCEPT ![w] = IF room[w[1]] = <<>> THEN 0 ELSE Head(routines[w])]
  /\ routines' = [routines EXCEPT ![w] = Tail(@)]
  /\ ahead' = [ahead EXCEPT ![w] = room[w[1]]]
  /\ UNCHANGED <<bucketOptions, log, callVars, routinesNum, room, chanVars, via>>

\* A Push that waits for room would be: a full Channel holds the goroutine up.
Ready_Waits(c) == Fits(c)
Ready(c) == TRUE
PushNext(w) ==
  /\ pushing[w] # 0 /\ Ready(Head(ahead[w]))
  /\ Push(Head(ahead[w]), pushing[w])
  /\ ahead' = [ahead EXCEPT ![w] = Tail(@)]
  /\ pushing' = [pushing EXCEPT ![w] = IF ahead'[w] = <<>> THEN 0 ELSE @]
  /\ UNCHANGED <<bucketOptions, log, callVars, routinesNum, routines, room, via>>
-------------------------------------------------------------------------------
(* The connection. *)

\* The write pump, as fast as the peer reads.
Write(c) ==
  /\ pump[c] = "run" /\ broadcast[c] # <<>>
  /\ written' = [written EXCEPT ![c] = Append(@, Head(broadcast[c]))]
  /\ broadcast' = [broadcast EXCEPT ![c] = Tail(@)]
  /\ UNCHANGED <<bucketOptions, log, callVars, routineVars, room, pump, missed, via>>

\* A write or a ping fails: the pump returns, with or without a message taken.  The
\* Channel stays in its room until the reader goroutine sees the closed connection.
Break(c) ==
  /\ pump[c] = "run"
  /\ pump' = [pump EXCEPT ![c] = "ended"]
  /\ broadcast' \in {broadcast, [broadcast EXCEPT ![c] = IF @ = <<>> THEN @ ELSE Tail(@)]}
  /\ UNCHANGED <<bucketOptions, log, callVars, routineVars, room, written, missed, via>>

\* Room.DeleteChannel unlinks the node of the Channel, where it has one.
Without(q, c) == IF c \in ToSet(q) THEN RemoveAt(q, CHOOSE i \in DOMAIN q : q[i] = c) ELSE q

\* The reader goroutine deletes the Channel.  Whether a Room.Push under way still
\* comes to it depends on where it stands.
Leave(c) ==
  LET rest == [w \in Routines |-> Without(ahead[w], c)] IN
  /\ Joined(c)
  /\ room' = [b \in Buckets |-> Without(room[b], c)]
  /\ ahead' \in {ahead, rest}
  /\ pushing' = [w \in Routines |-> IF ahead'[w] = <<>> THEN 0 ELSE pushing[w]]
  /\ UNCHANGED <<bucketOptions, log, callVars, routinesNum, routines, chanVars, via>>
-------------------------------------------------------------------------------
Handler(k) == PushSingle(k) \/ Choose(k) \/ Send(k)
Routine(w) == w \in Routines /\ (Take(w) \/ PushNext(w))

Next ==
  \/ \E k \in Callers : (\E to \in Channels \cup {Room} : Call(k, to)) \/ Handler(k)
  \/ \E w \in Routines : Routine(w)
  \/ \E c \in Channels : (c \notin Idlers /\ Write(c)) \/ (c \in Idlers /\ (Break(c) \/ Leave(c)))

Spec == Init /\ [][Next]_vars

\* The Go scheduler runs every goroutine that can run, and one of the senders that
\* wait on a channel goes first in first out.  Peers may stop reading: no pump is fair.
Fairness == /\ \A k \in Callers : SF_vars(Handler(k))
            /\ \A b \in Buckets, o \in Options : \A i \in 0 .. o.RoutineAmount - 1 : WF_vars(Routine(<<b, i>>))
FairSpec == Spec /\ Fairness
-------------------------------------------------------------------------------
Ids == 1 .. Len(log)

TypeOK ==
  /\ bucketOptions \in Options
  /\ log \in Seq([by : Callers, to : Channels \cup {Room}]) /\ Len(log) <= bucketOptions.MaxMsg
  /\ hand \in [Callers -> 0 .. Len(log)] /\ at \in [Callers -> {0} \cup Buckets]
  /\ slot \in [Callers -> (0 .. bucketOptions.RoutineAmount - 1) \cup {Nil}]
  /\ found \in [Callers -> Channels \cup {Nil}]
  /\ routinesNum \in [Buckets -> 0 .. bucketOptions.RoutineAmount - 1]
  /\ routines \in [Routines -> Seq(Ids)] /\ \A w \in Routines : Len(routines[w]) <= bucketOptions.RoutineSize
  /\ pushing \in [Routines -> {0} \cup Ids] /\ ahead \in [Routines -> Seq(Channels)]
  /\ room \in Seq(Seq(Channels)) /\ Len(room) = Len(Members)
  /\ broadcast \in [Channels -> Seq(Ids)] /\ \A c \in Channels : Len(broadcast[c]) <= BroadcastSize
  /\ pump \in [Channels -> {"run", "ended"}]
  /\ written \in [Channels -> Seq(Ids)] /\ missed \in [Channels -> SUBSET Ids]
  /\ via \in [1 .. bucketOptions.MaxMsg -> [Buckets -> (0 .. bucketOptions.RoutineAmount - 1) \cup {Nil}]]
-------------------------------------------------------------------------------
(* Properties. *)

\* What has got to a connection, or is in its buffer, in order.
Stream(c) == written[c] \o broadcast[c]

\* Message n is still on its way to Channel c of bucket b.
Coming(n, b, c) ==
  \/ \E k \in Callers : hand[k] = n /\ (found[k] # Nil \/ at[k] <= b)
  \/ \E w \in Routines : w[1] = b /\ (n \in ToSet(routines[w]) \/ (pushing[w] = n /\ c \in ToSet(ahead[w])))

\* Every message to the room meets every connection that stays in it exactly once: it is
\* written or buffered, or was dropped at a full buffer; a connection that leaves never
\* gets one twice either (connect/rpc.go PushRoomMsg to channel.go Push).
ExactlyOnce ==
  /\ \A c \in Channels : IsInjective(Stream(c)) /\ ToSet(Stream(c)) \cap missed[c] = {}
  /\ \A b \in Buckets : \A c \in ToSet(room[b]) : \A n \in Ids :
       pump[c] = "run" /\ log[n].to = Room /\ ~Coming(n, b, c) => n \in ToSet(Stream(c)) \cup missed[c]

\* Two room messages of one caller that BroadcastRoom gave to the same goroutine of a
\* bucket do not overtake each other.  Messages given to different goroutines may.
SameRoutineOrder ==
  \A b \in Buckets : \A c \in ToSet(Members[b]) : \A i, j \in DOMAIN Stream(c) :
    LET m == Stream(c)[i]
        n == Stream(c)[j] IN
    /\ i < j /\ log[m] = log[n] /\ log[m].to = Room
    /\ via[m][b] = via[n][b]
    => m < n

\* A call of the task layer returns, whether peers read or not: a slow connection
\* holds nobody else up (channel.go Push, bucket.go BroadcastRoom).
CallReturns == \A k \in Callers : hand[k] # 0 ~> hand[k] = 0
===============================================================================
