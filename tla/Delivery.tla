------------------------------- MODULE Delivery -------------------------------
(***************************************************************************)
(* A message to one user on its way to a connection, on top of Presence:   *)
(* RpcLogic.Push (logic/rpc.go) publishes it for the server the user's key *)
(* names, a worker of the task layer calls that server (task/push.go,      *)
(* task/rpc.go), and PushSingleMsg (connect/rpc.go) looks the Channel up   *)
(* in its Bucket and pushes to what it found.  Every one of these steps    *)
(* uses what an earlier one read, while the user leaves and comes back.    *)
(***************************************************************************)
EXTENDS Presence

CONSTANTS
  BucketOf,  \* BucketOf[u]: which Bucket of a server holds user u (Server.Bucket hashes the id)
  MaxPush    \* bound: messages to a user, see also Limits

ASSUME DeliveryAssumption ==
  MaxPush \in Nat /\ (\A l \in Traffic : l.push <= MaxPush) /\ Nil \notin Sessions

Messages    == 1 .. MaxPush
ServerIds   == {Server[s] : s \in Sessions}

VARIABLES
  chs,       \* chs[k][u]: Bucket.chs of connect server k for user u, in his Bucket
  stage,     \* how far a message is
  to,        \* its user
  serverId,  \* the server read from the user's key
  channel,   \* the Channel PushSingleMsg found
  taskUp,    \* the task process lives
  meant      \* history: the connections of its user when the message was sent

msgVars == <<stage, to, serverId, channel, taskUp, meant>>
dvars   == <<vars, chs, msgVars>>

DeliveryInit ==
  /\ Init
  /\ chs = [k \in ServerIds |-> [u \in Users |-> Nil]]
  /\ stage = [n \in Messages |-> "new"] /\ to = [n \in Messages |-> Nil]
  /\ serverId = [n \in Messages |-> Nil] /\ channel = [n \in Messages |-> Nil]
  /\ taskUp = TRUE
  /\ meant = [n \in Messages |-> {}]
-------------------------------------------------------------------------------
(* What a step of Presence does to the Buckets. *)

\* Bucket.Put: the Channel is the user's, in place of any other.
Put_IfFree(c) == IF chs[Server[c[1]]][req[c].user] # Nil THEN chs
                 ELSE [chs EXCEPT ![Server[c[1]]][req[c].user] = c[1]]
Put(c) == [chs EXCEPT ![Server[c[1]]][req[c].user] = c[1]]

\* Bucket.DeleteChannel, by the deferred function of a connection that has a Room and
\* before DisConnect is called: it deletes the entry of the user whose Channel it finds
\* under the leaver's user id, which is another connection's if that one joined later.
Found(s) == chs[Server[s]][chUser[s]]
DeleteChannel(s) ==
  IF chRoom[s] = Nil \/ Found(s) = Nil THEN chs
  ELSE [chs EXCEPT ![Server[s]][chUser[Found(s)]] = Nil]

\* The Channel found has since joined as a user this Bucket does not have: b.chs of that
\* user is a nil pointer, whose Room is read.
Panics(s) ==
  /\ chRoom[s] # Nil /\ Found(s) # Nil
  /\ \/ chs[Server[s]][chUser[Found(s)]] = Nil
     \/ BucketOf[chUser[Found(s)]] # BucketOf[chUser[s]]

Joining(c) == Awaited(c) /\ phase[c[1]] = "connect"

\* The connection of a call that has its reply goes on.
Return(c) == Reply(c) /\ chs' = IF Joining(c) THEN Put(c) ELSE chs

\* A hang-up that panics is the death of its server, below.
Hangup(s) == Quit(s) /\ ~Panics(s) /\ chs' = DeleteChannel(s)

\* A server dies, of a panic or of anything else: the calls that were running in it end
\* with an error.
ServerDies(k) ==
  /\ Crash(k)
  /\ chs' = [chs EXCEPT ![k] = [u \in Users |-> Nil]]
  /\ stage' = [n \in Messages |-> IF stage[n] = "push" /\ serverId[n] = k THEN "lost" ELSE stage[n]]
  /\ UNCHANGED <<to, serverId, channel, taskUp, meant>>
-------------------------------------------------------------------------------
(* The message. *)

\* The connections that have joined as user u.
Connected(u) == {s \in Sessions : phase[s] = "read" /\ chUser[s] = u}

\* The api layer calls RpcLogic.Push, for any user.
Send(n, u) ==
  /\ stage[n] = "new" /\ n <= limits.push /\ \A m \in 1 .. n - 1 : stage[m] # "new"
  /\ stage' = [stage EXCEPT ![n] = "get"]
  /\ to' = [to EXCEPT ![n] = u]
  /\ meant' = [meant EXCEPT ![n] = Connected(u)]
  /\ UNCHANGED <<vars, chs, serverId, channel, taskUp>>

\* RpcLogic.Push reads the key and publishes; a missing key is the empty serverId.  A
\* message nobody subscribes to is lost.
Publish(n) ==
  /\ stage[n] = "get"
  /\ serverId' = [serverId EXCEPT ![n] = userServer[to[n]]]
  /\ stage' = [stage EXCEPT ![n] = IF taskUp THEN "work" ELSE "lost"]
  /\ UNCHANGED <<vars, chs, to, channel, taskUp, meant>>

\* pushSingleToConnect: a call on the client of a server that is in the list, or on a
\* nil interface, which ends the process with all it had in hand.
CallServer(n) ==
  /\ stage[n] = "work"
  /\ IF serverId[n] # Nil
     THEN stage' = [stage EXCEPT ![n] = "look"] /\ UNCHANGED taskUp
     ELSE /\ taskUp' = FALSE
          /\ stage' = [m \in Messages |-> IF stage[m] = "work" THEN "lost" ELSE stage[m]]
  /\ UNCHANGED <<vars, chs, to, serverId, channel, meant>>

\* PushSingleMsg: no Channel is no error.
LookUp(n) ==
  /\ stage[n] = "look"
  /\ channel' = [channel EXCEPT ![n] = chs[serverId[n]][to[n]]]
  /\ stage' = [stage EXCEPT ![n] = IF channel'[n] = Nil THEN "missed" ELSE "push"]
  /\ UNCHANGED <<vars, chs, to, serverId, taskUp, meant>>

\* Channel.Push offers it to the writer; a full buffer drops it (see Broadcast).
Push(n) ==
  /\ stage[n] = "push"
  /\ stage' = [stage EXCEPT ![n] = "offered"]
  /\ UNCHANGED <<vars, chs, to, serverId, channel, taskUp, meant>>
-------------------------------------------------------------------------------
Aside == UNCHANGED <<chs, msgVars>>

Command(c) == \/ ConnSet(c) \/ ConnGet(c) \/ ConnAdd(c) \/ ConnIncr(c)
              \/ DisCount(c) \/ DisDecr(c) \/ DisDel(c) \/ DisList(c) \/ DisPublish(c)

Message(n) == (\E u \in Users : Send(n, u)) \/ Publish(n) \/ CallServer(n) \/ LookUp(n) \/ Push(n)

DeliveryNext ==
  \/ \E s \in Sessions : \/ (\E u \in Users, r \in RoomIds : Join(s, u, r)) /\ Aside
                         \/ Retry(s) /\ Aside
                         \/ Hangup(s) /\ UNCHANGED msgVars
  \/ \E c \in Calls : \/ Command(c) /\ Aside
                      \/ Return(c) /\ UNCHANGED msgVars
  \/ \E k \in ServerIds : ServerDies(k)
  \/ LogicCrash /\ Aside
  \/ (\E u \in Users : LoseKey(u)) /\ Aside
  \/ \E n \in Messages : Message(n)

DeliverySpec == DeliveryInit /\ [][DeliveryNext]_dvars
-------------------------------------------------------------------------------
DeliveryTypeOK ==
  /\ TypeOK
  /\ chs \in [ServerIds -> [Users -> Sessions \cup {Nil}]]
  /\ stage \in [Messages -> {"new", "get", "work", "look", "push", "offered", "missed", "lost"}]
  /\ to \in [Messages -> Users \cup {Nil}] /\ serverId \in [Messages -> ServerIds \cup {Nil}]
  /\ channel \in [Messages -> Sessions \cup {Nil}]
  /\ taskUp \in BOOLEAN
  /\ meant \in [Messages -> SUBSET Sessions]
-------------------------------------------------------------------------------
(* Properties. *)

\* The Redis key and the Bucket of the server it names lead to the connection of a
\* user, whether he came from another server or was still leaving it, as long as he
\* had no two connections open, no connection changed its user, no key was lost and
\* nothing failed (Connect writes the key, Put and DeleteChannel keep chs, DisConnect
\* leaves both alone).
Routable ==
  Faultless /\ losses = 0 /\ OneJoinEach =>
    \A s \in Sessions : phase[s] = "read" /\ chUser[s] # Nil /\ overlapped[chUser[s]] # "open" =>
      userServer[chUser[s]] = Server[s] /\ chs[Server[s]][chUser[s]] = s

\* Under the same conditions a message to a connected user is offered to his very
\* connection or that connection has gone since: none of the values that Push, the
\* worker and PushSingleMsg carry along gets it anywhere else (connect/rpc.go:105).
ReachesOrLeft ==
  Faultless /\ losses = 0 /\ taskUp /\ OneJoinEach =>
    \A n \in Messages : stage[n] \in {"offered", "missed", "lost"} /\ overlapped[to[n]] # "open" =>
      \A s \in meant[n] : phase[s] = "read" => stage[n] = "offered" /\ channel[n] = s
===============================================================================
