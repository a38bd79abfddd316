------------------------------- MODULE Presence -------------------------------
(***************************************************************************)
(* Who is where, as the logic layer keeps it in Redis: the connect servers *)
(* call RpcLogic.Connect and RpcLogic.DisConnect (logic/rpc.go) through    *)
(* connect/operator.go and connect/rpc.go, for the reader goroutine of     *)
(* every connection (connect/server.go, connect/server_tcp.go).            *)
(*                                                                         *)
(* A handler is a sequence of Redis commands, each one a step of its own:  *)
(* nothing ties them together, and the handlers of several connections     *)
(* interleave.  The rpcx client retries a call whose connection broke      *)
(* (client.Failtry), while the first call may still be running.            *)
(***************************************************************************)
EXTENDS Integers, FiniteSets

CONSTANTS
  Sessions,    \* connections; each has one reader goroutine
  Server,      \* Server[s]: the connect server that accepted connection s
  Users,       \* user ids
  RoomIds,     \* room ids clients ask for, numbers
  Nil,         \* a missing key, a nil pointer
  MaxJoin,     \* bound: connect messages per connection
  MaxRetry,    \* bound: retried calls per connection
  Traffic      \* what the clients may ask and what may fail, see Limits

\* request: <<s, u, r>> if connection s may present a token of user u for room r.
\* Bounds: connect messages and retried calls per connection, crashes of a connect server or of the logic
\* process, user keys that expire or are deleted by Logout, pushes to a user.
Limits == [request : SUBSET (Sessions \X Users \X RoomIds),
           join : 0 .. MaxJoin, retry : 0 .. MaxRetry, crash : Nat, loss : Nat, push : Nat]

ASSUME PresenceAssumption ==
  /\ IsFiniteSet(Sessions) /\ RoomIds \subseteq Int
  /\ MaxJoin \in Nat /\ MaxRetry \in Nat /\ Traffic \subseteq Limits
  /\ Nil \notin Users \cup RoomIds
  /\ Nil \notin [op : {"Connect", "DisConnect"}, user : Users, room : RoomIds]

\* connect/room.go: const NoRoom.
NoRoom == -1

\* <<s, n>> is the n-th call made for connection s: Connects, one DisConnect, retries.
Calls == Sessions \X (1 .. MaxJoin + 1 + MaxRetry)

VARIABLES
  userServer,     \* Redis: gochat_<user>, the server a user is connected to
  roomUser,       \* Redis: gochat_room_<room>, a hash keyed by user
  online,         \* Redis: gochat_room_online_count_<room>
  told,           \* the last member list published for each room by DisConnect
  phase,          \* reader goroutine: in ReadMessage, or waiting for which call
  chUser, chRoom, \* Channel: userId and Room.Id
  calls,          \* calls made per connection
  joins, retries, \* connect messages and retries per connection, for the bounds
  req,            \* a call's arguments
  pc, snap,       \* its handler in the logic process: control state, roomUserInfo
  crashes, losses, \* for the bounds
  limits,         \* the bounds of this behaviour
  overlapped      \* history: did a user join with an earlier connection of his
                  \* still leaving, or still open

redisVars == <<userServer, roomUser, online, told>>
chanVars  == <<chUser, chRoom>>
connVars  == <<phase, chanVars, calls, joins, retries>>
callVars  == <<req, pc, snap>>
boundVars == <<crashes, losses, limits>>
vars == <<redisVars, connVars, callVars, boundVars, overlapped>>

\* The connections that ask for anything in this behaviour; the others stay away.
Opened(s) == \E m \in limits.request : m[1] = s

Init ==
  /\ userServer = [u \in Users |-> Nil]
  /\ roomUser = [r \in RoomIds |-> {}]
  /\ online = [r \in RoomIds |-> 0]
  /\ told = [r \in RoomIds |-> Nil]
  /\ limits \in Traffic
  /\ phase = [s \in Sessions |-> IF Opened(s) THEN "read" ELSE "closed"]
  /\ chUser = [s \in Sessions |-> Nil] /\ chRoom = [s \in Sessions |-> Nil]
  /\ calls = [s \in Sessions |-> 0]
  /\ joins = [s \in Sessions |-> 0] /\ retries = [s \in Sessions |-> 0]
  /\ req = [c \in Calls |-> Nil] /\ pc = [c \in Calls |-> "done"]
  /\ snap = [c \in Calls |-> {}]
  /\ crashes = 0 /\ losses = 0
  /\ overlapped = [u \in Users |-> "no"]

Goto(c, l) == pc' = [pc EXCEPT ![c] = l]
Running    == {c \in Calls : pc[c] # "done"}

\* The rpcx client sends a call for connection s.
Issue(s, request) ==
  LET c == <<s, calls[s] + 1>> IN
  /\ calls' = [calls EXCEPT ![s] = @ + 1]
  /\ req' = [req EXCEPT ![c] = request]
  /\ Goto(c, IF request.op = "Connect" THEN "set" ELSE "count")

\* The connection still waits for this call, not for a retry of it.
Awaited(c) == c[2] = calls[c[1]] /\ phase[c[1]] \in {"connect", "leave"}
-------------------------------------------------------------------------------
(* The reader goroutine. *)

\* What a join of s finds of the other connections of user u.
Others(s, u)  == {o \in Sessions \ {s} : calls[o] > 0 /\ req[<<o, calls[o]>>].user = u}
Open(s, u)    == \E o \in Others(s, u) : phase[o] \in {"connect", "read"}
Leaving(s, u) == \E o \in Others(s, u) : phase[o] = "leave" \/ \E c \in Running : c[1] = o
Overlap(s, u) == IF Open(s, u) THEN "open"
                 ELSE IF Leaving(s, u) /\ overlapped[u] = "no" THEN "leaving" ELSE overlapped[u]

\* A connect message with a token logic knows: operator.Connect.
Join(s, u, r) ==
  /\ phase[s] = "read" /\ joins[s] < limits.join /\ <<s, u, r>> \in limits.request
  /\ Issue(s, [op |-> "Connect", user |-> u, room |-> r])
  /\ phase' = [phase EXCEPT ![s] = "connect"]
  /\ joins' = [joins EXCEPT ![s] = @ + 1]
  /\ overlapped' = [overlapped EXCEPT ![u] = Overlap(s, u)]
  /\ UNCHANGED <<redisVars, chanVars, retries, snap, boundVars>>

\* The read loop ends: hang-up, unknown token, refused by the room.  Without a Room
\* the deferred function returns before operator.DisConnect.
Quit(s) ==
  /\ phase[s] = "read"
  /\ IF chRoom[s] = Nil
     THEN /\ phase' = [phase EXCEPT ![s] = "closed"]
          /\ UNCHANGED <<calls, req, pc>>
     ELSE /\ Issue(s, [op |-> "DisConnect", user |-> chUser[s], room |-> chRoom[s]])
          /\ phase' = [phase EXCEPT ![s] = "leave"]
  /\ UNCHANGED <<redisVars, chanVars, joins, retries, snap, boundVars, overlapped>>

\* client.Failtry: the connection to logic broke, the call is sent again.
Retry(s) ==
  /\ phase[s] \in {"connect", "leave"} /\ retries[s] < limits.retry
  /\ Issue(s, req[<<s, calls[s]>>])
  /\ retries' = [retries EXCEPT ![s] = @ + 1]
  /\ UNCHANGED <<redisVars, phase, chanVars, joins, snap, boundVars, overlapped>>

\* A handler returns.  Connect's reply leads to Bucket.Put, which leaves ch.Room
\* alone for NoRoom; a reply nobody waits for is dropped.
JoinedRoom_Any(c) == req[c].room
JoinedRoom(c) == IF req[c].room = NoRoom THEN chRoom[c[1]] ELSE req[c].room
Reply(c) ==
  LET s == c[1] IN
  /\ pc[c] = "reply"
  /\ Goto(c, "done")
  /\ IF ~Awaited(c) THEN UNCHANGED <<phase, chanVars>>
     ELSE IF phase[s] = "connect"
     THEN /\ phase' = [phase EXCEPT ![s] = "read"]
          /\ chUser' = [chUser EXCEPT ![s] = req[c].user]
          /\ chRoom' = [chRoom EXCEPT ![s] = JoinedRoom(c)]
     ELSE /\ phase' = [phase EXCEPT ![s] = "closed"]
          /\ UNCHANGED chanVars
  /\ UNCHANGED <<redisVars, calls, joins, retries, req, snap, boundVars, overlapped>>
-------------------------------------------------------------------------------
(* RpcLogic.Connect, one Redis command at a time. *)

\* Set of the user's key: the server of the latest call, whatever was there.
Located_First(c) == IF userServer[req[c].user] # Nil THEN userServer[req[c].user] ELSE Server[c[1]]
Located(c) == Server[c[1]]
ConnSet(c) ==
  /\ pc[c] = "set"
  /\ userServer' = [userServer EXCEPT ![req[c].user] = Located(c)]
  /\ Goto(c, "get")
  /\ UNCHANGED <<roomUser, online, told, connVars, req, snap, boundVars, overlapped>>

\* HGet: a user who is listed already is neither added nor counted.
ConnGet(c) ==
  /\ pc[c] = "get"
  /\ Goto(c, IF req[c].user \in roomUser[req[c].room] THEN "reply" ELSE "add")
  /\ UNCHANGED <<redisVars, connVars, req, snap, boundVars, overlapped>>

ConnAdd(c) ==
  /\ pc[c] = "add"
  /\ roomUser' = [roomUser EXCEPT ![req[c].room] = @ \cup {req[c].user}]
  /\ Goto(c, "incr")
  /\ UNCHANGED <<userServer, online, told, connVars, req, snap, boundVars, overlapped>>

ConnIncr(c) ==
  /\ pc[c] = "incr"
  /\ online' = [online EXCEPT ![req[c].room] = @ + 1]
  /\ Goto(c, "reply")
  /\ UNCHANGED <<userServer, roomUser, told, connVars, req, snap, boundVars, overlapped>>
-------------------------------------------------------------------------------
(* RpcLogic.DisConnect, one Redis command at a time. *)

\* if args.RoomId > 0 and the counter is positive, it is decremented - later.
Countable_TwoUp(r) == r > 0 /\ online[r] > 1
Countable(r) == r > 0 /\ online[r] > 0
DisCount(c) ==
  /\ pc[c] = "count"
  /\ Goto(c, IF Countable(req[c].room) THEN "decr" ELSE "del")
  /\ UNCHANGED <<redisVars, connVars, req, snap, boundVars, overlapped>>

DisDecr(c) ==
  /\ pc[c] = "decr"
  /\ online' = [online EXCEPT ![req[c].room] = @ - 1]
  /\ Goto(c, "del")
  /\ UNCHANGED <<userServer, roomUser, told, connVars, req, snap, boundVars, overlapped>>

\* HDel of the user's field.
Removed_Key(c)  == {}
Removed_Kept(c) == IF online[req[c].room] > 0 THEN roomUser[req[c].room]
                   ELSE roomUser[req[c].room] \ {req[c].user}
Removed(c) == roomUser[req[c].room] \ {req[c].user}
DisDel(c) ==
  /\ pc[c] = "del"
  /\ roomUser' = [roomUser EXCEPT ![req[c].room] = Removed(c)]
  /\ Goto(c, "list")
  /\ UNCHANGED <<userServer, online, told, connVars, req, snap, boundVars, overlapped>>

DisList(c) ==
  /\ pc[c] = "list"
  /\ snap' = [snap EXCEPT ![c] = roomUser[req[c].room]]
  /\ Goto(c, "publish")
  /\ UNCHANGED <<redisVars, connVars, req, boundVars, overlapped>>

\* RedisPublishRoomInfo with the list read before, whatever happened since.
DisPublish(c) ==
  /\ pc[c] = "publish"
  /\ told' = [told EXCEPT ![req[c].room] = snap[c]]
  /\ snap' = [snap EXCEPT ![c] = {}]
  /\ Goto(c, "reply")
  /\ UNCHANGED <<userServer, roomUser, online, connVars, req, boundVars, overlapped>>
-------------------------------------------------------------------------------
(* Failures. *)

\* A connect server dies (also by logrus.Fatalf, when a call fails for good): its
\* connections are gone and no deferred function runs.
Crash(k) ==
  /\ crashes < limits.crash
  /\ crashes' = crashes + 1
  /\ phase' = [s \in Sessions |-> IF Server[s] = k /\ phase[s] # "closed" THEN "lost" ELSE phase[s]]
  /\ UNCHANGED <<redisVars, chanVars, calls, joins, retries, callVars, losses, limits, overlapped>>

\* The logic process dies in the middle of whatever it was doing.
LogicCrash ==
  /\ crashes < limits.crash /\ Running # {}
  /\ crashes' = crashes + 1
  /\ pc' = [c \in Calls |-> "done"]
  /\ snap' = [c \in Calls |-> {}]
  /\ UNCHANGED <<redisVars, connVars, req, losses, limits, overlapped>>

\* The user key expires (RedisBaseValidTime) or RpcLogic.Logout deletes it; the
\* connections of the user stay.
LoseKey(u) ==
  /\ losses < limits.loss /\ userServer[u] # Nil
  /\ losses' = losses + 1
  /\ userServer' = [userServer EXCEPT ![u] = Nil]
  /\ UNCHANGED <<roomUser, online, told, connVars, callVars, crashes, limits, overlapped>>
-------------------------------------------------------------------------------
Handler(c) == \/ ConnSet(c) \/ ConnGet(c) \/ ConnAdd(c) \/ ConnIncr(c)
              \/ DisCount(c) \/ DisDecr(c) \/ DisDel(c) \/ DisList(c) \/ DisPublish(c)
              \/ Reply(c)

Reader(s) == \/ \E u \in Users, r \in RoomIds : Join(s, u, r)
             \/ Quit(s)
             \/ Retry(s)

Failure == \/ \E s \in Sessions : Crash(Server[s])
           \/ LogicCrash
           \/ \E u \in Users : LoseKey(u)

Next == \/ \E s \in Sessions : Reader(s)
        \/ \E c \in Calls : Handler(c)
        \/ Failure

Spec == Init /\ [][Next]_vars
-------------------------------------------------------------------------------
TypeOK ==
  /\ userServer \in [Users -> {Server[s] : s \in Sessions} \cup {Nil}]
  /\ roomUser \in [RoomIds -> SUBSET Users] /\ online \in [RoomIds -> Int]
  /\ told \in [RoomIds -> (SUBSET Users) \cup {Nil}]
  /\ phase \in [Sessions -> {"read", "connect", "leave", "closed", "lost"}]
  /\ chUser \in [Sessions -> Users \cup {Nil}]
  /\ chRoom \in [Sessions -> (RoomIds \ {NoRoom}) \cup {Nil}]
  /\ joins \in [Sessions -> 0 .. limits.join] /\ retries \in [Sessions -> 0 .. limits.retry]
  /\ calls \in [Sessions -> 0 .. MaxJoin + 1 + MaxRetry]
  /\ req \in [Calls -> [op : {"Connect", "DisConnect"}, user : Users, room : RoomIds] \cup {Nil}]
  /\ pc \in [Calls -> {"done", "set", "get", "add", "incr", "count", "decr", "del", "list",
                       "publish", "reply"}]
  /\ snap \in [Calls -> SUBSET Users]
  /\ limits \in Traffic /\ crashes \in 0 .. limits.crash /\ losses \in 0 .. limits.loss
  /\ overlapped \in [Users -> {"no", "leaving", "open"}]
-------------------------------------------------------------------------------
(* Properties. *)

\* Nobody is on the way into or out of room r: no connection waits for a call about
\* it, and no handler (of an abandoned call) is still working on it.
Waiting(r) == {s \in Sessions : phase[s] \in {"connect", "leave"} /\ req[<<s, calls[s]>>].room = r}
Quiet(r)   == Waiting(r) = {} /\ \A c \in Running : req[c].room # r

\* The users with a connection that is in room r.
Present(r) == {u \in Users : \E s \in Sessions : phase[s] = "read" /\ chUser[s] = u /\ chRoom[s] = r}

Faultless == crashes = 0 /\ \A s \in Sessions : retries[s] = 0

\* No user joined while an earlier connection of his was still open or leaving.
OneAtATime == \A u \in Users : overlapped[u] = "no"

\* No connection has sent a second connect message.
OneJoinEach == \A s \in Sessions : joins[s] <= 1

\* rpc.go:246, "get room online person count": while nobody is coming or going, and if
\* no server has died and no call was sent twice, the counter of a room is the number
\* of persons in it (Connect and DisConnect keep it).
PersonCount ==
  Faultless /\ OneJoinEach =>
    \A r \in RoomIds : r > 0 /\ Quiet(r) => online[r] = Cardinality(Present(r))

\* That is so as long as every user has one connection at a time; he may come back on
\* another one, to another server (rpc.go Connect, DisConnect).
PersonsCounted == OneAtATime => PersonCount

\* A user whose connection is in a room is listed in it, so GetRoomInfo and the pushed
\* lists show him, if he has one connection at a time (rpc.go Connect, DisConnect).
ListedWhileIn ==
  OneJoinEach =>
    \A s \in Sessions : phase[s] = "read" /\ chRoom[s] # Nil /\ overlapped[chUser[s]] = "no" =>
      chUser[s] \in roomUser[chRoom[s]]

\* Once every connection has gone, no room lists anybody and no counter is above zero,
\* in whatever order the commands of the handlers ran, of however many connections of
\* a user, if no server has died and no call was sent twice (rpc.go DisConnect).
NobodyLeft ==
  Faultless /\ OneJoinEach /\ (\A s \in Sessions : phase[s] = "closed") =>
    \A r \in RoomIds : r > 0 => roomUser[r] = {} /\ online[r] <= 0

\* The list DisConnect publishes does not name the user who left, if he has one
\* connection at a time and no call was sent twice (rpc.go DisConnect deletes, then
\* lists, then publishes).
LeaverAbsent ==
  [][\A c \in Calls : Faultless /\ pc[c] = "publish" /\ pc'[c] = "reply" /\ overlapped[req[c].user] = "no"
                       => req[c].user \notin told'[req[c].room]]_vars
===============================================================================
