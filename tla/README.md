# Verification of gochat in TLA+

gochat is an instant-messaging service in Go: an HTTP api layer, a logic layer that
keeps accounts, sessions and room membership in Redis, a task layer that takes what logic
publishes on Redis and calls the connect servers, and a connect layer that holds the
websocket and TCP connections. The modules here model what the layers do to the state they
share, step by step, for TLC to check on small instances and for TLAPS to prove about.

Contents: [the system](#the-system), [the modules](#the-modules), [the runs](#the-runs),
[fairness](#fairness), [the proofs](#the-proofs),
[what the code does not guarantee](#what-the-code-does-not-guarantee),
[what is not modelled](#what-is-not-modelled), [plan](#plan).

## The system

```
 client --HTTP--> api --rpcx--> logic --Publish--> Redis list --Subscribe--> task --rpcx--> connect
   |                             |  ^                                                          |  ^
   |                             v  +------- Connect / DisConnect (rpcx) ----------------------+  |
   |                      Redis keys, SQLite                                                      |
   +--------------------------- websocket or TCP -------------------------------------------------+
```

| Component | State | Operations | What is hard | What makes it correct |
|---|---|---|---|---|
| bucket, rooms, channels (`connect/bucket.go`, `room.go`, `channel.go`) | `Bucket.chs`, `Bucket.rooms`; `Room.next`, `OnlineCount`, `drop`; `Channel.Next`, `Prev`, `Room`, `userId` | `Bucket.Put`, `Room.Put`, `Bucket.DeleteChannel`, `Room.DeleteChannel`, `Room.Push`, `PushRoom`, `BroadcastRoom` | deletions write under `RLock`; a Room found under one lock is entered under another; a walk over a list that is unlinked under it | the list is its members; the count is never below their number; a push reaches every member; a retired Room admits nobody; a closed connection is forgotten |
| rpc server and write pumps (`connect/rpc.go`, `channel.go`, `server.go`, `server_tcp.go`) | calls in progress, `Bucket.routines`, `routinesNum`, `Channel.broadcast` | `PushSingleMsg`, `PushRoomMsg` and its twins, `Channel.Push`, write pumps | full buffers at two levels, round robin over goroutines, slow and broken peers | a message meets each member once; one goroutine keeps the order; a slow peer holds nobody else up |
| reader goroutines (`connect/server.go`, `server_tcp.go`, `websocket.go`) | control state of one goroutine per connection | connect message, refusal, deferred clean-up | repeated connect messages, refusals, two servers that treat a refusal differently, a message that is not JSON | a refused connection is closed and cleaned up; a join ends |
| rpc client and operator (`connect/rpc.go`, `operator.go`) | a call in flight | `Connect`, `DisConnect` with `client.Failtry` | a call runs twice; the process ends on a call that failed | see presence |
| presence (`logic/rpc.go` `Connect`, `DisConnect`) | Redis: server key of a user, hash of a room, counter of a room | 4 and 6 commands, not tied together | handlers interleave between any two commands; retries; crashes; keys that expire | the counter is the number of persons; whoever is in a room is listed; an empty room is empty |
| accounts and sessions (`logic/rpc.go` `Register`, `Login`, `Logout`, `logic/dao/user.go`) | user table; Redis: `sess_<token>`, `sess_map_<user>`, server key | queries and commands on pooled connections; `MULTI` .. `EXEC` by `Do` | commands of one transaction on different connections; requests that overlap | a token that was logged out stays logged out; one session per user; the map names a live session |
| publishing (`logic/publish.go`) | the Redis channel | `Push`, `PushRoom`, `Count`, `GetRoomInfo`, `DisConnect` publish | what the ops carry; a server key, a serverId and a Channel that are used after they were read | the list reaches the clients; a message to a user is offered to his connection, or that connection has left |
| task (`task/*.go`) | `RpcConnectClientList`, `pushChannel[]` | `Run`, subscriber, workers, calls | the subscriber starts first; a map filled while it is read, under keys that need not be serverIds; full and nil channels; dead servers; calls that break and run late | room messages stay in order and reach all servers; nothing stops the subscriber for good |
| api (`api/*`) | none of its own; a chain of calls per request | routes, token middleware, HTTP handlers, rpcx client | a failed call looks like a success; a broken one is sent again; the token is checked twice | a dead token does nothing; what is published is signed; a login hands out a token; every request is answered |
| Redis instance (`tools/redis.go`) | map of clients and its lock | `GetRedisInstance` | an early return that keeps the lock | each process calls it once |
| TCP connection and framing (`connect/server_tcp.go`, `pkg/stickpackage`) | scanner buffer, control state of acceptors, reader, writer | `acceptTcp`, `Pack`, `Unpack`, the splitter of `readDataFromTcp`, `writeDataToTcp` | an `int16` length; a stream cut anywhere; two goroutines that learn of the end from each other | bodies in order; a package that arrived is handled; both goroutines end and the room is left |
| start-up, configuration, database handle, messages, city hash, site | - | - | - | not modelled |

The hazards of each, line by line, are in `PROJECT.json` under `hazards`, with the properties
that would catch them going wrong, or the reason why there is none.

## The modules

`Bucket`, `Broadcast`, `Presence`, `Task`, `Auth`, `TcpConn` and `Api` each stand alone: each
takes what the others may send it as its input. `Delivery` extends `Presence` and composes it
with the Buckets and with the way of a message through logic, task and connect. `Membership` is
the abstract specification that `Bucket` implements. `MC...` modules give TLC the sets.
`BucketProofs`, `BroadcastProofs`, `TaskProofs`, `AuthProofs`, `TcpProofs` and `ApiProofs` extend the
component's module with its theorems, `PresenceProofs` extends `Delivery` with those of both;
`BucketPromise` extends `BucketProofs` with the refinement.

**Bucket** - one bucket of a connect server. A `Channel` is its connection `s`; a `Room` is
`<<id, n>>`, the n-th Room object made for an id, because `DeleteChannel` removes a Room from
the map by id while connections still hold the old object. `pc[s]` is the reader goroutine:
`read` is `ReadMessage`; `put` waits for `cLock` in `Bucket.Put` and `roomPut` for `rLock` in
`Room.Put`; `lookup .. unlock` are the statements of `Bucket.DeleteChannel` with
`Room.DeleteChannel` inside it (`unlinkNext .. dropTest`); `disconnect` is the call of the
operator before the close. `Quit` and
`Malformed` (a websocket message that is not JSON or is `null`, which panics once the deferred
function has run) both end in `Deferred`, which cleans up if the Channel has a Room and a user.
`panic` is the end of the process, after which nothing moves. A section under `Lock` is one action, enabled when nobody is inside
a section under `RLock` of that lock. A section under `RLock` is one action per access to
memory, since other readers interleave; in particular `OnlineCount--` is a load and a store,
and `drop` is cleared and set again in two steps. `Lookup` keeps the pointer reads of
`b.chs[ch.userId].Room`: the Channel deleted is the one the map holds, and a nil one panics.
A `PushRoom` goroutine finds the Room (`TakeMsg`), begins (`PushBegin`) and walks
(`PushNext`, `PushEnd`). `linked`, `puts`, `stamp`, `seen` and `audience` are history variables:
no action reads them.

**Membership** - what a bucket promises, with no list, lock or count: a connection enters a room
once, never a retired one and never while a message goes through it; a message reaches everybody
who stays, nobody who came later, nobody twice. `Bucket` maps to it by `At(s)` (a connection is
in its Room from the link in `Room.Put` until the list closes over it), the Rooms marked `drop`
that will not lose the mark, and what each walk has seen: `Promise` in `Bucket`, and the
property `KeepsPromise`.

**Broadcast** - the way of a message through a connect server, at the level above `Bucket`: a
walk over a room is a sequence of Channels still to come, and connections have joined before.
`Call` is an rpc of a task process (one at a time per caller); a room call visits the buckets in
turn, `Choose` takes the next goroutine (`atomic.AddUint64`) and `Send` waits while its channel is
full. A goroutine (`Take`, `PushNext`) pushes to each Channel, and `Push` drops the message when
the buffer is full. `Write` is the write pump, `Break` its end on a failed write or ping, `Leave`
the reader's `DeleteChannel`, which takes one node out of the list (`Without`). `bucketOptions` is chosen at the start, as the configuration is
read there. `written`, `missed`, `via` and `log` are history variables.

**Presence** - `RpcLogic.Connect` and `DisConnect` on Redis, one action per command, with the
reader goroutines that call them. A call is `<<s, n>>`; `Retry` issues the same request again
while the first handler may still run, and only the last answer counts. `Crash` takes a
connect server away with its connections (also what `logrus.Fatalf` after a failed call
does), `LogicCrash` every running handler, `LoseKey` a server key (`RedisBaseValidTime` or
`Logout`). Redis commands of presence are assumed to run outside any open `MULTI`; what
happens otherwise on a shared connection is `Auth`'s subject. `limits`, chosen at the start from
`Traffic`, says who may ask for what, how often on one connection, and how much may fail, so that
one run covers several kinds of trouble without their product. `overlapped` is a history variable: whether a user
joined while an earlier connection of his was still leaving, or still open.

**Delivery** - `Presence` with `Bucket.chs` of every connect server (`Put` at the reply of Connect,
`DeleteChannel` before DisConnect is called, as the deferred function has it) and messages to one
user. `DeleteChannel` deletes the entry of the user whose Channel it finds (`Found`) under the
leaver's user id, as `bucket.go:94-97` does: after repeated connect messages that is another
user's, and when the bucket has none for him (`Panics`; `BucketOf` is the city hash) the process
dies, which is `ServerDies`. Of a message: `Send` by the api layer, `Publish` with the server key of that moment, `CallServer` by a
worker, `LookUp` and `Push` in `PushSingleMsg`. Each step uses what the one before read. A missing
key ends the task process. `meant` is a history variable, the connections of the user when the
message was sent.

**Task** - `boot` is where `Task.Run` stands: subscribed, filling the client list, making the
channels, done. The subscriber (`sub`, `slot`, `todo`) handles one message at a time: a single
message goes to a random worker's channel, chosen and evaluated before the send (`NilSlot` is
a send on a nil channel), a room message becomes one call per server in any order. `AddClient`
while the subscriber ranges over the map is Go's choice between an abort, seeing and missing
the entry. `dead` records what ended the process. `Value[k]` is what etcd holds for a server, and `UnderServerId` whether the one
`strings.Replace` of `task/rpc.go:30` makes the serverId of it. An `Attempt` of a call is answered
(`Answer`; by an error that nobody looks at when the server is down) or its connection breaks
(`Break`), whereupon `client.Failtry` makes the next; after the last of `Attempts` the call has
`Failed` and is forgotten. The server may run an attempt that broke at any later time or never
(`Arrive`). Messages carry their op, the server, and whether they
hold a text and a list; `Body` is what each op's call sends of them.

**Auth** - a request `o` is a number and is its own token; `pc[o]` is the next query or Redis
command of its handler. Every command takes a connection of the pool (`Take`: last in first
out, dialling when all are in use) and gives it back, so `Multi`, `PutSession`, `PutMap`
and `Exec` of one request may use different connections and meet the `MULTI` of another.
`tx[c]` is what connection `c` has queued; a read there returns `QUEUED`, which is an error for
a hash and the text `QUEUED` for a `GET`. `Age` is `MaxConnAge`: an idle connection is closed
and its transaction forgotten. `Create` respects the UNIQUE user name of
`db/gochat.sqlite3`. Passwords are abstracted: a wrong one fails like an unknown name.

**TcpConn** - one TCP connection. The peer sends one of `Streams`, packages `Pack` makes, and
TCP hands over `Read(n)` bytes at a time; `received`, `pos` and `at` are the scanner's buffer as
positions in the stream. `Complete` is the split function, `Token` a package that is unpacked,
decoded and switched upon, `TokenPanics` a length that an `int16` turned negative. `Deferred` is
the deferred function, `WriteBegins` and `WriteEnds` the writer, which waits for a peer that reads
nothing. `AcceptFails` is an acceptor that returns for good.

**Api** - a request is a chain of calls, `Plan[route]`, whose first is the `CheckAuth` of the
middleware on the guarded routes. `step[q]` is the call it waits for, `wire` holds the attempts
logic has not run, also ones the client gave up (`Break`, `client.Failtry`), `reply[q]` the answer
on its way. What logic does in a call is one step (`Serve...`); a handler that returns an error
(`ServeError`) and a call that is given up leave a reply whose code is that of a success.
`Accepted` is what the middleware and each handler look at.

## The runs

A `pass` run must end without error, a `violation` run must find its one property violated.
All runs have `CHECK_DEADLOCK FALSE`: clients send a bounded number of messages and hang up
or not, so every system here may really come to rest. A system that rests when it should not
is found by the liveness properties.

| Run | Instance | Question |
|---|---|---|
| `bucket_room` | 3 connections of 3 users, 1 room, 1 pushing goroutine, one connect message each, one deletion at a time, 3 Rooms per id | `ListWellFormed`, `PushComplete`, `ClosedForgotten` and the inductive invariant `IInv`, in all interleavings of joins, leaves and a push; `KeepsPromise`, the refinement of `Membership` |
| `bucket_leavers` | 3 connections of 3 users, 1 room, one connect message each, up to three deletions at a time, 3 Rooms per id | `MembersCounted`, in all interleavings of the loads and stores of `OnlineCount` |
| `bucket_shared` | a websocket and a TCP connection, 2 users of which one is shared, up to 2 connect messages each, requests for no room, 2 Rooms per id | `DropFinal`; `RefusalCloses` and `JoinSettles` under fairness |
| `bucket_evict` | 3 connections, 3 users | violated: `EvictedOnlyIfEmpty` |
| `broadcast` | 2 connections in one of 2 buckets, one reads, the other does not and may break or leave; a caller for the room, one for a connection; one goroutine with a channel of one and 4 calls, or two with a channel of two and 3 calls | `ExactlyOnce`, `SameRoutineOrder`, and `CallReturns` under fairness |
| `delivery` | 8 instances in one run: two users and three joins with retries; a crash in a call that was retried, with a message; tabs of one user, another user without a room; a user who comes back on another server, or on the same one, with a message under way, a lost key and a crash; two messages to a user whose key is lost; a connection with two connect messages, also for another user or no room, while one of its users comes back and gets a message; two connections on one server that both change their user, of the same bucket or of another | `DeliveryTypeOK`, `PersonsCounted`, `ListedWhileIn`, `LeaverAbsent`, `NobodyLeft`, `Routable`, `ReachesOrLeft`, each under the conditions it names |
| `presence_tabs` | 2 connections of one user | violated: `PersonCount` |
| `task` | 2 servers, one of them listed under another value than its serverId, 2 workers with a channel of one message, a subscription buffer of 2, 3 messages, 2 attempts per call, 2 faults (a connection that breaks during a call, a server that dies) | `KnownNeverKills`, `RoomStream`, and `MessagesArrive` under fairness |
| `auth` | 5 requests one at a time, of a known user and one who registers; and 3 requests, 2 at a time, 2 connections, one closed | `CurrentLive`, `LoggedOut`, `OneSession` for requests that take turns, `LogoutFinal` and `OneUser` for all |
| `auth_pool` | 2 Logins of one user, 2 connections | violated: `TokenSet` |
| `tcp_conn` | streams of up to 4 packages, empty, largest, malformed and too large ones included, lengths from -8 to 7, a buffer of 16 bytes, one acceptor | `InOrder`; `Handled` and `BothEnd` under fairness |
| `api` | 2 requests of any of the 8 routes, a known user and one who registers, one retry, 2 failures | `Barred`, `Signed`, `TokenGiven`; `Answered` under fairness |

Why the bounds are enough. A list of three has a first, a middle and a last Channel, so every
case of the two splices occurs, with a neighbour joining or a push standing on either side; a
third Room per id lets a replacement be dropped too. Three leavers at once lose two decrements, and
leave a count that is too high before, at and after zero. Two connections suffice for a Room to be
dropped under a waiting `Put`, and a second connect message for every transfer between rooms
and users. In
Broadcast, four calls fill one goroutine: one message at a full Channel, one being pushed, one in
the channel and one waiting to be sent; three calls give the first of two goroutines a second
message. In Delivery, two persons distinguish "counted wrong" from "counted zero", and a
third connection distinguishes the last leaver from the one before. Without `OneJoinEach`
each property that has it fails on this run. In Task, one message fills
a worker's channel, one is held by the worker and one by the subscriber, which is the longest
chain the code has; a buffer of two lets a message be lost, too. Two faults
end one call, or one attempt of two calls, or one attempt and a server, so an attempt can arrive
after the call was made again, after the next message, and after the call was given up. In Auth, a Logout concerns one
token, and what can undo it is one other request on either connection; five sequential
requests reach register, login, login again, connect and logout in any order. In TcpConn, four
bits of length wrap as sixteen do, and a buffer that holds two packages lets a read end before,
in and behind a header. In Api, two requests make the first end a session in the middle of the
second, two failures break both attempts of a call, and one retry leaves an attempt behind that
logic runs when the client has gone on. The theorems below do not depend on these bounds.

The three violated properties quote a comment of the code, and each is a finding in
`PROJECT.json`: an occupied Room leaves the map (`bucket.go:102`), a second tab miscounts
(`logic/rpc.go:313`), a confirmed Login has no session (`logic/rpc.go:88`).

## Fairness

Bucket: the deletion steps of each reader, a read on a closed connection and the steps of a
running push are weakly fair: the Go scheduler runs what can run. The steps that wait for
`Lock` are strongly fair, because a goroutine waiting in `RWMutex.Lock` keeps later readers
out; `Lookup` is, because `MaxExit` holds it back where the code would not. Nothing is assumed of clients: that a
message arrives or a peer hangs up is not fair. Broadcast: goroutines are weakly fair
and rpc handlers strongly, since senders that wait on a channel are served in order; write pumps
are not fair, for a peer may stop reading. Task: each goroutine of a live process is
weakly fair; messages, broken connections, late attempts and deaths are not. TcpConn:
reader and writer run when they can and the ticker fires again; the peer need not do anything.
Api: logic runs every attempt that is on the wire, and the goroutine of a request goes on with a
reply; that a connection breaks is not fair. A logic process that hangs without breaking the
connection would leave a request unanswered, since no call has a deadline (`context.Background`).
Presence, Delivery and Auth state safety only.

`RefusalCloses` and `JoinSettles` end when some connection has sent a second connect message
(`Rejoined`). That message may link a Channel twice, which makes the list a circle;
`Room.Push` then walks it for ever with `rLock` held, and no join or leave of the room ever
ends. They also end when a panic ends the process (`Alive`), and so does the fairness of its
goroutines. `MessagesArrive` excludes a subscriber that waits on a nil channel (below), a process
that died and a call all of whose attempts broke.

## The proofs

`BucketProofs`, from `BucketAssumption` (connections are finite, requests are typed, Nil is
not a connection, user or room):

* `TypeCorrect`: `Spec => []TypeOK`, for all constants. `Typed` strengthens `TypeOK` with which
  local variable is set at which control state.
* `RoomDropFinal`: `MaxExit = 1 => (Spec => DropFinal)`, with shared users and repeated connect
  messages. `OneExit` says that one reader is in `DeleteChannel`; with it the decrement is
  exact (`Loaded`), and a dropped Room has no positive count (`Emptied`), so the mark that
  `DropClear` takes away is set again by `DropTest` while `rLock` keeps `Put` out.
* `RoomIntegrity`, `PushMissesNobody` and `ClosedIsForgotten`: `Gentle => (Spec => []P)` for
  `ListWellFormed`, `PushComplete` and `ClosedForgotten`. `Gentle` says that readers leave one at a
  time (`MaxExit = 1`), that each connection sends one connect message, for a room, and that no
  two connections have one user. The code enforces none of it; what is proved holds as long as it
  is so. The properties are not inductive: they speak of Rooms at rest, and a
  deletion passes through states where the list, `Prev` and the count disagree. `IInv` says
  what holds there: `Registered` (the map holds a connection until it deletes itself, and
  what it deletes is itself), `Stamped` (a connection is in a list from its `Room.Put` to its
  unlinking; one that was refused has a retired Room), `Counted` (the count is one ahead between
  unlinking and the store), `Forward` (`Next` of every Channel that was ever linked, unlinked
  ones included, leads to the newest older member: this is why a walk that stands on a leaving
  Channel misses nobody), `Backward` (`Prev` is the inverse but for the deletion half way) and
  `Walked` (what a walk has not seen is still ahead of its cursor). Each conjunct has a lemma
  that every action keeps it; `bucket_room` checks `IInv` with TLC, and `InvariantHolds`
  states it.
* `NobodyUncounted`: `Own => (Spec => []MembersCounted)`, and `RetiredForGood`: `Own => (Spec =>
  DropFinal)`. `Own` is `Gentle` without its bound on leavers: any number of readers are in
  `DeleteChannel` at once, and their loads and stores of `OnlineCount` interleave as they like.
  The invariant is `Tallied`. `Owed(o)` are the connections that still count in a Room: its
  members, and those that have left its list and not yet stored their decrement. `Tally` says that
  as long as there are any the count, and every value of it somebody has loaded, is at least
  their number, so each store leaves it at least the number of the others; when none is left
  the count is zero or too high for ever. Only a Room nobody owes to can be marked `drop`, and then
  no load is above one, so no store raises its count again. `Belongs` ties a connection to the
  list of its Room.

`BucketPromise`, from the same assumption: `PromiseKept`, `Gentle => (Spec => KeepsPromise)`,
that a gentle `Bucket` implements `Membership`. Initial states map to initial states. Of the steps, the
link in `Room.Put` enters (`Enters`), the one that closes the list over a Channel leaves
(`Leaves`), `DropClear` at a count of zero retires the Room (`Retires`), the test that follows and
the store of the count show nothing (`Confirms`), the steps of a push begin, reach and end
(`Pushes`), and all others stutter (`Stutters`). `IInv` has the conjunct `Reached` for it: what a
walk has reached are connections that were in the Room when it began.

`AuthProofs`, from `AuthAssumption`:

* `TypeCorrect`: `Spec => []TypeOK`.
* `LogoutIsFinal`: `Spec => []LogoutFinal`, for any number of requests, connections and closed
  connections, in any overlap. `LogoutFinal` says nothing of queued writes, which could bring
  a session back; `WrittenOnce` says that the write of a session is in one place, yet to be
  sent, queued on one connection, or done, and `Confirmed` that a Logout that has read its
  session knows that it is done. `Typed` and `Found` carry the types of keys and locals.
* `NameIsOneUser`: `Spec => []OneUser`. `Owned` says that no two rows have one name, that a handler
  stays in the states of its kind (`Staged`), and that one which has found or made its user has
  the row of its name (`Identified`).

* `MapIsLive`, `ServerKeyGoes` and `SessionsAreSingle`, also from `QueueAssumption`:
  `Spec => []CurrentLive`, `[]LoggedOut` and `[]OneSession`. Each speaks of a rest between two
  requests; `Turn` says what holds inside one when requests take turns and the pool closes
  nothing (`Calm`): one request is active (`Solo`), one connection is in use and has queued what
  its request has written (`Pooled`), so a transaction is whole; the map names a session or a
  Login is about to replace it (`Mapped`), a server key has a session or is about to (`Served`),
  a user has no session but the one the map names or his Logout has still to delete (`Single`).
  `Within` is what the handler at work knows: that the session it expels is the mapped one, that
  none is left when it makes another, that the session it leaves is its user's.

`PresenceProofs`, from `PresenceAssumption`, and `DeliveryAssumption` for the last three:

* `PresenceTypes`: `Spec => []TypeOK`. `Requested` says which calls were made and at which command
  of which handler each is, `ReaderOK` what the reader of a connection knows of them; the bound on
  the calls of a connection is one of its conjuncts.
* `RoomsCountPersons`: `Spec => []PersonsCounted`; `RoomsEmptyOut`: `Spec => []NobodyLeft`. Both speak
  of rest, and the counter and the hash differ whenever a handler stands between two commands.
  `InTurn` says that without failures the one handler at work for a connection is the one its
  reader waits for, `Constant` that a connection which joined once asks for one user and room.
  `Accounted` then has the connections that `Holds` a user's field in the hash and those that
  `Counts`, by the state of their reader and handler: every listed user is held by one, and the
  counter is their number (no more than it, when users have several connections, which is what
  `NobodyLeft` needs). The number moves by one with each command that moves the counter because
  `Alone` says that a user whose joins never overlapped has one connection that is not gone, its
  last handler included.
* `JoinedIsListed`: `Spec => []ListedWhileIn`. No failure is excluded, so `Listing` speaks of all calls of
  a connection, retried ones too: those that are past the `HSet` have left the user listed, and
  with `Alone` nobody takes him out.
* `LeaverIsOffTheList`: `Spec => LeaverAbsent`. `Unlisted` follows a leaver from `HDel` to the list
  that is read and the one that is published.
* `DeliveryIsPresence`: `DeliverySpec => Spec`, each step of Delivery being one of Presence or
  leaving it alone. With it the above holds with messages under way.
* `DeliveryTypes`: `DeliverySpec => []DeliveryTypeOK`, with what a message carries at each stage
  (`Carries`).
* `UsersAreFound`: `DeliverySpec => []Routable`. `OneOpen` says that a user who never joined beside an
  open connection has one that is joined or joining; `Routed`, that from `Set` on the key names its
  server, and from the reply on the Bucket its Channel. An old connection that is still leaving
  does no harm: it took its Channel out of the Bucket before it called DisConnect.
* `MessagesReachOrMiss`: `DeliverySpec => []ReachesOrLeft`. `Meant` ties the connections a message was
  meant for to its user, and `OnCourse` says that as long as one of them stays, the server read
  from the key and the Channel read from the Bucket are its own.

`BroadcastProofs`, from `BroadcastAssumption`:

* `BroadcastTypes`: `Spec => []TypeOK`.
* `RoutinesKeepOrder`: `Spec => []SameRoutineOrder`; `RoomMessagesOnce`: `Spec => []ExactlyOnce`. The
  proofs see a sequence only by what is in it and what comes before what (`Before`). `Handing` says
  that a handler has the latest message of its caller and where it stands in its walk over the
  buckets, so `Past`, that nobody has still to give a message to a bucket, only becomes true.
  `Queues`: what a goroutine has was given to it, in the order it was given. `Behind`: what a
  connection has met is behind all that its goroutines still bring (`Follows`); hence it meets
  nothing twice, and messages of one goroutine in their order (`Streams`). `Complete`: what a
  member has not met is still coming. `Rooms`: a walk has members ahead of it, each once.

`TcpProofs`, from `TcpAssumption` (packages of any length and number):

* `TypeCorrect`: `FairSpec => []TypeOK`. `Typed` adds that the scanner stands on a boundary of
  packages, `Packages` that the boundaries are where the lengths put them.
* `OrderIsKept`: `FairSpec => []InOrder`. A token is cut only when all its bytes have arrived,
  and what is cut next starts where it ended.

`ApiProofs`, from `ApiAssumption`:

* `DeadTokenDoesNothing`: `Spec => []Barred`. `Progress` ties the call a request waits for to its
  route; `BarredAt` says that a request whose token is dead stays at its guard, with no reply, the
  zero reply of a failed call, or a refusal, whatever logic still does with attempts that were
  given up.
* `SenderIsRight`: `Spec => []Signed`. `KnownSender` says that as long as none of its calls failed,
  a request that is past its checks carries the user of its token, and so do the attempts it
  has left on the wire.
* `ApiTypes`: `Spec => []TypeOK`, and `TokensAreGiven`: `Spec => []TokenGiven`. That a token is one of
  `Tokens` is a matter of counting: each attempt of a login or register makes one at the most, and
  those which have run or were lost (`Spent`) only grow in number, by one when a token is made
  (`Budget`), up to the retries of every request. `Tokened` says that a token in a reply was
  made for the user its request names, `Owned` that every token has a user.

`TaskProofs`, from `TaskAssumption`:

* `TypeCorrect`: `Spec => []TypeOK`. `Scalars` and `Streams` add what each kind of message carries
  and where it can be.
* `RegisteredIsSafe`: `Spec => []KnownNeverKills`, about the servers etcd held under their serverId
  (`UnderServerId`). `Staged` says that there is no channel before the list of servers is full, so
  a worker never has a message for a server of the configuration that the list lacks.
* `RoomsInOrder`: `Spec => []RoomStream`, about the first time a server gets a message. `Ordered` says
  that the messages of the subscription are in order and newer than everything that was taken,
  `Behind` that they are newer than every room message a server was called with, also by an attempt
  that broke, `Singles` that workers hold no room messages, and `Tried` that an attempt that may
  arrive late is one of a call that broke. By `Settled` such a call is still being made, or the
  server has the message, or every attempt broke: so what arrives late is the message at hand, a
  duplicate, or a message whose call failed, and `InOrders` stays true. `Reaches` says that a room
  message taken after the list was full has reached every server of the list that lives, is on
  its way, or failed.

Every invariant of a passing run, `KeepsPromise` and `LeaverAbsent` are theorems. Only
model-checked: the liveness properties (`RefusalCloses`, `JoinSettles`, `CallReturns`,
`MessagesArrive`, `Handled`, `BothEnd`, `Answered`), because fairness and ENABLED are outside
the prover.

## What the code does not guarantee

`Gentle` and the conditions in the properties are not conveniences. On the instance of
`bucket_room`, each of these alone breaks a property:

* two readers in `DeleteChannel` at once (`MaxExit = 2`): `PushComplete` fails, a decrement of
  `OnlineCount` may be lost, so that the Room is kept for ever, though it is never dropped under
  a member (`bucket_leavers`), and Go may end the process because two goroutines
  write a map;
* a second connect message (`MaxJoin = 2`): `ListWellFormed` fails, since `Bucket.Put` links
  the Channel again without unlinking it;
* two connections of one user: `PushComplete` fails, since the first to leave deletes
  the Channel of the other;
* a connection without a room: `ClosedForgotten` fails, since the deferred function of
  both servers returns when `ch.Room == nil`.

Also: rooms whose id is not positive are counted up and never down (`logic/rpc.go:327`;
`PersonsCounted` is about the others; the TCP server refuses such ids, the websocket server does
not). Connect and DisConnect are not idempotent, so a retry or a crash leaves the counter
wrong for good. A connect message for another room leaves the first room's list, count and
hash as they are, so the presence properties are about connections that sent one
(`OneJoinEach`; `LeaverAbsent` holds without it). Such a message for another user also
lets `DeleteChannel` delete the entry of a user who is still there, or read a nil pointer
(`bucket.go:94-97`), which ends the connect process, as a websocket message does that is not JSON or is
`null` (`server.go:127-132`). A server whose etcd value carries more than the literal `=&tps=0` (the
metrics of the rpcx plugin write the calls of the last minute there) is listed under a key that is
not its serverId, although the comment says "under serverId" (`task/rpc.go:37`), and a single message
for it ends the task process; `KnownNeverKills` is about the others. A call that is
made again may leave an attempt that the connect server runs after newer messages, as a
duplicate; a call that breaks on every attempt is forgotten, although the server lives. The member
list that `DisConnect` publishes (`LeaveMsg`) has the op of a room message and no text, and the task
layer sends only the text of that op (`task/push.go:58`), so the clients get an empty message where
the comment promises a "push event to websocket" (`logic/rpc.go:340`). A single message taken before `GoPush` has run is sent on a nil channel,
which stops the subscriber for good (`task/push.go:52`); one for a server that registered
after the task process started is a call on a nil interface. Register writes no `sess_map`,
so the next Login does not end the session Register made. Overlapping Logins leave two
sessions. When the pool closes a connection on which a handler has said `MULTI` (`MaxConnAge`), the
rest of the transaction runs at once on another: the map then names a token without a session, also
for requests that take turns (`Apart` of Auth leaves such pools out), and a Login that failed has
already ended the session before it. Room messages given to different goroutines of a bucket may overtake each other, and a
full Channel drops messages without telling the caller. Two Registers of one name can both be confirmed when the second finds the row
of the first in `User.Add`. `GetUserNameByUserId` queries a column the table does not have.

A TCP package whose length does not fit an `int16` comes out as a negative or a small number: the
slice then panics and ends the connect process, or the stream is cut in the wrong places
(`TokenPanics` in TcpConn; `InOrder` is about streams whose lengths fit). `acceptTcp` returns for
good when one connection refuses an option, and leaves that connection open. A call from the api
layer that fails leaves a reply whose code is that of a success: `push` and `pushRoom` then
publish without a sender, and `count` or `logout` are answered "ok" although nothing was done
(`Signed` speaks of requests none of whose calls failed). A message to a user is lost when his
connection left, or he reconnected, after the server key was read (`ReachesOrLeft` says so), and a
user with two connections gets it on the one the bucket's map holds. A message to a user without
a server key ends the task process.

## What is not modelled

City hash only has to map a user to the same bucket each time. Configuration, the database
handle, the etcd registration, the message structs and the static site keep no state that
changes. `GetRedisInstance` keeps its lock when it returns a client it has; each process calls
it once, so no behaviour of the program shows it. CORS headers, the parsing of bodies and the
start-up and shutdown of the processes are left out. A read deadline is a hang-up. Keys
expire in Presence only for the server key. Formatting, logging and passwords are abstracted.
Two readers in `DeleteChannel` at once (`MaxExit`) interleave in `Bucket` by their accesses to
memory; that Go may end the process when both write a map is not modelled. `MembersCounted`, and
`DropFinal` by its theorem, cover them; `ListWellFormed`, `PushComplete`, `ClosedForgotten` and
`KeepsPromise` are about one at a time.

## Plan

Done: the modules above, the refinement of `Membership`, and the theorems listed.
What is left, in this order:

1. `Delivery` as a refinement of a mailbox: a message to a user is handed to his connection,
   or is lost after that connection left. `Routed` and `OnCourse` are the invariant it needs.
2. `ListWellFormed` and the rest of Bucket for connections that send more than one connect message
   without changing room, as far as the code keeps them; the list for several leavers that are not
   neighbours.
3. What logic does in Api as a refinement of Auth and Presence, whose handlers take the same
   steps apart.
