-------------------------------- MODULE Bucket --------------------------------
(***************************************************************************)
(* One Bucket of the connect layer (connect/bucket.go) with its Rooms      *)
(* (connect/room.go), its Channels (connect/channel.go), the reader        *)
(* goroutine of every connection (readPump in connect/server.go and        *)
(* readDataFromTcp in connect/server_tcp.go) and the goroutines that run   *)
(* Bucket.PushRoom.  Every piece of memory two goroutines can touch at the *)
(* same time is read and written in a step of its own.                     *)
(*                                                                         *)
(* Go's locks appear through what they exclude.  A section under Lock() is *)
(* one atomic step, enabled when no goroutine is inside a section under    *)
(* RLock() of the same lock; a section under RLock() is several steps.     *)
(* The code mutates the list of a room, its OnlineCount and both maps of   *)
(* the bucket under RLock(), so these steps of several readers interleave. *)
(***************************************************************************)
EXTENDS Integers, FiniteSets

CONSTANTS
  Sessions,    \* connections; each has one Channel and one reader goroutine
  Tcp,         \* the connections accepted by the TCP server; the others are websockets
  Users,       \* user ids of this bucket (0 is the code's "no user")
  RoomIds,     \* room ids clients ask for
  NoRoom,      \* room.go: NoRoom
  Request,     \* <<s, u, r>>: connection s may present a token of user u for room r
  Routines,    \* goroutines running Bucket.PushRoom
  Nil,         \* the nil pointer, and a missing map key
  MaxJoin,     \* bound: connect messages per connection
  MaxExit,     \* bound: readers inside Bucket.DeleteChannel at the same time
  MaxRoom      \* bound: Room objects made per room id

ASSUME BucketAssumption ==
  /\ Tcp \subseteq Sessions /\ IsFiniteSet(Sessions)
  /\ Request \subseteq Sessions \X Users \X (RoomIds \cup {NoRoom})
  /\ NoRoom \notin RoomIds
  /\ MaxJoin \in Nat /\ MaxExit \in Nat /\ MaxRoom \in Nat
  /\ Nil \notin Sessions \cup Users \cup (RoomIds \X Nat)

\* <<r, n>> is the n-th Room made for room id r: two Rooms can have the same Id.
Room == RoomIds \X (1 .. MaxRoom)

VARIABLES
  chs, rooms, made,             \* Bucket: chs, rooms; how many Rooms each id has had
  head, count, drop,            \* Room: next, OnlineCount, drop
  chRoom, chUser, next, prev,   \* Channel: Room, userId, Next, Prev
  conn,                         \* is the connection of the Channel still open
  pc, arg, target, room, load,  \* reader: control state and local variables
  joins,                        \* connect messages read, for MaxJoin
  linked,                       \* history: the Channels linked into each Room
  puts, stamp,                  \* history: number the successful Room.Puts; each Channel's last
  wpc, wroom, cursor,           \* PushRoom goroutine: control state, room, ch
  seen, audience                \* history: Channels the current Room.Push reached, and
                                \* the Channels in the room when it began

bucketVars == <<chs, rooms, made>>
roomVars   == <<head, count, drop>>
histVars   == <<linked, puts, stamp>>
linkVars   == <<next, prev>>
sessVars   == <<chRoom, chUser, conn, joins>>
readVars   == <<arg, target, room, load>>
pushVars   == <<wpc, wroom, cursor, seen, audience>>
vars == <<bucketVars, roomVars, histVars, linkVars, sessVars, pc, readVars, pushVars>>

\* Control states inside Room.DeleteChannel and inside Bucket.DeleteChannel.
InRoom   == {"unlinkNext", "unlinkPrev", "decLoad", "decStore", "dropClear", "dropTest"}
InBucket == {"forget", "evict", "unlock"} \cup InRoom

Exiting == {s \in Sessions : pc[s] \in InBucket}

\* cLock and rLock of a room are held for reading.
BucketLocked  == Exiting # {}
RoomLocked_SkipsDelete(o) == \E w \in Routines : wpc[w] = "walk" /\ wroom[w] = o
RoomLocked_SkipsWalk(o)   == \E s \in Sessions : pc[s] \in InRoom /\ room[s] = o
RoomLocked(o) == \/ \E s \in Sessions : pc[s] \in InRoom /\ room[s] = o
                 \/ \E w \in Routines : wpc[w] = "walk" /\ wroom[w] = o

Init ==
  /\ chs = [u \in Users |-> Nil]
  /\ rooms = [r \in RoomIds |-> Nil] /\ made = [r \in RoomIds |-> 0]
  /\ head = [o \in Room |-> Nil] /\ count = [o \in Room |-> 0]
  /\ drop = [o \in Room |-> FALSE] /\ linked = [o \in Room |-> {}]
  /\ chRoom = [s \in Sessions |-> Nil] /\ chUser = [s \in Sessions |-> Nil]
  /\ puts = 0 /\ stamp = [s \in Sessions |-> 0]
  /\ next = [s \in Sessions |-> Nil] /\ prev = [s \in Sessions |-> Nil]
  /\ conn = [s \in Sessions |-> "open"] /\ joins = [s \in Sessions |-> 0]
  /\ pc = [s \in Sessions |-> "read"] /\ arg = [s \in Sessions |-> Nil]
  /\ target = [s \in Sessions |-> Nil] /\ room = [s \in Sessions |-> Nil]
  /\ load = [s \in Sessions |-> 0]
  /\ wpc = [w \in Routines |-> "idle"] /\ wroom = [w \in Routines |-> Nil]
  /\ cursor = [w \in Routines |-> Nil] /\ seen = [w \in Routines |-> {}]
  /\ audience = [w \in Routines |-> {}]

Goto(s, l) == pc' = [pc EXCEPT ![s] = l]
-------------------------------------------------------------------------------
(* The reader goroutine up to the end of Bucket.Put. *)

\* A connect message arrived and logic answered with a user id.
Join(s, u, r) ==
  /\ pc[s] = "read" /\ conn[s] = "open" /\ joins[s] < MaxJoin
  /\ <<s, u, r>> \in Request
  /\ arg' = [arg EXCEPT ![s] = <<u, r>>]
  /\ joins' = [joins EXCEPT ![s] = @ + 1]
  /\ Goto(s, "put")
  /\ UNCHANGED <<bucketVars, roomVars, histVars, linkVars, chRoom, chUser, conn,
                 target, room, load, pushVars>>

\* Bucket.Put under cLock.Lock(); r is NoRoom, so no room is looked up.
PutNoRoom(s) ==
  LET u == arg[s][1] IN
  /\ pc[s] = "put" /\ ~BucketLocked /\ arg[s][2] = NoRoom
  /\ chUser' = [chUser EXCEPT ![s] = u]
  /\ chs' = [chs EXCEPT ![u] = s]
  /\ Goto(s, "read")
  /\ UNCHANGED <<rooms, made, roomVars, histVars, linkVars, chRoom, conn, joins, readVars, pushVars>>

\* Bucket.Put under cLock.Lock() for a real room, made when the id has none.
PutRoom(s) ==
  LET u == arg[s][1]
      r == arg[s][2]
      o == IF rooms[r] = Nil THEN <<r, made[r] + 1>> ELSE rooms[r] IN
  /\ pc[s] = "put" /\ ~BucketLocked /\ r # NoRoom /\ o \in Room
  /\ rooms' = [rooms EXCEPT ![r] = o]
  /\ made' = [made EXCEPT ![r] = IF rooms[r] = Nil THEN @ + 1 ELSE @]
  /\ chRoom' = [chRoom EXCEPT ![s] = o]
  /\ chUser' = [chUser EXCEPT ![s] = u]
  /\ chs' = [chs EXCEPT ![u] = s]
  /\ Goto(s, "roomPut")
  /\ UNCHANGED <<roomVars, histVars, linkVars, conn, joins, readVars, pushVars>>

\* Room.Put's test of the room it was handed.
Dropped_Ignored(o) == FALSE
Dropped(o) == drop[o]

\* Room.Put under rLock.Lock(): r.next.Prev = ch; ch.Next = r.next; ch.Prev = nil.
RoomPut(s) ==
  LET o == chRoom[s] IN
  /\ pc[s] = "roomPut" /\ ~RoomLocked(o) /\ ~Dropped(o)
  /\ prev' = [x \in Sessions |-> IF x = s THEN Nil
                                 ELSE IF x = head[o] THEN s ELSE prev[x]]
  /\ next' = [next EXCEPT ![s] = head[o]]
  /\ head' = [head EXCEPT ![o] = s]
  /\ count' = [count EXCEPT ![o] = @ + 1]
  /\ linked' = [linked EXCEPT ![o] = @ \cup {s}]
  /\ puts' = puts + 1 /\ stamp' = [stamp EXCEPT ![s] = puts + 1]
  /\ Goto(s, "read")
  /\ UNCHANGED <<bucketVars, drop, sessVars, readVars, pushVars>>

\* Room.Put found the room dropped.  Both servers close the connection; the TCP
\* reader returns, the websocket reader goes back to ReadMessage.
AfterRefusal_Open(s) == conn
AfterRefusal(s) == [conn EXCEPT ![s] = "closed"]
RoomRefused(s) ==
  LET o == chRoom[s] IN
  /\ pc[s] = "roomPut" /\ ~RoomLocked(o) /\ Dropped(o)
  /\ conn' = AfterRefusal(s)
  /\ Goto(s, IF s \in Tcp THEN "lookup" ELSE "read")
  /\ UNCHANGED <<bucketVars, roomVars, histVars, linkVars, chRoom, chUser, joins, readVars, pushVars>>

\* The deferred function of the reader: nothing to undo when the Channel has no Room.
Deferred(s, end) ==
  IF chRoom[s] = Nil \/ chUser[s] = Nil
  THEN Goto(s, end) /\ conn' = [conn EXCEPT ![s] = "closed"]
  ELSE Goto(s, "lookup") /\ UNCHANGED conn

\* The read loop ends: error, end of file, no token, invalid token.
Quit(s) ==
  /\ pc[s] = "read" /\ Deferred(s, "closed")
  /\ UNCHANGED <<bucketVars, roomVars, histVars, linkVars, chRoom, chUser, joins, readVars, pushVars>>

\* A message of a websocket that is no JSON, or the JSON null: connReq stays nil, and
\* connReq.AuthToken panics once the deferred function has run.
Malformed(s) ==
  /\ s \notin Tcp /\ pc[s] = "read" /\ conn[s] = "open"
  /\ arg' = [arg EXCEPT ![s] = Nil]
  /\ Deferred(s, "panic")
  /\ UNCHANGED <<bucketVars, roomVars, histVars, linkVars, chRoom, chUser, joins,
                 target, room, load, pushVars>>
-------------------------------------------------------------------------------
(* Bucket.DeleteChannel and Room.DeleteChannel, under RLock() throughout.  *)

\* ch, ok = b.chs[ch.userId]: from here on ch is the Channel found in the map.
Lookup(s) ==
  LET t == chs[chUser[s]] IN
  /\ pc[s] = "lookup" /\ Cardinality(Exiting) < MaxExit
  /\ \/ /\ t = Nil
        /\ Goto(s, "unlock")
        /\ UNCHANGED <<target, room>>
     \/ /\ t # Nil /\ chs[chUser[t]] # Nil
        /\ target' = [target EXCEPT ![s] = t]
        /\ room' = [room EXCEPT ![s] = chRoom[chs[chUser[t]]]]
        /\ Goto(s, "forget")
     \/ /\ t # Nil /\ chs[chUser[t]] = Nil   \* b.chs[ch.userId].Room of a nil Channel
        /\ Goto(s, "panic")
        /\ UNCHANGED <<target, room>>
  /\ UNCHANGED <<bucketVars, roomVars, histVars, linkVars, sessVars, arg, load, pushVars>>

\* delete(b.chs, ch.userId)
Forgotten_Kept(s)  == chs
Forgotten_Blank(s) == [chs EXCEPT ![chUser[target[s]]] = 0]  \* a blank Channel stays
Forgotten(s) == [chs EXCEPT ![chUser[target[s]]] = Nil]
Forget(s) ==
  /\ pc[s] = "forget"
  /\ chs' = Forgotten(s)
  /\ Goto(s, IF room[s] = Nil THEN "unlock" ELSE "unlinkNext")
  /\ UNCHANGED <<rooms, made, roomVars, histVars, linkVars, sessVars, readVars, pushVars>>

\* ch.Next.Prev = ch.Prev
UnlinkNext(s) ==
  LET t == target[s] IN
  /\ pc[s] = "unlinkNext"
  /\ prev' = [x \in Sessions |-> IF x = next[t] THEN prev[t] ELSE prev[x]]
  /\ Goto(s, "unlinkPrev")
  /\ UNCHANGED <<bucketVars, roomVars, histVars, next, sessVars, readVars, pushVars>>

\* ch.Prev.Next = ch.Next, or r.next = ch.Next for the first Channel.
NextAfter_Cleared(t) == [x \in Sessions |-> IF x = t THEN Nil
                                            ELSE IF x = prev[t] THEN next[t] ELSE next[x]]
NextAfter(t) == [x \in Sessions |-> IF x = prev[t] THEN next[t] ELSE next[x]]
UnlinkPrev(s) ==
  LET t == target[s]
      o == room[s] IN
  /\ pc[s] = "unlinkPrev"
  /\ next' = NextAfter(t)
  /\ head' = [head EXCEPT ![o] = IF prev[t] = Nil THEN next[t] ELSE @]
  /\ linked' = [linked EXCEPT ![o] = @ \ {t}]
  /\ Goto(s, "decLoad")
  /\ UNCHANGED <<bucketVars, count, drop, puts, stamp, prev, sessVars, readVars, pushVars>>

\* r.OnlineCount-- is a load and a store.
DecLoad(s) ==
  /\ pc[s] = "decLoad"
  /\ load' = [load EXCEPT ![s] = count[room[s]]]
  /\ Goto(s, "decStore")
  /\ UNCHANGED <<bucketVars, roomVars, histVars, linkVars, sessVars, arg, target, room, pushVars>>

Decremented_Not(n) == n
Decremented(n) == n - 1
DecStore(s) ==
  /\ pc[s] = "decStore"
  /\ count' = [count EXCEPT ![room[s]] = Decremented(load[s])]
  /\ Goto(s, "dropClear")
  /\ UNCHANGED <<bucketVars, head, drop, histVars, linkVars, sessVars, readVars, pushVars>>

\* r.drop = false
DropClear(s) ==
  /\ pc[s] = "dropClear"
  /\ drop' = [drop EXCEPT ![room[s]] = FALSE]
  /\ Goto(s, "dropTest")
  /\ UNCHANGED <<bucketVars, head, count, histVars, linkVars, sessVars, readVars, pushVars>>

\* if r.OnlineCount <= 0 { r.drop = true }; rLock is released.
Exhausted_AtZero(n) == n = 0
Exhausted(n) == n <= 0
DropTest(s) ==
  LET o == room[s] IN
  /\ pc[s] = "dropTest"
  /\ drop' = [drop EXCEPT ![o] = @ \/ Exhausted(count[o])]
  /\ Goto(s, "evict")
  /\ UNCHANGED <<bucketVars, head, count, histVars, linkVars, sessVars, readVars, pushVars>>

\* if room.drop == true { delete(b.rooms, room.Id) }: by Id, whatever Room is there.
Evict(s) ==
  LET o == room[s] IN
  /\ pc[s] = "evict"
  /\ rooms' = [rooms EXCEPT ![o[1]] = IF drop[o] THEN Nil ELSE @]
  /\ Goto(s, "unlock")
  /\ UNCHANGED <<chs, made, roomVars, histVars, linkVars, sessVars, readVars, pushVars>>

\* cLock is released; operator.DisConnect is called before the connection closes.
Unlock(s) ==
  /\ pc[s] = "unlock"
  /\ Goto(s, "disconnect")
  /\ target' = [target EXCEPT ![s] = Nil]
  /\ room' = [room EXCEPT ![s] = Nil]
  /\ load' = [load EXCEPT ![s] = 0]
  /\ UNCHANGED <<bucketVars, roomVars, histVars, linkVars, sessVars, arg, pushVars>>

\* The deferred function is over; a panic goes on.
Close(s) ==
  /\ pc[s] = "disconnect"
  /\ conn' = [conn EXCEPT ![s] = "closed"]
  /\ Goto(s, IF arg[s] = Nil THEN "panic" ELSE "closed")
  /\ UNCHANGED <<bucketVars, roomVars, histVars, linkVars, chRoom, chUser, joins, readVars, pushVars>>
-------------------------------------------------------------------------------
(* A goroutine of Bucket.PushRoom: look the room up under cLock.RLock(), then   *)
(* walk its list under rLock.RLock().  A message for an unknown room is dropped. *)

TakeMsg(w, r) ==
  /\ wpc[w] = "idle" /\ rooms[r] # Nil
  /\ wroom' = [wroom EXCEPT ![w] = rooms[r]]
  /\ wpc' = [wpc EXCEPT ![w] = "found"]
  /\ UNCHANGED <<bucketVars, roomVars, histVars, linkVars, sessVars, pc, readVars, cursor, seen, audience>>

PushBegin(w) ==
  /\ wpc[w] = "found"
  /\ cursor' = [cursor EXCEPT ![w] = head[wroom[w]]]
  /\ wpc' = [wpc EXCEPT ![w] = "walk"]
  /\ audience' = [audience EXCEPT ![w] = linked[wroom[w]]]
  /\ UNCHANGED <<bucketVars, roomVars, histVars, linkVars, sessVars, pc, readVars, wroom, seen>>

\* ch.Push(msg); ch = ch.Next
Advance_Stuck(c) == c
Advance(c) == next[c]
PushNext(w) ==
  /\ wpc[w] = "walk" /\ cursor[w] # Nil
  /\ seen' = [seen EXCEPT ![w] = @ \cup {cursor[w]}]
  /\ cursor' = [cursor EXCEPT ![w] = Advance(cursor[w])]
  /\ UNCHANGED <<bucketVars, roomVars, histVars, linkVars, sessVars, pc, readVars, wpc, wroom, audience>>

PushEnd(w) ==
  /\ wpc[w] = "walk" /\ cursor[w] = Nil
  /\ wpc' = [wpc EXCEPT ![w] = "idle"]
  /\ wroom' = [wroom EXCEPT ![w] = Nil]
  /\ seen' = [seen EXCEPT ![w] = {}]
  /\ audience' = [audience EXCEPT ![w] = {}]
  /\ UNCHANGED <<bucketVars, roomVars, histVars, linkVars, sessVars, pc, readVars, cursor>>
-------------------------------------------------------------------------------
Delete(s) == \/ Lookup(s) \/ Forget(s) \/ UnlinkNext(s) \/ UnlinkPrev(s) \/ DecLoad(s)
             \/ DecStore(s) \/ DropClear(s) \/ DropTest(s) \/ Evict(s) \/ Unlock(s)
             \/ Close(s)

Reader(s) == \/ \E u \in Users, r \in RoomIds \cup {NoRoom} : Join(s, u, r)
             \/ PutNoRoom(s) \/ PutRoom(s) \/ RoomPut(s) \/ RoomRefused(s)
             \/ Quit(s) \/ Malformed(s) \/ Delete(s)

Push(w) == \/ \E r \in RoomIds : TakeMsg(w, r)
           \/ PushBegin(w) \/ PushNext(w) \/ PushEnd(w)

\* A panic in any goroutine ends the process.
Alive == \A s \in Sessions : pc[s] # "panic"

Next == Alive /\ (\/ \E s \in Sessions : Reader(s)
                  \/ \E w \in Routines : Push(w))

Spec == Init /\ [][Next]_vars

\* The Go scheduler runs every goroutine that can run.  A goroutine waiting in
\* RWMutex.Lock keeps later readers out, so it gets the lock although readers
\* come and go (strong fairness of the steps under Lock, and of Lookup, which
\* MaxExit can hold back).  A peer need not ever hang up, but a read on a closed
\* connection returns.  All of it ends with the process.
Waits(s) == PutNoRoom(s) \/ PutRoom(s) \/ RoomPut(s) \/ RoomRefused(s) \/ Lookup(s)
Fairness ==
  /\ \A s \in Sessions : /\ SF_vars(Alive /\ Waits(s))
                          /\ WF_vars(Alive /\ (Delete(s) \/ (conn[s] = "closed" /\ Quit(s))))
  /\ \A w \in Routines : WF_vars(Alive /\ (PushBegin(w) \/ PushNext(w) \/ PushEnd(w)))

FairSpec == Spec /\ Fairness
-------------------------------------------------------------------------------
(* Type invariant. *)

TypeOK ==
  /\ chs \in [Users -> Sessions \cup {Nil}]
  /\ rooms \in [RoomIds -> Room \cup {Nil}] /\ made \in [RoomIds -> 0 .. MaxRoom]
  /\ head \in [Room -> Sessions \cup {Nil}] /\ count \in [Room -> Int]
  /\ drop \in [Room -> BOOLEAN] /\ linked \in [Room -> SUBSET Sessions]
  /\ puts \in Nat /\ stamp \in [Sessions -> Nat]
  /\ chRoom \in [Sessions -> Room \cup {Nil}] /\ chUser \in [Sessions -> Users \cup {Nil}]
  /\ next \in [Sessions -> Sessions \cup {Nil}] /\ prev \in [Sessions -> Sessions \cup {Nil}]
  /\ conn \in [Sessions -> {"open", "closed"}] /\ joins \in [Sessions -> 0 .. MaxJoin]
  /\ pc \in [Sessions -> {"read", "put", "roomPut", "lookup", "disconnect", "closed", "panic"}
                         \cup InBucket]
  /\ arg \in [Sessions -> (Users \X (RoomIds \cup {NoRoom})) \cup {Nil}]
  /\ target \in [Sessions -> Sessions \cup {Nil}] /\ room \in [Sessions -> Room \cup {Nil}]
  /\ load \in [Sessions -> Int]
  /\ wpc \in [Routines -> {"idle", "found", "walk"}] /\ wroom \in [Routines -> Room \cup {Nil}]
  /\ cursor \in [Routines -> Sessions \cup {Nil}] /\ seen \in [Routines -> SUBSET Sessions]
  /\ audience \in [Routines -> SUBSET Sessions]
-------------------------------------------------------------------------------
(* Properties. *)

Deleting(o, states) == \E s \in Sessions : pc[s] \in states /\ room[s] = o
AtRest(o) == ~Deleting(o, InRoom)

\* The list of a room nobody is deleting from is exactly its members, newest first,
\* and Prev is the inverse of Next (room.go Put and DeleteChannel splice it).
ListWellFormed ==
  \A o \in Room : AtRest(o) =>
    /\ head[o] = Nil <=> linked[o] = {}
    /\ \A x \in linked[o] :
         /\ head[o] = x <=> \A y \in linked[o] : stamp[y] <= stamp[x]
         /\ prev[x] = Nil <=> head[o] = x
         /\ \A y \in linked[o] : next[x] = y <=> prev[y] = x
         /\ \A y \in linked[o] : stamp[y] < stamp[x] =>
              next[x] \in linked[o] /\ stamp[y] <= stamp[next[x]] /\ stamp[next[x]] < stamp[x]
         /\ next[x] \in linked[o] \cup {Nil}

\* OnlineCount is never too low, however many readers leave at once: two that decrement
\* the same value (room.go DeleteChannel, under the shared lock) leave it too high, which
\* keeps the room.  A room with a member is not marked drop, and so refuses nobody.
MembersCounted ==
  \A o \in Room : linked[o] # {} => ~drop[o] /\ count[o] >= Cardinality(linked[o])

\* A Room.Push that reached the end of the list handed the message to every Channel
\* in the room, although Channels are unlinked under it while it walks.
PushComplete ==
  \A w \in Routines : wpc[w] = "walk" /\ cursor[w] = Nil => linked[wroom[w]] \subseteq seen[w]

\* A closed connection is no longer found in the map of the bucket nor in a room.
ClosedForgotten ==
  \A s \in Sessions : pc[s] = "closed" =>
    /\ \A u \in Users : chs[u] # s
    /\ \A o \in Room : s \notin linked[o]

\* A room marked drop admits nobody any more: DeleteChannel clears the mark before
\* it sets it again, and nobody gets in between the two.
Retired(o) == drop[o] \/ (Deleting(o, {"dropTest"}) /\ count[o] <= 0)
DropFinal == [][\A o \in Room : Retired(o) => Retired(o)' /\ linked'[o] \subseteq linked[o]]_vars

\* A connection has sent a second connect message: it may be in a list twice, which
\* makes the list a circle that Room.Push walks for ever, with rLock held.
Rejoined == \E s \in Sessions : joins[s] > 1

\* Without that, a connection whose Room.Put is refused (the room was dropped while it
\* waited for rLock) is eventually closed and cleaned up, by either server, unless a
\* panic ends the process first.
RefusalCloses ==
  \A s \in Sessions : pc[s] = "roomPut" /\ drop[chRoom[s]] ~> pc[s] = "closed" \/ Rejoined \/ ~Alive

\* Without that, a connect message is eventually dealt with: no push to the room, and
\* no deletion from it, keeps the writer out of the two locks for ever.
JoinSettles ==
  \A s \in Sessions : pc[s] = "put" ~> pc[s] \in {"read", "closed"} \/ Rejoined \/ ~Alive
-------------------------------------------------------------------------------
(* What a comment of the code promises and some behaviours of the code break.   *)

\* bucket.go:100, "if room empty delete": only an empty room leaves the map.
EvictedOnlyIfEmpty ==
  [][\A r \in RoomIds : rooms[r] # Nil /\ rooms'[r] = Nil => linked[rooms[r]] = {}]_vars
-------------------------------------------------------------------------------
(* The inductive invariant behind ListWellFormed, PushComplete and              *)
(* ClosedForgotten.  It needs four things the code does not enforce.           *)

\* Readers leave one at a time, a connection sends one connect message, for a room,
\* and no two connections present tokens of one user.
Own    == MaxJoin = 1 /\ \A p, q \in Request : p[3] # NoRoom /\ (p[2] = q[2] => p[1] = q[1])
Gentle == MaxExit = 1 /\ Own

\* Which local variables are set where.
Typed ==
  /\ TypeOK
  /\ \A s \in Sessions :
       /\ pc[s] = "put" => arg[s] \in Users \X (RoomIds \cup {NoRoom})
       /\ pc[s] = "roomPut" => chRoom[s] \in Room
       /\ pc[s] \in {"roomPut", "lookup"} => chUser[s] \in Users
       /\ pc[s] \in InRoom \cup {"forget", "evict"} => target[s] \in Sessions
       /\ pc[s] \in InRoom \cup {"evict"} => room[s] \in Room
  /\ \A u \in Users : chs[u] # Nil => chUser[chs[u]] \in Users
  /\ \A w \in Routines : wpc[w] \in {"found", "walk"} => wroom[w] \in Room

OneExit == \A s, t \in Exiting : s = t

\* The decrement of OnlineCount stores one less than the count still is.
Loaded  == \A s \in Sessions : pc[s] = "decStore" => load[s] = count[room[s]]
Emptied == \A o \in Room : drop[o] => count[o] <= 0

\* The map holds a connection under its own user until the connection deletes it.
InMap    == {"read", "roomPut", "lookup", "forget"}
InList   == {"read", "lookup", "forget", "unlinkNext", "unlinkPrev"}
Deleter  == InRoom \cup {"forget", "evict"}
RegSession(s) ==
  /\ chUser[s] = Nil <=> chRoom[s] = Nil
  /\ chUser[s] # Nil => joins[s] = 1 /\ \E r \in RoomIds : <<s, chUser[s], r>> \in Request
  /\ pc[s] = "put" => joins[s] = 1 /\ chUser[s] = Nil /\ <<s, arg[s][1], arg[s][2]>> \in Request
  /\ chUser[s] # Nil /\ pc[s] \in InMap => chs[chUser[s]] = s
  /\ pc[s] \in Deleter \cup {"roomPut", "lookup"} => chUser[s] # Nil
  /\ pc[s] \in Deleter => target[s] = s /\ room[s] = chRoom[s]
RegUser(u) == chs[u] # Nil => chUser[chs[u]] = u /\ pc[chs[u]] \in InMap
Registered == (\A s \in Sessions : RegSession(s)) /\ (\A u \in Users : RegUser(u))

\* A connection is in a room's list from its Room.Put until its own deletion; one
\* that was refused has a retired room.
StampSession(s) ==
  /\ stamp[s] <= puts
  /\ stamp[s] # 0 => chRoom[s] # Nil /\ pc[s] # "roomPut"
  /\ stamp[s] = 0 => next[s] = Nil /\ prev[s] = Nil
  /\ \A t \in Sessions : stamp[s] = stamp[t] /\ stamp[s] # 0 => s = t
  /\ \A o \in Room : s \in linked[o] <=> stamp[s] # 0 /\ chRoom[s] = o /\ pc[s] \in InList
  /\ chRoom[s] # Nil /\ stamp[s] = 0 /\ pc[s] # "roomPut" => Retired(chRoom[s])
Stamped == \A s \in Sessions : StampSession(s)

\* OnlineCount is behind the list while a deletion is between the two.
Pending(o) == IF Deleting(o, {"decLoad", "decStore"}) THEN 1 ELSE 0
Counted ==
  \A o \in Room :
    /\ Retired(o) => linked[o] = {}
    /\ ~Retired(o) => count[o] = Cardinality(linked[o]) + Pending(o)

\* Next of every Channel that was ever linked, unlinked ones included (a walk may
\* stand on one), leads to the newest member older than it; Prev of a member is the
\* inverse, which a deletion half way anticipates.
Forward ==
  /\ \A o \in Room :
       /\ head[o] = Nil => linked[o] = {}
       /\ head[o] # Nil => head[o] \in linked[o]
       /\ \A x \in linked[o] : stamp[x] <= stamp[head[o]]
  /\ \A c \in Sessions : stamp[c] # 0 =>
       /\ next[c] # Nil => chRoom[next[c]] = chRoom[c] /\ 0 < stamp[next[c]] /\ stamp[next[c]] < stamp[c]
       /\ \A x \in linked[chRoom[c]] : stamp[x] < stamp[c] => next[c] # Nil /\ stamp[x] <= stamp[next[c]]
  /\ \A o \in Room : \A x \in linked[o] : next[x] \in linked[o] \cup {Nil}

Skipped(x) == \E d \in Sessions : pc[d] = "unlinkPrev" /\ stamp[d] # 0 /\ next[d] = x
Backward ==
  /\ \A o \in Room : \A x \in linked[o] : ~Skipped(x) =>
       IF prev[x] = Nil THEN head[o] = x ELSE prev[x] \in linked[o] /\ next[prev[x]] = x
  /\ \A d \in Sessions : pc[d] = "unlinkPrev" /\ next[d] # Nil => prev[next[d]] = prev[d]

\* A walk has reached every member newer than its cursor.
Walked ==
  \A w \in Routines : wpc[w] = "walk" =>
    /\ cursor[w] # Nil => stamp[cursor[w]] # 0 /\ chRoom[cursor[w]] = wroom[w]
    /\ \A x \in linked[wroom[w]] : x \in seen[w] \/ (cursor[w] # Nil /\ stamp[x] <= stamp[cursor[w]])

\* A walk has only Channels of its audience ahead of it, none of them for the second
\* time: Next never leads out of the audience, and always to an older member.
ReachedBy(w) ==
  /\ wpc[w] # "walk" => seen[w] = {}
  /\ wpc[w] = "walk" =>
       /\ seen[w] \cup linked[wroom[w]] \subseteq audience[w]
       /\ cursor[w] \in audience[w] \cup {Nil}
       /\ \A x \in audience[w] : stamp[x] # 0 /\ chRoom[x] = wroom[w] /\ next[x] \in audience[w] \cup {Nil}
       /\ cursor[w] # Nil => \A x \in seen[w] : stamp[cursor[w]] < stamp[x]
Reached == \A w \in Routines : ReachedBy(w)

IInv == /\ Typed /\ OneExit /\ Loaded /\ Emptied /\ Registered /\ Stamped /\ Counted
        /\ Forward /\ Backward /\ Walked /\ Reached
-------------------------------------------------------------------------------
(* The inductive invariant behind MembersCounted: readers may leave together, but  *)
(* every connection still keeps to its own user and joins once (Own).              *)

\* A connection that has left the list counts until its decrement is stored.
InTally == InList \cup {"decLoad", "decStore"}
Owed(o) == {s \in Sessions : stamp[s] # 0 /\ chRoom[s] = o /\ pc[s] \in InTally}

\* OnlineCount, and every value of it a deletion is about to decrement, is at least the
\* number of connections that still count, until there are none and the room retires.
Tally(o) ==
  LET loads == {s \in Sessions : pc[s] = "decStore" /\ chRoom[s] = o} IN
  IF Retired(o) THEN Owed(o) = {} /\ count[o] <= 0 /\ \A s \in loads : load[s] <= 1
  ELSE \A n \in {count[o]} \cup {load[s] : s \in loads} : n >= Cardinality(Owed(o))

Belongs(s) ==
  /\ stamp[s] # 0 => chRoom[s] # Nil /\ pc[s] # "roomPut"
  /\ \A o \in Room : s \in linked[o] <=> stamp[s] # 0 /\ chRoom[s] = o /\ pc[s] \in InList
  /\ chRoom[s] # Nil /\ stamp[s] = 0 /\ pc[s] # "roomPut" => Retired(chRoom[s])

Tallied == /\ Typed /\ Registered
           /\ (\A s \in Sessions : Belongs(s)) /\ (\A o \in Room : Tally(o))
-------------------------------------------------------------------------------
(* The promise of the rooms (Membership), and how a Bucket keeps it: a connection   *)
(* is in a room from Room.Put until the list closes over it.                        *)

At(s) == IF chRoom[s] # Nil /\ s \in linked[chRoom[s]] THEN chRoom[s] ELSE Nil

Promise == INSTANCE Membership WITH
  at       <- [s \in Sessions |-> At(s)],
  entered  <- {s \in Sessions : stamp[s] # 0},
  retired  <- {o \in Room : Retired(o)},
  walk     <- [w \in Routines |-> IF wpc[w] = "walk" THEN wroom[w] ELSE Nil],
  audience <- audience,
  reached  <- seen

\* Unlinking under the shared lock, refused Puts and rooms made anew under the same id
\* never show: every step of a gentle bucket is one step of the promise, or none.
KeepsPromise == Promise!Spec
===============================================================================
