---------------------------- MODULE PresenceProofs ----------------------------
(* What holds of Presence and Delivery for every value of the constants. *)
EXTENDS Delivery, FiniteSetTheorems, TLAPS

\* The latest call made for a connection, and the one it was made for.
Cur(s)  == <<s, calls[s]>>
Last(s) == req[Cur(s)]
Has(s)  == calls[s] > 0
For(s, u, r) == Has(s) /\ Last(s).user = u /\ Last(s).room = r

Connecting == {"set", "get", "add", "incr"}
Parting    == {"count", "decr", "del", "list", "publish"}

\* Which calls were made, and where their handlers are.
Requested ==
  \A c \in Calls :
    /\ req[c] = Nil <=> c[2] > calls[c[1]]
    /\ pc[c] # "done" => req[c] # Nil
    /\ pc[c] \in Connecting => req[c].op = "Connect"
    /\ pc[c] \in Parting => req[c].op = "DisConnect"

\* What the reader goroutine of a connection knows.
ReaderOK(s) ==
  /\ calls[s] <= joins[s] + retries[s] + 1
  /\ phase[s] \in {"read", "connect"} => calls[s] <= joins[s] + retries[s]
  /\ Has(s) <=> joins[s] > 0
  /\ chUser[s] # Nil => Has(s)
  /\ chUser[s] = Nil => chRoom[s] = Nil
  /\ phase[s] \in {"connect", "leave"} => Has(s)
  /\ phase[s] = "connect" => Last(s).op = "Connect"
  /\ phase[s] = "leave" => Last(s).op = "DisConnect" /\ Last(s).user = chUser[s]
  /\ phase[s] = "read" /\ Has(s) => chUser[s] = Last(s).user
  /\ phase[s] \in {"read", "connect"} => \A n \in 1 .. calls[s] : req[<<s, n>>].op = "Connect"

Reading == \A s \in Sessions : ReaderOK(s)

\* A connection that joins once asks for one user and one room.
Same(s) ==
  /\ \A n \in 1 .. calls[s] : req[<<s, n>>].user = Last(s).user /\ req[<<s, n>>].room = Last(s).room
  /\ chUser[s] # Nil =>
       chUser[s] = Last(s).user /\ chRoom[s] = IF Last(s).room = NoRoom THEN Nil ELSE Last(s).room
Constant == OneJoinEach => \A s \in Sessions : Has(s) => Same(s)

\* The connections that are not gone, their last handlers included.
Busy(s)   == \E c \in Running : c[1] = s
Active(s) == phase[s] \in {"connect", "read", "leave"} \/ Busy(s)
Joined(s) == phase[s] \in {"connect", "read"}
Pair(s, o) == Has(s) /\ Has(o) /\ Last(s).user = Last(o).user

\* A user whose joins never overlapped has one such connection, and one whose joins
\* never met an open connection has one that is joined.
Alone ==
  \A s, o \in Sessions : Pair(s, o) /\ overlapped[Last(s).user] = "no" /\ Active(s) /\ Active(o) => s = o
OneOpen ==
  \A s, o \in Sessions : Pair(s, o) /\ overlapped[Last(s).user] # "open" /\ Joined(s) /\ Joined(o) => s = o

\* Without failures the one handler at work for a connection is the one it waits for.
InTurn ==
  Faultless =>
    /\ \A c \in Running : Awaited(c)
    /\ \A s \in Sessions : phase[s] # "lost" /\ (phase[s] \in {"connect", "leave"} => pc[Cur(s)] # "done")

\* A joined user stays listed: his calls have found or put him there.
Settled(s) ==
  /\ \A n \in 1 .. calls[s] : pc[<<s, n>>] \in {"incr", "reply"} => Last(s).user \in roomUser[Last(s).room]
  /\ phase[s] = "read" /\ chRoom[s] # Nil => Last(s).user \in roomUser[Last(s).room]
Listing ==
  OneJoinEach =>
    \A s \in Sessions : Has(s) /\ Joined(s) /\ overlapped[Last(s).user] = "no" => Settled(s)

\* The connections that account for a listed user, and those that account for the count.
Holds(s) == \/ phase[s] = "connect" /\ pc[Cur(s)] \in {"incr", "reply"}
            \/ phase[s] = "read"
            \/ phase[s] = "leave" /\ pc[Cur(s)] \in {"count", "decr", "del"}
Counts(s) == \/ phase[s] = "connect" /\ pc[Cur(s)] = "reply"
             \/ phase[s] = "read"
             \/ phase[s] = "leave" /\ pc[Cur(s)] \in {"count", "decr"}
Counted(r) == {s \in Sessions : Has(s) /\ Last(s).room = r /\ Counts(s)}

AccountedAt(r) ==
  /\ \A u \in roomUser[r] : \E s \in Sessions : For(s, u, r) /\ Holds(s)
  /\ online[r] <= Cardinality(Counted(r))
  /\ OneAtATime => online[r] = Cardinality(Counted(r))
Accounted == Faultless /\ OneJoinEach => \A r \in RoomIds : r > 0 => AccountedAt(r)

\* A leaver is off the list before it is read.
Unlisted ==
  Faultless =>
    \A c \in Running : overlapped[req[c].user] = "no" =>
      /\ pc[c] = "list" => req[c].user \notin roomUser[req[c].room]
      /\ pc[c] = "publish" => req[c].user \notin snap[c]

Shape == TypeOK /\ Requested /\ Reading

IInv == /\ Shape /\ Constant /\ Alone /\ OneOpen
        /\ InTurn /\ Listing /\ Accounted /\ Unlisted
-------------------------------------------------------------------------------
(* Delivery. *)

\* The key and the Bucket of a joined connection.
RoutedAt(s) ==
  /\ phase[s] = "connect" /\ pc[Cur(s)] # "set" => userServer[Last(s).user] = Server[s]
  /\ phase[s] = "read" => userServer[Last(s).user] = Server[s] /\ chs[Server[s]][Last(s).user] = s
Routed ==
  Faultless /\ losses = 0 /\ OneJoinEach =>
    \A s \in Sessions : Has(s) /\ overlapped[Last(s).user] # "open" => RoutedAt(s)

\* The Channel filed under a user is one of that user, so that a leaver deletes no entry
\* but its own user's.
Filed ==
  OneJoinEach => \A k \in ServerIds, u \in Users : chs[k][u] # Nil => chUser[chs[k][u]] = u

\* What a message carries at each stage.
Carries(n) ==
  /\ stage[n] # "new" => to[n] \in Users
  /\ stage[n] \in {"look", "push"} => serverId[n] # Nil
  /\ stage[n] = "push" => channel[n] # Nil

\* The connections a message was meant for have joined.
Meant(n) ==
  /\ stage[n] = "new" => meant[n] = {}
  /\ \A s \in meant[n] : joins[s] > 0 /\ chUser[s] # Nil
  /\ OneJoinEach => \A s \in meant[n] : phase[s] # "connect" /\ chUser[s] = to[n]

\* What it has read leads to the connection that stayed.
OnCourse(n) ==
  Faultless /\ losses = 0 /\ OneJoinEach =>
    \A s \in meant[n] : phase[s] = "read" /\ overlapped[to[n]] # "open" =>
      /\ stage[n] \in {"work", "look"} => serverId[n] = Server[s]
      /\ stage[n] \in {"push", "offered"} => channel[n] = s
      /\ stage[n] # "missed"
      /\ stage[n] = "lost" => ~taskUp

DInv == /\ DeliveryTypeOK /\ Routed /\ Filed
        /\ \A n \in Messages : Carries(n) /\ Meant(n) /\ OnCourse(n)
-------------------------------------------------------------------------------
(* Calls and requests. *)

CallMax  == MaxJoin + 1 + MaxRetry
Requests == [op : {"Connect", "DisConnect"}, user : Users, room : RoomIds]
States   == {"done", "set", "get", "add", "incr", "count", "decr", "del", "list", "publish", "reply"}

LEMMA CallFacts ==
  /\ \A c \in Calls : c[1] \in Sessions /\ c[2] \in 1 .. CallMax /\ c = <<c[1], c[2]>>
  /\ \A s \in Sessions, n \in 1 .. CallMax : <<s, n>> \in Calls
  /\ CallMax \in Nat
BY PresenceAssumption DEF PresenceAssumption, Calls, CallMax

LEMMA Limited ==
  ASSUME TypeOK
  PROVE  /\ limits.request \in SUBSET (Sessions \X Users \X RoomIds)
         /\ limits.join \in 0 .. MaxJoin /\ limits.retry \in 0 .. MaxRetry
         /\ limits.crash \in Nat /\ limits.loss \in Nat
         /\ limits \in Traffic
BY PresenceAssumption DEF PresenceAssumption, TypeOK, Limits

\* The call a connection waits for.
LEMMA CurFacts ==
  ASSUME Shape, NEW s \in Sessions, Has(s)
  PROVE  /\ Cur(s) \in Calls /\ Last(s) \in Requests /\ calls[s] \in 1 .. CallMax
         /\ \A n \in 1 .. calls[s] : <<s, n>> \in Calls /\ req[<<s, n>>] \in Requests
<1>1. calls[s] \in 1 .. CallMax
  BY CallFacts DEF Shape, TypeOK, Has, CallMax
<1>2. \A n \in 1 .. calls[s] : <<s, n>> \in Calls
  BY <1>1, CallFacts
<1>3. \A n \in 1 .. calls[s] : req[<<s, n>>] \in Requests
  <2> SUFFICES ASSUME NEW n \in 1 .. calls[s] PROVE req[<<s, n>>] \in Requests
    OBVIOUS
  <2>1. ~(n > calls[s]) /\ <<s, n>>[1] = s /\ <<s, n>>[2] = n
    BY <1>1
  <2>2. req[<<s, n>>] # Nil
    BY <1>2, <2>1 DEF Shape, Requested
  <2>3. req[<<s, n>>] \in Requests \cup {Nil}
    BY <1>2 DEF Shape, TypeOK, Requests
  <2> QED
    BY <2>2, <2>3
<1> QED
  BY <1>1, <1>2, <1>3 DEF Cur, Last

\* The user and the room of a running handler.
LEMMA RunFacts ==
  ASSUME Shape, NEW c \in Calls, pc[c] # "done"
  PROVE  /\ req[c] \in Requests /\ c[2] \in 1 .. calls[c[1]] /\ Has(c[1])
         /\ req[c].user \in Users /\ req[c].room \in RoomIds
<1>1. req[c] # Nil /\ ~(c[2] > calls[c[1]])
  BY DEF Shape, Requested
<1>2. req[c] \in Requests
  BY <1>1 DEF Shape, TypeOK, Requests
<1>3. calls[c[1]] \in Nat /\ c[2] \in Nat /\ c[2] >= 1
  BY CallFacts DEF Shape, TypeOK
<1> QED
  BY <1>1, <1>2, <1>3 DEF Has, Requests

\* What a new call changes.
LEMMA Issued ==
  ASSUME Shape, NEW s \in Sessions, NEW q \in Requests, Issue(s, q), calls[s] < CallMax,
         NEW c, c = <<s, calls[s] + 1>>
  PROVE  /\ c \in Calls /\ req[c] = Nil /\ pc[c] = "done" /\ req'[c] = q
         /\ pc'[c] = IF q.op = "Connect" THEN "set" ELSE "count"
         /\ \A d \in Calls : d # c => req'[d] = req[d] /\ pc'[d] = pc[d]
         /\ calls'[s] = calls[s] + 1
         /\ \A o \in Sessions : o # s => calls'[o] = calls[o]
         /\ calls' \in [Sessions -> 0 .. CallMax]
         /\ req' \in [Calls -> Requests \cup {Nil}]
         /\ pc' \in [Calls -> States]
<1>1. calls \in [Sessions -> 0 .. CallMax] /\ req \in [Calls -> Requests \cup {Nil}] /\ pc \in [Calls -> States]
  BY DEF Shape, TypeOK, CallMax, Requests, States
<1>2. calls[s] \in Nat /\ calls[s] + 1 \in 1 .. CallMax
  BY <1>1, CallFacts
<1>3. c \in Calls /\ c[1] = s /\ c[2] = calls[s] + 1
  BY <1>2, CallFacts
<1>4. req[c] = Nil
  BY <1>2, <1>3 DEF Shape, Requested
<1>5. pc[c] = "done"
  BY <1>3, <1>4 DEF Shape, Requested
<1>6. /\ calls' = [calls EXCEPT ![s] = @ + 1]
      /\ req' = [req EXCEPT ![c] = q]
      /\ pc' = [pc EXCEPT ![c] = IF q.op = "Connect" THEN "set" ELSE "count"]
  BY DEF Issue, Goto
<1>7. calls' \in [Sessions -> 0 .. CallMax]
  BY <1>1, <1>2, <1>6
<1>8. req' \in [Calls -> Requests \cup {Nil}]
  BY <1>1, <1>3, <1>6
<1>9. pc' \in [Calls -> States]
  BY <1>1, <1>3, <1>6 DEF States
<1> QED
  BY <1>1, <1>3, <1>4, <1>5, <1>6, <1>7, <1>8, <1>9

\* What a Redis command of a handler leaves alone.
LEMMA Commanded ==
  ASSUME Shape, NEW c \in Calls, Command(c)
  PROVE  /\ pc[c] # "done" /\ pc' = [pc EXCEPT ![c] = pc'[c]]
         /\ pc[c] \in Connecting => pc'[c] \in Connecting \cup {"reply"}
         /\ pc[c] \in Parting => pc'[c] \in Parting \cup {"reply"}
         /\ pc[c] \in Connecting \cup Parting
         /\ UNCHANGED <<connVars, req, boundVars, overlapped>>
<1>1. pc \in [Calls -> States]
  BY DEF Shape, TypeOK, States
<1>2. ConnSet(c) \/ ConnGet(c) => pc[c] \in Connecting /\ pc'[c] \in Connecting \cup {"reply"}
  BY <1>1 DEF ConnSet, ConnGet, Goto, Connecting
<1>3. ConnAdd(c) \/ ConnIncr(c) => pc[c] \in Connecting /\ pc'[c] \in Connecting \cup {"reply"}
  BY <1>1 DEF ConnAdd, ConnIncr, Goto, Connecting
<1>4. DisCount(c) \/ DisDecr(c) \/ DisDel(c) => pc[c] \in Parting /\ pc'[c] \in Parting \cup {"reply"}
  BY <1>1 DEF DisCount, DisDecr, DisDel, Goto, Parting
<1>5. DisList(c) \/ DisPublish(c) => pc[c] \in Parting /\ pc'[c] \in Parting \cup {"reply"}
  BY <1>1 DEF DisList, DisPublish, Goto, Parting
<1>6. pc[c] \in Connecting => pc[c] \notin Parting
  BY DEF Connecting, Parting
<1>7. pc' = [pc EXCEPT ![c] = pc'[c]]
  BY <1>1 DEF Command, ConnSet, ConnGet, ConnAdd, ConnIncr, DisCount, DisDecr, DisDel, DisList, DisPublish, Goto
<1>8. UNCHANGED <<connVars, req, boundVars, overlapped>>
  BY DEF Command, ConnSet, ConnGet, ConnAdd, ConnIncr, DisCount, DisDecr, DisDel, DisList, DisPublish
<1> QED
  BY <1>2, <1>3, <1>4, <1>5, <1>6, <1>7, <1>8 DEF Command, Connecting, Parting
\* The arguments and the room for one more call.
LEMMA Asks ==
  ASSUME Shape, NEW s \in Sessions
  PROVE  /\ \A u \in Users, r \in RoomIds : Join(s, u, r) =>
              calls[s] < CallMax /\ [op |-> "Connect", user |-> u, room |-> r] \in Requests
         /\ Quit(s) /\ chRoom[s] # Nil =>
              calls[s] < CallMax /\ [op |-> "DisConnect", user |-> chUser[s], room |-> chRoom[s]] \in Requests
         /\ Retry(s) => calls[s] < CallMax /\ Last(s) \in Requests
<1>1. /\ calls[s] \in Nat /\ joins[s] \in 0 .. limits.join /\ retries[s] \in 0 .. limits.retry
      /\ limits.join \in 0 .. MaxJoin /\ limits.retry \in 0 .. MaxRetry
      /\ MaxJoin \in Nat /\ MaxRetry \in Nat
  BY Limited, PresenceAssumption DEF Shape, TypeOK, PresenceAssumption
<1>2. ReaderOK(s)
  BY DEF Shape, Reading
<1>3. \A u \in Users, r \in RoomIds : Join(s, u, r) => calls[s] < CallMax
  BY <1>1, <1>2 DEF Join, ReaderOK, CallMax
<1>4. Quit(s) => calls[s] < CallMax
  BY <1>1, <1>2 DEF Quit, ReaderOK, CallMax
<1>5. Quit(s) /\ chRoom[s] # Nil => chUser[s] \in Users /\ chRoom[s] \in RoomIds
  <2>1. chUser[s] \in Users \cup {Nil} /\ chRoom[s] \in RoomIds \cup {Nil}
    BY DEF Shape, TypeOK
  <2> QED
    BY <2>1, <1>2 DEF ReaderOK
<1>6. Retry(s) => calls[s] < CallMax
  BY <1>1, <1>2 DEF Retry, ReaderOK, CallMax
<1>7. Retry(s) => Last(s) \in Requests
  BY <1>2, CurFacts DEF Retry, ReaderOK
<1> QED
  BY <1>3, <1>4, <1>5, <1>6, <1>7 DEF Requests

LEMMA TypeStep ==
  ASSUME Shape, [Next]_vars
  PROVE  TypeOK'
<1> USE DEF boundVars, connVars, chanVars, redisVars, callVars
<1>0. TypeOK /\ limits \in Traffic
  BY DEF Shape, TypeOK
<1>t. /\ calls \in [Sessions -> 0 .. CallMax] /\ req \in [Calls -> Requests \cup {Nil}] /\ pc \in [Calls -> States]
  BY <1>0 DEF TypeOK, CallMax, Requests, States
<1>1. ASSUME NEW s \in Sessions, NEW u \in Users, NEW r \in RoomIds, Join(s, u, r)
      PROVE  TypeOK'
  <2>1. /\ calls' \in [Sessions -> 0 .. CallMax] /\ req' \in [Calls -> Requests \cup {Nil}]
        /\ pc' \in [Calls -> States]
    BY <1>1, Asks, Issued DEF Join
  <2>2. joins' \in [Sessions -> 0 .. limits.join]
    BY <1>0, <1>1, Limited DEF Join, TypeOK
  <2>3. overlapped' \in [Users -> {"no", "leaving", "open"}]
    BY <1>0, <1>1 DEF Join, Overlap, TypeOK
  <2> QED
    BY <1>0, <1>1, <2>1, <2>2, <2>3 DEF Join, TypeOK, CallMax, Requests, States
<1>2. ASSUME NEW s \in Sessions, Quit(s)
      PROVE  TypeOK'
  <2>1. CASE chRoom[s] = Nil
    BY <1>0, <1>2, <2>1 DEF Quit, TypeOK
  <2>2. CASE chRoom[s] # Nil
    <3>1. /\ calls' \in [Sessions -> 0 .. CallMax] /\ req' \in [Calls -> Requests \cup {Nil}]
          /\ pc' \in [Calls -> States]
      BY <1>2, <2>2, Asks, Issued DEF Quit
    <3> QED
      BY <1>0, <1>2, <2>2, <3>1 DEF Quit, TypeOK, CallMax, Requests, States
  <2> QED
    BY <2>1, <2>2
<1>3. ASSUME NEW s \in Sessions, Retry(s)
      PROVE  TypeOK'
  <2>1. /\ calls' \in [Sessions -> 0 .. CallMax] /\ req' \in [Calls -> Requests \cup {Nil}]
        /\ pc' \in [Calls -> States]
    BY <1>3, Asks, Issued DEF Retry, Last, Cur
  <2>2. retries' \in [Sessions -> 0 .. limits.retry]
    BY <1>0, <1>3, Limited DEF Retry, TypeOK
  <2> QED
    BY <1>0, <1>3, <2>1, <2>2 DEF Retry, TypeOK, CallMax, Requests, States
<1>4. ASSUME NEW c \in Calls, Command(c)
      PROVE  TypeOK'
  <2>1. req[c].user \in Users /\ req[c].room \in RoomIds /\ c[1] \in Sessions
    BY <1>4, Commanded, RunFacts, CallFacts
  <2>2. pc' \in [Calls -> States]
    BY <1>t, <1>4, Commanded DEF Connecting, Parting, States
  <2>3. UNCHANGED <<connVars, req, boundVars, overlapped>>
    BY <1>4, Commanded
  <2>4. /\ userServer' \in [Users -> {Server[s] : s \in Sessions} \cup {Nil}]
        /\ roomUser' \in [RoomIds -> SUBSET Users] /\ online' \in [RoomIds -> Int]
        /\ told' \in [RoomIds -> (SUBSET Users) \cup {Nil}] /\ snap' \in [Calls -> SUBSET Users]
    <3>1. CASE ConnSet(c)
      BY <1>0, <2>1, <3>1 DEF ConnSet, Located, TypeOK
    <3>2. CASE ConnGet(c) \/ DisCount(c)
      BY <1>0, <3>2 DEF ConnGet, DisCount, TypeOK
    <3>3. CASE ConnAdd(c) \/ DisDel(c)
      <4>1. roomUser[req[c].room] \cup {req[c].user} \in SUBSET Users /\ Removed(c) \in SUBSET Users
        BY <1>0, <2>1 DEF TypeOK, Removed
      <4> QED
        BY <1>0, <2>1, <3>3, <4>1 DEF ConnAdd, DisDel, TypeOK
    <3>4. CASE ConnIncr(c) \/ DisDecr(c)
      BY <1>0, <2>1, <3>4 DEF ConnIncr, DisDecr, TypeOK
    <3>5. CASE DisList(c) \/ DisPublish(c)
      BY <1>0, <2>1, <3>5 DEF DisList, DisPublish, TypeOK
    <3> QED
      BY <1>4, <3>1, <3>2, <3>3, <3>4, <3>5 DEF Command
  <2> QED
    BY <1>0, <2>2, <2>3, <2>4 DEF TypeOK, States
<1>5. ASSUME NEW c \in Calls, Reply(c)
      PROVE  TypeOK'
  <2>1. req[c].user \in Users /\ req[c].room \in RoomIds /\ c[1] \in Sessions
    BY <1>5, RunFacts, CallFacts DEF Reply
  <2>2. JoinedRoom(c) \in (RoomIds \ {NoRoom}) \cup {Nil}
    BY <1>0, <2>1 DEF JoinedRoom, TypeOK
  <2>3. pc' \in [Calls -> States]
    BY <1>t, <1>5 DEF Reply, Goto, States
  <2>4. /\ phase' \in [Sessions -> {"read", "connect", "leave", "closed", "lost"}]
        /\ chUser' \in [Sessions -> Users \cup {Nil}]
        /\ chRoom' \in [Sessions -> (RoomIds \ {NoRoom}) \cup {Nil}]
    BY <1>0, <1>5, <2>1, <2>2 DEF Reply, TypeOK
  <2> QED
    BY <1>0, <1>5, <2>3, <2>4 DEF Reply, TypeOK, States
<1>6. ASSUME Failure
      PROVE  TypeOK'
  <2>1. CASE \E s \in Sessions : Crash(Server[s])
    BY <1>0, <2>1, Limited DEF Crash, TypeOK
  <2>2. CASE LogicCrash
    BY <1>0, <2>2, Limited DEF LogicCrash, TypeOK
  <2>3. CASE \E u \in Users : LoseKey(u)
    BY <1>0, <2>3, Limited DEF LoseKey, TypeOK
  <2> QED
    BY <1>6, <2>1, <2>2, <2>3 DEF Failure
<1>7. CASE UNCHANGED vars
  BY <1>0, <1>7 DEF TypeOK, vars
<1> QED
  BY <1>1, <1>2, <1>3, <1>4, <1>5, <1>6, <1>7 DEF Next, Reader, Handler, Command
\* The steps of a behaviour, the ones that change no call together.
LEMMA Steps ==
  ASSUME [Next]_vars
  PROVE  \/ \E s \in Sessions, u \in Users, r \in RoomIds : Join(s, u, r)
         \/ \E s \in Sessions : Quit(s)
         \/ \E s \in Sessions : Retry(s)
         \/ \E c \in Calls : Command(c)
         \/ \E c \in Calls : Reply(c)
         \/ \E s \in Sessions : Crash(Server[s])
         \/ LogicCrash
         \/ \E u \in Users : LoseKey(u)
         \/ UNCHANGED vars
BY DEF Next, Reader, Handler, Command, Failure

LEMMA RequestedStep ==
  ASSUME Shape, [Next]_vars
  PROVE  Requested'
<1> USE DEF boundVars, connVars, chanVars, redisVars, callVars
<1>0. /\ \A c \in Calls : /\ req[c] = Nil <=> c[2] > calls[c[1]]
                          /\ pc[c] # "done" => req[c] # Nil
                          /\ pc[c] \in Connecting => req[c].op = "Connect"
                          /\ pc[c] \in Parting => req[c].op = "DisConnect"
      /\ calls \in [Sessions -> 0 .. CallMax]
      /\ pc \in [Calls -> States] /\ Nil \notin Requests
  <2>1. Nil \notin Requests
    BY PresenceAssumption DEF PresenceAssumption, Requests
  <2> QED
    BY <2>1 DEF Shape, Requested, TypeOK, CallMax, States
<1>i. ASSUME NEW s \in Sessions, NEW q \in Requests, Issue(s, q), calls[s] < CallMax
      PROVE  Requested'
  <2> DEFINE d == <<s, calls[s] + 1>>
  <2>1. /\ d \in Calls /\ req[d] = Nil /\ pc[d] = "done" /\ req'[d] = q
        /\ pc'[d] = IF q.op = "Connect" THEN "set" ELSE "count"
        /\ \A c \in Calls : c # d => req'[c] = req[c] /\ pc'[c] = pc[c]
        /\ calls'[s] = calls[s] + 1
        /\ \A o \in Sessions : o # s => calls'[o] = calls[o]
    BY <1>i, Issued
  <2>2. SUFFICES ASSUME NEW c \in Calls
                 PROVE  /\ req'[c] = Nil <=> c[2] > calls'[c[1]]
                        /\ pc'[c] # "done" => req'[c] # Nil
                        /\ pc'[c] \in Connecting => req'[c].op = "Connect"
                        /\ pc'[c] \in Parting => req'[c].op = "DisConnect"
    BY DEF Requested
  <2>3. CASE c = d
    <3>1. ~(c[2] > calls'[c[1]])
      BY <1>0, <2>1, <2>3
    <3>2. q.op \in {"Connect", "DisConnect"}
      BY DEF Requests
    <3> QED
      BY <1>0, <2>1, <2>3, <3>1, <3>2 DEF Connecting, Parting
  <2>4. CASE c # d
    <3>1. c[1] \in Sessions /\ c[2] \in 1 .. CallMax /\ c = <<c[1], c[2]>> /\ CallMax \in Nat
      BY CallFacts
    <3>2. c[2] > calls'[c[1]] <=> c[2] > calls[c[1]]
      <4>1. CASE c[1] = s
        <5>1. c[2] # calls[s] + 1
          BY <2>4, <3>1, <4>1
        <5>2. c[2] \in Nat /\ calls[s] \in Nat
          BY <1>0, <3>1
        <5> QED
          BY <2>1, <4>1, <5>1, <5>2
      <4>2. CASE c[1] # s
        BY <2>1, <3>1, <4>2
      <4> QED
        BY <4>1, <4>2
    <3> QED
      BY <1>0, <2>1, <2>4, <3>2
  <2> QED
    BY <2>3, <2>4
<1>1. ASSUME NEW s \in Sessions, NEW u \in Users, NEW r \in RoomIds, Join(s, u, r)
      PROVE  Requested'
  BY <1>1, <1>i, Asks DEF Join
<1>2. ASSUME NEW s \in Sessions, Quit(s)
      PROVE  Requested'
  <2>1. CASE chRoom[s] = Nil
    BY <1>0, <1>2, <2>1 DEF Quit, Requested
  <2>2. CASE chRoom[s] # Nil
    BY <1>2, <1>i, <2>2, Asks DEF Quit
  <2> QED
    BY <2>1, <2>2
<1>3. ASSUME NEW s \in Sessions, Retry(s)
      PROVE  Requested'
  BY <1>3, <1>i, Asks DEF Retry, Last, Cur
<1>4. ASSUME NEW c \in Calls, Command(c)
      PROVE  Requested'
  BY <1>0, <1>4, Commanded DEF Requested, Connecting, Parting
<1>5. ASSUME NEW c \in Calls, Reply(c)
      PROVE  Requested'
  BY <1>0, <1>5 DEF Reply, Goto, Requested, Connecting, Parting
<1>6. CASE Failure
  BY <1>0, <1>6 DEF Failure, Crash, LogicCrash, LoseKey, Requested, Connecting, Parting
<1>7. CASE UNCHANGED vars
  BY <1>0, <1>7 DEF Requested, vars
<1> QED
  BY <1>1, <1>2, <1>3, <1>4, <1>5, <1>6, <1>7, Steps DEF Failure

\* The reader of a connection that takes no step.
LEMMA ReaderKept ==
  ASSUME NEW s, ReaderOK(s), calls[s] \in Nat,
         calls'[s] = calls[s], joins'[s] = joins[s], retries'[s] = retries[s], phase'[s] = phase[s],
         chUser'[s] = chUser[s], chRoom'[s] = chRoom[s],
         \A n \in 1 .. calls[s] : req'[<<s, n>>] = req[<<s, n>>]
  PROVE  ReaderOK(s)'
<1>1. Has(s)' <=> Has(s)
  BY DEF Has
<1>2. Has(s) => calls[s] \in 1 .. calls[s]
  BY DEF Has
<1>3. Has(s) => Last(s)' = Last(s)
  BY <1>2 DEF Last, Cur
<1> QED
  BY <1>1, <1>3 DEF ReaderOK

LEMMA ReadingStep ==
  ASSUME Shape, [Next]_vars
  PROVE  Reading'
<1> USE DEF boundVars, connVars, chanVars, redisVars, callVars
<1>0. /\ \A s \in Sessions : ReaderOK(s) /\ calls[s] \in Nat /\ joins[s] \in Nat /\ retries[s] \in Nat
      /\ calls \in [Sessions -> 0 .. CallMax]
      /\ phase \in [Sessions -> {"read", "connect", "leave", "closed", "lost"}]
      /\ Nil \notin Users /\ Nil \notin RoomIds
      /\ joins \in [Sessions -> Nat] /\ retries \in [Sessions -> Nat]
      /\ chUser \in [Sessions -> Users \cup {Nil}] /\ chRoom \in [Sessions -> RoomIds \cup {Nil}]
  BY PresenceAssumption, CallFacts, Limited DEF Shape, Reading, TypeOK, PresenceAssumption, CallMax
<1>u. ASSUME UNCHANGED <<calls, joins, retries, chUser, chRoom, req>>,
             \A s \in Sessions : phase'[s] = phase[s] \/ phase'[s] \notin {"read", "connect", "leave"}
      PROVE  Reading'
  BY <1>0, <1>u DEF Reading, ReaderOK, Has, Last, Cur
<1>i. ASSUME NEW s \in Sessions, NEW q \in Requests, Issue(s, q), calls[s] < CallMax
      PROVE  /\ \A o \in Sessions \ {s} : calls'[o] = calls[o] /\ \A n \in 1 .. calls[o] : req'[<<o, n>>] = req[<<o, n>>]
             /\ calls'[s] = calls[s] + 1 /\ Has(s)' /\ Last(s)' = q
             /\ \A n \in 1 .. calls[s] : req'[<<s, n>>] = req[<<s, n>>]
  <2> DEFINE d == <<s, calls[s] + 1>>
  <2>1. /\ d \in Calls /\ req'[d] = q
        /\ \A c \in Calls : c # d => req'[c] = req[c] /\ pc'[c] = pc[c]
        /\ calls'[s] = calls[s] + 1
        /\ \A o \in Sessions : o # s => calls'[o] = calls[o]
    BY <1>i, Issued
  <2>2. \A o \in Sessions, n \in 1 .. CallMax : <<o, n>> \in Calls
    BY CallFacts
  <2>3. \A o \in Sessions : calls[o] \in 0 .. CallMax /\ \A n \in 1 .. calls[o] : n \in 1 .. CallMax
    BY <1>0, CallFacts
  <2>4. \A n \in 1 .. calls[s] : <<s, n>> # d
    BY <1>0
  <2> QED
    BY <1>0, <2>1, <2>2, <2>3, <2>4 DEF Has, Last, Cur
<1>1. ASSUME NEW s \in Sessions, NEW u \in Users, NEW r \in RoomIds, Join(s, u, r)
      PROVE  Reading'
  <2> DEFINE q == [op |-> "Connect", user |-> u, room |-> r]
  <2>1. /\ \A o \in Sessions \ {s} : calls'[o] = calls[o] /\ \A n \in 1 .. calls[o] : req'[<<o, n>>] = req[<<o, n>>]
        /\ calls'[s] = calls[s] + 1 /\ Has(s)' /\ Last(s)' = q
        /\ \A n \in 1 .. calls[s] : req'[<<s, n>>] = req[<<s, n>>]
    BY <1>1, <1>i, Asks DEF Join
  <2>2. /\ \A o \in Sessions \ {s} : joins'[o] = joins[o] /\ phase'[o] = phase[o]
        /\ joins'[s] = joins[s] + 1 /\ phase[s] = "read" /\ phase'[s] = "connect" /\ UNCHANGED <<retries, chUser, chRoom>>
    BY <1>0, <1>1 DEF Join
  <2>3. \A o \in Sessions \ {s} : ReaderOK(o)'
    BY <1>0, <2>1, <2>2, ReaderKept
  <2>4. ReaderOK(s)'
    <3>1. q.op = "Connect" /\ req'[<<s, calls'[s]>>] = q
      BY <2>1 DEF Last, Cur
    <3>2. \A n \in 1 .. calls'[s] : n \in 1 .. calls[s] \/ n = calls'[s]
      BY <1>0, <2>1
    <3>3. \A n \in 1 .. calls'[s] : req'[<<s, n>>].op = "Connect"
      BY <1>0, <2>1, <2>2, <3>1, <3>2 DEF ReaderOK
    <3>4. joins'[s] > 0 /\ calls'[s] <= joins'[s] + retries'[s]
      BY <1>0, <2>1, <2>2 DEF ReaderOK
    <3> QED
      BY <1>0, <2>1, <2>2, <3>1, <3>3, <3>4 DEF ReaderOK
  <2> QED
    BY <2>3, <2>4 DEF Reading
<1>2. ASSUME NEW s \in Sessions, Quit(s)
      PROVE  Reading'
  <2>1. CASE chRoom[s] = Nil
    BY <1>0, <1>2, <1>u, <2>1 DEF Quit
  <2>2. CASE chRoom[s] # Nil
    <3> DEFINE q == [op |-> "DisConnect", user |-> chUser[s], room |-> chRoom[s]]
    <3>1. /\ \A o \in Sessions \ {s} : calls'[o] = calls[o] /\ \A n \in 1 .. calls[o] : req'[<<o, n>>] = req[<<o, n>>]
          /\ calls'[s] = calls[s] + 1 /\ Has(s)' /\ Last(s)' = q
      BY <1>2, <1>i, <2>2, Asks DEF Quit
    <3>2. /\ \A o \in Sessions \ {s} : phase'[o] = phase[o]
          /\ phase[s] = "read" /\ phase'[s] = "leave" /\ UNCHANGED <<joins, retries, chUser, chRoom>>
      BY <1>0, <1>2, <2>2 DEF Quit
    <3>3. \A o \in Sessions \ {s} : ReaderOK(o)'
      BY <1>0, <3>1, <3>2, ReaderKept
    <3>4. ReaderOK(s)'
      <4>1. q.op = "DisConnect" /\ q.user = chUser[s]
        OBVIOUS
      <4>2. calls'[s] <= joins'[s] + retries'[s] + 1 /\ joins'[s] > 0
        BY <1>0, <2>2, <3>1, <3>2 DEF ReaderOK
      <4> QED
        BY <1>0, <2>2, <3>1, <3>2, <4>1, <4>2 DEF ReaderOK
    <3> QED
      BY <3>3, <3>4 DEF Reading
  <2> QED
    BY <2>1, <2>2
<1>3. ASSUME NEW s \in Sessions, Retry(s)
      PROVE  Reading'
  <2> DEFINE q == Last(s)
  <2>1. /\ \A o \in Sessions \ {s} : calls'[o] = calls[o] /\ \A n \in 1 .. calls[o] : req'[<<o, n>>] = req[<<o, n>>]
        /\ calls'[s] = calls[s] + 1 /\ Has(s)' /\ Last(s)' = q
        /\ \A n \in 1 .. calls[s] : req'[<<s, n>>] = req[<<s, n>>]
    BY <1>3, <1>i, Asks DEF Retry, Last, Cur
  <2>2. /\ \A o \in Sessions \ {s} : retries'[o] = retries[o]
        /\ retries'[s] = retries[s] + 1 /\ phase[s] \in {"connect", "leave"} /\ UNCHANGED <<phase, joins, chUser, chRoom>>
    BY <1>0, <1>3 DEF Retry
  <2>3. \A o \in Sessions \ {s} : ReaderOK(o)'
    BY <1>0, <2>1, <2>2, ReaderKept
  <2>4. ReaderOK(s)'
    <3>1. req'[<<s, calls'[s]>>] = q /\ Has(s)
      BY <1>0, <2>1, <2>2 DEF Last, Cur, ReaderOK
    <3>2. \A n \in 1 .. calls'[s] : n \in 1 .. calls[s] \/ n = calls'[s]
      BY <1>0, <2>1
    <3>3. phase[s] = "connect" => \A n \in 1 .. calls'[s] : req'[<<s, n>>].op = "Connect"
      BY <1>0, <2>1, <2>2, <3>1, <3>2 DEF ReaderOK
    <3>4. /\ calls'[s] <= joins'[s] + retries'[s] + 1
          /\ phase'[s] = "connect" => calls'[s] <= joins'[s] + retries'[s]
      BY <1>0, <2>1, <2>2 DEF ReaderOK
    <3> QED
      BY <1>0, <2>1, <2>2, <3>1, <3>3, <3>4 DEF ReaderOK
  <2> QED
    BY <2>3, <2>4 DEF Reading
<1>4. ASSUME NEW c \in Calls, Command(c)
      PROVE  Reading'
  BY <1>4, <1>u, Commanded
<1>5. ASSUME NEW c \in Calls, Reply(c)
      PROVE  Reading'
  <2> DEFINE s == c[1]
  <2>1. CASE phase' = phase /\ UNCHANGED chanVars
    BY <1>5, <1>u, <2>1 DEF Reply
  <2>2. CASE phase[s] = "leave"
    BY <1>0, <1>5, <1>u, <2>2 DEF Reply
  <2>3. CASE phase[s] = "connect" /\ Awaited(c)
    <3>0. s \in Sessions /\ c = Cur(s)
      BY <1>5, <2>3, CallFacts DEF Awaited, Cur
    <3>1. /\ s \in Sessions /\ c = Cur(s) /\ req[c] = Last(s) /\ req[c].user \in Users
      <4>1. req[c].user \in Users
        BY <1>5, RunFacts DEF Reply
      <4> QED
        BY <3>0, <4>1 DEF Last
    <3>2. /\ \A o \in Sessions \ {s} : phase'[o] = phase[o] /\ chUser'[o] = chUser[o] /\ chRoom'[o] = chRoom[o]
          /\ phase'[s] = "read" /\ chUser'[s] = Last(s).user
          /\ UNCHANGED <<calls, joins, retries, req>>
      BY <1>0, <1>5, <2>3, <3>1 DEF Reply
    <3>3. \A o \in Sessions \ {s} : ReaderOK(o)'
      BY <1>0, <3>2, ReaderKept
    <3>4. ReaderOK(s)'
      BY <1>0, <2>3, <3>1, <3>2 DEF ReaderOK, Has, Last, Cur
    <3> QED
      BY <3>3, <3>4 DEF Reading
  <2> QED
    BY <1>5, <2>1, <2>2, <2>3 DEF Reply, Awaited
<1>6. CASE Failure
  BY <1>0, <1>6, <1>u DEF Failure, Crash, LogicCrash, LoseKey
<1>7. CASE UNCHANGED vars
  BY <1>0, <1>7, <1>u DEF vars
<1> QED
  BY <1>1, <1>2, <1>3, <1>4, <1>5, <1>6, <1>7, Steps DEF Failure
\* The latest calls before and after a new one.
LEMMA Latest ==
  ASSUME Shape, NEW s \in Sessions, NEW q \in Requests, Issue(s, q), calls[s] < CallMax
  PROVE  /\ \A o \in Sessions \ {s} :
              /\ calls'[o] = calls[o] /\ (Has(o)' <=> Has(o)) /\ Cur(o)' = Cur(o)
              /\ Has(o) => Last(o)' = Last(o) /\ pc'[Cur(o)] = pc[Cur(o)]
         /\ \A o \in Sessions, n \in 1 .. CallMax :
              n <= calls[o] => req'[<<o, n>>] = req[<<o, n>>] /\ pc'[<<o, n>>] = pc[<<o, n>>]
         /\ calls'[s] = calls[s] + 1 /\ calls[s] \in 0 .. CallMax
         /\ Has(s)' /\ Cur(s)' = <<s, calls[s] + 1>> /\ Last(s)' = q
         /\ Cur(s)' \in Calls /\ req[Cur(s)'] = Nil /\ pc[Cur(s)'] = "done"
         /\ pc'[Cur(s)'] = IF q.op = "Connect" THEN "set" ELSE "count"
         /\ \A c \in Calls : c # Cur(s)' => req'[c] = req[c] /\ pc'[c] = pc[c]
<1> DEFINE d == <<s, calls[s] + 1>>
<1>1. /\ d \in Calls /\ req'[d] = q /\ req[d] = Nil /\ pc[d] = "done"
      /\ pc'[d] = IF q.op = "Connect" THEN "set" ELSE "count"
      /\ \A c \in Calls : c # d => req'[c] = req[c] /\ pc'[c] = pc[c]
      /\ calls'[s] = calls[s] + 1
      /\ \A o \in Sessions : o # s => calls'[o] = calls[o]
  BY Issued
<1>2. calls \in [Sessions -> 0 .. CallMax]
  BY DEF Shape, TypeOK, CallMax
<1>3. \A o \in Sessions, n \in 1 .. CallMax : n <= calls[o] => <<o, n>> \in Calls /\ <<o, n>> # d
  BY <1>2, CallFacts
<1>4. \A o \in Sessions : Has(o) => calls[o] \in 1 .. CallMax
  BY <1>2, CallFacts DEF Has
<1>5. \A o \in Sessions, n \in 1 .. CallMax :
        n <= calls[o] => req'[<<o, n>>] = req[<<o, n>>] /\ pc'[<<o, n>>] = pc[<<o, n>>]
  BY <1>1, <1>3
<1>6. ASSUME NEW o \in Sessions \ {s}
      PROVE  /\ calls'[o] = calls[o] /\ (Has(o)' <=> Has(o)) /\ Cur(o)' = Cur(o)
             /\ Has(o) => Last(o)' = Last(o) /\ pc'[Cur(o)] = pc[Cur(o)]
  <2>1. calls'[o] = calls[o]
    BY <1>1
  <2>2. Has(o) => calls[o] \in 1 .. CallMax /\ calls[o] <= calls[o]
    BY <1>2, <1>4, CallFacts
  <2>3. Has(o) => req'[<<o, calls[o]>>] = req[<<o, calls[o]>>] /\ pc'[<<o, calls[o]>>] = pc[<<o, calls[o]>>]
    BY <1>5, <2>2
  <2> QED
    BY <2>1, <2>3 DEF Has, Cur, Last
<1>7. Has(s)' /\ Cur(s)' = d /\ Last(s)' = q
  BY <1>1, <1>2, CallFacts DEF Has, Cur, Last
<1> QED
  BY <1>1, <1>2, <1>5, <1>6, <1>7
-------------------------------------------------------------------------------
(* One user and room to a connection. *)

LEMMA ConstantStep ==
  ASSUME Shape, Constant, [Next]_vars
  PROVE  Constant'
<1> USE DEF boundVars, connVars, chanVars, redisVars, callVars
<1>0. /\ \A s \in Sessions : ReaderOK(s) /\ calls[s] \in Nat /\ joins[s] \in Nat
      /\ calls \in [Sessions -> 0 .. CallMax] /\ joins \in [Sessions -> Nat]
      /\ chUser \in [Sessions -> Users \cup {Nil}] /\ chRoom \in [Sessions -> RoomIds \cup {Nil}]
      /\ \A s \in Sessions : chRoom[s] # NoRoom \/ chRoom[s] = Nil
      /\ Nil \notin Users
  BY PresenceAssumption, CallFacts, Limited DEF Shape, Reading, TypeOK, PresenceAssumption, CallMax
<1> SUFFICES ASSUME OneJoinEach' PROVE \A s \in Sessions : Has(s)' => Same(s)'
  BY DEF Constant
<1>o. OneJoinEach
  <2>1. joins' = joins \/ \E s \in Sessions : joins' = [joins EXCEPT ![s] = @ + 1]
    BY Steps, Commanded DEF Join, Quit, Retry, Reply, Crash, LogicCrash, LoseKey, vars
  <2> QED
    BY <1>0, <2>1 DEF OneJoinEach
<1>s. \A s \in Sessions : Has(s) => Same(s)
  BY <1>o DEF Constant
<1>u. ASSUME UNCHANGED <<calls, chUser, chRoom, req>>
      PROVE  \A s \in Sessions : Has(s)' => Same(s)'
  BY <1>s, <1>u DEF Same, Has, Last, Cur
<1>i. ASSUME NEW s \in Sessions, NEW q \in Requests, Issue(s, q), calls[s] < CallMax, UNCHANGED chanVars,
             Has(s) => q.user = Last(s).user /\ q.room = Last(s).room
      PROVE  \A o \in Sessions : Has(o)' => Same(o)'
  <2>1. /\ \A o \in Sessions \ {s} :
             /\ calls'[o] = calls[o] /\ (Has(o)' <=> Has(o))
             /\ Has(o) => Last(o)' = Last(o)
        /\ \A o \in Sessions, n \in 1 .. CallMax : n <= calls[o] => req'[<<o, n>>] = req[<<o, n>>]
        /\ calls'[s] = calls[s] + 1 /\ Has(s)' /\ Cur(s)' = <<s, calls[s] + 1>> /\ Last(s)' = q
    BY <1>i, Latest
  <2>2. \A o \in Sessions : \A n \in 1 .. calls[o] : n \in 1 .. CallMax /\ n <= calls[o]
    BY <1>0, CallFacts
  <2>3. \A o \in Sessions : \A n \in 1 .. calls[o] : req'[<<o, n>>] = req[<<o, n>>]
    BY <2>1, <2>2
  <2>4. ASSUME NEW o \in Sessions \ {s}, Has(o)'
        PROVE  Same(o)'
    BY <1>s, <1>i, <2>1, <2>3, <2>4 DEF Same
  <2>5. Same(s)'
    <3>1. \A n \in 1 .. calls'[s] : n \in 1 .. calls[s] \/ n = calls[s] + 1
      BY <1>0, <2>1
    <3>2. \A n \in 1 .. calls[s] : Has(s)
      BY <1>0 DEF Has
    <3>3. req'[<<s, calls[s] + 1>>] = q
      BY <2>1 DEF Last, Cur
    <3>4. \A n \in 1 .. calls'[s] : req'[<<s, n>>].user = q.user /\ req'[<<s, n>>].room = q.room
      <4> TAKE n \in 1 .. calls'[s]
      <4>1. CASE n \in 1 .. calls[s]
        BY <1>i, <1>s, <2>3, <3>2, <4>1 DEF Same
      <4>2. CASE n = calls[s] + 1
        BY <3>3, <4>2
      <4> QED
        BY <3>1, <4>1, <4>2
    <3>5. chUser[s] # Nil => chUser[s] = q.user /\ chRoom[s] = IF q.room = NoRoom THEN Nil ELSE q.room
      BY <1>0, <1>i, <1>s DEF Same, ReaderOK
    <3> QED
      BY <1>i, <2>1, <3>4, <3>5 DEF Same
  <2> QED
    BY <2>4, <2>5
<1>1. ASSUME NEW s \in Sessions, NEW u \in Users, NEW r \in RoomIds, Join(s, u, r)
      PROVE  \A o \in Sessions : Has(o)' => Same(o)'
  <2>1. joins'[s] = joins[s] + 1 /\ joins'[s] <= 1
    BY <1>0, <1>1 DEF Join, OneJoinEach
  <2>2. ~Has(s)
    BY <1>0, <2>1 DEF ReaderOK
  <2> QED
    BY <1>1, <1>i, <2>2, Asks DEF Join
<1>2. ASSUME NEW s \in Sessions, Quit(s)
      PROVE  \A o \in Sessions : Has(o)' => Same(o)'
  <2>1. CASE chRoom[s] = Nil
    BY <1>2, <1>u, <2>1 DEF Quit
  <2>2. CASE chRoom[s] # Nil
    <3>1. chUser[s] = Last(s).user /\ chRoom[s] = Last(s).room
      BY <1>0, <1>s, <2>2 DEF ReaderOK, Same
    <3>2. Issue(s, [op |-> "DisConnect", user |-> chUser[s], room |-> chRoom[s]]) /\ UNCHANGED chanVars
      BY <1>2, <2>2 DEF Quit
    <3> DEFINE q == [op |-> "DisConnect", user |-> chUser[s], room |-> chRoom[s]]
    <3>3. q \in Requests /\ calls[s] < CallMax /\ q.user = Last(s).user /\ q.room = Last(s).room
      BY <1>2, <2>2, <3>1, Asks
    <3> QED
      BY <1>i, <3>2, <3>3
  <2> QED
    BY <2>1, <2>2
<1>3. ASSUME NEW s \in Sessions, Retry(s)
      PROVE  \A o \in Sessions : Has(o)' => Same(o)'
  BY <1>3, <1>i, Asks DEF Retry, Last, Cur
<1>4. ASSUME NEW c \in Calls, Command(c)
      PROVE  \A o \in Sessions : Has(o)' => Same(o)'
  BY <1>4, <1>u, Commanded
<1>5. ASSUME NEW c \in Calls, Reply(c)
      PROVE  \A o \in Sessions : Has(o)' => Same(o)'
  <2> DEFINE s == c[1]
  <2>1. CASE UNCHANGED chanVars
    BY <1>5, <1>u, <2>1 DEF Reply
  <2>2. CASE phase[s] = "connect" /\ Awaited(c)
    <3>1. /\ s \in Sessions /\ c = Cur(s) /\ Has(s)
      BY <1>0, <2>2, CallFacts DEF Awaited, Cur, ReaderOK
    <3>2. /\ \A o \in Sessions \ {s} : chUser'[o] = chUser[o] /\ chRoom'[o] = chRoom[o]
          /\ chUser'[s] = Last(s).user /\ chRoom'[s] = JoinedRoom(c)
          /\ UNCHANGED <<calls, req>>
      BY <1>0, <1>5, <2>2, <3>1 DEF Reply, Last
    <3>3. JoinedRoom(c) = IF Last(s).room = NoRoom THEN Nil ELSE Last(s).room
      BY <1>0, <1>s, <3>1 DEF JoinedRoom, ReaderOK, Same, Last
    <3>4. ASSUME NEW o \in Sessions, Has(o)'
          PROVE  Same(o)'
      <4>1. Has(o) /\ Same(o) /\ Last(o)' = Last(o)
        BY <1>s, <3>2, <3>4 DEF Has, Last, Cur
      <4>2. CASE o = s
        BY <3>2, <3>3, <4>1, <4>2 DEF Same
      <4>3. CASE o # s
        BY <3>2, <4>1, <4>3 DEF Same
      <4> QED
        BY <4>2, <4>3
    <3> QED
      BY <3>4
  <2> QED
    BY <1>5, <2>1, <2>2 DEF Reply, Awaited
<1>6. CASE Failure
  BY <1>6, <1>u DEF Failure, Crash, LogicCrash, LoseKey
<1>7. CASE UNCHANGED vars
  BY <1>7, <1>u DEF vars
<1> QED
  BY <1>1, <1>2, <1>3, <1>4, <1>5, <1>6, <1>7, Steps DEF Failure
-------------------------------------------------------------------------------
(* Connections of one user. *)

LEMMA NoJoin ==
  ASSUME Shape, UNCHANGED calls
  PROVE  ~(\E s \in Sessions, u \in Users, r \in RoomIds : Join(s, u, r))
<1> SUFFICES ASSUME NEW s \in Sessions, NEW u \in Users, NEW r \in RoomIds, Join(s, u, r) PROVE FALSE
  OBVIOUS
<1>1. calls \in [Sessions -> 0 .. CallMax]
  BY DEF Shape, TypeOK, CallMax
<1>2. calls'[s] = calls[s] + 1
  BY <1>1 DEF Join, Issue
<1>3. calls[s] \in Nat
  BY <1>1, CallFacts
<1> QED
  BY <1>2, <1>3

\* Only a join makes a connection active, or a user's latest call another one's.
LEMMA Calmer ==
  ASSUME Shape, [Next]_vars, ~(\E s \in Sessions, u \in Users, r \in RoomIds : Join(s, u, r)),
         NEW s \in Sessions, Has(s)'
  PROVE  /\ Has(s) /\ Last(s)'.user = Last(s).user
         /\ Active(s)' => Active(s)
         /\ Joined(s)' => Joined(s)
         /\ overlapped' = overlapped
<1> USE DEF boundVars, connVars, chanVars, redisVars, callVars
<1>0. /\ \A o \in Sessions : ReaderOK(o) /\ calls[o] \in Nat
      /\ phase \in [Sessions -> {"read", "connect", "leave", "closed", "lost"}]
      /\ pc \in [Calls -> States]
  BY CallFacts DEF Shape, Reading, TypeOK, CallMax, States
<1>u. ASSUME UNCHANGED <<calls, req, overlapped>>,
             phase'[s] # phase[s] => phase'[s] \notin {"connect", "leave"} /\ (phase'[s] = "read" => phase[s] = "connect"),
             \A c \in Calls : pc'[c] # "done" => pc[c] # "done"
      PROVE  /\ Has(s) /\ Last(s)'.user = Last(s).user
             /\ Active(s)' => Active(s)
             /\ Joined(s)' => Joined(s)
             /\ overlapped' = overlapped
  BY <1>0, <1>u DEF Has, Last, Cur, Active, Busy, Running, Joined
<1>i. ASSUME NEW o \in Sessions, NEW q \in Requests, Issue(o, q), calls[o] < CallMax, Has(o), Active(o),
             q.user = Last(o).user, UNCHANGED overlapped,
             \A p \in Sessions : phase'[p] = phase[p] \/ (phase'[p] = "leave" /\ phase[p] = "read")
      PROVE  /\ Has(s) /\ Last(s)'.user = Last(s).user
             /\ Active(s)' => Active(s)
             /\ Joined(s)' => Joined(s)
             /\ overlapped' = overlapped
  <2>1. /\ \A p \in Sessions \ {o} : (Has(p)' <=> Has(p)) /\ (Has(p) => Last(p)' = Last(p))
        /\ Last(o)' = q /\ Cur(o)' = <<o, calls[o] + 1>>
        /\ \A c \in Calls : c # Cur(o)' => pc'[c] = pc[c]
    BY <1>i, Latest
  <2>2. s # o => (Busy(s)' => Busy(s))
    <3> SUFFICES ASSUME s # o, NEW c \in Calls, pc'[c] # "done", c[1] = s PROVE Busy(s)
      BY DEF Busy, Running
    <3>1. c # Cur(o)'
      BY <2>1
    <3> QED
      BY <2>1, <3>1 DEF Busy, Running
  <2>3. CASE s = o
    BY <1>0, <1>i, <2>1, <2>3 DEF Joined
  <2>4. CASE s # o
    BY <1>0, <1>i, <2>1, <2>2, <2>4 DEF Joined, Active
  <2> QED
    BY <2>3, <2>4
<1>2. ASSUME NEW o \in Sessions, Quit(o), chRoom[o] # Nil
      PROVE  /\ Has(s) /\ Last(s)'.user = Last(s).user
             /\ Active(s)' => Active(s)
             /\ Joined(s)' => Joined(s)
             /\ overlapped' = overlapped
  <2> DEFINE q == [op |-> "DisConnect", user |-> chUser[o], room |-> chRoom[o]]
  <2>1. q \in Requests /\ calls[o] < CallMax
    BY <1>2, Asks
  <2>2. Has(o) /\ q.user = Last(o).user /\ Active(o)
    BY <1>0, <1>2 DEF Quit, ReaderOK, Active
  <2>3. \A p \in Sessions : phase'[p] = phase[p] \/ (phase'[p] = "leave" /\ phase[p] = "read")
    BY <1>0, <1>2 DEF Quit
  <2>4. Issue(o, q) /\ UNCHANGED overlapped
    BY <1>2 DEF Quit
  <2> QED
    BY <1>i, <2>1, <2>2, <2>3, <2>4
<1>3. ASSUME NEW o \in Sessions, Retry(o)
      PROVE  /\ Has(s) /\ Last(s)'.user = Last(s).user
             /\ Active(s)' => Active(s)
             /\ Joined(s)' => Joined(s)
             /\ overlapped' = overlapped
  <2>1. Last(o) \in Requests /\ calls[o] < CallMax /\ Issue(o, Last(o)) /\ UNCHANGED <<phase, overlapped>>
    BY <1>3, Asks DEF Retry, Last, Cur
  <2>2. Has(o) /\ Active(o)
    BY <1>0, <1>3 DEF Retry, ReaderOK, Active
  <2> QED
    BY <1>i, <2>1, <2>2
<1>4. ASSUME NEW c \in Calls, Command(c)
      PROVE  \A d \in Calls : pc'[d] # "done" => pc[d] # "done"
  BY <1>0, <1>4, Commanded
<1>5. ASSUME NEW c \in Calls, Reply(c)
      PROVE  /\ phase'[s] # phase[s] => phase'[s] \notin {"connect", "leave"} /\ (phase'[s] = "read" => phase[s] = "connect")
             /\ \A d \in Calls : pc'[d] # "done" => pc[d] # "done"
             /\ UNCHANGED <<calls, req, overlapped>>
  <2>1. \A d \in Calls : pc'[d] # "done" => pc[d] # "done"
    BY <1>0, <1>5 DEF Reply, Goto
  <2>2. phase'[s] # phase[s] => phase'[s] \notin {"connect", "leave"} /\ (phase'[s] = "read" => phase[s] = "connect")
    BY <1>0, <1>5 DEF Reply
  <2> QED
    BY <1>5, <2>1, <2>2 DEF Reply
<1>6. ASSUME NEW o \in Sessions, Quit(o), chRoom[o] = Nil
      PROVE  /\ phase'[s] # phase[s] => phase'[s] \notin {"connect", "leave", "read"}
             /\ UNCHANGED <<calls, req, pc, overlapped>>
  BY <1>0, <1>6 DEF Quit
<1>7. ASSUME NEW o \in Sessions, Crash(Server[o])
      PROVE  /\ phase'[s] # phase[s] => phase'[s] \notin {"connect", "leave", "read"}
             /\ UNCHANGED <<calls, req, pc, overlapped>>
  BY <1>0, <1>7 DEF Crash
<1>8. CASE LogicCrash
  BY <1>8, <1>u DEF LogicCrash
<1>9. CASE UNCHANGED vars \/ \E u \in Users : LoseKey(u)
  BY <1>9, <1>u DEF vars, LoseKey
<1>10. CASE \E c \in Calls : Command(c)
  BY <1>4, <1>10, <1>u, Commanded
<1>11. CASE \E c \in Calls : Reply(c)
  BY <1>5, <1>11, <1>u
<1>12. CASE \E o \in Sessions : Quit(o)
  BY <1>2, <1>6, <1>12, <1>u
<1>13. CASE \E o \in Sessions : Crash(Server[o])
  BY <1>7, <1>13, <1>u
<1> QED
  BY <1>3, <1>8, <1>9, <1>10, <1>11, <1>12, <1>13, Steps

\* What a join finds of the other connections of its user.
LEMMA JoinFinds ==
  ASSUME Shape, NEW s \in Sessions, NEW u \in Users, NEW r \in RoomIds, Join(s, u, r)
  PROVE  /\ Has(s)' /\ Last(s)' = [op |-> "Connect", user |-> u, room |-> r]
         /\ \A o \in Sessions \ {s} :
              /\ Has(o)' <=> Has(o)
              /\ Has(o) => Last(o)' = Last(o)
              /\ Active(o)' <=> Active(o)
              /\ Joined(o)' <=> Joined(o)
              /\ Has(o) /\ Last(o).user = u /\ overlapped'[u] = "no" => ~Active(o)
              /\ Has(o) /\ Last(o).user = u /\ overlapped'[u] # "open" => ~Joined(o)
         /\ \A v \in Users : /\ overlapped'[v] = "no" => overlapped[v] = "no"
                             /\ overlapped'[v] # "open" => overlapped[v] # "open"
<1> DEFINE q == [op |-> "Connect", user |-> u, room |-> r]
<1>0. q \in Requests /\ calls[s] < CallMax /\ Issue(s, q)
  BY Asks DEF Join
<1>1. /\ \A p \in Sessions \ {s} : (Has(p)' <=> Has(p)) /\ (Has(p) => Last(p)' = Last(p))
      /\ Has(s)' /\ Last(s)' = q /\ Cur(s)' = <<s, calls[s] + 1>>
      /\ \A c \in Calls : c # Cur(s)' => pc'[c] = pc[c]
  BY <1>0, Latest
<1>2. \A o \in Sessions \ {s} : phase'[o] = phase[o]
  BY DEF Join, Shape, TypeOK
<1>3. overlapped \in [Users -> {"no", "leaving", "open"}] /\ overlapped' = [overlapped EXCEPT ![u] = Overlap(s, u)]
  BY DEF Join, Shape, TypeOK
<1>4. \A o \in Sessions \ {s} : Busy(o)' <=> Busy(o)
  <2> TAKE o \in Sessions \ {s}
  <2>1. \A c \in Calls : c[1] = o => c # Cur(s)'
    BY <1>1
  <2> QED
    BY <1>1, <2>1 DEF Busy, Running
<1>5. \A o \in Sessions \ {s} : (Active(o)' <=> Active(o)) /\ (Joined(o)' <=> Joined(o))
  BY <1>2, <1>4 DEF Active, Joined
<1>6. ASSUME NEW o \in Sessions \ {s}, Has(o), Last(o).user = u
      PROVE  /\ overlapped'[u] = "no" => ~Active(o)
             /\ overlapped'[u] # "open" => ~Joined(o)
  <2>1. o \in Others(s, u)
    BY <1>6 DEF Others, Has, Last, Cur
  <2>2. Joined(o) => Open(s, u)
    BY <2>1 DEF Open, Joined
  <2>3. Active(o) => Open(s, u) \/ Leaving(s, u)
    BY <2>1 DEF Open, Leaving, Active, Busy
  <2>4. overlapped'[u] = Overlap(s, u)
    BY <1>3
  <2> QED
    BY <2>2, <2>3, <2>4 DEF Overlap
<1>7. \A v \in Users : /\ overlapped'[v] = "no" => overlapped[v] = "no"
                       /\ overlapped'[v] # "open" => overlapped[v] # "open"
  <2> TAKE v \in Users
  <2>1. CASE v = u
    BY <1>3, <2>1 DEF Overlap
  <2>2. CASE v # u
    BY <1>3, <2>2
  <2> QED
    BY <2>1, <2>2
<1> QED
  BY <1>1, <1>5, <1>6, <1>7

LEMMA AloneStep ==
  ASSUME Shape, Alone, OneOpen, [Next]_vars
  PROVE  Alone' /\ OneOpen'
<1>u. \A o \in Sessions : Has(o) => Last(o).user \in Users
  BY CurFacts DEF Requests
<1>1. ASSUME NEW j \in Sessions, NEW u \in Users, NEW r \in RoomIds, Join(j, u, r)
      PROVE  Alone' /\ OneOpen'
  <2>j. Last(j)'.user = u
    BY <1>1, JoinFinds
  <2>1. ASSUME NEW s \in Sessions, NEW o \in Sessions, Pair(s, o)', overlapped'[Last(s)'.user] = "no",
               Active(s)', Active(o)', s # o
        PROVE  FALSE
    <3>1. CASE s # j /\ o # j
      BY <1>1, <1>u, <2>1, <3>1, JoinFinds DEF Pair, Alone
    <3>2. CASE s = j
      BY <1>1, <2>j, <2>1, <3>2, JoinFinds DEF Pair
    <3>3. CASE o = j
      BY <1>1, <2>j, <2>1, <3>3, JoinFinds DEF Pair
    <3> QED
      BY <3>1, <3>2, <3>3
  <2>2. ASSUME NEW s \in Sessions, NEW o \in Sessions, Pair(s, o)', overlapped'[Last(s)'.user] # "open",
               Joined(s)', Joined(o)', s # o
        PROVE  FALSE
    <3>1. CASE s # j /\ o # j
      BY <1>1, <1>u, <2>2, <3>1, JoinFinds DEF Pair, OneOpen
    <3>2. CASE s = j
      BY <1>1, <2>j, <2>2, <3>2, JoinFinds DEF Pair
    <3>3. CASE o = j
      BY <1>1, <2>j, <2>2, <3>3, JoinFinds DEF Pair
    <3> QED
      BY <3>1, <3>2, <3>3
  <2> QED
    BY <2>1, <2>2 DEF Alone, OneOpen
<1>2. CASE ~(\E s \in Sessions, u \in Users, r \in RoomIds : Join(s, u, r))
  BY <1>2, Calmer DEF Alone, OneOpen, Pair
<1> QED
  BY <1>1, <1>2
-------------------------------------------------------------------------------
(* One handler at a time for a connection. *)

\* Failures, lost keys and second joins are never forgotten.
LEMMA Lasting ==
  ASSUME Shape, [Next]_vars
  PROVE  /\ OneJoinEach' => OneJoinEach
         /\ losses' = 0 => losses = 0
         /\ OneAtATime' => OneAtATime
         /\ \A u \in Users : overlapped'[u] # "open" => overlapped[u] # "open"
         /\ \A u \in Users : overlapped'[u] = "no" => overlapped[u] = "no"
<1> USE DEF boundVars, connVars, chanVars, redisVars, callVars
<1>0. joins \in [Sessions -> Nat] /\ losses \in Nat
  BY Limited DEF Shape, TypeOK
<1>1. joins' = joins \/ \E s \in Sessions : joins' = [joins EXCEPT ![s] = @ + 1]
  BY Steps, Commanded DEF Join, Quit, Retry, Reply, Crash, LogicCrash, LoseKey, vars
<1>2. losses' = losses \/ losses' = losses + 1
  BY Steps, Commanded DEF Join, Quit, Retry, Reply, Crash, LogicCrash, LoseKey, vars
<1>3. \A u \in Users : /\ overlapped'[u] # "open" => overlapped[u] # "open"
                       /\ overlapped'[u] = "no" => overlapped[u] = "no"
  <2>1. overlapped' = overlapped \/ \E s \in Sessions, u \in Users, r \in RoomIds : Join(s, u, r)
    BY Steps, Commanded DEF Quit, Retry, Reply, Crash, LogicCrash, LoseKey, vars
  <2> QED
    BY <2>1, JoinFinds
<1>4. OneJoinEach' => OneJoinEach
  BY <1>0, <1>1 DEF OneJoinEach
<1> QED
  BY <1>0, <1>2, <1>3, <1>4 DEF OneAtATime

\* The steps that leave a behaviour without failures.
LEMMA Faultlessly ==
  ASSUME Shape, [Next]_vars, Faultless'
  PROVE  /\ Faultless
         /\ \/ \E s \in Sessions, u \in Users, r \in RoomIds : Join(s, u, r)
            \/ \E s \in Sessions : Quit(s)
            \/ \E c \in Calls : Command(c)
            \/ \E c \in Calls : Reply(c)
            \/ \E u \in Users : LoseKey(u)
            \/ UNCHANGED vars
<1> USE DEF boundVars, connVars, chanVars, redisVars, callVars
<1>0. retries \in [Sessions -> Nat] /\ crashes \in Nat
  BY Limited DEF Shape, TypeOK
<1>1. ASSUME NEW s \in Sessions, Retry(s)
      PROVE  FALSE
  <2>1. retries'[s] = retries[s] + 1
    BY <1>0, <1>1 DEF Retry
  <2> QED
    BY <1>0, <2>1 DEF Faultless
<1>2. ~(\E s \in Sessions : Crash(Server[s])) /\ ~LogicCrash
  BY <1>0 DEF Crash, LogicCrash, Faultless
<1>3. /\ \/ \E s \in Sessions, u \in Users, r \in RoomIds : Join(s, u, r)
         \/ \E s \in Sessions : Quit(s)
         \/ \E c \in Calls : Command(c)
         \/ \E c \in Calls : Reply(c)
         \/ \E u \in Users : LoseKey(u)
         \/ UNCHANGED vars
  BY <1>1, <1>2, Steps
<1>4. UNCHANGED <<retries, crashes>>
  BY <1>3, Commanded DEF Join, Quit, Reply, LoseKey, vars
<1> QED
  BY <1>3, <1>4 DEF Faultless

\* The handler at work for a connection, when nothing failed.
LEMMA AtWork ==
  ASSUME Shape, InTurn, Faultless, NEW c \in Calls, pc[c] # "done"
  PROVE  /\ c[1] \in Sessions /\ Has(c[1]) /\ c = Cur(c[1]) /\ req[c] = Last(c[1]) /\ Awaited(c)
         /\ req[c].user \in Users /\ req[c].room \in RoomIds /\ Active(c[1])
         /\ pc[c] \in Connecting => phase[c[1]] = "connect"
         /\ pc[c] \in Parting => phase[c[1]] = "leave"
<1>1. c[1] \in Sessions /\ c = <<c[1], c[2]>>
  BY CallFacts
<1>2. Awaited(c)
  BY DEF InTurn, Running
<1>3. c = Cur(c[1]) /\ req[c] = Last(c[1])
  BY <1>1, <1>2 DEF Awaited, Cur, Last
<1>4. /\ pc[c] \in Connecting => req[c].op = "Connect"
      /\ pc[c] \in Parting => req[c].op = "DisConnect"
  BY DEF Shape, Requested
<1>5. /\ pc[c] \in Connecting => phase[c[1]] = "connect"
      /\ pc[c] \in Parting => phase[c[1]] = "leave"
  BY <1>1, <1>2, <1>3, <1>4 DEF Awaited, Shape, Reading, ReaderOK
<1> QED
  BY <1>1, <1>2, <1>3, <1>5, RunFacts DEF Active, Awaited

LEMMA InTurnStep ==
  ASSUME Shape, InTurn, [Next]_vars
  PROVE  InTurn'
<1> USE DEF boundVars, connVars, chanVars, redisVars, callVars
<1>0. /\ calls \in [Sessions -> 0 .. CallMax] /\ pc \in [Calls -> States]
      /\ phase \in [Sessions -> {"read", "connect", "leave", "closed", "lost"}]
  BY DEF Shape, TypeOK, CallMax, States
<1> SUFFICES ASSUME Faultless'
             PROVE  /\ \A c \in Calls : pc'[c] # "done" => Awaited(c)'
                    /\ \A s \in Sessions : phase'[s] # "lost" /\ (phase'[s] \in {"connect", "leave"} => pc'[Cur(s)'] # "done")
  BY DEF InTurn, Running
<1>f. Faultless
  BY Faultlessly
<1>s. /\ \A c \in Calls : pc[c] # "done" => Awaited(c)
      /\ \A s \in Sessions : phase[s] # "lost" /\ (phase[s] \in {"connect", "leave"} => pc[Cur(s)] # "done")
  BY <1>f DEF InTurn, Running
<1>c. \A c \in Calls : c[1] \in Sessions /\ (c[2] = calls[c[1]] <=> c = Cur(c[1]))
  BY CallFacts DEF Cur
<1>i. ASSUME NEW s \in Sessions, NEW q \in Requests, Issue(s, q), calls[s] < CallMax, phase[s] = "read",
             \A o \in Sessions \ {s} : phase'[o] = phase[o], phase'[s] \in {"connect", "leave"}
      PROVE  /\ \A c \in Calls : pc'[c] # "done" => Awaited(c)'
             /\ \A o \in Sessions : phase'[o] # "lost" /\ (phase'[o] \in {"connect", "leave"} => pc'[Cur(o)'] # "done")
  <2>1. /\ \A o \in Sessions \ {s} :
             calls'[o] = calls[o] /\ Cur(o)' = Cur(o) /\ (Has(o) => pc'[Cur(o)] = pc[Cur(o)])
        /\ calls'[s] = calls[s] + 1 /\ Cur(s)' = <<s, calls[s] + 1>> /\ Cur(s)' \in Calls
        /\ pc'[Cur(s)'] = IF q.op = "Connect" THEN "set" ELSE "count"
        /\ \A c \in Calls : c # Cur(s)' => pc'[c] = pc[c]
    BY <1>i, Latest
  <2>2. ASSUME NEW c \in Calls, pc'[c] # "done"
        PROVE  Awaited(c)'
    <3>1. CASE c = Cur(s)'
      BY <1>i, <2>1, <3>1 DEF Awaited
    <3>2. CASE c # Cur(s)'
      <4>1. Awaited(c) /\ c[1] # s /\ c[1] \in Sessions
        BY <1>c, <1>s, <1>i, <2>1, <2>2, <3>2 DEF Awaited
      <4> QED
        BY <1>i, <2>1, <4>1 DEF Awaited
    <3> QED
      BY <3>1, <3>2
  <2>3. ASSUME NEW o \in Sessions
        PROVE  phase'[o] # "lost" /\ (phase'[o] \in {"connect", "leave"} => pc'[Cur(o)'] # "done")
    <3>1. phase[o] \in {"connect", "leave"} => Has(o)
      BY DEF Shape, Reading, ReaderOK
    <3> QED
      BY <1>i, <1>s, <2>1, <3>1
  <2> QED
    BY <2>2, <2>3
<1>1. ASSUME NEW s \in Sessions, NEW u \in Users, NEW r \in RoomIds, Join(s, u, r)
      PROVE  /\ \A c \in Calls : pc'[c] # "done" => Awaited(c)'
             /\ \A o \in Sessions : phase'[o] # "lost" /\ (phase'[o] \in {"connect", "leave"} => pc'[Cur(o)'] # "done")
  BY <1>0, <1>1, <1>i, Asks DEF Join
<1>2. ASSUME NEW s \in Sessions, Quit(s)
      PROVE  /\ \A c \in Calls : pc'[c] # "done" => Awaited(c)'
             /\ \A o \in Sessions : phase'[o] # "lost" /\ (phase'[o] \in {"connect", "leave"} => pc'[Cur(o)'] # "done")
  <2>1. CASE chRoom[s] = Nil
    BY <1>0, <1>2, <1>s, <2>1, <1>c DEF Quit, Awaited, Cur
  <2>2. CASE chRoom[s] # Nil
    BY <1>0, <1>2, <1>i, <2>2, Asks DEF Quit
  <2> QED
    BY <2>1, <2>2
<1>3. ASSUME NEW c \in Calls, Command(c)
      PROVE  /\ \A d \in Calls : pc'[d] # "done" => Awaited(d)'
             /\ \A o \in Sessions : phase'[o] # "lost" /\ (phase'[o] \in {"connect", "leave"} => pc'[Cur(o)'] # "done")
  <2>1. \A d \in Calls : pc'[d] # "done" <=> pc[d] # "done"
    BY <1>0, <1>3, Commanded DEF Connecting, Parting
  <2>2. \A o \in Sessions : phase[o] \in {"connect", "leave"} => Cur(o) \in Calls
    BY CurFacts DEF Shape, Reading, ReaderOK
  <2>3. UNCHANGED <<phase, calls>> /\ \A o \in Sessions : Cur(o)' = Cur(o)
    BY <1>3, Commanded DEF Cur
  <2> QED
    BY <1>s, <2>1, <2>2, <2>3 DEF Awaited
<1>4. ASSUME NEW c \in Calls, Reply(c)
      PROVE  /\ \A d \in Calls : pc'[d] # "done" => Awaited(d)'
             /\ \A o \in Sessions : phase'[o] # "lost" /\ (phase'[o] \in {"connect", "leave"} => pc'[Cur(o)'] # "done")
  <2>1. c[1] \in Sessions /\ Awaited(c) /\ c = Cur(c[1])
    BY <1>4, <1>s, <1>c DEF Reply, Awaited
  <2>2. /\ UNCHANGED calls /\ pc' = [pc EXCEPT ![c] = "done"]
        /\ \A o \in Sessions \ {c[1]} : phase'[o] = phase[o]
        /\ phase'[c[1]] \in {"read", "closed"}
    BY <1>0, <1>4, <2>1 DEF Reply, Goto
  <2>3. \A o \in Sessions : Cur(o)' = Cur(o)
    BY <2>2 DEF Cur
  <2>4. \A o \in Sessions \ {c[1]} : Cur(o) # c
    BY <2>1 DEF Cur
  <2>5. \A d \in Calls : pc'[d] # "done" => d # c /\ pc[d] # "done" /\ d[1] # c[1]
    BY <1>0, <1>c, <1>s, <2>1, <2>2 DEF Awaited
  <2>6. \A o \in Sessions : phase[o] \in {"connect", "leave"} => Cur(o) \in Calls
    BY CurFacts DEF Shape, Reading, ReaderOK
  <2> QED
    BY <1>0, <1>s, <1>c, <2>1, <2>2, <2>3, <2>4, <2>5, <2>6 DEF Awaited
<1>5. ASSUME UNCHANGED <<pc, phase, calls>>
      PROVE  /\ \A c \in Calls : pc'[c] # "done" => Awaited(c)'
             /\ \A o \in Sessions : phase'[o] # "lost" /\ (phase'[o] \in {"connect", "leave"} => pc'[Cur(o)'] # "done")
  BY <1>s, <1>5 DEF Awaited, Cur
<1> QED
  BY <1>1, <1>2, <1>3, <1>4, <1>5, Faultlessly DEF LoseKey, vars
-------------------------------------------------------------------------------
(* The list of a room. *)

LEMMA ListingStep ==
  ASSUME Shape, Constant, Alone, Listing, [Next]_vars
  PROVE  Listing'
<1> USE DEF boundVars, connVars, chanVars, redisVars, callVars
<1>0. /\ calls \in [Sessions -> 0 .. CallMax] /\ pc \in [Calls -> States]
      /\ phase \in [Sessions -> {"read", "connect", "leave", "closed", "lost"}]
      /\ roomUser \in [RoomIds -> SUBSET Users]
      /\ \A o \in Sessions : ReaderOK(o) /\ calls[o] \in Nat /\ calls[o] \in 0 .. CallMax
      /\ joins \in [Sessions -> Nat]
  BY CallFacts, Limited DEF Shape, TypeOK, CallMax, States, Reading
<1> SUFFICES ASSUME OneJoinEach', NEW s \in Sessions, Has(s)', Joined(s)', overlapped'[Last(s)'.user] = "no"
             PROVE  Settled(s)'
  BY DEF Listing
<1>o. OneJoinEach
  BY Lasting
<1>s. /\ Has(s) /\ Joined(s) /\ overlapped[Last(s).user] = "no" => Settled(s)
      /\ \A o \in Sessions : Has(o) => Same(o)
  BY <1>o DEF Listing, Constant
<1>t. Has(s) => Last(s).user \in Users /\ Last(s).room \in RoomIds
  BY CurFacts DEF Requests
<1>u. ASSUME Has(s), UNCHANGED <<calls, req, roomUser>>, chRoom'[s] = chRoom[s],
             Joined(s), overlapped[Last(s).user] = "no", phase'[s] = "read" => phase[s] = "read",
             \A n \in 1 .. calls[s] : pc'[<<s, n>>] \in {"incr", "reply"} => pc[<<s, n>>] \in {"incr", "reply"}
      PROVE  Settled(s)'
  BY <1>s, <1>u DEF Settled, Last, Cur
<1>i. ASSUME NEW j \in Sessions \ {s}, NEW q \in Requests, Issue(j, q), calls[j] < CallMax,
             UNCHANGED <<roomUser, chRoom>>, phase'[s] = phase[s]
      PROVE  Settled(s)'
  <2>1. calls'[s] = calls[s] /\ Has(s) /\ Last(s)' = Last(s)
    BY <1>i, Latest
  <2>2. \A n \in 1 .. calls[s] : n \in 1 .. CallMax /\ n <= calls[s]
    BY <1>0, CallFacts
  <2>3. \A n \in 1 .. calls[s] : pc'[<<s, n>>] = pc[<<s, n>>]
    BY <1>i, <2>2, Latest
  <2>4. Joined(s) /\ overlapped[Last(s).user] = "no"
    BY <1>i, <1>t, <2>1, Lasting DEF Joined
  <2> QED
    BY <1>i, <1>s, <2>1, <2>3, <2>4 DEF Settled
<1>c. ~(\E j \in Sessions, u \in Users, r \in RoomIds : Join(j, u, r)) =>
        Has(s) /\ Joined(s) /\ overlapped[Last(s).user] = "no"
  BY Calmer
<1>n. \A n \in 1 .. calls[s] : <<s, n>> \in Calls /\ <<s, n>>[1] = s
  BY <1>0, CallFacts
<1>1. ASSUME NEW j \in Sessions, NEW u \in Users, NEW r \in RoomIds, Join(j, u, r)
      PROVE  Settled(s)'
  <2> DEFINE q == [op |-> "Connect", user |-> u, room |-> r]
  <2>1. q \in Requests /\ calls[j] < CallMax /\ Issue(j, q)
    BY <1>1, Asks DEF Join
  <2>2. CASE s = j
    <3>1. joins'[s] = joins[s] + 1 /\ joins'[s] <= 1 /\ phase'[s] = "connect"
      BY <1>0, <1>1, <2>2 DEF Join, OneJoinEach
    <3>2. calls[s] = 0
      BY <1>0, <3>1 DEF ReaderOK, Has
    <3>3. calls'[s] = 1 /\ Cur(s)' = <<s, 1>> /\ pc'[Cur(s)'] = "set"
      BY <2>1, <2>2, <3>2, Latest
    <3>4. \A n \in 1 .. calls'[s] : pc'[<<s, n>>] = "set"
      BY <3>3
    <3> QED
      BY <3>1, <3>4 DEF Settled
  <2>3. CASE s # j
    BY <1>0, <1>1, <1>i, <2>1, <2>3 DEF Join
  <2> QED
    BY <2>2, <2>3
<1>2. ASSUME NEW j \in Sessions, Quit(j)
      PROVE  Settled(s)'
  <2>1. s # j
    BY <1>0, <1>2 DEF Quit, Joined
  <2>2. CASE chRoom[j] = Nil
    BY <1>0, <1>2, <1>c, <1>u, <2>1, <2>2 DEF Quit, Join
  <2>3. CASE chRoom[j] # Nil
    BY <1>0, <1>2, <1>i, <2>1, <2>3, Asks DEF Quit
  <2> QED
    BY <2>2, <2>3
<1>3. ASSUME NEW j \in Sessions, Retry(j)
      PROVE  Settled(s)'
  <2>1. Last(j) \in Requests /\ calls[j] < CallMax /\ Issue(j, Last(j))
    BY <1>3, Asks DEF Retry, Last, Cur
  <2>2. CASE s = j
    <3>1. phase[s] = "connect" /\ phase'[s] = "connect" /\ Last(s).op = "Connect" /\ Has(s) /\ UNCHANGED <<roomUser, overlapped>>
      BY <1>0, <1>3, <2>2 DEF Retry, Joined, ReaderOK
    <3>2. /\ calls'[s] = calls[s] + 1 /\ Last(s)' = Last(s) /\ pc'[<<s, calls[s] + 1>>] = "set"
          /\ \A n \in 1 .. CallMax : n <= calls[s] => pc'[<<s, n>>] = pc[<<s, n>>]
      BY <2>1, <2>2, <3>1, Latest
    <3>3. \A n \in 1 .. calls'[s] : n = calls[s] + 1 \/ (n \in 1 .. calls[s] /\ n \in 1 .. CallMax /\ n <= calls[s])
      <4>1. calls[s] \in Nat /\ calls[s] <= CallMax /\ CallMax \in Nat /\ calls'[s] = calls[s] + 1
        BY <1>0, <3>2, CallFacts
      <4> QED
        BY <4>1
    <3>4. \A n \in 1 .. calls'[s] : pc'[<<s, n>>] \in {"incr", "reply"} => n \in 1 .. calls[s] /\ pc[<<s, n>>] \in {"incr", "reply"}
      BY <3>2, <3>3
    <3>5. Settled(s)
      BY <1>s, <3>1, <3>2 DEF Joined
    <3> QED
      BY <3>1, <3>2, <3>4, <3>5 DEF Settled
  <2>3. CASE s # j
    BY <1>3, <1>i, <2>1, <2>3 DEF Retry
  <2> QED
    BY <2>2, <2>3
<1>4. ASSUME NEW c \in Calls, Command(c)
      PROVE  Settled(s)'
  <2>1. /\ UNCHANGED <<calls, req, phase, chRoom, overlapped>> /\ pc' = [pc EXCEPT ![c] = pc'[c]]
        /\ pc[c] # "done"
    BY <1>4, Commanded
  <2>2. Has(s) /\ Joined(s) /\ overlapped[Last(s).user] = "no" /\ Last(s)' = Last(s)
    BY <2>1 DEF Has, Joined, Last, Cur
  <2>3. Settled(s) /\ Same(s)
    BY <1>s, <2>2
  <2>4. c[1] \in Sessions /\ Has(c[1]) /\ c[2] \in 1 .. calls[c[1]] /\ c = <<c[1], c[2]>> /\ req[c].room \in RoomIds
    BY <2>1, RunFacts, CallFacts
  <2>5. req[c].user = Last(c[1]).user /\ req[c].room = Last(c[1]).room
    <3>1. Same(c[1])
      BY <1>s, <2>4
    <3> QED
      BY <2>4, <3>1 DEF Same
  <2>6. pc[c] \in Parting => c[1] # s
    <3>1. phase[s] \in {"read", "connect"} => \A n \in 1 .. calls[s] : req[<<s, n>>].op = "Connect"
      BY <1>0 DEF ReaderOK
    <3>2. pc[c] \in Parting => req[c].op = "DisConnect"
      BY DEF Shape, Requested
    <3> QED
      BY <2>2, <2>4, <3>1, <3>2 DEF Joined
  <2>7. Last(s).user \in roomUser[Last(s).room] => Last(s).user \in roomUser'[Last(s).room]
    <3>1. CASE DisDel(c)
      <4>1. pc[c] \in Parting /\ roomUser' = [roomUser EXCEPT ![req[c].room] = @ \ {req[c].user}]
        BY <3>1 DEF DisDel, Removed, Parting
      <4>2. Active(s) /\ Active(c[1])
        BY <2>1, <2>2 DEF Active, Busy, Running, Joined
      <4>3. Last(c[1]).user # Last(s).user
        BY <2>2, <2>4, <2>6, <4>1, <4>2 DEF Alone, Pair
      <4> QED
        BY <1>0, <1>t, <2>2, <2>4, <2>5, <4>1, <4>3
    <3>2. CASE ConnAdd(c)
      BY <1>0, <1>t, <2>2, <3>2 DEF ConnAdd
    <3>3. CASE ~DisDel(c) /\ ~ConnAdd(c)
      BY <1>4, <3>3 DEF Command, ConnSet, ConnGet, ConnIncr, DisCount, DisDecr, DisList, DisPublish
    <3> QED
      BY <3>1, <3>2, <3>3
  <2>8. ASSUME NEW n \in 1 .. calls[s], pc'[<<s, n>>] \in {"incr", "reply"}
        PROVE  Last(s).user \in roomUser'[Last(s).room]
    <3>1. CASE <<s, n>> # c
      BY <1>0, <1>n, <2>1, <2>3, <2>7, <2>8, <3>1 DEF Settled
    <3>2. CASE <<s, n>> = c
      <4>1. pc[c] \in Connecting /\ c[1] = s
        BY <1>4, <2>6, <3>2, Commanded
      <4>2. CASE ConnGet(c)
        BY <1>0, <2>2, <2>5, <2>7, <2>8, <3>2, <4>1, <4>2 DEF ConnGet, Goto
      <4>3. CASE ConnAdd(c)
        BY <1>0, <1>t, <2>2, <2>5, <4>1, <4>3 DEF ConnAdd
      <4>4. CASE ConnIncr(c)
        BY <2>3, <2>7, <3>2, <4>4 DEF ConnIncr, Settled
      <4>5. CASE ConnSet(c)
        BY <1>0, <2>8, <3>2, <4>5 DEF ConnSet, Goto
      <4> QED
        BY <1>4, <4>1, <4>2, <4>3, <4>4, <4>5
           DEF Command, DisCount, DisDecr, DisDel, DisList, DisPublish, Connecting
    <3> QED
      BY <3>1, <3>2
  <2> QED
    BY <2>1, <2>2, <2>3, <2>7, <2>8 DEF Settled
<1>5. ASSUME NEW c \in Calls, Reply(c)
      PROVE  Settled(s)'
  <2>1. /\ UNCHANGED <<calls, req, roomUser, overlapped>> /\ pc[c] = "reply"
        /\ \A n \in 1 .. calls[s] : pc'[<<s, n>>] \in {"incr", "reply"} => pc[<<s, n>>] \in {"incr", "reply"}
    BY <1>0, <1>5, <1>n DEF Reply, Goto
  <2>2. Has(s) /\ Joined(s) /\ overlapped[Last(s).user] = "no"
    BY <1>c, <2>1, NoJoin
  <2>3. CASE c[1] = s /\ Awaited(c)
    <3>1. c = <<s, calls[s]>> /\ calls[s] \in 1 .. calls[s]
      BY <1>0, <2>2, <2>3, CallFacts DEF Awaited, Has
    <3>2. Last(s).user \in roomUser[Last(s).room]
      BY <1>s, <2>1, <2>2, <3>1 DEF Settled
    <3> QED
      BY <2>1, <3>2 DEF Settled, Last, Cur
  <2>4. CASE ~(c[1] = s /\ Awaited(c))
    <3>1. phase'[s] = phase[s] /\ chRoom'[s] = chRoom[s]
      BY <1>0, <1>5, <2>4 DEF Reply, Shape, TypeOK
    <3> QED
      BY <1>u, <2>1, <2>2, <3>1
  <2> QED
    BY <2>3, <2>4
<1>6. CASE Failure
  <2>1. UNCHANGED <<calls, req, roomUser, chRoom>> /\ (phase'[s] = "read" => phase[s] = "read")
    BY <1>0, <1>6 DEF Failure, Crash, LogicCrash, LoseKey
  <2>2. \A n \in 1 .. calls[s] : pc'[<<s, n>>] \in {"incr", "reply"} => pc[<<s, n>>] \in {"incr", "reply"}
    BY <1>6, <1>n DEF Failure, Crash, LogicCrash, LoseKey
  <2>3. ~(\E j \in Sessions, u \in Users, r \in RoomIds : Join(j, u, r))
    BY <2>1, NoJoin
  <2> QED
    BY <1>c, <1>u, <2>1, <2>2, <2>3
<1>7. CASE UNCHANGED vars
  <2>1. Has(s) /\ Joined(s) /\ overlapped[Last(s).user] = "no"
    BY <1>7 DEF vars, Has, Joined, Last, Cur
  <2> QED
    BY <1>7, <1>u, <2>1 DEF vars
<1> QED
  BY <1>1, <1>2, <1>3, <1>4, <1>5, <1>6, <1>7, Steps DEF Failure
LEMMA UnlistedStep ==
  ASSUME Shape, Alone, InTurn, Unlisted, [Next]_vars
  PROVE  Unlisted'
<1> USE DEF boundVars, connVars, chanVars, redisVars, callVars
<1>0. /\ pc \in [Calls -> States] /\ snap \in [Calls -> SUBSET Users] /\ roomUser \in [RoomIds -> SUBSET Users]
  BY DEF Shape, TypeOK, States
<1> DEFINE Off(c) == /\ pc[c] = "list" => req[c].user \notin roomUser[req[c].room]
                     /\ pc[c] = "publish" => req[c].user \notin snap[c]
<1> SUFFICES ASSUME Faultless', NEW c \in Calls, pc'[c] # "done", overlapped'[req'[c].user] = "no"
             PROVE  Off(c)'
  BY DEF Unlisted, Running
<1>f. Faultless
  BY Faultlessly
<1>w. pc[c] # "done" => req[c].user \in Users /\ req[c].room \in RoomIds
  BY RunFacts
<1>k. ASSUME pc'[c] = pc[c], req'[c] = req[c], snap'[c] = snap[c],
             req[c].user \in roomUser'[req[c].room] => req[c].user \in roomUser[req[c].room]
      PROVE  Off(c)'
  BY <1>f, <1>k, <1>w, Lasting DEF Unlisted, Running
<1>i. ASSUME NEW s \in Sessions, NEW q \in Requests, Issue(s, q), calls[s] < CallMax, UNCHANGED <<roomUser, snap>>
      PROVE  Off(c)'
  <2>1. CASE c = Cur(s)'
    BY <1>i, <2>1, Latest
  <2>2. CASE c # Cur(s)'
    <3>1. pc'[c] = pc[c] /\ req'[c] = req[c]
      BY <1>i, <2>2, Latest
    <3> QED
      BY <1>i, <1>k, <3>1
  <2> QED
    BY <2>1, <2>2
<1>1. ASSUME NEW s \in Sessions, NEW u \in Users, NEW r \in RoomIds, Join(s, u, r)
      PROVE  Off(c)'
  BY <1>1, <1>i, Asks DEF Join
<1>2. ASSUME NEW s \in Sessions, Quit(s)
      PROVE  Off(c)'
  <2>1. CASE chRoom[s] = Nil
    BY <1>2, <1>k, <2>1 DEF Quit
  <2>2. CASE chRoom[s] # Nil
    BY <1>2, <1>i, <2>2, Asks DEF Quit
  <2> QED
    BY <2>1, <2>2
<1>3. ASSUME NEW d \in Calls, Command(d)
      PROVE  Off(c)'
  <2>1. UNCHANGED <<req, overlapped>> /\ pc' = [pc EXCEPT ![d] = pc'[d]] /\ pc[d] # "done"
    BY <1>3, Commanded
  <2>2. pc[c] # "done" /\ req[c].user \in Users /\ req[c].room \in RoomIds /\ overlapped[req[c].user] = "no"
    <3>1. pc[c] # "done"
      BY <1>0, <2>1
    <3> QED
      BY <1>w, <2>1, <3>1
  <2>3. /\ pc[c] = "list" => req[c].user \notin roomUser[req[c].room]
        /\ pc[c] = "publish" => req[c].user \notin snap[c]
    BY <1>f, <2>2 DEF Unlisted, Running
  <2>4. CASE d = c
    <3>1. CASE DisDel(c)
      BY <1>0, <2>1, <2>2, <3>1 DEF DisDel, Removed, Goto
    <3>2. CASE DisList(c)
      BY <1>0, <2>1, <2>2, <2>3, <3>2 DEF DisList, Goto
    <3>3. CASE ~DisDel(c) /\ ~DisList(c)
      <4>1. pc'[c] \notin {"list", "publish"}
        BY <1>0, <1>3, <2>4, <3>3
           DEF Command, ConnSet, ConnGet, ConnAdd, ConnIncr, DisCount, DisDecr, DisPublish, Goto
      <4> QED
        BY <4>1
    <3> QED
      BY <3>1, <3>2, <3>3
  <2>5. CASE d # c
    <3>1. pc'[c] = pc[c] /\ req'[c] = req[c]
      BY <1>0, <2>1, <2>5
    <3>2. snap'[c] = snap[c]
      BY <1>0, <1>3, <2>5
         DEF Command, ConnSet, ConnGet, ConnAdd, ConnIncr, DisCount, DisDecr, DisDel, DisList, DisPublish
    <3>3. req[c].user \in roomUser'[req[c].room] => req[c].user \in roomUser[req[c].room]
      <4>1. CASE ConnAdd(d)
        <5>1. c = Cur(c[1]) /\ d = Cur(d[1]) /\ c[1] \in Sessions /\ d[1] \in Sessions
          BY <1>f, <2>1, <2>2, AtWork
        <5>2. /\ Has(c[1]) /\ Has(d[1]) /\ Active(c[1]) /\ Active(d[1])
              /\ req[c] = Last(c[1]) /\ req[d] = Last(d[1])
          BY <1>f, <2>1, <2>2, AtWork
        <5>3. req[d].user # req[c].user
          BY <2>2, <2>5, <5>1, <5>2 DEF Alone, Pair
        <5> QED
          BY <1>0, <2>2, <4>1, <5>3 DEF ConnAdd
      <4>2. CASE DisDel(d)
        BY <1>0, <2>2, <4>2 DEF DisDel, Removed
      <4>3. CASE ~ConnAdd(d) /\ ~DisDel(d)
        BY <1>3, <4>3 DEF Command, ConnSet, ConnGet, ConnIncr, DisCount, DisDecr, DisList, DisPublish
      <4> QED
        BY <4>1, <4>2, <4>3
    <3> QED
      BY <1>k, <3>1, <3>2, <3>3
  <2> QED
    BY <2>4, <2>5
<1>4. ASSUME NEW d \in Calls, Reply(d)
      PROVE  Off(c)'
  <2>1. pc'[c] = pc[c]
    BY <1>0, <1>4 DEF Reply, Goto
  <2> QED
    BY <1>4, <1>k, <2>1 DEF Reply
<1>5. CASE UNCHANGED vars \/ \E u \in Users : LoseKey(u)
  BY <1>5, <1>k DEF LoseKey, vars
<1> QED
  BY <1>1, <1>2, <1>3, <1>4, <1>5, Faultlessly
-------------------------------------------------------------------------------
(* The counter of a room. *)

LEMMA CountedFacts ==
  ASSUME Shape, NEW r
  PROVE  /\ IsFiniteSet(Counted(r)) /\ Cardinality(Counted(r)) \in Nat
         /\ \A s \in Sessions \ Counted(r) : Cardinality(Counted(r) \cup {s}) = Cardinality(Counted(r)) + 1
         /\ \A s \in Counted(r) : Cardinality(Counted(r) \ {s}) = Cardinality(Counted(r)) - 1
<1>1. IsFiniteSet(Counted(r))
  BY FS_Subset, PresenceAssumption DEF PresenceAssumption, Counted
<1>2. Cardinality(Counted(r)) \in Nat
  BY <1>1, FS_CardinalityType
<1>3. \A s \in Sessions \ Counted(r) : Cardinality(Counted(r) \cup {s}) = Cardinality(Counted(r)) + 1
  BY <1>1, FS_AddElement
<1>4. \A s \in Counted(r) : Cardinality(Counted(r) \ {s}) = Cardinality(Counted(r)) - 1
  BY <1>1, FS_RemoveElement
<1> QED
  BY <1>1, <1>2, <1>3, <1>4

\* A step that changes neither the list nor the counter, nor who accounts for them.
LEMMA AccountKept ==
  ASSUME NEW r, AccountedAt(r), OneAtATime' => OneAtATime,
         online'[r] = online[r], roomUser'[r] = roomUser[r],
         \A s \in Sessions : Has(s)' /\ Last(s)'.room = r => (Has(s) /\ Last(s).room = r) \/ ~Counts(s)',
         \A s \in Sessions : Has(s) /\ Last(s).room = r =>
           /\ Has(s)' /\ Last(s)'.room = r /\ Last(s)'.user = Last(s).user
           /\ Counts(s)' <=> Counts(s)
           /\ Holds(s) => Holds(s)'
  PROVE  AccountedAt(r)'
<1>1. Counted(r)' = Counted(r)
  BY DEF Counted
<1>2. \A u \in roomUser'[r] : \E s \in Sessions : For(s, u, r)' /\ Holds(s)'
  BY DEF AccountedAt, For
<1> QED
  BY <1>1, <1>2 DEF AccountedAt
\* A handler's command, for the room it is about.
LEMMA AccountCommand ==
  ASSUME Shape, Constant, Alone, InTurn, Accounted, [Next]_vars, Faultless, OneJoinEach,
         NEW c \in Calls, Command(c),
         NEW r \in RoomIds, r > 0, r = req[c].room, NEW u, u = req[c].user
  PROVE  AccountedAt(r)'
<1> DEFINE s == c[1]
<1>0. /\ pc \in [Calls -> States] /\ roomUser \in [RoomIds -> SUBSET Users] /\ online \in [RoomIds -> Int]
      /\ online[r] \in Int
  BY DEF Shape, TypeOK, States
<1>1. UNCHANGED <<calls, req, phase, overlapped>> /\ pc' = [pc EXCEPT ![c] = pc'[c]] /\ pc[c] # "done"
  BY Commanded DEF connVars
<1>2. /\ s \in Sessions /\ Has(s) /\ c = Cur(s) /\ req[c] = Last(s) /\ Active(s)
      /\ u \in Users /\ For(s, u, r)
      /\ pc[c] \in Connecting => phase[s] = "connect"
      /\ pc[c] \in Parting => phase[s] = "leave"
  BY <1>1, AtWork DEF For
<1>3. /\ \A o \in Sessions : (Has(o)' <=> Has(o)) /\ Last(o)' = Last(o) /\ Cur(o)' = Cur(o)
      /\ \A v : \A o \in Sessions : For(o, v, r)' <=> For(o, v, r)
      /\ OneAtATime' <=> OneAtATime
  BY <1>1 DEF Has, Last, Cur, For, OneAtATime
<1>4. \A o \in Sessions \ {s} : (Holds(o)' <=> Holds(o)) /\ (Counts(o)' <=> Counts(o))
  <2> TAKE o \in Sessions \ {s}
  <2>1. phase[o] \in {"connect", "leave"} => pc'[Cur(o)] = pc[Cur(o)]
    <3>1. phase[o] \in {"connect", "leave"} => Cur(o) \in Calls
      BY CurFacts DEF Shape, Reading, ReaderOK
    <3>2. Cur(o) # c
      BY <1>2 DEF Cur
    <3> QED
      BY <1>0, <1>1, <3>1, <3>2
  <2> QED
    BY <1>1, <1>3, <2>1 DEF Holds, Counts
<1>5. AccountedAt(r)
  BY DEF Accounted
<1>c. /\ IsFiniteSet(Counted(r)) /\ Cardinality(Counted(r)) \in Nat
      /\ s \notin Counted(r) => Cardinality(Counted(r) \cup {s}) = Cardinality(Counted(r)) + 1
      /\ s \in Counted(r) => Cardinality(Counted(r) \ {s}) = Cardinality(Counted(r)) - 1
  BY <1>2, CountedFacts
<1>d. /\ Counts(s)' /\ Counts(s) => Counted(r)' = Counted(r) /\ s \in Counted(r)
      /\ ~Counts(s)' /\ ~Counts(s) => Counted(r)' = Counted(r) /\ s \notin Counted(r)
      /\ Counts(s)' /\ ~Counts(s) => Counted(r)' = Counted(r) \cup {s} /\ s \notin Counted(r)
      /\ ~Counts(s)' /\ Counts(s) => Counted(r)' = Counted(r) \ {s} /\ s \in Counted(r)
  <2>1. \A o \in Sessions \ {s} : o \in Counted(r)' <=> o \in Counted(r)
    BY <1>3, <1>4 DEF Counted
  <2>2. (s \in Counted(r) <=> Counts(s)) /\ (s \in Counted(r)' <=> Counts(s)')
    BY <1>2, <1>3 DEF Counted, For
  <2>3. Counted(r) \subseteq Sessions /\ Counted(r)' \subseteq Sessions
    BY DEF Counted
  <2> QED
    BY <1>2, <2>1, <2>2, <2>3
<1>h. /\ phase[s] = "connect" => (Holds(s) <=> pc[c] \in {"incr", "reply"}) /\ (Holds(s)' <=> pc'[c] \in {"incr", "reply"})
                              /\ (Counts(s) <=> pc[c] = "reply") /\ (Counts(s)' <=> pc'[c] = "reply")
      /\ phase[s] = "leave" => (Holds(s) <=> pc[c] \in {"count", "decr", "del"}) /\ (Holds(s)' <=> pc'[c] \in {"count", "decr", "del"})
                            /\ (Counts(s) <=> pc[c] \in {"count", "decr"}) /\ (Counts(s)' <=> pc'[c] \in {"count", "decr"})
  BY <1>1, <1>2, <1>3 DEF Holds, Counts
<1>l. ASSUME roomUser'[r] \subseteq roomUser[r], Holds(s) => Holds(s)'
      PROVE  \A v \in roomUser'[r] : \E o \in Sessions : For(o, v, r)' /\ Holds(o)'
  <2> TAKE v \in roomUser'[r]
  <2>1. PICK o \in Sessions : For(o, v, r) /\ Holds(o)
    BY <1>5, <1>l DEF AccountedAt
  <2>2. For(o, v, r)' /\ Holds(o)'
    BY <1>3, <1>4, <1>l, <2>1
  <2> QED
    BY <2>2
<1>6. CASE ConnSet(c)
  <2>1. pc[c] = "set" /\ pc'[c] = "get" /\ UNCHANGED <<roomUser, online>>
    BY <1>0, <1>6 DEF ConnSet, Goto
  <2>2. Holds(s) => Holds(s)'
    BY <1>2, <1>h, <2>1 DEF Connecting
  <2>3. Counted(r)' = Counted(r)
    BY <1>2, <1>d, <1>h, <2>1 DEF Connecting
  <2> QED
    BY <1>3, <1>5, <1>l, <2>1, <2>2, <2>3 DEF AccountedAt
<1>7. CASE ConnGet(c)
  <2>1. pc[c] = "get" /\ pc'[c] = (IF u \in roomUser[r] THEN "reply" ELSE "add") /\ UNCHANGED <<roomUser, online>>
    BY <1>0, <1>7 DEF ConnGet, Goto, redisVars
  <2>2. Holds(s) => Holds(s)'
    BY <1>2, <1>h, <2>1 DEF Connecting
  <2>3. CASE u \in roomUser[r]
    <3>1. Counted(r)' = Counted(r) \cup {s} /\ s \notin Counted(r)
      BY <1>2, <1>d, <1>h, <2>1, <2>3 DEF Connecting
    <3>2. Cardinality(Counted(r)') = Cardinality(Counted(r)) + 1
      BY <1>c, <3>1
    <3>3. ~OneAtATime
      <4>1. PICK o \in Sessions : For(o, u, r) /\ Holds(o)
        BY <1>5, <2>3 DEF AccountedAt
      <4>2. ~Holds(s)
        BY <1>2, <1>h, <2>1 DEF Connecting
      <4>3. o # s /\ Pair(o, s) /\ Active(o) /\ Last(o).user = u
        BY <1>2, <4>1, <4>2 DEF For, Pair, Holds, Active
      <4> QED
        BY <1>2, <4>3 DEF Alone, OneAtATime
    <3>4. online'[r] <= Cardinality(Counted(r)')
      BY <1>0, <1>5, <1>c, <2>1, <3>2 DEF AccountedAt
    <3>5. \A v \in roomUser'[r] : \E o \in Sessions : For(o, v, r)' /\ Holds(o)'
      BY <1>l, <2>1, <2>2
    <3> QED
      BY <1>3, <3>3, <3>4, <3>5 DEF AccountedAt
  <2>4. CASE u \notin roomUser[r]
    <3>1. Counted(r)' = Counted(r)
      BY <1>2, <1>d, <1>h, <2>1, <2>4 DEF Connecting
    <3> QED
      BY <1>3, <1>5, <1>l, <2>1, <2>2, <3>1 DEF AccountedAt
  <2> QED
    BY <2>3, <2>4
<1>8. CASE ConnAdd(c)
  <2>1. /\ pc[c] = "add" /\ pc'[c] = "incr" /\ UNCHANGED online
        /\ roomUser'[r] = roomUser[r] \cup {u}
    BY <1>0, <1>8 DEF ConnAdd, Goto
  <2>2. Holds(s)' /\ For(s, u, r)'
    BY <1>2, <1>3, <1>h, <2>1 DEF Connecting
  <2>3. Counted(r)' = Counted(r)
    BY <1>2, <1>d, <1>h, <2>1 DEF Connecting
  <2>4. ASSUME NEW v \in roomUser'[r]
        PROVE  \E o \in Sessions : For(o, v, r)' /\ Holds(o)'
    <3>1. CASE v = u
      BY <1>2, <2>2, <3>1
    <3>2. CASE v # u
      <4>1. PICK o \in Sessions : For(o, v, r) /\ Holds(o)
        BY <1>5, <2>1, <2>4, <3>2 DEF AccountedAt
      <4>2. For(o, v, r)' /\ Holds(o)'
        BY <1>3, <1>4, <2>2, <4>1
      <4> QED
        BY <4>2
    <3> QED
      BY <3>1, <3>2
  <2> QED
    BY <1>3, <1>5, <2>1, <2>3, <2>4 DEF AccountedAt
<1>9. CASE ConnIncr(c)
  <2>1. pc[c] = "incr" /\ pc'[c] = "reply" /\ UNCHANGED roomUser /\ online'[r] = online[r] + 1
    BY <1>0, <1>9 DEF ConnIncr, Goto
  <2>2. Holds(s) => Holds(s)'
    BY <1>2, <1>h, <2>1 DEF Connecting
  <2>3. Counted(r)' = Counted(r) \cup {s} /\ s \notin Counted(r)
    BY <1>2, <1>d, <1>h, <2>1 DEF Connecting
  <2>4. Cardinality(Counted(r)') = Cardinality(Counted(r)) + 1
    BY <1>c, <2>3
  <2>5. online'[r] <= Cardinality(Counted(r)')
    BY <1>0, <1>5, <1>c, <2>1, <2>4 DEF AccountedAt
  <2>6. OneAtATime => online'[r] = Cardinality(Counted(r)')
    BY <1>5, <2>1, <2>4 DEF AccountedAt
  <2>7. \A v \in roomUser'[r] : \E o \in Sessions : For(o, v, r)' /\ Holds(o)'
    BY <1>l, <2>1, <2>2
  <2> QED
    BY <1>3, <2>5, <2>6, <2>7 DEF AccountedAt
<1>10. CASE DisCount(c)
  <2>1. pc[c] = "count" /\ pc'[c] = (IF online[r] > 0 THEN "decr" ELSE "del") /\ UNCHANGED <<roomUser, online>>
    BY <1>0, <1>10 DEF DisCount, Countable, Goto, redisVars
  <2>2. Holds(s) => Holds(s)'
    BY <1>2, <1>h, <2>1 DEF Parting
  <2>7. \A v \in roomUser'[r] : \E o \in Sessions : For(o, v, r)' /\ Holds(o)'
    BY <1>l, <2>1, <2>2
  <2>3. CASE online[r] > 0
    <3>1. Counted(r)' = Counted(r)
      BY <1>2, <1>d, <1>h, <2>1, <2>3 DEF Parting
    <3> QED
      BY <1>3, <1>5, <2>1, <2>7, <3>1 DEF AccountedAt
  <2>4. CASE ~(online[r] > 0)
    <3>1. Counted(r)' = Counted(r) \ {s} /\ s \in Counted(r)
      BY <1>2, <1>d, <1>h, <2>1, <2>4 DEF Parting
    <3>2. Cardinality(Counted(r)') = Cardinality(Counted(r)) - 1
      BY <1>c, <3>1
    <3>3. Cardinality(Counted(r)') \in Nat
      BY <1>c, <3>1, FS_RemoveElement, FS_CardinalityType
    <3>4. online'[r] <= Cardinality(Counted(r)')
      BY <1>0, <2>1, <2>4, <3>3
    <3>5. Cardinality(Counted(r)) # online[r]
      BY <1>0, <1>c, <2>4, <3>2, <3>3
    <3>6. ~OneAtATime
      BY <1>5, <3>5 DEF AccountedAt
    <3> QED
      BY <1>3, <2>7, <3>4, <3>6 DEF AccountedAt
  <2> QED
    BY <2>3, <2>4
<1>11. CASE DisDecr(c)
  <2>1. pc[c] = "decr" /\ pc'[c] = "del" /\ UNCHANGED roomUser /\ online'[r] = online[r] - 1
    BY <1>0, <1>11 DEF DisDecr, Goto
  <2>2. Holds(s) => Holds(s)'
    BY <1>2, <1>h, <2>1 DEF Parting
  <2>3. Counted(r)' = Counted(r) \ {s} /\ s \in Counted(r)
    BY <1>2, <1>d, <1>h, <2>1 DEF Parting
  <2>4. Cardinality(Counted(r)') = Cardinality(Counted(r)) - 1
    BY <1>c, <2>3
  <2>5. online'[r] <= Cardinality(Counted(r)')
    BY <1>0, <1>5, <1>c, <2>1, <2>4 DEF AccountedAt
  <2>6. OneAtATime => online'[r] = Cardinality(Counted(r)')
    BY <1>5, <2>1, <2>4 DEF AccountedAt
  <2>7. \A v \in roomUser'[r] : \E o \in Sessions : For(o, v, r)' /\ Holds(o)'
    BY <1>l, <2>1, <2>2
  <2> QED
    BY <1>3, <2>5, <2>6, <2>7 DEF AccountedAt
<1>12. CASE DisDel(c)
  <2>1. pc[c] = "del" /\ pc'[c] = "list" /\ UNCHANGED online /\ roomUser'[r] = roomUser[r] \ {u}
    BY <1>0, <1>12 DEF DisDel, Removed, Goto
  <2>2. Counted(r)' = Counted(r)
    BY <1>2, <1>d, <1>h, <2>1 DEF Parting
  <2>3. ASSUME NEW v \in roomUser'[r]
        PROVE  \E o \in Sessions : For(o, v, r)' /\ Holds(o)'
    <3>1. PICK o \in Sessions : For(o, v, r) /\ Holds(o)
      BY <1>5, <2>1, <2>3 DEF AccountedAt
    <3>2. o # s
      BY <1>2, <2>1, <2>3, <3>1 DEF For
    <3>3. For(o, v, r)' /\ Holds(o)'
      BY <1>3, <1>4, <3>1, <3>2
    <3> QED
      BY <3>3
  <2> QED
    BY <1>3, <1>5, <2>1, <2>2, <2>3 DEF AccountedAt
<1>13. CASE DisList(c) \/ DisPublish(c)
  <2>1. pc[c] \in {"list", "publish"} /\ pc'[c] \in {"publish", "reply"} /\ UNCHANGED <<roomUser, online>>
    BY <1>0, <1>13 DEF DisList, DisPublish, Goto, redisVars
  <2>2. (Holds(s) => Holds(s)') /\ Counted(r)' = Counted(r)
    BY <1>2, <1>d, <1>h, <2>1 DEF Parting
  <2> QED
    BY <1>3, <1>5, <1>l, <2>1, <2>2 DEF AccountedAt
<1> QED
  BY <1>6, <1>7, <1>8, <1>9, <1>10, <1>11, <1>12, <1>13 DEF Command
LEMMA AccountedStep ==
  ASSUME Shape, Constant, Alone, InTurn, Accounted, [Next]_vars
  PROVE  Accounted'
<1> USE DEF boundVars, connVars, chanVars, redisVars, callVars
<1>0. /\ calls \in [Sessions -> 0 .. CallMax] /\ pc \in [Calls -> States] /\ joins \in [Sessions -> Nat]
      /\ phase \in [Sessions -> {"read", "connect", "leave", "closed", "lost"}]
      /\ \A o \in Sessions : ReaderOK(o) /\ calls[o] \in Nat
      /\ Nil \notin Users /\ NoRoom \notin {r \in RoomIds : r > 0}
  BY PresenceAssumption, CallFacts, Limited DEF PresenceAssumption, Shape, TypeOK, CallMax, States, Reading, NoRoom
<1> SUFFICES ASSUME Faultless', OneJoinEach', NEW r \in RoomIds, r > 0 PROVE AccountedAt(r)'
  BY DEF Accounted
<1>f. Faultless /\ OneJoinEach /\ (OneAtATime' => OneAtATime)
  BY Faultlessly, Lasting
<1>a. AccountedAt(r)
  BY <1>f DEF Accounted
<1>s. \A o \in Sessions : Has(o) => Same(o)
  BY <1>f DEF Constant
<1>u. ASSUME UNCHANGED <<calls, req, phase, roomUser, online, pc>>
      PROVE  AccountedAt(r)'
  BY <1>a, <1>f, <1>u, AccountKept DEF Has, Last, Cur, Holds, Counts
<1>i. ASSUME NEW s \in Sessions, NEW q \in Requests, Issue(s, q), calls[s] < CallMax,
             \A o \in Sessions \ {s} : phase'[o] = phase[o],
             UNCHANGED <<roomUser, online>>,
             \/ ~Has(s) /\ phase'[s] = "connect" /\ q.op = "Connect"
             \/ phase[s] = "read" /\ phase'[s] = "leave" /\ q.op = "DisConnect"
                /\ Has(s) /\ q.user = Last(s).user /\ q.room = Last(s).room
      PROVE  AccountedAt(r)'
  <2>1. /\ \A o \in Sessions \ {s} :
             /\ (Has(o)' <=> Has(o)) /\ Cur(o)' = Cur(o)
             /\ Has(o) => Last(o)' = Last(o) /\ pc'[Cur(o)] = pc[Cur(o)]
        /\ Has(s)' /\ Last(s)' = q /\ pc'[Cur(s)'] = IF q.op = "Connect" THEN "set" ELSE "count"
    BY <1>i, Latest
  <2>2. \A o \in Sessions \ {s} : Has(o) => (Counts(o)' <=> Counts(o)) /\ (Holds(o)' <=> Holds(o))
    BY <1>i, <2>1 DEF Counts, Holds
  <2>3. CASE ~Has(s) /\ phase'[s] = "connect" /\ q.op = "Connect"
    <3>1. ~Counts(s)'
      BY <2>1, <2>3 DEF Counts
    <3> QED
      BY <1>a, <1>f, <1>i, <2>1, <2>2, <2>3, <3>1, AccountKept
  <2>4. CASE /\ phase[s] = "read" /\ phase'[s] = "leave" /\ q.op = "DisConnect"
             /\ Has(s) /\ q.user = Last(s).user /\ q.room = Last(s).room
    <3>1. Counts(s)' /\ Counts(s) /\ Holds(s)'
      BY <2>1, <2>4 DEF Counts, Holds
    <3> QED
      BY <1>a, <1>f, <1>i, <2>1, <2>2, <2>4, <3>1, AccountKept
  <2> QED
    BY <1>i, <2>3, <2>4
<1>1. ASSUME NEW s \in Sessions, NEW u \in Users, NEW v \in RoomIds, Join(s, u, v)
      PROVE  AccountedAt(r)'
  <2>1. joins'[s] = joins[s] + 1 /\ joins'[s] <= 1 /\ phase'[s] = "connect"
    BY <1>0, <1>1 DEF Join, OneJoinEach
  <2>2. ~Has(s)
    BY <1>0, <2>1 DEF ReaderOK
  <2> QED
    BY <1>0, <1>1, <1>i, <2>1, <2>2, Asks DEF Join
<1>2. ASSUME NEW s \in Sessions, Quit(s)
      PROVE  AccountedAt(r)'
  <2>1. CASE chRoom[s] = Nil
    <3>1. /\ UNCHANGED <<calls, req, roomUser, online, pc>> /\ phase[s] = "read" /\ phase'[s] = "closed"
          /\ \A o \in Sessions \ {s} : phase'[o] = phase[o]
      BY <1>0, <1>2, <2>1 DEF Quit
    <3>2. /\ \A o \in Sessions : (Has(o)' <=> Has(o)) /\ Last(o)' = Last(o)
          /\ \A o \in Sessions \ {s} : (Counts(o)' <=> Counts(o)) /\ (Holds(o)' <=> Holds(o))
          /\ ~Counts(s)'
      BY <3>1 DEF Has, Last, Cur, Counts, Holds
    <3>3. Has(s) => Last(s).room # r
      <4>1. Has(s) => Last(s).user \in Users
        BY CurFacts DEF Requests
      <4>2. Has(s) => chUser[s] # Nil
        BY <1>0, <3>1, <4>1 DEF ReaderOK
      <4>3. Has(s) => Last(s).room = NoRoom \/ Last(s).room = Nil
        BY <1>s, <2>1, <4>2 DEF Same
      <4> QED
        BY <1>0, <4>3, PresenceAssumption DEF PresenceAssumption
    <3> QED
      BY <1>a, <1>f, <3>1, <3>2, <3>3, AccountKept
  <2>2. CASE chRoom[s] # Nil
    <3> DEFINE q == [op |-> "DisConnect", user |-> chUser[s], room |-> chRoom[s]]
    <3>1. q \in Requests /\ calls[s] < CallMax /\ Issue(s, q) /\ UNCHANGED <<roomUser, online>>
      BY <1>2, <2>2, Asks DEF Quit
    <3>2. Has(s) /\ q.user = Last(s).user /\ q.room = Last(s).room
      BY <1>0, <1>s, <2>2 DEF ReaderOK, Same
    <3>3. phase[s] = "read" /\ phase'[s] = "leave" /\ \A o \in Sessions \ {s} : phase'[o] = phase[o]
      BY <1>0, <1>2, <2>2 DEF Quit
    <3>4. q.op = "DisConnect"
      OBVIOUS
    <3> HIDE DEF q
    <3> QED
      BY <1>i, <3>1, <3>2, <3>3, <3>4
  <2> QED
    BY <2>1, <2>2
<1>3. ASSUME NEW c \in Calls, Command(c)
      PROVE  AccountedAt(r)'
  <2>1. UNCHANGED <<calls, req, phase>> /\ pc' = [pc EXCEPT ![c] = pc'[c]] /\ pc[c] # "done"
    BY <1>3, Commanded
  <2>2. c[1] \in Sessions /\ c = Cur(c[1]) /\ req[c] = Last(c[1])
    BY <1>f, <2>1, AtWork
  <2>3. CASE req[c].room = r
    BY <1>3, <1>f, <2>3, AccountCommand
  <2>4. CASE req[c].room # r
    <3>1. roomUser'[r] = roomUser[r] /\ online'[r] = online[r]
      BY <1>3, <2>4 DEF Command, ConnSet, ConnGet, ConnAdd, ConnIncr, DisCount, DisDecr, DisDel, DisList, DisPublish,
                        Shape, TypeOK
    <3>2. \A o \in Sessions : (Has(o)' <=> Has(o)) /\ Last(o)' = Last(o) /\ Cur(o)' = Cur(o)
      BY <2>1 DEF Has, Last, Cur
    <3>3. ASSUME NEW o \in Sessions, Last(o).room = r
          PROVE  (Holds(o)' <=> Holds(o)) /\ (Counts(o)' <=> Counts(o))
      <4>1. Cur(o) # c
        BY <2>4, <3>3 DEF Last
      <4>2. phase[o] \in {"connect", "leave"} => pc'[Cur(o)] = pc[Cur(o)]
        <5>1. phase[o] \in {"connect", "leave"} => Cur(o) \in Calls
          BY CurFacts DEF Shape, Reading, ReaderOK
        <5> QED
          BY <1>0, <2>1, <4>1, <5>1
      <4> QED
        BY <2>1, <3>2, <4>2 DEF Holds, Counts
    <3> QED
      BY <1>a, <1>f, <3>1, <3>2, <3>3, AccountKept
  <2> QED
    BY <2>3, <2>4
<1>4. ASSUME NEW c \in Calls, Reply(c)
      PROVE  AccountedAt(r)'
  <2> DEFINE s == c[1]
  <2>1. s \in Sessions /\ c = Cur(s) /\ Awaited(c) /\ pc[c] = "reply"
    BY <1>4, <1>f, AtWork DEF Reply
  <2>2. /\ UNCHANGED <<calls, req, roomUser, online>> /\ pc' = [pc EXCEPT ![c] = "done"]
        /\ \A o \in Sessions \ {s} : phase'[o] = phase[o]
        /\ phase[s] = "connect" => phase'[s] = "read"
        /\ phase[s] # "connect" => phase[s] = "leave" /\ phase'[s] = "closed"
    BY <1>0, <1>4, <2>1 DEF Reply, Goto, Awaited
  <2>3. \A o \in Sessions : (Has(o)' <=> Has(o)) /\ Last(o)' = Last(o) /\ Cur(o)' = Cur(o)
    BY <2>2 DEF Has, Last, Cur
  <2>4. ASSUME NEW o \in Sessions \ {s}
        PROVE  (Holds(o)' <=> Holds(o)) /\ (Counts(o)' <=> Counts(o))
    <3>1. Cur(o) # c
      BY <2>1 DEF Cur
    <3>2. phase[o] \in {"connect", "leave"} => pc'[Cur(o)] = pc[Cur(o)]
      <4>1. phase[o] \in {"connect", "leave"} => Cur(o) \in Calls
        BY CurFacts DEF Shape, Reading, ReaderOK
      <4> QED
        BY <1>0, <2>2, <3>1, <4>1
    <3> QED
      BY <2>2, <2>3, <3>2 DEF Holds, Counts
  <2>5. (Counts(s)' <=> Counts(s)) /\ (Holds(s) => Holds(s)')
    BY <2>1, <2>2, <2>3 DEF Holds, Counts
  <2> QED
    BY <1>a, <1>f, <2>2, <2>3, <2>4, <2>5, AccountKept
<1>5. CASE UNCHANGED vars \/ \E u \in Users : LoseKey(u)
  BY <1>5, <1>u DEF LoseKey, vars
<1> QED
  BY <1>1, <1>2, <1>3, <1>4, <1>5, Faultlessly
-------------------------------------------------------------------------------
(* The invariant of Presence. *)

LEMMA InvariantInit == Init => IInv
<1> SUFFICES ASSUME Init PROVE IInv
  OBVIOUS
<1>1. /\ \A s \in Sessions : calls[s] = 0 /\ joins[s] = 0 /\ retries[s] = 0 /\ chUser[s] = Nil /\ chRoom[s] = Nil
                             /\ phase[s] \in {"read", "closed"}
      /\ \A c \in Calls : req[c] = Nil /\ pc[c] = "done"
      /\ \A r \in RoomIds : roomUser[r] = {} /\ online[r] = 0
  BY DEF Init
<1>2. \A s \in Sessions : ~Has(s)
  BY <1>1 DEF Has
<1>3. TypeOK
  <2>1. limits.join \in 0 .. MaxJoin /\ limits.retry \in 0 .. MaxRetry /\ limits.crash \in Nat /\ limits.loss \in Nat
    BY PresenceAssumption DEF PresenceAssumption, Init, Limits
  <2>2. 0 \in 0 .. limits.join /\ 0 \in 0 .. limits.retry /\ 0 \in 0 .. MaxJoin + 1 + MaxRetry
    BY <2>1, PresenceAssumption DEF PresenceAssumption
  <2>3. calls \in [Sessions -> 0 .. MaxJoin + 1 + MaxRetry]
    BY <2>2 DEF Init
  <2>4. joins \in [Sessions -> 0 .. limits.join] /\ retries \in [Sessions -> 0 .. limits.retry]
    BY <2>2 DEF Init
  <2>5. crashes \in 0 .. limits.crash /\ losses \in 0 .. limits.loss
    BY <2>1 DEF Init
  <2>6. /\ userServer \in [Users -> {Server[s] : s \in Sessions} \cup {Nil}]
        /\ roomUser \in [RoomIds -> SUBSET Users] /\ online \in [RoomIds -> Int]
    BY DEF Init
  <2>8. told \in [RoomIds -> (SUBSET Users) \cup {Nil}]
    BY DEF Init
  <2>9. /\ phase \in [Sessions -> {"read", "connect", "leave", "closed", "lost"}]
        /\ chUser \in [Sessions -> Users \cup {Nil}]
        /\ chRoom \in [Sessions -> (RoomIds \ {NoRoom}) \cup {Nil}]
    BY DEF Init
  <2>7. /\ req \in [Calls -> [op : {"Connect", "DisConnect"}, user : Users, room : RoomIds] \cup {Nil}]
        /\ pc \in [Calls -> {"done", "set", "get", "add", "incr", "count", "decr", "del", "list",
                             "publish", "reply"}]
        /\ snap \in [Calls -> SUBSET Users]
        /\ limits \in Traffic
        /\ overlapped \in [Users -> {"no", "leaving", "open"}]
    BY DEF Init
  <2> QED
    BY <2>3, <2>4, <2>5, <2>6, <2>7, <2>8, <2>9 DEF TypeOK
<1>4. Requested
  BY <1>1, CallFacts DEF Requested, Connecting, Parting
<1>5. Reading
  BY <1>1, <1>2 DEF Reading, ReaderOK
<1>6. Constant /\ Alone /\ OneOpen /\ Listing
  BY <1>2 DEF Constant, Alone, OneOpen, Listing, Pair
<1>7. InTurn /\ Unlisted
  BY <1>1 DEF InTurn, Unlisted, Running
<1>8. Accounted
  <2>1. \A r : Counted(r) = {}
    BY <1>2 DEF Counted
  <2> QED
    BY <1>1, <2>1, FS_EmptySet DEF Accounted, AccountedAt
<1> QED
  BY <1>3, <1>4, <1>5, <1>6, <1>7, <1>8 DEF IInv, Shape

LEMMA InvariantStep == IInv /\ [Next]_vars => IInv'
<1> SUFFICES ASSUME IInv, [Next]_vars PROVE IInv'
  OBVIOUS
<1>1. Shape /\ Constant /\ Alone /\ OneOpen /\ InTurn /\ Listing /\ Accounted /\ Unlisted
  BY DEF IInv
<1>2. Shape'
  BY <1>1, TypeStep, RequestedStep, ReadingStep DEF Shape
<1>3. Constant' /\ Alone' /\ OneOpen' /\ InTurn'
  BY <1>1, ConstantStep, AloneStep, InTurnStep
<1>4. Listing' /\ Accounted' /\ Unlisted'
  BY <1>1, ListingStep, AccountedStep, UnlistedStep
<1> QED
  BY <1>2, <1>3, <1>4 DEF IInv

LEMMA InvariantHolds == Spec => []IInv
<1> QED
  BY InvariantInit, InvariantStep, PTL DEF Spec
\* What every proof about Delivery starts from: the state is well formed (logic/rpc.go,
\* connect/rpc.go).
THEOREM PresenceTypes == Spec => []TypeOK
<1>1. IInv => TypeOK
  BY DEF IInv, Shape
<1> QED
  BY <1>1, InvariantHolds, PTL

\* What a connection that has joined once knows of itself.
LEMMA RoomFacts ==
  ASSUME IInv, OneJoinEach, NEW s \in Sessions
  PROVE  /\ chRoom[s] # Nil => Has(s) /\ chUser[s] = Last(s).user /\ chRoom[s] = Last(s).room
         /\ phase[s] = "read" /\ Has(s) /\ Last(s).room # NoRoom => chRoom[s] = Last(s).room
         /\ phase[s] = "read" /\ Has(s) => chUser[s] = Last(s).user /\ chUser[s] \in Users
<1>1. ReaderOK(s) /\ (Has(s) => Same(s)) /\ Nil \notin Users
  BY PresenceAssumption DEF PresenceAssumption, IInv, Shape, Reading, Constant
<1>2. Has(s) => Last(s).user \in Users
  BY CurFacts DEF IInv, Requests
<1> QED
  BY <1>1, <1>2 DEF ReaderOK, Same

\* While nobody comes or goes, the counter of a room is the number of persons in it, if
\* every user has one connection at a time and nothing failed (logic/rpc.go Connect and
\* DisConnect).
THEOREM RoomsCountPersons == Spec => []PersonsCounted
<1>1. ASSUME IInv, OneAtATime, Faultless, OneJoinEach, NEW r \in RoomIds, r > 0, Quiet(r)
      PROVE  online[r] = Cardinality(Present(r))
  <2>0. Shape /\ Alone /\ AccountedAt(r) /\ r # NoRoom /\ r # Nil
    BY <1>1, PresenceAssumption DEF PresenceAssumption, IInv, Accounted, NoRoom
  <2>1. online[r] = Cardinality(Counted(r)) /\ IsFiniteSet(Counted(r))
    BY <1>1, <2>0, CountedFacts DEF AccountedAt
  <2>2. \A s \in Counted(r) : phase[s] = "read" /\ chRoom[s] = r /\ Has(s) /\ chUser[s] = Last(s).user /\ chUser[s] \in Users
    <3> TAKE s \in Counted(r)
    <3>1. s \in Sessions /\ Has(s) /\ Last(s).room = r /\ Counts(s)
      BY DEF Counted
    <3>2. phase[s] \notin {"connect", "leave"}
      BY <1>1, <3>1 DEF Quiet, Waiting, Last, Cur
    <3> QED
      BY <1>1, <2>0, <3>1, <3>2, RoomFacts DEF Counts
  <2>3. \A s \in Sessions : phase[s] = "read" /\ chRoom[s] = r => s \in Counted(r)
    BY <1>1, <2>0, RoomFacts DEF Counted, Counts
  <2>4. \A s, o \in Counted(r) : chUser[s] = chUser[o] => s = o
    BY <1>1, <2>0, <2>2 DEF Alone, Pair, Active, OneAtATime, Counted
  <2> DEFINE f == [s \in Counted(r) |-> chUser[s]]
  <2>5. f \in Bijection(Counted(r), Present(r))
    <3>1. f \in [Counted(r) -> Present(r)]
      BY <2>2 DEF Present, Counted
    <3>2. \A u \in Present(r) : \E s \in Counted(r) : f[s] = u
      BY <2>3 DEF Present
    <3>3. IsInjective(f)
      BY <2>4 DEF IsInjective
    <3> HIDE DEF f
    <3> QED
      BY <3>1, <3>2, <3>3 DEF Bijection, Injection, Surjection
  <2>6. ExistsBijection(Counted(r), Present(r))
    BY <2>5 DEF ExistsBijection
  <2> QED
    BY <2>1, <2>6, FS_Bijection
<1>2. IInv => PersonsCounted
  BY <1>1 DEF PersonsCounted, PersonCount
<1> QED
  BY <1>2, InvariantHolds, PTL

\* A user whose connection is in a room is listed in it, whatever fails, if he has one
\* connection at a time (logic/rpc.go Connect and DisConnect).
THEOREM JoinedIsListed == Spec => []ListedWhileIn
<1>1. ASSUME IInv, OneJoinEach, NEW s \in Sessions, phase[s] = "read", chRoom[s] # Nil, overlapped[chUser[s]] = "no"
      PROVE  chUser[s] \in roomUser[chRoom[s]]
  <2>1. Has(s) /\ chUser[s] = Last(s).user /\ chRoom[s] = Last(s).room
    BY <1>1, RoomFacts
  <2>2. Settled(s)
    BY <1>1, <2>1 DEF IInv, Listing, Joined
  <2> QED
    BY <1>1, <2>1, <2>2 DEF Settled
<1>2. IInv => ListedWhileIn
  BY <1>1 DEF ListedWhileIn
<1> QED
  BY <1>2, InvariantHolds, PTL

\* Once every connection has gone, no room lists anybody and no counter is above zero,
\* for any number of users and connections, if nothing failed (logic/rpc.go DisConnect).
THEOREM RoomsEmptyOut == Spec => []NobodyLeft
<1>1. ASSUME IInv, Faultless, OneJoinEach, \A s \in Sessions : phase[s] = "closed",
             NEW r \in RoomIds, r > 0
      PROVE  roomUser[r] = {} /\ online[r] <= 0
  <2>1. AccountedAt(r)
    BY <1>1 DEF IInv, Accounted
  <2>2. \A s \in Sessions : ~Holds(s) /\ ~Counts(s)
    BY <1>1 DEF Holds, Counts
  <2>3. Counted(r) = {}
    BY <2>2 DEF Counted
  <2>4. roomUser[r] = {}
    BY <2>1, <2>2 DEF AccountedAt
  <2> QED
    BY <2>1, <2>3, <2>4, FS_EmptySet DEF AccountedAt
<1>2. IInv => NobodyLeft
  BY <1>1 DEF NobodyLeft
<1> QED
  BY <1>2, InvariantHolds, PTL

\* The list DisConnect publishes does not name the leaver, if he has one connection at a
\* time and nothing failed (logic/rpc.go DisConnect).
THEOREM LeaverIsOffTheList == Spec => LeaverAbsent
<1>1. ASSUME IInv, [Next]_vars, NEW c \in Calls, Faultless, pc[c] = "publish", pc'[c] = "reply",
             overlapped[req[c].user] = "no"
      PROVE  req[c].user \notin told'[req[c].room]
  <2>0. Shape /\ pc \in [Calls -> States] /\ told \in [RoomIds -> (SUBSET Users) \cup {Nil}]
    BY <1>1 DEF IInv, Shape, TypeOK, States
  <2>1. req[c].user \notin snap[c] /\ req[c].room \in RoomIds
    BY <1>1, <2>0, RunFacts DEF IInv, Unlisted, Running
  <2>2. ASSUME NEW s \in Sessions, NEW q \in Requests, Issue(s, q), calls[s] < CallMax
        PROVE  FALSE
    <3>1. c # Cur(s)' => pc'[c] = pc[c]
      BY <2>0, <2>2, Latest
    <3>2. pc'[Cur(s)'] \in {"set", "count"}
      BY <2>0, <2>2, Latest
    <3> QED
      BY <1>1, <3>1, <3>2
  <2>3. ~(\E s \in Sessions, u \in Users, r \in RoomIds : Join(s, u, r)) /\ ~(\E s \in Sessions : Retry(s))
    BY <2>0, <2>2, Asks DEF Join, Retry, Last, Cur
  <2>4. ~(\E s \in Sessions : Quit(s))
    <3> SUFFICES ASSUME NEW s \in Sessions, Quit(s) PROVE FALSE
      OBVIOUS
    <3>1. CASE chRoom[s] = Nil
      BY <1>1, <3>1 DEF Quit
    <3>2. CASE chRoom[s] # Nil
      BY <2>0, <2>2, <3>2, Asks DEF Quit
    <3> QED
      BY <3>1, <3>2
  <2>5. ~(\E d \in Calls : Reply(d)) /\ ~LogicCrash /\ ~(\E s \in Sessions : Crash(Server[s]))
        /\ ~(\E u \in Users : LoseKey(u)) /\ ~(UNCHANGED vars)
    BY <1>1, <2>0 DEF Reply, Goto, LogicCrash, Crash, LoseKey, callVars, vars
  <2>6. PICK d \in Calls : Command(d)
    BY <1>1, <2>3, <2>4, <2>5, Steps
  <2>7. d = c
    BY <1>1, <2>0, <2>6, Commanded
  <2>8. DisPublish(c)
    BY <1>1, <2>6, <2>7 DEF Command, ConnSet, ConnGet, ConnAdd, ConnIncr, DisCount, DisDecr, DisDel, DisList
  <2> QED
    BY <2>0, <2>1, <2>8 DEF DisPublish
<1>2. IInv /\ [Next]_vars =>
        [\A c \in Calls : Faultless /\ pc[c] = "publish" /\ pc'[c] = "reply" /\ overlapped[req[c].user] = "no"
                           => req[c].user \notin told'[req[c].room]]_vars
  BY <1>1
<1> QED
  BY <1>2, InvariantHolds, PTL DEF Spec, LeaverAbsent
-------------------------------------------------------------------------------
(* Delivery: a step of it is a step of Presence. *)

LEMMA DeliveryInits == DeliveryInit => Init
BY DEF DeliveryInit

LEMMA DeliverySteps == [DeliveryNext]_dvars => [Next]_vars
<1> SUFFICES ASSUME [DeliveryNext]_dvars PROVE [Next]_vars
  OBVIOUS
<1>1. ASSUME NEW s \in Sessions, \/ \E u \in Users, r \in RoomIds : Join(s, u, r)
                                 \/ Retry(s) \/ Hangup(s)
      PROVE  Next
  BY <1>1 DEF Next, Reader, Hangup
<1>2. ASSUME NEW c \in Calls, Command(c) \/ Return(c)
      PROVE  Next
  BY <1>2 DEF Next, Handler, Command, Return
<1>3. ASSUME NEW k \in ServerIds, ServerDies(k)
      PROVE  Next
  BY <1>3 DEF Next, Failure, ServerDies, ServerIds
<1>4. ASSUME LogicCrash \/ \E u \in Users : LoseKey(u)
      PROVE  Next
  BY <1>4 DEF Next, Failure
<1>5. ASSUME NEW n \in Messages, Message(n)
      PROVE  UNCHANGED vars
  BY <1>5 DEF Message, Send, Publish, CallServer, LookUp, Push
<1>6. CASE UNCHANGED dvars
  BY <1>6 DEF dvars
<1> QED
  BY <1>1, <1>2, <1>3, <1>4, <1>5, <1>6 DEF DeliveryNext

\* Whatever holds of Presence holds of it inside Delivery: the way of a message, and the
\* Buckets, only watch (connect/rpc.go, task/push.go).
THEOREM DeliveryIsPresence == DeliverySpec => Spec
BY DeliveryInits, DeliverySteps, PTL DEF DeliverySpec, Spec

\* The connections that step in Delivery.
LEMMA DeliveryCases ==
  ASSUME [DeliveryNext]_dvars
  PROVE  \/ \E s \in Sessions, u \in Users, r \in RoomIds : Join(s, u, r) /\ Aside
         \/ \E s \in Sessions : Retry(s) /\ Aside
         \/ \E s \in Sessions : Hangup(s) /\ UNCHANGED msgVars
         \/ \E c \in Calls : Command(c) /\ Aside
         \/ \E c \in Calls : Return(c) /\ UNCHANGED msgVars
         \/ \E s \in Sessions : ServerDies(Server[s])
         \/ (LogicCrash \/ \E u \in Users : LoseKey(u)) /\ Aside
         \/ \E n \in Messages : Message(n)
         \/ UNCHANGED dvars
BY DEF DeliveryNext, ServerIds

LEMMA ServerFacts ==
  /\ \A s \in Sessions : Server[s] \in ServerIds
  /\ Nil \notin Sessions
BY DeliveryAssumption DEF DeliveryAssumption, ServerIds

LEMMA DeliveryTypeStep ==
  ASSUME IInv, DeliveryTypeOK, \A n \in Messages : Carries(n), [DeliveryNext]_dvars
  PROVE  DeliveryTypeOK' /\ \A n \in Messages : Carries(n)'
<1> USE DEF msgVars, Aside
<1>0. /\ chs \in [ServerIds -> [Users -> Sessions \cup {Nil}]]
      /\ stage \in [Messages -> {"new", "get", "work", "look", "push", "offered", "missed", "lost"}]
      /\ to \in [Messages -> Users \cup {Nil}] /\ serverId \in [Messages -> ServerIds \cup {Nil}]
      /\ channel \in [Messages -> Sessions \cup {Nil}]
      /\ taskUp \in BOOLEAN
      /\ meant \in [Messages -> SUBSET Sessions]
      /\ userServer \in [Users -> ServerIds \cup {Nil}]
  BY DEF DeliveryTypeOK, TypeOK, ServerIds
<1>t. TypeOK'
  BY DeliverySteps, TypeStep DEF IInv
<1>c. \A n \in Messages : Carries(n)
  OBVIOUS
<1>p. ASSUME chs' \in [ServerIds -> [Users -> Sessions \cup {Nil}]], UNCHANGED msgVars
      PROVE  DeliveryTypeOK' /\ \A n \in Messages : Carries(n)'
  BY <1>0, <1>c, <1>p, <1>t DEF DeliveryTypeOK, Carries
<1>1. ASSUME UNCHANGED chs, UNCHANGED msgVars
      PROVE  DeliveryTypeOK' /\ \A n \in Messages : Carries(n)'
  BY <1>0, <1>1, <1>p
<1>2. ASSUME NEW s \in Sessions, Hangup(s), UNCHANGED msgVars
      PROVE  DeliveryTypeOK' /\ \A n \in Messages : Carries(n)'
  <2>1. chs' \in [ServerIds -> [Users -> Sessions \cup {Nil}]]
    BY <1>0, <1>2, ServerFacts DEF Hangup, DeleteChannel
  <2> QED
    BY <1>2, <1>p, <2>1
<1>3. ASSUME NEW c \in Calls, Return(c), UNCHANGED msgVars
      PROVE  DeliveryTypeOK' /\ \A n \in Messages : Carries(n)'
  <2>1. c[1] \in Sessions
    BY CallFacts
  <2>2. chs' \in [ServerIds -> [Users -> Sessions \cup {Nil}]]
    BY <1>0, <1>3, <2>1, ServerFacts DEF Return, Put
  <2> QED
    BY <1>3, <1>p, <2>2
<1>4. ASSUME NEW s \in Sessions, ServerDies(Server[s])
      PROVE  DeliveryTypeOK' /\ \A n \in Messages : Carries(n)'
  <2>1. /\ chs' \in [ServerIds -> [Users -> Sessions \cup {Nil}]]
        /\ stage' \in [Messages -> {"new", "get", "work", "look", "push", "offered", "missed", "lost"}]
    BY <1>0, <1>4 DEF ServerDies
  <2>2. \A n \in Messages : Carries(n)'
    BY <1>0, <1>c, <1>4 DEF ServerDies, Carries
  <2> QED
    BY <1>0, <1>4, <1>t, <2>1, <2>2 DEF ServerDies, DeliveryTypeOK
<1>5. ASSUME NEW n \in Messages, NEW u \in Users, Send(n, u)
      PROVE  DeliveryTypeOK' /\ \A m \in Messages : Carries(m)'
  <2>1. Connected(u) \in SUBSET Sessions
    BY DEF Connected
  <2>2. \A m \in Messages : Carries(m)'
    BY <1>0, <1>c, <1>5 DEF Send, Carries
  <2> QED
    BY <1>0, <1>5, <1>t, <2>1, <2>2 DEF Send, DeliveryTypeOK
<1>6. ASSUME NEW n \in Messages, Publish(n)
      PROVE  DeliveryTypeOK' /\ \A m \in Messages : Carries(m)'
  <2>1. to[n] \in Users
    BY <1>6, <1>c DEF Publish, Carries
  <2>2. \A m \in Messages : Carries(m)'
    BY <1>0, <1>c, <1>6 DEF Publish, Carries
  <2>3. serverId' \in [Messages -> ServerIds \cup {Nil}]
    BY <1>0, <1>6, <2>1 DEF Publish
  <2>4. stage' \in [Messages -> {"new", "get", "work", "look", "push", "offered", "missed", "lost"}]
    BY <1>0, <1>6 DEF Publish
  <2> QED
    BY <1>0, <1>6, <1>t, <2>2, <2>3, <2>4 DEF Publish, DeliveryTypeOK
<1>7. ASSUME NEW n \in Messages, CallServer(n)
      PROVE  DeliveryTypeOK' /\ \A m \in Messages : Carries(m)'
  <2>1. \A m \in Messages : Carries(m)'
    BY <1>0, <1>c, <1>7 DEF CallServer, Carries
  <2>2. stage' \in [Messages -> {"new", "get", "work", "look", "push", "offered", "missed", "lost"}]
    BY <1>0, <1>7 DEF CallServer
  <2>3. taskUp' \in BOOLEAN
    BY <1>0, <1>7 DEF CallServer
  <2> QED
    BY <1>0, <1>7, <1>t, <2>1, <2>2, <2>3 DEF CallServer, DeliveryTypeOK
<1>8. ASSUME NEW n \in Messages, LookUp(n)
      PROVE  DeliveryTypeOK' /\ \A m \in Messages : Carries(m)'
  <2>1. to[n] \in Users /\ serverId[n] \in ServerIds
    BY <1>0, <1>8, <1>c DEF LookUp, Carries
  <2>2. channel' \in [Messages -> Sessions \cup {Nil}]
    BY <1>0, <1>8, <2>1 DEF LookUp
  <2>3. stage' \in [Messages -> {"new", "get", "work", "look", "push", "offered", "missed", "lost"}]
    BY <1>0, <1>8 DEF LookUp
  <2>4. \A m \in Messages : Carries(m)'
    BY <1>0, <1>c, <1>8, <2>1 DEF LookUp, Carries
  <2> QED
    BY <1>0, <1>8, <1>t, <2>2, <2>3, <2>4 DEF LookUp, DeliveryTypeOK
<1>9. ASSUME NEW n \in Messages, Push(n)
      PROVE  DeliveryTypeOK' /\ \A m \in Messages : Carries(m)'
  <2>1. \A m \in Messages : Carries(m)'
    BY <1>0, <1>c, <1>9 DEF Push, Carries
  <2>2. stage' \in [Messages -> {"new", "get", "work", "look", "push", "offered", "missed", "lost"}]
    BY <1>0, <1>9 DEF Push
  <2> QED
    BY <1>0, <1>9, <1>t, <2>1, <2>2 DEF Push, DeliveryTypeOK
<1> QED
  BY <1>1, <1>2, <1>3, <1>4, <1>5, <1>6, <1>7, <1>8, <1>9, DeliveryCases DEF Message, dvars
-------------------------------------------------------------------------------
(* The key and the Buckets. *)

\* The user of a joined connection.
LEMMA UserFacts ==
  ASSUME Shape, NEW s \in Sessions
  PROVE  /\ Has(s) => Last(s).user \in Users
         /\ phase[s] = "read" /\ Has(s) => chUser[s] = Last(s).user
         /\ chUser[s] # Nil => Has(s) /\ chUser[s] \in Users
         /\ chRoom[s] # Nil => chUser[s] # Nil
         /\ phase[s] = "connect" => Has(s)
<1>1. ReaderOK(s) /\ chUser[s] \in Users \cup {Nil}
  BY DEF Shape, Reading, TypeOK
<1>2. Has(s) => Last(s).user \in Users
  BY CurFacts DEF Requests
<1> QED
  BY <1>1, <1>2 DEF ReaderOK

\* What a leaver deletes, if no connection has changed its user.
LEMMA Deleted ==
  ASSUME DeliveryTypeOK, Filed, OneJoinEach, Shape, NEW s \in Sessions, chRoom[s] # Nil
  PROVE  DeleteChannel(s) \in {chs, [chs EXCEPT ![Server[s]][chUser[s]] = Nil]}
<1>1. Server[s] \in ServerIds /\ chUser[s] \in Users
  BY ServerFacts, UserFacts
<1>2. Found(s) # Nil => chUser[Found(s)] = chUser[s]
  BY <1>1 DEF Filed, Found
<1> QED
  BY <1>2 DEF DeleteChannel

LEMMA FiledStep ==
  ASSUME IInv, DeliveryTypeOK, Filed, [DeliveryNext]_dvars
  PROVE  Filed'
<1> USE DEF Aside, connVars, chanVars
<1>0. /\ [Next]_vars /\ Shape
      /\ chs \in [ServerIds -> [Users -> Sessions \cup {Nil}]]
      /\ chUser \in [Sessions -> Users \cup {Nil}] /\ Nil \notin Users /\ Nil \notin Sessions
  BY DeliverySteps, PresenceAssumption, ServerFacts DEF PresenceAssumption, IInv, DeliveryTypeOK, Shape, TypeOK
<1> SUFFICES ASSUME OneJoinEach', NEW k \in ServerIds, NEW u \in Users, chs'[k][u] # Nil
             PROVE  chUser'[chs'[k][u]] = u
  BY DEF Filed
<1>1. OneJoinEach
  BY <1>0, Lasting
<1>2. chs[k][u] # Nil => chs[k][u] \in Sessions /\ chUser[chs[k][u]] = u
  BY <1>0, <1>1 DEF Filed
<1>3. ASSUME UNCHANGED chUser, chs'[k][u] \in {chs[k][u], Nil}
      PROVE  chUser'[chs'[k][u]] = u
  BY <1>2, <1>3
<1>4. ASSUME NEW s \in Sessions, Hangup(s)
      PROVE  chUser'[chs'[k][u]] = u
  <2>1. UNCHANGED chUser
    BY <1>4 DEF Hangup, Quit
  <2>2. chs'[k][u] \in {chs[k][u], Nil}
    BY <1>0, <1>4, ServerFacts DEF Hangup, DeleteChannel
  <2> QED
    BY <1>3, <2>1, <2>2
<1>5. ASSUME NEW c \in Calls, Return(c)
      PROVE  chUser'[chs'[k][u]] = u
  <2>1. Reply(c) /\ c[1] \in Sessions
    BY <1>5, CallFacts DEF Return
  <2>2. CASE ~Joining(c)
    <3>1. UNCHANGED <<chs, chUser>>
      BY <1>5, <2>1, <2>2 DEF Return, Joining, Reply
    <3> QED
      BY <1>3, <3>1
  <2>3. CASE Joining(c)
    <3>1. Has(c[1]) /\ req[c] = Last(c[1]) /\ Server[c[1]] \in ServerIds
      <4>1. pc[c] # "done" /\ c = Cur(c[1])
        BY <2>1, <2>3, CallFacts DEF Reply, Joining, Awaited, Cur
      <4> QED
        BY <1>0, <2>1, <4>1, RunFacts, ServerFacts DEF Last
    <3>2. chUser[c[1]] # Nil => chUser[c[1]] = req[c].user
      BY <1>1, <2>1, <3>1 DEF IInv, Constant, Same
    <3>3. /\ chUser' = [chUser EXCEPT ![c[1]] = req[c].user]
          /\ chs' = [chs EXCEPT ![Server[c[1]]][req[c].user] = c[1]]
      BY <1>5, <2>1, <2>3 DEF Return, Put, Reply, Joining
    <3>4. CASE k = Server[c[1]] /\ u = req[c].user
      BY <1>0, <2>1, <3>3, <3>4
    <3>5. CASE ~(k = Server[c[1]] /\ u = req[c].user)
      <4>1. chs'[k][u] = chs[k][u]
        BY <1>0, <3>1, <3>3, <3>5
      <4> QED
        BY <1>0, <1>2, <2>1, <3>2, <3>3, <4>1
    <3> QED
      BY <3>4, <3>5
  <2> QED
    BY <2>2, <2>3
<1>6. ASSUME NEW j \in Sessions, ServerDies(Server[j])
      PROVE  chUser'[chs'[k][u]] = u
  <2>1. UNCHANGED chUser
    BY <1>6 DEF ServerDies, Crash
  <2>2. chs'[k][u] \in {chs[k][u], Nil}
    BY <1>0, <1>6 DEF ServerDies
  <2> QED
    BY <1>3, <2>1, <2>2
<1>7. ASSUME UNCHANGED <<chs, chUser>>
      PROVE  chUser'[chs'[k][u]] = u
  BY <1>3, <1>7
<1>8. ASSUME NEW n \in Messages, Message(n)
      PROVE  UNCHANGED <<chs, chUser>>
  BY <1>8 DEF Message, Send, Publish, CallServer, LookUp, Push, vars
<1>9. ASSUME NEW c \in Calls, Command(c)
      PROVE  UNCHANGED chUser
  BY <1>0, <1>9, Commanded
<1>10. /\ \A s \in Sessions, v \in Users, r \in RoomIds : Join(s, v, r) => UNCHANGED chUser
       /\ \A s \in Sessions : Retry(s) => UNCHANGED chUser
       /\ LogicCrash \/ (\E v \in Users : LoseKey(v)) => UNCHANGED chUser
  BY DEF Join, Retry, LogicCrash, LoseKey
<1> QED
  BY <1>4, <1>5, <1>6, <1>7, <1>8, <1>9, <1>10, DeliveryCases DEF dvars, vars

LEMMA RoutedStep ==
  ASSUME IInv, DeliveryTypeOK, Filed, Routed, [DeliveryNext]_dvars
  PROVE  Routed'
<1> USE DEF boundVars, connVars, chanVars, redisVars, callVars, Aside, msgVars
<1>n. [Next]_vars /\ Shape /\ InTurn /\ OneOpen
  BY DeliverySteps DEF IInv
<1>0. /\ chs \in [ServerIds -> [Users -> Sessions \cup {Nil}]]
      /\ userServer \in [Users -> {Server[s] : s \in Sessions} \cup {Nil}]
      /\ phase \in [Sessions -> {"read", "connect", "leave", "closed", "lost"}]
      /\ pc \in [Calls -> States] /\ losses \in Nat
  BY Limited DEF DeliveryTypeOK, TypeOK, States
<1> SUFFICES ASSUME Faultless', losses' = 0, OneJoinEach', NEW s \in Sessions, Has(s)', overlapped'[Last(s)'.user] # "open"
             PROVE  RoutedAt(s)'
  BY DEF Routed
<1>f. Faultless /\ losses = 0 /\ OneJoinEach
  BY <1>n, Faultlessly, Lasting
<1>r. \A o \in Sessions : Has(o) /\ overlapped[Last(o).user] # "open" => RoutedAt(o)
  BY <1>f DEF Routed
<1>u. Has(s) => Last(s).user \in Users
  BY <1>n, UserFacts
<1>k. ASSUME Has(s), Last(s)' = Last(s), Cur(s)' = Cur(s), phase'[s] = phase[s],
             phase[s] = "connect" => pc'[Cur(s)] = pc[Cur(s)],
             UNCHANGED userServer,
             phase[s] = "read" => chs'[Server[s]][Last(s).user] = chs[Server[s]][Last(s).user]
      PROVE  RoutedAt(s)'
  <2>1. overlapped[Last(s).user] # "open"
    BY <1>k, <1>n, <1>u, Lasting
  <2> QED
    BY <1>k, <1>r, <2>1 DEF RoutedAt
<1>o. ASSUME NEW o \in Sessions \ {s}, Has(o), Joined(o), Has(s), Joined(s), overlapped[Last(s).user] # "open"
      PROVE  Last(o).user # Last(s).user
  BY <1>n, <1>o DEF OneOpen, Pair
<1>i. ASSUME NEW j \in Sessions, NEW q \in Requests, Issue(j, q), calls[j] < CallMax, s # j,
             phase'[s] = phase[s]
      PROVE  /\ Has(s) /\ Last(s)' = Last(s) /\ Cur(s)' = Cur(s)
             /\ phase[s] = "connect" => pc'[Cur(s)] = pc[Cur(s)]
  BY <1>n, <1>i, Latest
<1>1. ASSUME NEW j \in Sessions, NEW u \in Users, NEW r \in RoomIds, Join(j, u, r), UNCHANGED chs
      PROVE  RoutedAt(s)'
  <2> DEFINE q == [op |-> "Connect", user |-> u, room |-> r]
  <2>1. q \in Requests /\ calls[j] < CallMax /\ Issue(j, q) /\ q.op = "Connect"
    BY <1>1, <1>n, Asks DEF Join
  <2> HIDE DEF q
  <2>2. CASE s = j
    <3>1. pc'[Cur(s)'] = "set"
      BY <1>n, <2>1, <2>2, Latest
    <3>2. phase'[s] = "connect"
      BY <1>0, <1>1, <2>2 DEF Join
    <3> QED
      BY <3>1, <3>2 DEF RoutedAt
  <2>3. CASE s # j
    <3>1. phase'[s] = phase[s] /\ UNCHANGED userServer
      BY <1>0, <1>1, <2>3 DEF Join
    <3> QED
      BY <1>1, <1>i, <1>k, <2>1, <2>3, <3>1
  <2> QED
    BY <2>2, <2>3
<1>2. ASSUME NEW j \in Sessions, Hangup(j)
      PROVE  RoutedAt(s)'
  <2>1. CASE s = j
    <3>1. phase'[s] \in {"leave", "closed"}
      BY <1>0, <1>2, <2>1 DEF Hangup, Quit
    <3> QED
      BY <3>1 DEF RoutedAt
  <2>2. CASE s # j
    <3>1. phase'[s] = phase[s] /\ phase[j] = "read" /\ UNCHANGED userServer
      BY <1>0, <1>2, <2>2 DEF Hangup, Quit
    <3>2. CASE chRoom[j] = Nil
      <4>1. UNCHANGED <<calls, req, pc, chs>>
        BY <1>2, <3>2 DEF Hangup, Quit, DeleteChannel
      <4> QED
        BY <1>k, <3>1, <4>1 DEF Has, Last, Cur
    <3>3. CASE chRoom[j] # Nil
      <4> DEFINE q == [op |-> "DisConnect", user |-> chUser[j], room |-> chRoom[j]]
      <4>1. q \in Requests /\ calls[j] < CallMax /\ Issue(j, q)
        BY <1>2, <1>n, <3>3, Asks DEF Hangup, Quit
      <4> HIDE DEF q
      <4>2. /\ Has(s) /\ Last(s)' = Last(s) /\ Cur(s)' = Cur(s)
            /\ phase[s] = "connect" => pc'[Cur(s)] = pc[Cur(s)]
        BY <1>i, <2>2, <3>1, <4>1
      <4>3. Has(j) /\ chUser[j] = Last(j).user
        BY <1>n, <3>1, <3>3, UserFacts
      <4>4. overlapped[Last(s).user] # "open"
        BY <1>n, <1>u, <4>2, Lasting
      <4>5. phase[s] = "read" => chUser[j] # Last(s).user
        BY <1>o, <2>2, <3>1, <4>2, <4>3, <4>4 DEF Joined
      <4>6. phase[s] = "read" => chs'[Server[s]][Last(s).user] = chs[Server[s]][Last(s).user]
        <5>1. chs' \in {chs, [chs EXCEPT ![Server[j]][chUser[j]] = Nil]}
          BY <1>2, <1>f, <1>n, <3>3, Deleted DEF Hangup
        <5> QED
          BY <1>0, <1>u, <4>2, <4>5, <5>1, ServerFacts
      <4> QED
        BY <1>k, <3>1, <4>2, <4>6
    <3> QED
      BY <3>2, <3>3
  <2> QED
    BY <2>1, <2>2
<1>3. ASSUME NEW c \in Calls, Command(c), UNCHANGED chs
      PROVE  RoutedAt(s)'
  <2>1. UNCHANGED <<calls, req, phase, overlapped>> /\ pc' = [pc EXCEPT ![c] = pc'[c]] /\ pc[c] # "done"
    BY <1>3, <1>n, Commanded
  <2>2. Has(s) /\ Last(s)' = Last(s) /\ Cur(s)' = Cur(s) /\ overlapped[Last(s).user] # "open"
    BY <2>1 DEF Has, Last, Cur
  <2>3. /\ c[1] \in Sessions /\ Has(c[1]) /\ c = Cur(c[1]) /\ req[c] = Last(c[1]) /\ req[c].user \in Users
        /\ pc[c] \in Connecting => phase[c[1]] = "connect"
    BY <1>f, <1>n, <2>1, AtWork
  <2>4. RoutedAt(s)
    BY <1>r, <2>2
  <2>5. phase[s] = "connect" /\ c # Cur(s) => pc'[Cur(s)] = pc[Cur(s)]
    BY <1>0, <1>n, <2>1, <2>2, CurFacts
  <2>6. CASE ConnSet(c)
    <3>1. pc[c] = "set" /\ pc'[c] = "get" /\ userServer' = [userServer EXCEPT ![req[c].user] = Server[c[1]]]
      BY <1>0, <2>6 DEF ConnSet, Located, Goto
    <3>2. phase[c[1]] = "connect"
      BY <2>3, <3>1 DEF Connecting
    <3>3. CASE c[1] = s
      BY <1>0, <2>1, <2>2, <2>3, <3>1, <3>2, <3>3 DEF RoutedAt
    <3>4. CASE c[1] # s
      <4>1. Joined(s) => req[c].user # Last(s).user
        BY <1>o, <2>2, <2>3, <3>2, <3>4 DEF Joined
      <4>2. Joined(s) => userServer'[Last(s).user] = userServer[Last(s).user]
        BY <1>0, <1>u, <2>2, <3>1, <4>1
      <4>3. c # Cur(s)
        BY <2>3, <3>4 DEF Cur
      <4> QED
        BY <1>3, <2>1, <2>2, <2>4, <2>5, <4>2, <4>3 DEF RoutedAt, Joined
    <3> QED
      BY <3>3, <3>4
  <2>7. CASE ~ConnSet(c)
    <3>1. UNCHANGED userServer /\ pc[c] # "set"
      BY <1>3, <2>7 DEF Command, ConnGet, ConnAdd, ConnIncr, DisCount, DisDecr, DisDel, DisList, DisPublish
    <3> QED
      BY <1>3, <2>1, <2>2, <2>4, <2>5, <3>1 DEF RoutedAt
  <2> QED
    BY <2>6, <2>7
<1>4. ASSUME NEW c \in Calls, Return(c)
      PROVE  RoutedAt(s)'
  <2>1. Reply(c) /\ pc[c] = "reply"
    BY <1>4 DEF Return, Reply
  <2>2. /\ c[1] \in Sessions /\ Has(c[1]) /\ c = Cur(c[1]) /\ req[c] = Last(c[1]) /\ req[c].user \in Users /\ Awaited(c)
    BY <1>f, <1>n, <2>1, AtWork
  <2>3. /\ UNCHANGED <<calls, req, userServer, overlapped>> /\ pc' = [pc EXCEPT ![c] = "done"]
        /\ \A o \in Sessions \ {c[1]} : phase'[o] = phase[o]
        /\ phase[c[1]] = "connect" => phase'[c[1]] = "read"
        /\ phase[c[1]] # "connect" => phase'[c[1]] = "closed"
    BY <1>0, <2>1, <2>2 DEF Reply, Goto
  <2>4. Has(s) /\ Last(s)' = Last(s) /\ Cur(s)' = Cur(s) /\ overlapped[Last(s).user] # "open"
    BY <2>3 DEF Has, Last, Cur
  <2>5. RoutedAt(s)
    BY <1>r, <2>4
  <2>6. CASE c[1] = s
    <3>1. CASE phase[s] = "connect"
      <4>1. chs' = [chs EXCEPT ![Server[s]][Last(s).user] = s]
        BY <1>4, <2>2, <2>6, <3>1 DEF Return, Joining, Put
      <4>2. chs'[Server[s]][Last(s).user] = s
        BY <1>0, <1>u, <2>4, <4>1, ServerFacts
      <4>3. userServer'[Last(s).user] = Server[s]
        BY <2>1, <2>2, <2>3, <2>5, <2>6, <3>1 DEF RoutedAt
      <4> QED
        BY <2>3, <2>4, <2>6, <3>1, <4>2, <4>3 DEF RoutedAt
    <3>2. CASE phase[s] # "connect"
      BY <2>3, <2>6, <3>2 DEF RoutedAt
    <3> QED
      BY <3>1, <3>2
  <2>7. CASE c[1] # s
    <3>1. phase[s] = "connect" => pc'[Cur(s)] = pc[Cur(s)]
      <4>1. c # Cur(s)
        BY <2>2, <2>7 DEF Cur
      <4> QED
        BY <1>0, <1>n, <2>3, <2>4, <4>1, CurFacts
    <3>2. phase[s] = "read" => chs'[Server[s]][Last(s).user] = chs[Server[s]][Last(s).user]
      <4>1. CASE phase[c[1]] = "connect"
        <5>1. phase[s] = "read" => req[c].user # Last(s).user
          BY <1>o, <2>2, <2>4, <2>7, <4>1 DEF Joined
        <5>2. chs' = [chs EXCEPT ![Server[c[1]]][req[c].user] = c[1]]
          BY <1>4, <2>2, <4>1 DEF Return, Joining, Put
        <5> QED
          BY <1>0, <1>u, <2>2, <2>4, <5>1, <5>2, ServerFacts
      <4>2. CASE phase[c[1]] # "connect"
        BY <1>4, <4>2 DEF Return, Joining
      <4> QED
        BY <4>1, <4>2
    <3> QED
      BY <1>k, <2>3, <2>4, <2>7, <3>1, <3>2
  <2> QED
    BY <2>6, <2>7
<1>5. ASSUME UNCHANGED <<vars, chs>>
      PROVE  RoutedAt(s)'
  BY <1>5, <1>k DEF vars, Has, Last, Cur
<1>6. ASSUME NEW n \in Messages, Message(n)
      PROVE  UNCHANGED <<vars, chs>>
  BY <1>6 DEF Message, Send, Publish, CallServer, LookUp, Push
<1>7. ~(\E j \in Sessions : Retry(j)) /\ ~(\E j \in Sessions : ServerDies(Server[j])) /\ ~LogicCrash
      /\ ~(\E u \in Users : LoseKey(u))
  <2>1. retries \in [Sessions -> Nat] /\ crashes \in Nat
    BY <1>n, Limited DEF Shape, TypeOK
  <2>2. ASSUME NEW j \in Sessions, Retry(j)
        PROVE  FALSE
    <3>1. retries'[j] = retries[j] + 1
      BY <2>1, <2>2 DEF Retry
    <3> QED
      BY <2>1, <3>1 DEF Faultless
  <2>3. ~(\E j \in Sessions : ServerDies(Server[j])) /\ ~LogicCrash
    BY <2>1 DEF ServerDies, Crash, LogicCrash, Faultless
  <2>4. ~(\E u \in Users : LoseKey(u))
    BY <1>0 DEF LoseKey
  <2> QED
    BY <2>2, <2>3, <2>4
<1> QED
  BY <1>1, <1>2, <1>3, <1>4, <1>5, <1>6, <1>7, DeliveryCases DEF dvars
-------------------------------------------------------------------------------
(* A message and the connections it was meant for. *)

\* A connection that has a user keeps one, and under one join it is the same one; a step
\* of Presence that lets it join again is a second join.
LEMMA MeantKept ==
  ASSUME Shape, [Next]_vars, NEW s \in Sessions, joins[s] > 0, chUser[s] # Nil
  PROVE  /\ joins'[s] > 0 /\ chUser'[s] # Nil
         /\ phase[s] # "connect" => chUser'[s] = chUser[s]
         /\ phase[s] # "connect" /\ OneJoinEach' => phase'[s] # "connect"
         /\ phase[s] # "connect" /\ phase'[s] = "read" => phase[s] = "read"
<1> USE DEF boundVars, connVars, chanVars, redisVars, callVars
<1>0. /\ joins \in [Sessions -> Nat] /\ chUser \in [Sessions -> Users \cup {Nil}] /\ Nil \notin Users
      /\ phase \in [Sessions -> {"read", "connect", "leave", "closed", "lost"}]
  BY Limited, PresenceAssumption DEF PresenceAssumption, Shape, TypeOK
<1>1. ASSUME NEW j \in Sessions, NEW u \in Users, NEW r \in RoomIds, Join(j, u, r), j = s
      PROVE  joins'[s] = joins[s] + 1 /\ phase[s] = "read" /\ UNCHANGED chUser
  BY <1>0, <1>1 DEF Join
<1>2. ASSUME NEW j \in Sessions, NEW u \in Users, NEW r \in RoomIds, Join(j, u, r), j # s
      PROVE  joins'[s] = joins[s] /\ phase'[s] = phase[s] /\ UNCHANGED chUser
  BY <1>0, <1>2 DEF Join
<1>3. ASSUME NEW j \in Sessions, Quit(j)
      PROVE  /\ UNCHANGED <<joins, chUser>>
             /\ phase'[s] # phase[s] => phase'[s] \notin {"connect", "read"}
  BY <1>0, <1>3 DEF Quit
<1>4. ASSUME NEW j \in Sessions, Retry(j)
      PROVE  UNCHANGED <<joins, chUser, phase>>
  BY <1>4 DEF Retry
<1>5. ASSUME NEW c \in Calls, Command(c)
      PROVE  UNCHANGED <<joins, chUser, phase>>
  BY <1>5, Commanded
<1>6. ASSUME NEW c \in Calls, Reply(c)
      PROVE  /\ joins' = joins /\ chUser'[s] # Nil
             /\ phase'[s] # phase[s] => phase'[s] # "connect"
             /\ phase[s] # "connect" => chUser'[s] = chUser[s] /\ (phase'[s] = "read" => phase[s] = "read")
  <2>1. req[c].user \in Users
    BY <1>6, RunFacts DEF Reply
  <2> QED
    BY <1>0, <1>6, <2>1 DEF Reply, Awaited
<1>7. ASSUME Failure
      PROVE  UNCHANGED <<joins, chUser>> /\ (phase'[s] # phase[s] => phase'[s] = "lost")
  BY <1>0, <1>7 DEF Failure, Crash, LogicCrash, LoseKey
<1>8. OneJoinEach' => ~(joins'[s] = joins[s] + 1)
  BY <1>0 DEF OneJoinEach
<1>9. joins[s] \in Nat
  BY <1>0
<1>10. CASE \E j \in Sessions, u \in Users, r \in RoomIds : Join(j, u, r)
  BY <1>1, <1>2, <1>8, <1>9, <1>10
<1>11. CASE \E j \in Sessions : Quit(j)
  BY <1>3, <1>11
<1>12. CASE \E c \in Calls : Reply(c)
  BY <1>6, <1>12
<1>13. CASE Failure
  BY <1>7, <1>13
<1>14. CASE \/ \E j \in Sessions : Retry(j)
            \/ \E c \in Calls : Command(c)
            \/ UNCHANGED vars
  BY <1>4, <1>5, <1>14 DEF vars
<1> QED
  BY <1>10, <1>11, <1>12, <1>13, <1>14, Steps DEF Failure

LEMMA MeantStep ==
  ASSUME IInv, DeliveryTypeOK, NEW n \in Messages, Meant(n), [DeliveryNext]_dvars
  PROVE  Meant(n)'
<1> USE DEF msgVars, Aside
<1>0. /\ [Next]_vars /\ Shape /\ (OneJoinEach' => OneJoinEach)
      /\ meant \in [Messages -> SUBSET Sessions] /\ to \in [Messages -> Users \cup {Nil}]
      /\ stage \in [Messages -> {"new", "get", "work", "look", "push", "offered", "missed", "lost"}]
  BY DeliverySteps, Lasting DEF IInv, DeliveryTypeOK
<1>1. \A s \in meant[n] : /\ s \in Sessions /\ joins[s] > 0 /\ chUser[s] # Nil
                          /\ OneJoinEach => phase[s] # "connect" /\ chUser[s] = to[n]
  BY <1>0 DEF Meant
<1>2. ASSUME UNCHANGED <<to, meant>>, stage'[n] = "new" => stage[n] = "new"
      PROVE  Meant(n)'
  <2>1. \A s \in meant[n] :
          /\ joins'[s] > 0 /\ chUser'[s] # Nil
          /\ OneJoinEach' => phase'[s] # "connect" /\ chUser'[s] = to[n]
    BY <1>0, <1>1, MeantKept
  <2> QED
    BY <1>2, <2>1 DEF Meant
<1>3. ASSUME NEW u \in Users, Send(n, u)
      PROVE  Meant(n)'
  <2>1. meant'[n] = Connected(u) /\ to'[n] = u /\ stage'[n] = "get" /\ UNCHANGED vars
    BY <1>0, <1>3 DEF Send
  <2>2. \A s \in Connected(u) : joins[s] > 0 /\ chUser[s] # Nil /\ phase[s] # "connect" /\ chUser[s] = u
    BY <1>0, PresenceAssumption DEF PresenceAssumption, Connected, Shape, Reading, ReaderOK
  <2> QED
    BY <2>1, <2>2 DEF Meant, vars, connVars, chanVars
<1>4. ASSUME NEW m \in Messages, NEW u \in Users, Send(m, u), m # n
      PROVE  to'[n] = to[n] /\ meant'[n] = meant[n] /\ stage'[n] = stage[n] /\ UNCHANGED vars
  BY <1>0, <1>4 DEF Send
<1>5. ASSUME NEW m \in Messages, NEW u \in Users, Send(m, u)
      PROVE  Meant(n)'
  <2>1. CASE m = n
    BY <1>3, <1>5, <2>1
  <2>2. CASE m # n
    BY <1>4, <1>5, <2>2 DEF Meant, vars, connVars, chanVars, OneJoinEach
  <2> QED
    BY <2>1, <2>2
<1>6. ASSUME NEW m \in Messages, Publish(m) \/ CallServer(m) \/ LookUp(m) \/ Push(m)
      PROVE  UNCHANGED <<to, meant>> /\ (stage'[n] = "new" => stage[n] = "new")
  BY <1>0, <1>6 DEF Publish, CallServer, LookUp, Push
<1>7. ASSUME NEW k, ServerDies(k)
      PROVE  UNCHANGED <<to, meant>> /\ (stage'[n] = "new" => stage[n] = "new")
  BY <1>0, <1>7 DEF ServerDies
<1> QED
  BY <1>2, <1>5, <1>6, <1>7, DeliveryCases DEF Message, dvars

LEMMA OnCourseStep ==
  ASSUME IInv, DeliveryTypeOK, Routed, NEW n \in Messages, Carries(n), Meant(n), OnCourse(n), [DeliveryNext]_dvars
  PROVE  OnCourse(n)'
<1> USE DEF msgVars, Aside
<1>0. /\ [Next]_vars /\ Shape
      /\ meant \in [Messages -> SUBSET Sessions] /\ to \in [Messages -> Users \cup {Nil}]
      /\ stage \in [Messages -> {"new", "get", "work", "look", "push", "offered", "missed", "lost"}]
      /\ serverId \in [Messages -> ServerIds \cup {Nil}] /\ channel \in [Messages -> Sessions \cup {Nil}]
  BY DeliverySteps DEF IInv, DeliveryTypeOK
<1> SUFFICES ASSUME Faultless', losses' = 0, OneJoinEach', NEW s \in meant'[n], phase'[s] = "read",
                    overlapped'[to'[n]] # "open"
             PROVE  /\ stage'[n] \in {"work", "look"} => serverId'[n] = Server[s]
                    /\ stage'[n] \in {"push", "offered"} => channel'[n] = s
                    /\ stage'[n] # "missed"
                    /\ stage'[n] = "lost" => ~taskUp'
  BY DEF OnCourse
<1>f. Faultless /\ losses = 0 /\ OneJoinEach
  BY <1>0, Faultlessly, Lasting
<1>o. ASSUME UNCHANGED <<to, meant>>, stage[n] # "new"
      PROVE  /\ s \in Sessions /\ phase[s] = "read" /\ chUser[s] = to[n] /\ to[n] \in Users
             /\ overlapped[to[n]] # "open" /\ Has(s) /\ Last(s).user = to[n]
             /\ stage[n] \in {"work", "look"} => serverId[n] = Server[s]
             /\ stage[n] \in {"push", "offered"} => channel[n] = s
             /\ stage[n] # "missed"
             /\ stage[n] = "lost" => ~taskUp
  <2>1. s \in Sessions /\ s \in meant[n] /\ joins[s] > 0 /\ chUser[s] # Nil /\ phase[s] # "connect" /\ chUser[s] = to[n]
    BY <1>0, <1>f, <1>o DEF Meant
  <2>2. phase[s] = "read"
    BY <1>0, <2>1, MeantKept
  <2>3. to[n] \in Users
    BY <1>o DEF Carries
  <2>4. overlapped[to[n]] # "open"
    BY <1>0, <1>o, <2>3, Lasting
  <2>5. Has(s) /\ Last(s).user = to[n]
    BY <1>0, <2>1, <2>2, UserFacts
  <2> QED
    BY <1>f, <2>1, <2>2, <2>3, <2>4, <2>5 DEF OnCourse
<1>1. ASSUME UNCHANGED <<to, meant, taskUp>>, stage'[n] = stage[n], serverId'[n] = serverId[n], channel'[n] = channel[n]
      PROVE  /\ stage'[n] \in {"work", "look"} => serverId'[n] = Server[s]
             /\ stage'[n] \in {"push", "offered"} => channel'[n] = s
             /\ stage'[n] # "missed"
             /\ stage'[n] = "lost" => ~taskUp'
  BY <1>1, <1>o
<1>2. ASSUME NEW m \in Messages, NEW u \in Users, Send(m, u)
      PROVE  /\ stage'[n] \in {"work", "look"} => serverId'[n] = Server[s]
             /\ stage'[n] \in {"push", "offered"} => channel'[n] = s
             /\ stage'[n] # "missed"
             /\ stage'[n] = "lost" => ~taskUp'
  <2>1. CASE m = n
    BY <1>0, <1>2, <2>1 DEF Send
  <2>2. CASE m # n
    <3>1. /\ to'[n] = to[n] /\ meant'[n] = meant[n] /\ stage'[n] = stage[n] /\ UNCHANGED <<vars, serverId, channel, taskUp>>
      BY <1>0, <1>2, <2>2 DEF Send
    <3>2. UNCHANGED <<phase, overlapped>>
      BY <3>1 DEF vars, connVars
    <3> QED
      BY <1>f, <3>1, <3>2 DEF OnCourse
  <2> QED
    BY <2>1, <2>2
<1>3. ASSUME NEW m \in Messages, Publish(m)
      PROVE  /\ stage'[n] \in {"work", "look"} => serverId'[n] = Server[s]
             /\ stage'[n] \in {"push", "offered"} => channel'[n] = s
             /\ stage'[n] # "missed"
             /\ stage'[n] = "lost" => ~taskUp'
  <2>1. CASE m = n
    <3>1. /\ stage[n] = "get" /\ UNCHANGED <<to, meant, taskUp>> /\ serverId'[n] = userServer[to[n]]
          /\ stage'[n] = IF taskUp THEN "work" ELSE "lost"
      BY <1>0, <1>3, <2>1 DEF Publish
    <3>2. userServer[to[n]] = Server[s]
      BY <1>f, <1>o, <3>1 DEF Routed, RoutedAt
    <3> QED
      BY <3>1, <3>2
  <2>2. CASE m # n
    BY <1>0, <1>1, <1>3, <2>2 DEF Publish
  <2> QED
    BY <2>1, <2>2
<1>4. ASSUME NEW m \in Messages, CallServer(m)
      PROVE  /\ stage'[n] \in {"work", "look"} => serverId'[n] = Server[s]
             /\ stage'[n] \in {"push", "offered"} => channel'[n] = s
             /\ stage'[n] # "missed"
             /\ stage'[n] = "lost" => ~taskUp'
  <2>1. /\ UNCHANGED <<to, meant, serverId, channel>>
        /\ \/ stage'[n] = stage[n] /\ (taskUp' = taskUp \/ ~taskUp')
           \/ stage[n] = "work" /\ stage'[n] = "look"
           \/ stage[n] = "work" /\ stage'[n] = "lost" /\ ~taskUp'
    BY <1>0, <1>4 DEF CallServer
  <2>2. stage[n] # "new" => stage'[n] # "new"
    BY <2>1
  <2> QED
    BY <1>o, <2>1
<1>5. ASSUME NEW m \in Messages, LookUp(m)
      PROVE  /\ stage'[n] \in {"work", "look"} => serverId'[n] = Server[s]
             /\ stage'[n] \in {"push", "offered"} => channel'[n] = s
             /\ stage'[n] # "missed"
             /\ stage'[n] = "lost" => ~taskUp'
  <2>1. CASE m = n
    <3>1. /\ stage[n] = "look" /\ UNCHANGED <<to, meant, taskUp>> /\ channel'[n] = chs[serverId[n]][to[n]]
          /\ stage'[n] = IF channel'[n] = Nil THEN "missed" ELSE "push"
      BY <1>0, <1>5, <2>1 DEF LookUp
    <3>2. serverId[n] = Server[s] /\ chs[Server[s]][to[n]] = s /\ s \in Sessions
      BY <1>f, <1>o, <3>1 DEF Routed, RoutedAt
    <3> QED
      BY <3>1, <3>2, ServerFacts
  <2>2. CASE m # n
    BY <1>0, <1>1, <1>5, <2>2 DEF LookUp
  <2> QED
    BY <2>1, <2>2
<1>6. ASSUME NEW m \in Messages, Push(m)
      PROVE  /\ stage'[n] \in {"work", "look"} => serverId'[n] = Server[s]
             /\ stage'[n] \in {"push", "offered"} => channel'[n] = s
             /\ stage'[n] # "missed"
             /\ stage'[n] = "lost" => ~taskUp'
  <2>1. UNCHANGED <<to, meant, taskUp, serverId, channel>> /\ (stage'[n] = stage[n] \/ (stage[n] = "push" /\ stage'[n] = "offered"))
    BY <1>0, <1>6 DEF Push
  <2> QED
    BY <1>o, <2>1
<1>7. ~(\E j \in Sessions : ServerDies(Server[j]))
  <2>1. crashes \in Nat
    BY <1>0, Limited DEF Shape, TypeOK
  <2> QED
    BY <2>1 DEF ServerDies, Crash, Faultless
<1> QED
  BY <1>1, <1>2, <1>3, <1>4, <1>5, <1>6, <1>7, DeliveryCases DEF Message, dvars
-------------------------------------------------------------------------------
(* The invariant of Delivery. *)

LEMMA DeliveryInvariantInit == DeliveryInit => DInv
<1> SUFFICES ASSUME DeliveryInit PROVE DInv
  OBVIOUS
<1>1. TypeOK /\ \A s \in Sessions : ~Has(s)
  BY InvariantInit DEF DeliveryInit, IInv, Shape, Init, Has
<1>2. chs \in [ServerIds -> [Users -> Sessions \cup {Nil}]]
  BY DEF DeliveryInit
<1>3. /\ stage \in [Messages -> {"new", "get", "work", "look", "push", "offered", "missed", "lost"}]
      /\ to \in [Messages -> Users \cup {Nil}] /\ serverId \in [Messages -> ServerIds \cup {Nil}]
      /\ channel \in [Messages -> Sessions \cup {Nil}]
      /\ taskUp \in BOOLEAN
      /\ meant \in [Messages -> SUBSET Sessions]
  BY DEF DeliveryInit
<1>4. Routed /\ Filed
  BY <1>1, <1>2 DEF Routed, Filed, DeliveryInit
<1>5. \A n \in Messages : Carries(n) /\ Meant(n) /\ OnCourse(n)
  BY DEF DeliveryInit, Carries, Meant, OnCourse
<1> QED
  BY <1>1, <1>2, <1>3, <1>4, <1>5 DEF DInv, DeliveryTypeOK

LEMMA DeliveryInvariantStep == IInv /\ DInv /\ [DeliveryNext]_dvars => DInv'
<1> SUFFICES ASSUME IInv, DInv, [DeliveryNext]_dvars PROVE DInv'
  OBVIOUS
<1>1. DeliveryTypeOK /\ Routed /\ Filed /\ \A n \in Messages : Carries(n) /\ Meant(n) /\ OnCourse(n)
  BY DEF DInv
<1>2. DeliveryTypeOK' /\ \A n \in Messages : Carries(n)'
  BY <1>1, DeliveryTypeStep
<1>3. Routed' /\ Filed'
  BY <1>1, RoutedStep, FiledStep
<1>4. \A n \in Messages : Meant(n)' /\ OnCourse(n)'
  BY <1>1, MeantStep, OnCourseStep
<1> QED
  BY <1>2, <1>3, <1>4 DEF DInv, Messages

LEMMA DeliveryInvariantHolds == DeliverySpec => [](IInv /\ DInv)
<1>1. DeliveryInit => IInv /\ DInv
  BY DeliveryInits, InvariantInit, DeliveryInvariantInit
<1>2. (IInv /\ DInv) /\ [DeliveryNext]_dvars => (IInv /\ DInv)'
  BY InvariantStep, DeliverySteps, DeliveryInvariantStep
<1> QED
  BY <1>1, <1>2, PTL DEF DeliverySpec

\* Every message carries what its stage needs, whatever died on the way (logic/rpc.go
\* Push, task/push.go, connect/rpc.go PushSingleMsg).
THEOREM DeliveryTypes == DeliverySpec => []DeliveryTypeOK
<1>1. IInv /\ DInv => DeliveryTypeOK
  BY DEF DInv
<1> QED
  BY <1>1, DeliveryInvariantHolds, PTL

\* The key and the Bucket of the server it names lead to the connection of a user who had
\* no two connections open, when nothing failed and no connection changed its user
\* (logic/rpc.go Connect, connect/bucket.go Put and DeleteChannel).
THEOREM UsersAreFound == DeliverySpec => []Routable
<1>1. ASSUME IInv, DInv, Faultless, losses = 0, OneJoinEach, NEW s \in Sessions, phase[s] = "read", chUser[s] # Nil,
             overlapped[chUser[s]] # "open"
      PROVE  userServer[chUser[s]] = Server[s] /\ chs[Server[s]][chUser[s]] = s
  <2>1. Has(s) /\ chUser[s] = Last(s).user
    BY <1>1, UserFacts DEF IInv
  <2> QED
    BY <1>1, <2>1 DEF DInv, Routed, RoutedAt
<1>2. IInv /\ DInv => Routable
  BY <1>1 DEF Routable
<1> QED
  BY <1>2, DeliveryInvariantHolds, PTL

\* Under the same conditions a message is offered to the very connection it was meant for,
\* or that connection has gone (task/push.go, connect/rpc.go PushSingleMsg).
THEOREM MessagesReachOrMiss == DeliverySpec => []ReachesOrLeft
<1>1. ASSUME IInv, DInv, Faultless, losses = 0, taskUp, OneJoinEach,
             NEW n \in Messages, stage[n] \in {"offered", "missed", "lost"}, overlapped[to[n]] # "open",
             NEW s \in meant[n], phase[s] = "read"
      PROVE  stage[n] = "offered" /\ channel[n] = s
  BY <1>1 DEF DInv, OnCourse
<1>2. IInv /\ DInv => ReachesOrLeft
  BY <1>1 DEF ReachesOrLeft
<1> QED
  BY <1>2, DeliveryInvariantHolds, PTL
===============================================================================
