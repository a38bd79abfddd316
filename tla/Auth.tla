--------------------------------- MODULE Auth ---------------------------------
(***************************************************************************)
(* Accounts and login sessions: Register, Login, Logout and the token      *)
(* check of Connect (logic/rpc.go), on the user table (logic/dao/user.go)  *)
(* and three kinds of Redis keys: sess_<token> with the user of a session, *)
(* sess_map_<user> with the token of his last login, and gochat_<user>,    *)
(* his server key.  CheckAuth only reads a session.                        *)
(*                                                                         *)
(* A query and a Redis command are one step each, and the handlers of      *)
(* several requests interleave.  Every command takes a connection of the   *)
(* go-redis pool and gives it back, so MULTI, the commands after it and    *)
(* EXEC need not use the same connection, and a command of one handler may *)
(* use a connection on which another has said MULTI.  Keys live a day; a   *)
(* run is shorter than that, and Expire is left out.                       *)
(***************************************************************************)
EXTENDS Integers, Sequences, FiniteSets

CONSTANTS
  Names,      \* user names
  Known,      \* names in the user table at the start, a sequence; a user id is a row
  Requests,   \* kinds of requests clients send
  Conns,      \* connections to Redis
  Nil,        \* a missing key; a connection without MULTI
  Traffic,    \* what the clients and the pool may do, see Limits
  MaxOp,      \* bound: requests
  MaxRow      \* bound: rows of the user table

\* Bounds of one behaviour: requests, how many of them at the same time, and connections
\* that the pool closes.
Limits == [requests : Nat, active : Nat, aged : Nat]

ASSUME AuthAssumption ==
  /\ Known \in Seq(Names) /\ Len(Known) <= MaxRow
  /\ \A i, j \in DOMAIN Known : Known[i] = Known[j] => i = j     \* user_name is UNIQUE
  /\ Requests \subseteq {"register", "login", "logout", "connect"}
  /\ MaxOp \in Nat /\ MaxRow \in Nat
  /\ Traffic \subseteq Limits
  /\ Nil \notin Int \cup Conns \cup {"register", "login", "logout", "connect"}

Ops == 1 .. MaxOp      \* the n-th request; if it makes a token, the token is n
Ids == 1 .. MaxRow

SessKey(t)   == <<"sess", t>>
MapKey(u)    == <<"map", u>>
ServerKey(u) == <<"server", u>>
Keys == ({"sess"} \X Ops) \cup ({"map", "server"} \X Ids)

Values == Ids \cup Ops \cup {Nil}

Queued == 0     \* the reply to a GET that was queued: the string "QUEUED", no token
Keep   == -1    \* a key that the commands queued on a connection do not write

\* A connection with an empty queue is not one without MULTI.
ASSUME QueueAssumption == Nil \notin [Keys -> Values \cup {Keep}]

VARIABLES
  limits,     \* the bounds of this behaviour
  table,      \* user: the name of every row
  store,      \* Redis: the value of every key
  tx,         \* Redis, per connection: Nil, or what its MULTI has queued, by key
  idle,       \* the pool: connections not in use, the last one given back at the end
  held,       \* the pool: the connection a request's command is using
  started, aged,        \* requests so far; connections closed so far
  kind, name, token,    \* per request: what it is, its user name or token
  pc, uid, old          \* its handler: control state; user id, token found

redisVars == <<store, tx>>
poolVars  == <<idle, held>>
argVars   == <<limits, started, kind, name, token>>
vars == <<table, redisVars, poolVars, aged, argVars, pc, uid, old>>

Init ==
  /\ limits \in Traffic /\ table = Known
  /\ store = [k \in Keys |-> Nil] /\ tx = [c \in Conns |-> Nil]
  /\ idle = <<>> /\ held = [o \in Ops |-> Nil]
  /\ started = 0 /\ aged = 0
  /\ kind = [o \in Ops |-> Nil] /\ name = [o \in Ops |-> Nil] /\ token = [o \in Ops |-> Nil]
  /\ pc = [o \in Ops |-> "idle"] /\ uid = [o \in Ops |-> Nil] /\ old = [o \in Ops |-> Nil]

Goto(o, l) == pc' = [pc EXCEPT ![o] = l]
Ended  == {"ok", "fail"}
Active == {o \in Ops : pc[o] \notin Ended \cup {"idle"}}

\* CheckHaveUserName: the rows of a name, and the first of them.
Rows(n) == {u \in DOMAIN table : table[u] = n}
First(n, u) == u \in Rows(n) /\ \A v \in Rows(n) : u <= v
-------------------------------------------------------------------------------
(* Requests arrive. *)

Start(k, n, t, l) ==
  LET o == started + 1 IN
  /\ o \in Ops /\ o <= limits.requests /\ Cardinality(Active) < limits.active /\ k \in Requests
  /\ started' = o
  /\ kind' = [kind EXCEPT ![o] = k]
  /\ name' = [name EXCEPT ![o] = n]
  /\ token' = [token EXCEPT ![o] = t]
  /\ Goto(o, l)
  /\ UNCHANGED <<limits, table, redisVars, poolVars, aged, uid, old>>

\* A client uses the tokens it was given.
Given(t) == pc[t] = "ok" /\ kind[t] \in {"register", "login"}

StartRegister(n) == Start("register", n, Nil, "check")
StartLogin(n)    == Start("login", n, Nil, "find")
StartLogout(t)   == Given(t) /\ Start("logout", Nil, t, "session")
StartConnect(t)  == Given(t) /\ Start("connect", Nil, t, "session")
-------------------------------------------------------------------------------
(* The connections. *)

\* The next step of a handler in one of these states is a Redis command.
Commands == {"last", "expel", "multi", "putSession", "putMap", "exec",
             "session", "unmap", "unserve", "leave", "serve"}

InPool == {idle[i] : i \in DOMAIN idle}
InUse  == {held[o] : o \in Ops}

\* Last in, first out; another connection is dialed when all are in use.
Take(o) ==
  /\ pc[o] \in Commands /\ held[o] = Nil
  /\ \/ /\ idle # <<>>
        /\ held' = [held EXCEPT ![o] = idle[Len(idle)]]
        /\ idle' = SubSeq(idle, 1, Len(idle) - 1)
     \/ /\ idle = <<>>
        /\ \E c \in Conns \ InUse : held' = [held EXCEPT ![o] = c]
        /\ UNCHANGED idle
  /\ UNCHANGED <<table, redisVars, aged, argVars, pc, uid, old>>

\* MaxConnAge (tools/redis.go): the pool closes a connection, and its transaction is gone.
Age(i) ==
  /\ aged < limits.aged
  /\ aged' = aged + 1
  /\ idle' = SubSeq(idle, 1, i - 1) \o SubSeq(idle, i + 1, Len(idle))
  /\ tx' = [tx EXCEPT ![idle[i]] = Nil]
  /\ UNCHANGED <<table, store, held, argVars, pc, uid, old>>

\* A command of o runs now: on a connection that has said MULTI it is only queued.
Runs(o, l) == pc[o] = l /\ held[o] # Nil
InMulti(o) == tx[held[o]] # Nil

GiveBack(o) ==
  /\ idle' = Append(idle, held[o])
  /\ held' = [held EXCEPT ![o] = Nil]

Write(o, k, v) ==
  IF InMulti(o)
  THEN /\ tx' = [tx EXCEPT ![held[o]][k] = v]
       /\ UNCHANGED store
  ELSE store' = [store EXCEPT ![k] = v] /\ UNCHANGED tx

\* go-redis cannot read "QUEUED" as a number or a hash: the command is an error.
OrFail(o, l) == Goto(o, IF InMulti(o) THEN "fail" ELSE l)
-------------------------------------------------------------------------------
(* The token that Register and Login make. *)

Multi(o) ==
  /\ Runs(o, "multi") /\ GiveBack(o)
  /\ tx' = IF InMulti(o) THEN tx ELSE [tx EXCEPT ![held[o]] = [k \in Keys |-> Keep]]
  /\ Goto(o, "putSession")
  /\ UNCHANGED <<table, store, aged, argVars, uid, old>>

\* HMSet.  Register does not write sess_map.
PutSession(o) ==
  /\ Runs(o, "putSession") /\ GiveBack(o)
  /\ Write(o, SessKey(o), uid[o])
  /\ Goto(o, IF kind[o] = "login" THEN "putMap" ELSE "exec")
  /\ UNCHANGED <<table, aged, argVars, uid, old>>

PutMap(o) ==
  /\ Runs(o, "putMap") /\ GiveBack(o)
  /\ Write(o, MapKey(uid[o]), o)
  /\ Goto(o, "exec")
  /\ UNCHANGED <<table, aged, argVars, uid, old>>

\* EXEC without MULTI is an error.
Exec(o) ==
  /\ Runs(o, "exec") /\ GiveBack(o)
  /\ IF InMulti(o)
     THEN LET queue == tx[held[o]] IN
          /\ store' = [k \in Keys |-> IF queue[k] = Keep THEN store[k] ELSE queue[k]]
          /\ tx' = [tx EXCEPT ![held[o]] = Nil]
          /\ Goto(o, "ok")
     ELSE Goto(o, "fail") /\ UNCHANGED redisVars
  /\ UNCHANGED <<table, aged, argVars, uid, old>>
-------------------------------------------------------------------------------
(* Register. *)

\* if uData.Id > 0: "this user name already have".
Check(o) ==
  /\ pc[o] = "check"
  /\ Goto(o, IF Rows(name[o]) # {} THEN "fail" ELSE "add")
  /\ UNCHANGED <<table, redisVars, poolVars, aged, argVars, uid, old>>

\* User.Add looks again, and returns the id of a row it finds now.
Add(o) ==
  /\ pc[o] = "add"
  /\ \/ Rows(name[o]) = {} /\ Goto(o, "create") /\ UNCHANGED uid
     \/ \E u \in Ids : First(name[o], u) /\ Goto(o, "multi") /\ uid' = [uid EXCEPT ![o] = u]
  /\ UNCHANGED <<table, redisVars, poolVars, aged, argVars, old>>

\* user_name is UNIQUE in the schema (db/gochat.sqlite3): a second insert is an error.
Taken_Never(n) == FALSE
Taken(n) == Rows(n) # {}
Create(o) ==
  /\ pc[o] = "create"
  /\ \/ Taken(name[o]) /\ Goto(o, "fail") /\ UNCHANGED <<table, uid>>
     \/ /\ ~Taken(name[o]) /\ Len(table) < MaxRow
        /\ table' = Append(table, name[o])
        /\ uid' = [uid EXCEPT ![o] = Len(table) + 1]
        /\ Goto(o, "multi")
  /\ UNCHANGED <<redisVars, poolVars, aged, argVars, old>>
-------------------------------------------------------------------------------
(* Login. *)

\* A wrong password fails here too.
Find(o) ==
  /\ pc[o] = "find"
  /\ \/ Rows(name[o]) = {} /\ Goto(o, "fail") /\ UNCHANGED uid
     \/ \E u \in Ids : First(name[o], u) /\ Goto(o, "last") /\ uid' = [uid EXCEPT ![o] = u]
  /\ UNCHANGED <<table, redisVars, poolVars, aged, argVars, old>>

\* Get of sess_map.
Last(o) ==
  LET found == IF InMulti(o) THEN Queued ELSE store[MapKey(uid[o])] IN
  /\ Runs(o, "last") /\ GiveBack(o)
  /\ old' = [old EXCEPT ![o] = found]
  /\ Goto(o, IF found # Nil THEN "expel" ELSE "multi")
  /\ UNCHANGED <<table, redisVars, aged, argVars, uid>>

\* Del of the session found; sess_QUEUED does not exist.
Expelled_Not(o) == FALSE
Expelled(o) == old[o] # Queued
Expel(o) ==
  /\ Runs(o, "expel") /\ GiveBack(o)
  /\ IF Expelled(o) THEN Write(o, SessKey(old[o]), Nil) ELSE UNCHANGED redisVars
  /\ OrFail(o, "multi")
  /\ UNCHANGED <<table, aged, argVars, uid, old>>
-------------------------------------------------------------------------------
(* Logout, and the part of Connect that depends on the session. *)

\* HGetAll of the session.
Session(o) ==
  LET u == store[SessKey(token[o])] IN
  /\ Runs(o, "session") /\ GiveBack(o)
  /\ IF InMulti(o) \/ u = Nil
     THEN Goto(o, "fail") /\ UNCHANGED uid
     ELSE Goto(o, IF kind[o] = "logout" THEN "unmap" ELSE "serve") /\ uid' = [uid EXCEPT ![o] = u]
  /\ UNCHANGED <<table, redisVars, aged, argVars, old>>

\* Del of sess_map, whatever token it holds.
Unmapped_Kept(o)  == store[MapKey(uid[o])]
Unmapped_Blank(o) == MaxOp + 1
Unmapped(o) == Nil
Unmap(o) ==
  /\ Runs(o, "unmap") /\ GiveBack(o)
  /\ Write(o, MapKey(uid[o]), Unmapped(o))
  /\ OrFail(o, "unserve")
  /\ UNCHANGED <<table, aged, argVars, uid, old>>

Unserved_Kept(o) == IF store[MapKey(uid[o])] = Nil THEN store[ServerKey(uid[o])] ELSE Nil
Unserved(o) == Nil
Unserve(o) ==
  /\ Runs(o, "unserve") /\ GiveBack(o)
  /\ Write(o, ServerKey(uid[o]), Unserved(o))
  /\ OrFail(o, "leave")
  /\ UNCHANGED <<table, aged, argVars, uid, old>>

AfterLeave_Trusting(o, l) == Goto(o, l)
AfterLeave(o, l) == OrFail(o, l)
Leave(o) ==
  /\ Runs(o, "leave") /\ GiveBack(o)
  /\ Write(o, SessKey(token[o]), Nil)
  /\ AfterLeave(o, "ok")
  /\ UNCHANGED <<table, aged, argVars, uid, old>>

\* Connect: Set of the user's server key (see Presence for the rest); a queued Set is no error.
Serve(o) ==
  /\ Runs(o, "serve") /\ GiveBack(o)
  /\ Write(o, ServerKey(uid[o]), uid[o])
  /\ Goto(o, "ok")
  /\ UNCHANGED <<table, aged, argVars, uid, old>>
-------------------------------------------------------------------------------
Handler(o) == \/ Take(o)
              \/ Check(o) \/ Add(o) \/ Create(o) \/ Find(o) \/ Last(o) \/ Expel(o)
              \/ Multi(o) \/ PutSession(o) \/ PutMap(o) \/ Exec(o)
              \/ Session(o) \/ Unmap(o) \/ Unserve(o) \/ Leave(o) \/ Serve(o)

Next == \/ \E n \in Names : StartRegister(n) \/ StartLogin(n)
        \/ \E t \in Ops : StartLogout(t) \/ StartConnect(t)
        \/ \E o \in Ops : Handler(o)
        \/ \E i \in DOMAIN idle : Age(i)

Spec == Init /\ [][Next]_vars
-------------------------------------------------------------------------------
TypeOK ==
  /\ limits \in Traffic /\ table \in Seq(Names) /\ Len(table) <= MaxRow
  /\ store \in [Keys -> Values] /\ tx \in [Conns -> [Keys -> Values \cup {Keep}] \cup {Nil}]
  /\ idle \in Seq(Conns) /\ held \in [Ops -> Conns \cup {Nil}]
  /\ started \in 0 .. MaxOp /\ aged \in Nat
  /\ kind \in [Ops -> {"register", "login", "logout", "connect", Nil}]
  /\ name \in [Ops -> Names \cup {Nil}] /\ token \in [Ops -> Ops \cup {Nil}]
  /\ pc \in [Ops -> {"idle", "check", "add", "create", "find"} \cup Commands \cup Ended]
  /\ uid \in [Ops -> Ids \cup {Nil}] /\ old \in [Ops -> Ops \cup {Queued, Nil}]
-------------------------------------------------------------------------------
(* Properties. *)

\* Clients wait for each answer before they send the next request, and the pool has closed
\* no connection, which might have been in the middle of a transaction.
Apart == limits.active = 1 /\ aged = 0 /\ Active = {}

\* Between two requests, the token sess_map names for a user is a session of that user:
\* Login writes both in one transaction, Logout unmaps a token before it deletes the
\* session (logic/rpc.go).  Only when requests do not overlap, see TokenSet.
CurrentLive ==
  Apart => \A u \in Ids : store[MapKey(u)] # Nil => store[SessKey(store[MapKey(u)])] = u

\* Between two requests, a user who has a server key, which lets Push address him, has
\* a session: Logout removes the key with the session (logic/rpc.go).
Live(u) == {t \in Ops : store[SessKey(t)] = u}
LoggedOut == Apart => \A u \in Ids : store[ServerKey(u)] # Nil => Live(u) # {}

\* A token whose Logout was confirmed opens no session any more, whatever requests
\* overlap, share connections or lose them: the write of the session is never queued
\* beyond the moment it was read (logic/rpc.go Logout).
LogoutFinal == \A o \in Ops : kind[o] = "logout" /\ pc[o] = "ok" => store[SessKey(token[o])] = Nil

\* Between two requests, a user has at most one session: Login deletes the one sess_map
\* names (logic/rpc.go Login).  Not so a user who registers in the run: Register writes
\* no sess_map, and a Logout of that session deletes the sess_map of another.
OneSession == Apart => \A u \in DOMAIN Known : Cardinality(Live(u)) <= 1

\* A name is one user, also when two Registers have both found it free: every token
\* confirmed for the name is of the one row (logic/rpc.go Register, dao/user.go Add).
OneUser ==
  \A o \in Ops : kind[o] \in {"register", "login"} /\ pc[o] = "ok" => Rows(name[o]) = {uid[o]}

\* rpc.go:71, "set token": when Login or Register confirms a token, its session is set.
TokenSet == [][\A o \in Ops : pc[o] = "exec" /\ pc'[o] = "ok" => store'[SessKey(o)] = uid[o]]_vars
-------------------------------------------------------------------------------
(* The inductive invariant behind LogoutFinal. *)

Numbered == \A o \in Ops : pc[o] # "idle" => o <= started

\* The values of a key have its type, in Redis and in the queues.
Fits(v, k) == /\ v \in Values
              /\ \A t \in Ops : k = SessKey(t) => v \in Ids \cup {Nil}
              /\ \A u \in Ids : k = MapKey(u) => v \in Ops \cup {Nil}
Typed ==
  /\ \A k \in Keys : Fits(store[k], k)
  /\ \A c \in Conns : tx[c] # Nil => \A k \in Keys : tx[c][k] = Keep \/ Fits(tx[c][k], k)

\* What a handler has found so far, and whose handler it is.
Found(o) ==
  /\ pc[o] \in {"check", "add", "create"} => name[o] \in Names
  /\ pc[o] \in {"last", "expel", "multi", "putSession", "putMap", "unmap", "unserve", "leave", "serve"}
       => uid[o] \in Ids
  /\ pc[o] = "expel" => old[o] \in Ops \cup {Queued}
  /\ pc[o] \in {"session", "unmap", "unserve", "leave"} => token[o] \in Ops
  /\ kind[o] = "logout" => pc[o] \in {"session", "unmap", "unserve", "leave"} \cup Ended
  /\ pc[o] \in {"unmap", "unserve", "leave"} => kind[o] = "logout"
  /\ kind[o] = "logout" => token[o] \in Ops

\* The write of a session is in one place: still to be sent, queued on one connection,
\* or done.
Before == {"idle", "check", "add", "create", "find", "last", "expel", "multi", "putSession"}
Pending(c, t) == tx[c] # Nil /\ tx[c][SessKey(t)] \in Ids
WrittenOnce ==
  \A t \in Ops :
    /\ pc[t] \in Before => store[SessKey(t)] = Nil /\ \A c \in Conns : ~Pending(c, t)
    /\ \A c \in Conns : Pending(c, t) => store[SessKey(t)] = Nil
    /\ \A c, d \in Conns : Pending(c, t) /\ Pending(d, t) => c = d

\* A Logout that has read its session knows that the write is done.
Settled(t) == pc[t] \notin Before /\ \A c \in Conns : ~Pending(c, t)
Confirmed(o) ==
  /\ pc[o] \in {"unmap", "unserve", "leave"} => Settled(token[o])
  /\ kind[o] = "logout" /\ pc[o] = "ok" => Settled(token[o]) /\ store[SessKey(token[o])] = Nil

IInv == /\ TypeOK /\ Numbered /\ Typed /\ WrittenOnce
        /\ \A o \in Ops : Found(o) /\ Confirmed(o)
===============================================================================
