------------------------------ MODULE AuthProofs ------------------------------
(* What holds of Auth for every value of the constants. *)
EXTENDS Auth, FiniteSetTheorems, SequenceTheorems, TLAPS

\* The keys of sessions, mapped tokens and servers are different keys.
LEMMA KeyFacts ==
  /\ \A t \in Ops : SessKey(t) \in Keys
  /\ \A u \in Ids : MapKey(u) \in Keys /\ ServerKey(u) \in Keys
  /\ \A t, v : SessKey(t) = SessKey(v) => t = v
  /\ \A u, v : (MapKey(u) = MapKey(v) => u = v) /\ (ServerKey(u) = ServerKey(v) => u = v)
  /\ \A t, u : SessKey(t) # MapKey(u) /\ SessKey(t) # ServerKey(u) /\ MapKey(t) # ServerKey(u)
BY DEF SessKey, MapKey, ServerKey, Keys

\* User ids and tokens are none of the special values.
LEMMA ValueFacts ==
  /\ Keep \notin Values /\ Queued \notin Ops /\ Nil \in Values /\ Nil \notin Ids /\ Nil \notin Conns
  /\ Ids \subseteq Values /\ Ops \subseteq Values
  /\ \A k : Fits(Nil, k)
  /\ \A t \in Ops, u \in Ids : Fits(u, SessKey(t)) /\ Fits(t, MapKey(u)) /\ Fits(u, ServerKey(u))
<1>1. /\ Keep \notin Values /\ Queued \notin Ops /\ Nil \in Values /\ Nil \notin Ids /\ Nil \notin Conns
      /\ Ids \subseteq Values /\ Ops \subseteq Values
  BY AuthAssumption DEF AuthAssumption, Keep, Queued, Values, Ids, Ops
<1> QED
  BY <1>1, KeyFacts DEF Fits

\* The invariant holds initially.
LEMMA InvariantInit == Init => IInv
<1> SUFFICES ASSUME Init PROVE IInv
  OBVIOUS
<1>1. TypeOK
  BY AuthAssumption, ValueFacts DEF AuthAssumption, Init, TypeOK
<1>2. Numbered /\ Typed
  BY ValueFacts DEF Init, Numbered, Typed
<1>3. WrittenOnce
  BY KeyFacts DEF Init, WrittenOnce, Pending
<1>4. \A o \in Ops : Found(o) /\ Confirmed(o)
  BY AuthAssumption DEF AuthAssumption, Init, Found, Confirmed, Ended
<1> QED
  BY <1>1, <1>2, <1>3, <1>4 DEF IInv

\* A request that arrives takes an unused number; Redis does not change.
LEMMA StartNext ==
  ASSUME IInv, NEW k \in {"register", "login", "logout", "connect"},
         NEW n \in Names \cup {Nil}, NEW t \in Ops \cup {Nil},
         NEW l \in {"check", "find", "session"},
         l = "check" => n \in Names,
         k = "logout" => l = "session",
         l = "session" => t \in Ops,
         Start(k, n, t, l)
  PROVE  IInv'
<1> USE DEF Ended
<1>1. PICK o \in Ops : o = started + 1
  BY DEF Start
<1>2. /\ started' = o
      /\ kind' = [kind EXCEPT ![o] = k] /\ name' = [name EXCEPT ![o] = n]
      /\ token' = [token EXCEPT ![o] = t] /\ pc' = [pc EXCEPT ![o] = l]
      /\ UNCHANGED <<limits, table, store, tx, idle, held, aged, uid, old>>
  BY <1>1 DEF Start, Goto, redisVars, poolVars
<1>3. TypeOK /\ Numbered /\ Typed /\ WrittenOnce /\ \A p \in Ops : Found(p) /\ Confirmed(p)
  BY DEF IInv
<1>4. pc[o] = "idle"
  BY <1>1, <1>3 DEF Numbered, TypeOK, Ops
<1>5. TypeOK'
  BY <1>1, <1>2, <1>3 DEF TypeOK, Ops, Commands
<1>6. Numbered'
  BY <1>1, <1>2, <1>3 DEF Numbered, TypeOK, Ops
<1>7. Typed'
  BY <1>2, <1>3 DEF Typed
<1>8. \A p \in Ops : p # o => pc'[p] = pc[p] /\ token'[p] = token[p] /\ name'[p] = name[p] /\ kind'[p] = kind[p]
  BY <1>2, <1>3 DEF TypeOK
<1>9. pc'[o] = l /\ token'[o] = t /\ name'[o] = n /\ kind'[o] = k
  BY <1>2, <1>3 DEF TypeOK
<1>10. WrittenOnce'
  BY <1>2, <1>3, <1>4, <1>8, <1>9 DEF WrittenOnce, Pending, Before
<1>11. ASSUME NEW p \in Ops PROVE Found(p)' /\ Confirmed(p)'
  <2>1. CASE p = o
    BY <2>1, <1>9 DEF Found, Confirmed
  <2>2. CASE p # o
    <3>1. Found(p) /\ Confirmed(p)
      BY <1>3
    <3>2. Found(p)'
      BY <2>2, <3>1, <1>2, <1>8 DEF Found
    <3>3. ASSUME NEW v \in Ops, Settled(v) PROVE Settled(v)'
      <4>1. pc'[v] \notin Before
        BY <3>3, <1>4, <1>8 DEF Settled, Before
      <4> QED
        BY <3>3, <4>1, <1>2 DEF Settled, Pending
    <3>4. Confirmed(p)'
      BY <2>2, <3>1, <3>3, <1>2, <1>8 DEF Found, Confirmed
    <3> QED
      BY <3>2, <3>4
  <2> QED
    BY <2>1, <2>2
<1> QED
  BY <1>5, <1>6, <1>7, <1>10, <1>11 DEF IInv

\* A command of a handler runs on a connection.
LEMMA HeldFacts ==
  ASSUME TypeOK, NEW o \in Ops, NEW l, Runs(o, l)
  PROVE  pc[o] = l /\ held[o] \in Conns
BY DEF Runs, TypeOK

\* What one command does to Redis.
LEMMA WriteEffect ==
  ASSUME TypeOK, NEW o \in Ops, held[o] \in Conns, NEW k \in Keys, NEW v \in Values, Write(o, k, v)
  PROVE  \/ /\ tx[held[o]] = Nil /\ tx' = tx
            /\ store' = [store EXCEPT ![k] = v]
         \/ /\ tx[held[o]] # Nil /\ store' = store
            /\ tx[held[o]] \in [Keys -> Values \cup {Keep}]
            /\ tx' = [tx EXCEPT ![held[o]] = [tx[held[o]] EXCEPT ![k] = v]]
BY DEF TypeOK, Write, InMulti

\* A step of a handler leaves the others' control state and locals alone, and never
\* takes its own request back before its write of a session.
LEMMA Frame ==
  ASSUME TypeOK, NEW o \in Ops, Handler(o)
  PROVE  /\ \A p \in Ops \ {o} : pc'[p] = pc[p] /\ uid'[p] = uid[p] /\ old'[p] = old[p]
         /\ pc[o] # "idle" /\ pc[o] \notin Ended
         /\ pc'[o] \in Before => pc[o] \in Before
         /\ UNCHANGED <<limits, kind, name, token, started, aged>>
<1> USE DEF Goto, OrFail, argVars, Runs, Ended, Commands, Before
<1>1. CASE Take(o)
  BY <1>1 DEF Take, TypeOK
<1>2. CASE Check(o)
  BY <1>2 DEF Check, TypeOK
<1>3. CASE Add(o)
  BY <1>3 DEF Add, TypeOK
<1>4. CASE Create(o)
  BY <1>4 DEF Create, Taken, TypeOK
<1>5. CASE Find(o)
  BY <1>5 DEF Find, TypeOK
<1>6. CASE Last(o)
  BY <1>6 DEF Last, TypeOK
<1>7. CASE Expel(o)
  BY <1>7 DEF Expel, TypeOK
<1>8. CASE Multi(o)
  BY <1>8 DEF Multi, TypeOK
<1>9. CASE PutSession(o)
  BY <1>9 DEF PutSession, TypeOK
<1>10. CASE PutMap(o)
  BY <1>10 DEF PutMap, TypeOK
<1>11. CASE Exec(o)
  BY <1>11 DEF Exec, TypeOK
<1>12. CASE Session(o)
  BY <1>12 DEF Session, TypeOK
<1>13. CASE Unmap(o)
  BY <1>13 DEF Unmap, TypeOK
<1>14. CASE Unserve(o)
  BY <1>14 DEF Unserve, TypeOK
<1>15. CASE Leave(o)
  BY <1>15 DEF Leave, TypeOK, AfterLeave
<1>16. CASE Serve(o)
  BY <1>16 DEF Serve, TypeOK
<1> QED
  BY <1>1, <1>2, <1>3, <1>4, <1>5, <1>6, <1>7, <1>8, <1>9, <1>10, <1>11, <1>12, <1>13, <1>14, <1>15, <1>16 DEF Handler

\* The four things a handler does to Redis: nothing, open a queue, one write (of a
\* session only by its own request's PutSession, which then is past it), or run a queue.
Opens(c)  == tx[c] = Nil /\ tx' = [tx EXCEPT ![c] = [k \in Keys |-> Keep]] /\ store' = store
Puts(o, k, v) == \/ tx' = tx /\ store' = [store EXCEPT ![k] = v]
                 \/ /\ store' = store /\ tx[held[o]] \in [Keys -> Values \cup {Keep}] /\ tx[held[o]] # Nil
                    /\ tx' = [tx EXCEPT ![held[o]] = [tx[held[o]] EXCEPT ![k] = v]]
Executes(c) == /\ tx[c] # Nil /\ tx' = [tx EXCEPT ![c] = Nil]
               /\ store' = [k \in Keys |-> IF tx[c][k] = Keep THEN store[k] ELSE tx[c][k]]
Harmless(o, k, v) ==
  \A t \in Ops : k = SessKey(t) /\ v # Nil => t = o /\ pc[o] \in Before /\ pc'[o] \notin Before

\* Which of them a step does.
LEMMA Effect ==
  ASSUME IInv, NEW o \in Ops, Handler(o)
  PROVE  \/ UNCHANGED <<store, tx>>
         \/ \E c \in Conns : Opens(c) \/ Executes(c)
         \/ /\ held[o] \in Conns
            /\ \E k \in Keys, v \in Values : Puts(o, k, v) /\ Fits(v, k) /\ Harmless(o, k, v)
<1> USE DEF Goto, redisVars
<1>0. TypeOK /\ Found(o)
  BY DEF IInv
<1>1. CASE UNCHANGED redisVars
  BY <1>1
<1>2. ASSUME NEW k \in Keys, NEW v \in Values, held[o] \in Conns, Write(o, k, v), Fits(v, k), Harmless(o, k, v)
      PROVE  \E j \in Keys, w \in Values : Puts(o, j, w) /\ Fits(w, j) /\ Harmless(o, j, w)
  BY <1>0, <1>2, WriteEffect DEF Puts
<1>3. ASSUME NEW k \in Keys, held[o] \in Conns, Write(o, k, Nil)
      PROVE  \E j \in Keys, w \in Values : Puts(o, j, w) /\ Fits(w, j) /\ Harmless(o, j, w)
  BY <1>2, <1>3, ValueFacts DEF Harmless
<1>4. CASE Expel(o)
  <2>1. held[o] \in Conns /\ pc[o] = "expel"
    BY <1>0, <1>4, HeldFacts DEF Expel
  <2>2. CASE old[o] # Queued
    <3>1. Write(o, SessKey(old[o]), Nil) /\ SessKey(old[o]) \in Keys
      BY <1>0, <1>4, <2>1, <2>2, KeyFacts DEF Expel, Expelled, Found
    <3> QED
      BY <1>3, <2>1, <3>1
  <2>3. CASE old[o] = Queued
    BY <1>1, <1>4, <2>3 DEF Expel, Expelled
  <2> QED
    BY <2>2, <2>3
<1>5. CASE Multi(o)
  BY <1>0, <1>5, HeldFacts DEF Multi, InMulti, Opens
<1>6. CASE PutSession(o)
  <2>1. held[o] \in Conns /\ pc[o] = "putSession" /\ uid[o] \in Ids /\ Write(o, SessKey(o), uid[o])
    BY <1>0, <1>6, HeldFacts DEF PutSession, Found
  <2>2. pc'[o] \in {"putMap", "exec"}
    BY <1>0, <1>6 DEF PutSession, TypeOK
  <2>3. Harmless(o, SessKey(o), uid[o])
    BY <2>1, <2>2, KeyFacts DEF Harmless, Before
  <2> QED
    BY <1>2, <2>1, <2>3, KeyFacts, ValueFacts
<1>7. CASE PutMap(o)
  <2>1. held[o] \in Conns /\ uid[o] \in Ids /\ Write(o, MapKey(uid[o]), o)
    BY <1>0, <1>7, HeldFacts DEF PutMap, Found
  <2>2. Harmless(o, MapKey(uid[o]), o)
    BY <2>1, KeyFacts DEF Harmless
  <2> QED
    BY <1>2, <2>1, <2>2, KeyFacts, ValueFacts
<1>8. CASE Exec(o)
  BY <1>0, <1>1, <1>8, HeldFacts DEF Exec, InMulti, Executes
<1>9. CASE Unmap(o)
  <2>1. held[o] \in Conns /\ uid[o] \in Ids /\ Write(o, MapKey(uid[o]), Nil)
    BY <1>0, <1>9, HeldFacts DEF Unmap, Unmapped, Found
  <2> QED
    BY <1>3, <2>1, KeyFacts
<1>10. CASE Unserve(o)
  <2>1. held[o] \in Conns /\ uid[o] \in Ids /\ Write(o, ServerKey(uid[o]), Nil)
    BY <1>0, <1>10, HeldFacts DEF Unserve, Unserved, Found
  <2> QED
    BY <1>3, <2>1, KeyFacts
<1>11. CASE Leave(o)
  <2>1. held[o] \in Conns /\ token[o] \in Ops /\ Write(o, SessKey(token[o]), Nil)
    BY <1>0, <1>11, HeldFacts DEF Leave, Found
  <2> QED
    BY <1>3, <2>1, KeyFacts
<1>12. CASE Serve(o)
  <2>1. held[o] \in Conns /\ uid[o] \in Ids /\ Write(o, ServerKey(uid[o]), uid[o])
    BY <1>0, <1>12, HeldFacts DEF Serve, Found
  <2>2. Harmless(o, ServerKey(uid[o]), uid[o])
    BY <2>1, KeyFacts DEF Harmless
  <2> QED
    BY <1>2, <2>1, <2>2, KeyFacts, ValueFacts
<1> QED
  BY <1>1, <1>4, <1>5, <1>6, <1>7, <1>8, <1>9, <1>10, <1>11, <1>12
     DEF Handler, Take, Check, Add, Create, Taken, Find, Last, Session

\* Connections go from the pool to a handler and back.
LEMMA PoolNext ==
  ASSUME TypeOK, NEW o \in Ops, Handler(o)
  PROVE  idle' \in Seq(Conns) /\ held' \in [Ops -> Conns \cup {Nil}]
<1>0. idle \in Seq(Conns) /\ held \in [Ops -> Conns \cup {Nil}]
  BY DEF TypeOK
<1>1. ASSUME held[o] # Nil, GiveBack(o) PROVE idle' \in Seq(Conns) /\ held' \in [Ops -> Conns \cup {Nil}]
  BY <1>0, <1>1 DEF GiveBack
<1>2. CASE Take(o)
  <2>1. CASE idle # <<>>
    <3>1. Len(idle) \in 1 .. Len(idle) /\ idle[Len(idle)] \in Conns
      BY <1>0, <2>1
    <3>2. SubSeq(idle, 1, Len(idle) - 1) \in Seq(Conns)
      BY <1>0, SubSeqProperties
    <3> QED
      BY <1>0, <1>2, <2>1, <3>1, <3>2 DEF Take
  <2>2. CASE idle = <<>>
    BY <1>0, <1>2, <2>2 DEF Take
  <2> QED
    BY <2>1, <2>2
<1>3. CASE UNCHANGED poolVars
  BY <1>0, <1>3 DEF poolVars
<1> QED
  BY <1>1, <1>2, <1>3
     DEF Handler, Runs, Check, Add, Create, Taken, Find, Last, Expel, Multi, PutSession, PutMap, Exec,
         Session, Unmap, Unserve, Leave, Serve

\* The user table and the handlers' locals.
LEMMA LocalsNext ==
  ASSUME IInv, NEW o \in Ops, Handler(o)
  PROVE  /\ table' \in Seq(Names) /\ Len(table') <= MaxRow
         /\ pc' \in [Ops -> {"idle", "check", "add", "create", "find"} \cup Commands \cup Ended]
         /\ uid' \in [Ops -> Ids \cup {Nil}] /\ old' \in [Ops -> Ops \cup {Queued, Nil}]
         /\ Found(o)'
<1> USE DEF Goto, OrFail, argVars, Runs, Ended, Commands
<1>0. TypeOK /\ Found(o) /\ Typed
  BY DEF IInv
<1>1. /\ table \in Seq(Names) /\ Len(table) <= MaxRow
      /\ pc \in [Ops -> {"idle", "check", "add", "create", "find"} \cup Commands \cup Ended]
      /\ uid \in [Ops -> Ids \cup {Nil}] /\ old \in [Ops -> Ops \cup {Queued, Nil}]
      /\ UNCHANGED <<kind, name, token>>
  BY <1>0, Frame DEF TypeOK
<1>2. CASE Take(o)
  BY <1>0, <1>1, <1>2 DEF Take, Found
<1>3. CASE Check(o)
  BY <1>0, <1>1, <1>3 DEF Check, Found
<1>4. CASE Add(o)
  BY <1>0, <1>1, <1>4 DEF Add, Found
<1>5. CASE Create(o)
  <2>1. CASE Rows(name[o]) # {}
    <3>1. UNCHANGED <<table, uid, old>> /\ pc' = [pc EXCEPT ![o] = "fail"]
      BY <1>5, <2>1 DEF Create, Taken
    <3> QED
      BY <1>0, <1>1, <3>1 DEF Found
  <2>2. CASE Rows(name[o]) = {}
    <3>1. /\ Len(table) < MaxRow /\ table' = Append(table, name[o])
          /\ uid' = [uid EXCEPT ![o] = Len(table) + 1]
          /\ pc[o] = "create" /\ pc' = [pc EXCEPT ![o] = "multi"] /\ UNCHANGED old
      BY <1>5, <2>2 DEF Create, Taken
    <3>2. Len(table) + 1 \in Ids /\ name[o] \in Names
      BY <1>0, <1>1, <3>1, AuthAssumption DEF AuthAssumption, Ids, Found
    <3> QED
      BY <1>0, <1>1, <3>1, <3>2, AuthAssumption DEF AuthAssumption, Found
  <2> QED
    BY <2>1, <2>2
<1>6. CASE Find(o)
  BY <1>0, <1>1, <1>6 DEF Find, Found
<1>7. CASE Last(o)
  <2>1. uid[o] \in Ids /\ pc[o] = "last"
    BY <1>0, <1>7 DEF Last, Found
  <2>2. store[MapKey(uid[o])] \in Ops \cup {Nil}
    BY <1>0, <2>1, KeyFacts DEF Typed, Fits
  <2> DEFINE found == IF InMulti(o) THEN Queued ELSE store[MapKey(uid[o])]
  <2>3. found \in Ops \cup {Queued, Nil}
    BY <2>2
  <2>4. /\ table' = table /\ uid' = uid /\ old' = [old EXCEPT ![o] = found]
        /\ pc' = [pc EXCEPT ![o] = IF found # Nil THEN "expel" ELSE "multi"]
    BY <1>7 DEF Last
  <2> HIDE DEF found
  <2> QED
    BY <1>0, <1>1, <2>1, <2>3, <2>4 DEF Found
<1>8. CASE Expel(o)
  BY <1>0, <1>1, <1>8 DEF Expel, Found
<1>9. CASE Multi(o)
  BY <1>0, <1>1, <1>9 DEF Multi, Found
<1>10. CASE PutSession(o)
  BY <1>0, <1>1, <1>10 DEF PutSession, Found
<1>11. CASE PutMap(o)
  BY <1>0, <1>1, <1>11 DEF PutMap, Found
<1>12. CASE Exec(o)
  BY <1>0, <1>1, <1>12 DEF Exec, Found
<1>13. CASE Session(o)
  <2>1. token[o] \in Ops /\ pc[o] = "session"
    BY <1>0, <1>13 DEF Session, Found
  <2>2. store[SessKey(token[o])] \in Ids \cup {Nil}
    BY <1>0, <2>1, KeyFacts DEF Typed, Fits
  <2> QED
    BY <1>0, <1>1, <1>13, <2>1, <2>2 DEF Session, Found
<1>14. CASE Unmap(o)
  BY <1>0, <1>1, <1>14 DEF Unmap, Found
<1>15. CASE Unserve(o)
  BY <1>0, <1>1, <1>15 DEF Unserve, Found
<1>16. CASE Leave(o)
  BY <1>0, <1>1, <1>16 DEF Leave, Found, AfterLeave
<1>17. CASE Serve(o)
  BY <1>0, <1>1, <1>17 DEF Serve, Found
<1> QED
  BY <1>2, <1>3, <1>4, <1>5, <1>6, <1>7, <1>8, <1>9, <1>10, <1>11, <1>12, <1>13, <1>14, <1>15, <1>16, <1>17 DEF Handler

\* What the other handlers have found stays true.
LEMMA OtherFoundNext ==
  ASSUME IInv, NEW o \in Ops, Handler(o), NEW p \in Ops \ {o}
  PROVE  Found(p)'
<1>1. TypeOK /\ Found(p)
  BY DEF IInv
<1> QED
  BY <1>1, Frame DEF Found

\* Redis and its queues keep their types.
LEMMA RedisNext ==
  ASSUME IInv, NEW o \in Ops, Handler(o)
  PROVE  /\ store' \in [Keys -> Values] /\ tx' \in [Conns -> [Keys -> Values \cup {Keep}] \cup {Nil}]
         /\ Typed'
<1>0. /\ store \in [Keys -> Values] /\ tx \in [Conns -> [Keys -> Values \cup {Keep}] \cup {Nil}]
      /\ Typed
  BY DEF IInv, TypeOK
<1>1. \A v, k : Fits(v, k)' = Fits(v, k)
  BY DEF Fits
<1>2. CASE UNCHANGED <<store, tx>>
  BY <1>0, <1>2 DEF Typed
<1>3. ASSUME NEW c \in Conns, Opens(c)
      PROVE  store' = store /\ tx' \in [Conns -> [Keys -> Values \cup {Keep}] \cup {Nil}] /\ Typed'
  BY <1>0, <1>3 DEF Opens, Typed
<1>4. ASSUME NEW c \in Conns, Executes(c)
      PROVE  /\ store' \in [Keys -> Values] /\ tx' \in [Conns -> [Keys -> Values \cup {Keep}] \cup {Nil}]
             /\ Typed'
  <2>1. /\ tx[c] # Nil /\ tx[c] \in [Keys -> Values \cup {Keep}] /\ tx' = [tx EXCEPT ![c] = Nil]
        /\ store' = [k \in Keys |-> IF tx[c][k] = Keep THEN store[k] ELSE tx[c][k]]
    BY <1>0, <1>4 DEF Executes
  <2>2. \A k \in Keys : tx[c][k] = Keep \/ Fits(tx[c][k], k)
    BY <1>0, <2>1 DEF Typed
  <2>3. store' \in [Keys -> Values] /\ tx' \in [Conns -> [Keys -> Values \cup {Keep}] \cup {Nil}]
    BY <1>0, <2>1, ValueFacts
  <2>4. \A k \in Keys : Fits(store'[k], k)
    BY <1>0, <2>1, <2>2 DEF Typed
  <2>5. \A d \in Conns : tx'[d] # Nil => tx'[d] = tx[d]
    BY <1>0, <2>1
  <2> QED
    BY <1>0, <2>3, <2>4, <2>5 DEF Typed
<1>5. ASSUME held[o] \in Conns, NEW k \in Keys, NEW v \in Values, Puts(o, k, v), Fits(v, k)
      PROVE  /\ store' \in [Keys -> Values] /\ tx' \in [Conns -> [Keys -> Values \cup {Keep}] \cup {Nil}]
             /\ Typed'
  <2>1. CASE tx' = tx /\ store' = [store EXCEPT ![k] = v]
    BY <1>0, <1>5, <2>1 DEF Typed
  <2>2. CASE /\ store' = store /\ tx[held[o]] \in [Keys -> Values \cup {Keep}] /\ tx[held[o]] # Nil
             /\ tx' = [tx EXCEPT ![held[o]] = [tx[held[o]] EXCEPT ![k] = v]]
    <3>1. tx' \in [Conns -> [Keys -> Values \cup {Keep}] \cup {Nil}]
      BY <1>0, <2>2
    <3>2. ASSUME NEW c \in Conns, tx'[c] # Nil, NEW j \in Keys
          PROVE  tx'[c][j] = Keep \/ Fits(tx'[c][j], j)
      BY <1>0, <1>5, <2>2, <3>2 DEF Typed
    <3> QED
      BY <1>0, <2>2, <3>1, <3>2 DEF Typed
  <2> QED
    BY <1>5, <2>1, <2>2 DEF Puts
<1> QED
  BY <1>0, <1>2, <1>3, <1>4, <1>5, Effect

\* Once a session has been written, no step of a handler queues it or writes it again.
LEMMA SettledNext ==
  ASSUME IInv, NEW o \in Ops, Handler(o), NEW t \in Ops, Settled(t)
  PROVE  Settled(t)' /\ (store[SessKey(t)] = Nil => store'[SessKey(t)] = Nil)
<1> DEFINE s == SessKey(t)
<1>0. /\ store \in [Keys -> Values] /\ tx \in [Conns -> [Keys -> Values \cup {Keep}] \cup {Nil}]
      /\ Typed /\ s \in Keys
  BY KeyFacts DEF IInv, TypeOK
<1>1. pc[t] \notin Before /\ pc'[t] \notin Before
  BY Frame DEF IInv, Settled
<1>2. \A c \in Conns : tx[c] # Nil => tx[c][s] \in {Keep, Nil}
  BY <1>0 DEF Settled, Pending, Typed, Fits
<1>3. SUFFICES /\ \A c \in Conns : tx'[c] # Nil => tx'[c][s] \in {Keep, Nil}
               /\ store[s] = Nil => store'[s] = Nil
  BY <1>1, ValueFacts DEF Settled, Pending
<1> HIDE DEF s
<1>4. CASE UNCHANGED <<store, tx>>
  BY <1>2, <1>4
<1>5. ASSUME NEW c \in Conns, Opens(c)
      PROVE  (\A d \in Conns : tx'[d] # Nil => tx'[d][s] \in {Keep, Nil}) /\ store' = store
  BY <1>0, <1>2, <1>5 DEF Opens
<1>6. ASSUME NEW c \in Conns, Executes(c)
      PROVE  /\ \A d \in Conns : tx'[d] # Nil => tx'[d][s] \in {Keep, Nil}
             /\ store[s] = Nil => store'[s] = Nil
  BY <1>0, <1>2, <1>6 DEF Executes
<1>7. ASSUME held[o] \in Conns, NEW k \in Keys, NEW v \in Values, Puts(o, k, v), Harmless(o, k, v)
      PROVE  /\ \A d \in Conns : tx'[d] # Nil => tx'[d][s] \in {Keep, Nil}
             /\ store[s] = Nil => store'[s] = Nil
  <2>1. k = s => v = Nil
    BY <1>1, <1>7 DEF Harmless, s
  <2>2. CASE tx' = tx /\ store' = [store EXCEPT ![k] = v]
    BY <1>0, <1>2, <2>1, <2>2
  <2>3. CASE /\ store' = store /\ tx[held[o]] \in [Keys -> Values \cup {Keep}] /\ tx[held[o]] # Nil
             /\ tx' = [tx EXCEPT ![held[o]] = [tx[held[o]] EXCEPT ![k] = v]]
    BY <1>0, <1>2, <1>7, <2>1, <2>3
  <2> QED
    BY <1>7, <2>2, <2>3 DEF Puts
<1> QED
  BY <1>4, <1>5, <1>6, <1>7, Effect

\* The write of a session stays in one place.
LEMMA WrittenOnceNext ==
  ASSUME IInv, NEW o \in Ops, Handler(o)
  PROVE  WrittenOnce'
<1> SUFFICES ASSUME NEW t \in Ops
             PROVE  /\ pc'[t] \in Before => store'[SessKey(t)] = Nil /\ \A c \in Conns : ~Pending(c, t)'
                    /\ \A c \in Conns : Pending(c, t)' => store'[SessKey(t)] = Nil
                    /\ \A c, d \in Conns : Pending(c, t)' /\ Pending(d, t)' => c = d
  BY DEF WrittenOnce
<1> DEFINE s == SessKey(t)
           Has(c)  == tx[c] # Nil /\ tx[c][s] \in Ids
           Had(c)  == tx'[c] # Nil /\ tx'[c][s] \in Ids
<1>0. /\ store \in [Keys -> Values] /\ tx \in [Conns -> [Keys -> Values \cup {Keep}] \cup {Nil}]
      /\ Typed /\ s \in Keys
  BY KeyFacts DEF IInv, TypeOK
<1>1. pc'[t] \in Before => pc[t] \in Before
  BY Frame DEF IInv
<1>2. /\ pc[t] \in Before => store[s] = Nil /\ \A c \in Conns : ~Has(c)
      /\ \A c \in Conns : Has(c) => store[s] = Nil
      /\ \A c, d \in Conns : Has(c) /\ Has(d) => c = d
  BY DEF IInv, WrittenOnce, Pending
<1>3. \A c \in Conns : tx[c] # Nil => tx[c][s] \in Ids \cup {Keep, Nil}
  BY <1>0 DEF Typed, Fits
<1>4. SUFFICES /\ pc'[t] \in Before => store'[s] = Nil /\ \A c \in Conns : ~Had(c)
               /\ \A c \in Conns : Had(c) => store'[s] = Nil
               /\ \A c, d \in Conns : Had(c) /\ Had(d) => c = d
  BY DEF Pending
<1>5. Nil \notin Ids /\ Keep \notin Ids
  BY ValueFacts
<1> HIDE DEF s
<1>6. CASE UNCHANGED <<store, tx>>
  BY <1>1, <1>2, <1>6
<1>7. CASE \E c \in Conns : Opens(c)
  <2>1. PICK c \in Conns : tx[c] = Nil /\ tx' = [tx EXCEPT ![c] = [k \in Keys |-> Keep]] /\ store' = store
    BY <1>7 DEF Opens
  <2>2. \A d \in Conns : Had(d) => Has(d)
    BY <1>0, <1>5, <2>1
  <2> QED
    BY <1>1, <1>2, <2>1, <2>2
<1>8. CASE \E c \in Conns : Executes(c)
  <2>1. PICK c \in Conns : /\ tx[c] # Nil /\ tx' = [tx EXCEPT ![c] = Nil]
                           /\ store' = [k \in Keys |-> IF tx[c][k] = Keep THEN store[k] ELSE tx[c][k]]
    BY <1>8 DEF Executes
  <2>2. \A d \in Conns : Had(d) => Has(d) /\ d # c
    BY <1>0, <2>1
  <2>3. store'[s] # Nil => store[s] # Nil \/ Has(c)
    BY <1>0, <1>3, <2>1
  <2> QED
    BY <1>1, <1>2, <2>2, <2>3
<1>9. CASE held[o] \in Conns /\ \E k \in Keys, v \in Values : Puts(o, k, v) /\ Harmless(o, k, v)
  <2>1. PICK k \in Keys, v \in Values : Puts(o, k, v) /\ Harmless(o, k, v)
    BY <1>9
  <2>2. k = s /\ v # Nil => pc[t] \in Before /\ pc'[t] \notin Before
    BY <2>1 DEF Harmless, s
  <2>3. CASE tx' = tx /\ store' = [store EXCEPT ![k] = v]
    <3>1. \A d \in Conns : Had(d) <=> Has(d)
      BY <2>3
    <3>2. store'[s] = IF k = s THEN v ELSE store[s]
      BY <1>0, <2>3
    <3> QED
      BY <1>1, <1>2, <2>2, <3>1, <3>2
  <2>4. CASE /\ store' = store /\ tx[held[o]] \in [Keys -> Values \cup {Keep}] /\ tx[held[o]] # Nil
             /\ tx' = [tx EXCEPT ![held[o]] = [tx[held[o]] EXCEPT ![k] = v]]
    <3>1. \A d \in Conns : Had(d) => Has(d) \/ (k = s /\ v # Nil /\ d = held[o])
      BY <1>0, <1>5, <1>9, <2>4
    <3>2. store'[s] = store[s]
      BY <2>4
    <3> HIDE DEF Has, Had
    <3> QED
      BY <1>1, <1>2, <2>2, <3>1, <3>2
  <2> QED
    BY <2>1, <2>3, <2>4 DEF Puts
<1> QED
  BY <1>6, <1>7, <1>8, <1>9, Effect

\* Logout goes on only after it has read the session, and is confirmed only after Redis
\* has deleted it.
LEMMA ConfirmedNext ==
  ASSUME IInv, NEW o \in Ops, Handler(o), NEW p \in Ops
  PROVE  Confirmed(p)'
<1> USE DEF Goto, OrFail, Runs, Ended
<1>0. TypeOK /\ Found(p) /\ Confirmed(p) /\ WrittenOnce
  BY DEF IInv
<1>1. token' = token /\ kind' = kind
  BY <1>0, Frame
<1>2. \A t \in Ops : Settled(t) => Settled(t)' /\ (store[SessKey(t)] = Nil => store'[SessKey(t)] = Nil)
  BY SettledNext
<1>3. CASE p # o
  <2>1. pc'[p] = pc[p]
    BY <1>0, <1>3, Frame
  <2> QED
    BY <1>0, <1>1, <1>2, <2>1 DEF Found, Confirmed
<1>4. CASE p = o /\ Session(o)
  <2>1. token[o] \in Ops /\ pc[o] = "session"
    BY <1>0, <1>4 DEF Session, Found
  <2>2. pc'[o] \in {"unmap", "serve"} => store[SessKey(token[o])] # Nil
    BY <1>0, <1>4 DEF Session, TypeOK
  <2>3. store[SessKey(token[o])] # Nil => Settled(token[o])'
    <3> SUFFICES ASSUME store[SessKey(token[o])] # Nil PROVE Settled(token[o])'
      OBVIOUS
    <3>1. PICK t \in Ops : t = token[o]
      BY <2>1
    <3>2. pc[t] \notin Before /\ \A c \in Conns : ~Pending(c, t)
      BY <1>0, <3>1 DEF WrittenOnce
    <3>3. Settled(t)'
      BY <1>2, <3>1, <3>2 DEF Settled
    <3>4. t = token'[o]
      BY <1>1, <3>1
    <3> QED
      BY <3>3, <3>4 DEF Settled, Pending
  <2>4. pc'[o] \in {"unmap", "serve", "fail"}
    BY <1>0, <1>4 DEF Session, TypeOK
  <2> QED
    BY <1>1, <1>4, <2>2, <2>3, <2>4 DEF Confirmed
<1>5. CASE p = o /\ (Unmap(o) \/ Unserve(o))
  <2>1. pc[o] \in {"unmap", "unserve"} /\ pc'[o] \in {"unserve", "leave", "fail"}
    BY <1>0, <1>5 DEF Unmap, Unserve, TypeOK
  <2> QED
    BY <1>0, <1>1, <1>2, <1>5, <2>1 DEF Found, Confirmed
<1>6. CASE p = o /\ Leave(o)
  <2>1. pc[o] = "leave" /\ pc'[o] \in {"ok", "fail"} /\ token[o] \in Ops
    BY <1>0, <1>6 DEF Leave, AfterLeave, TypeOK, Found
  <2>2. pc'[o] = "ok" => ~InMulti(o) /\ store'[SessKey(token[o])] = Nil
    BY <1>0, <1>6, <2>1, KeyFacts DEF Leave, AfterLeave, TypeOK, Write
  <2> QED
    BY <1>0, <1>1, <1>2, <1>6, <2>1, <2>2 DEF Confirmed
<1>7. CASE p = o /\ Take(o)
  <2>1. pc' = pc
    BY <1>7 DEF Take
  <2> QED
    BY <1>0, <1>1, <1>2, <2>1 DEF Found, Confirmed
<1>8. CASE p = o /\ kind[o] # "logout" /\ pc'[o] \notin {"unmap", "unserve", "leave"}
  BY <1>1, <1>8 DEF Confirmed
<1>9. ASSUME p = o, \/ Check(o) \/ Add(o) \/ Create(o) \/ Find(o) \/ Last(o) \/ Expel(o)
                    \/ Multi(o) \/ PutSession(o) \/ PutMap(o) \/ Exec(o) \/ Serve(o)
      PROVE  kind[o] # "logout" /\ pc'[o] \notin {"unmap", "unserve", "leave"}
  BY <1>0, <1>9
     DEF Check, Add, Create, Taken, Find, Last, Expel, Multi, PutSession, PutMap, Exec, Serve, Found, TypeOK
<1> QED
  BY <1>3, <1>4, <1>5, <1>6, <1>7, <1>8, <1>9 DEF Handler

\* A connection the pool closes takes its queue with it.
LEMMA AgeNext ==
  ASSUME IInv, NEW i \in DOMAIN idle, Age(i)
  PROVE  IInv'
<1>0. TypeOK /\ Numbered /\ Typed /\ WrittenOnce /\ \A o \in Ops : Found(o) /\ Confirmed(o)
  BY DEF IInv
<1>1. idle \in Seq(Conns) /\ i \in 1 .. Len(idle) /\ idle[i] \in Conns
  BY <1>0 DEF TypeOK
<1>2. /\ tx' = [tx EXCEPT ![idle[i]] = Nil] /\ aged' = aged + 1 /\ aged < limits.aged
      /\ idle' = SubSeq(idle, 1, i - 1) \o SubSeq(idle, i + 1, Len(idle))
      /\ UNCHANGED <<table, store, held, argVars, pc, uid, old>>
  BY DEF Age
<1>3. idle' \in Seq(Conns)
  <2>1. SubSeq(idle, 1, i - 1) \in Seq(Conns) /\ SubSeq(idle, i + 1, Len(idle)) \in Seq(Conns)
    BY <1>1, SubSeqProperties
  <2> QED
    BY <1>2, <2>1, ConcatProperties
<1>4. TypeOK'
  <2>1. tx' \in [Conns -> [Keys -> Values \cup {Keep}] \cup {Nil}]
    BY <1>0, <1>1, <1>2 DEF TypeOK
  <2>2. aged' \in Nat
    BY <1>0, <1>2 DEF TypeOK
  <2> QED
    BY <1>0, <1>2, <1>3, <2>1, <2>2 DEF TypeOK, argVars
<1>5. \A c \in Conns : tx'[c] # Nil => tx'[c] = tx[c]
  BY <1>0, <1>1, <1>2 DEF TypeOK
<1>6. Numbered' /\ Typed'
  BY <1>0, <1>2, <1>5 DEF Numbered, Typed, argVars
<1>7. \A c \in Conns, t \in Ops : Pending(c, t)' => Pending(c, t)
  BY <1>5 DEF Pending
<1>8. WrittenOnce'
  BY <1>0, <1>2, <1>7 DEF WrittenOnce
<1>9. \A o \in Ops : Found(o)' /\ Confirmed(o)'
  BY <1>0, <1>2, <1>7 DEF Found, Confirmed, Settled, argVars
<1> QED
  BY <1>4, <1>6, <1>8, <1>9 DEF IInv

\* Every step preserves the invariant.
LEMMA InvariantNext == IInv /\ [Next]_vars => IInv'
<1> SUFFICES ASSUME IInv, [Next]_vars PROVE IInv'
  OBVIOUS
<1>1. ASSUME NEW n \in Names, StartRegister(n) PROVE IInv'
  BY <1>1, StartNext DEF StartRegister
<1>2. ASSUME NEW n \in Names, StartLogin(n) PROVE IInv'
  BY <1>2, StartNext DEF StartLogin
<1>3. ASSUME NEW t \in Ops, StartLogout(t) PROVE IInv'
  BY <1>3, StartNext DEF StartLogout
<1>4. ASSUME NEW t \in Ops, StartConnect(t) PROVE IInv'
  BY <1>4, StartNext DEF StartConnect
<1>5. ASSUME NEW o \in Ops, Handler(o) PROVE IInv'
  <2>1. TypeOK /\ Numbered
    BY DEF IInv
  <2>2. UNCHANGED <<limits, kind, name, token, started, aged>>
    BY <1>5, <2>1, Frame
  <2>3. TypeOK'
    BY <1>5, <2>1, <2>2, PoolNext, LocalsNext, RedisNext DEF TypeOK
  <2>4. Numbered'
    BY <1>5, <2>1, <2>2, Frame DEF Numbered
  <2>5. \A p \in Ops : Found(p)' /\ Confirmed(p)'
    BY <1>5, LocalsNext, OtherFoundNext, ConfirmedNext
  <2> QED
    BY <1>5, <2>3, <2>4, <2>5, RedisNext, WrittenOnceNext DEF IInv
<1>6. ASSUME NEW i \in DOMAIN idle, Age(i) PROVE IInv'
  BY <1>6, AgeNext
<1>7. CASE UNCHANGED vars
  BY <1>7 DEF vars, redisVars, poolVars, argVars, IInv, TypeOK, Numbered, Typed, WrittenOnce, Pending,
              Found, Confirmed, Settled
<1> QED
  BY <1>1, <1>2, <1>3, <1>4, <1>5, <1>6, <1>7 DEF Next

\* The invariant of every behaviour of Auth.
THEOREM Invariant == Spec => []IInv
BY InvariantInit, InvariantNext, PTL DEF Spec

\* The tables of accounts, sessions and connections keep their types: the id a handler
\* acts on is a row, a token is the number of a request (logic/rpc.go).
THEOREM TypeCorrect == Spec => []TypeOK
<1>1. IInv => TypeOK
  BY DEF IInv
<1> QED
  BY <1>1, Invariant, PTL

\* A token whose Logout was confirmed opens no session any more, however many requests
\* overlap, share connections on which others have said MULTI, or lose a connection
\* (logic/rpc.go Logout, Login, Register).
THEOREM LogoutIsFinal == Spec => []LogoutFinal
<1>1. IInv => LogoutFinal
  BY DEF IInv, Confirmed, LogoutFinal
<1> QED
  BY <1>1, Invariant, PTL
-------------------------------------------------------------------------------
(* A name is one user. *)

Unique == \A u, v \in DOMAIN table : table[u] = table[v] => u = v

\* Where the handler of each kind of request may be.
Writing == {"putSession", "putMap", "exec"}
Staged(o) ==
  \/ kind[o] = Nil /\ pc[o] = "idle"
  \/ kind[o] = "register" /\ pc[o] \in {"check", "add", "create", "multi", "putSession", "exec"} \cup Ended
  \/ kind[o] = "login" /\ pc[o] \in {"find", "last", "expel", "multi"} \cup Writing \cup Ended
  \/ kind[o] = "logout" /\ pc[o] \in {"session", "unmap", "unserve", "leave"} \cup Ended
  \/ kind[o] = "connect" /\ pc[o] \in {"session", "serve"} \cup Ended

\* A handler that has found or made its user has the row of its name.
Identified(o) ==
  kind[o] \in {"register", "login"} /\ pc[o] \in {"last", "expel", "multi", "ok"} \cup Writing =>
    uid[o] \in DOMAIN table /\ table[uid[o]] = name[o]

Owned == Unique /\ \A o \in Ops : Staged(o) /\ Identified(o)

\* The names of the kinds of requests are not Nil.
LEMMA KindFacts == Nil \notin {"register", "login", "logout", "connect"}
BY AuthAssumption DEF AuthAssumption

LEMMA OwnedInit == Init => Owned
<1> SUFFICES ASSUME Init PROVE Owned
  OBVIOUS
<1>1. Unique
  BY AuthAssumption DEF AuthAssumption, Init, Unique
<1>2. \A o \in Ops : kind[o] = Nil /\ pc[o] = "idle"
  BY DEF Init
<1> QED
  BY <1>1, <1>2, KindFacts DEF Owned, Staged, Identified

\* The user table only grows, by the name of a Register that nobody has.
LEMMA TableNext ==
  ASSUME IInv, Owned, NEW o \in Ops, Handler(o)
  PROVE  /\ \/ table' = table
            \/ /\ Create(o) /\ Rows(name[o]) = {} /\ name[o] \in Names
               /\ Len(table) < MaxRow /\ table' = Append(table, name[o])
         /\ \A u \in DOMAIN table : u \in DOMAIN table' /\ table'[u] = table[u]
         /\ Unique'
<1>0. TypeOK /\ Found(o) /\ table \in Seq(Names)
  BY DEF IInv, TypeOK
<1>1. \/ table' = table
      \/ /\ Create(o) /\ Rows(name[o]) = {} /\ name[o] \in Names
         /\ Len(table) < MaxRow /\ table' = Append(table, name[o])
  BY <1>0 DEF Found, Handler, Take, Check, Add, Create, Taken, Find, Last, Expel, Multi, PutSession,
              PutMap, Exec, Session, Unmap, Unserve, Leave, Serve
<1>2. CASE table' = table
  BY <1>1, <1>2 DEF Owned, Unique
<1>3. CASE /\ Rows(name[o]) = {} /\ name[o] \in Names
           /\ table' = Append(table, name[o])
  <2>1. /\ DOMAIN table = 1 .. Len(table) /\ Len(table) \in Nat
        /\ DOMAIN table' = 1 .. Len(table) + 1
        /\ \A u \in 1 .. Len(table) : table'[u] = table[u]
        /\ table'[Len(table) + 1] = name[o]
    BY <1>0, <1>3
  <2>2. \A u \in 1 .. Len(table) : table[u] # name[o]
    BY <1>3, <2>1 DEF Rows
  <2>3. Unique'
    BY <2>1, <2>2 DEF Owned, Unique
  <2> QED
    BY <1>1, <2>1, <2>3
<1> QED
  BY <1>1, <1>2, <1>3

\* A handler stays in the states of its kind, and finds the row of its name.
LEMMA OwnHandlerNext ==
  ASSUME IInv, Owned, NEW o \in Ops, Handler(o)
  PROVE  Staged(o)' /\ Identified(o)'
<1> USE DEF Goto, OrFail, Runs, Ended, Writing
<1>0. TypeOK /\ Found(o) /\ Staged(o) /\ Identified(o)
  BY DEF IInv, Owned
<1>1. /\ UNCHANGED <<kind, name>> /\ DOMAIN pc = Ops /\ uid \in [Ops -> Ids \cup {Nil}]
      /\ \A u \in DOMAIN table : u \in DOMAIN table' /\ table'[u] = table[u]
      /\ table \in Seq(Names)
  BY <1>0, Frame, TableNext DEF TypeOK, Commands
<1>2. CASE Take(o)
  BY <1>0, <1>1, <1>2 DEF Take, Staged, Identified
<1>3. CASE Check(o)
  BY <1>0, <1>1, <1>3, KindFacts DEF Check, Staged, Identified
<1>4. CASE Add(o)
  BY <1>0, <1>1, <1>4, KindFacts DEF Add, First, Rows, Staged, Identified
<1>5. CASE Create(o)
  <2>1. pc[o] = "create" /\ kind[o] = "register" /\ name[o] \in Names
    BY <1>0, <1>5, KindFacts DEF Create, Staged, Found
  <2>2. CASE pc' = [pc EXCEPT ![o] = "fail"]
    BY <1>1, <2>1, <2>2 DEF Staged, Identified
  <2>3. CASE /\ table' = Append(table, name[o]) /\ uid' = [uid EXCEPT ![o] = Len(table) + 1]
             /\ pc' = [pc EXCEPT ![o] = "multi"]
    <3>1. Len(table) + 1 \in DOMAIN table' /\ table'[Len(table) + 1] = name[o]
      BY <1>1, <2>1, <2>3
    <3> QED
      BY <1>1, <2>1, <2>3, <3>1 DEF Staged, Identified
  <2> QED
    BY <1>5, <2>2, <2>3 DEF Create
<1>6. CASE Find(o)
  BY <1>0, <1>1, <1>6, KindFacts DEF Find, First, Rows, Staged, Identified
<1>7. CASE Last(o)
  BY <1>0, <1>1, <1>7, KindFacts DEF Last, Staged, Identified
<1>8. CASE Expel(o)
  BY <1>0, <1>1, <1>8, KindFacts DEF Expel, Staged, Identified
<1>9. CASE Multi(o)
  BY <1>0, <1>1, <1>9, KindFacts DEF Multi, Staged, Identified
<1>10. CASE PutSession(o)
  BY <1>0, <1>1, <1>10, KindFacts DEF PutSession, Staged, Identified
<1>11. CASE PutMap(o)
  BY <1>0, <1>1, <1>11, KindFacts DEF PutMap, Staged, Identified
<1>12. CASE Exec(o)
  BY <1>0, <1>1, <1>12, KindFacts DEF Exec, Staged, Identified
<1>13. CASE Session(o)
  BY <1>0, <1>1, <1>13, KindFacts DEF Session, Staged, Identified
<1>14. CASE Unmap(o)
  BY <1>0, <1>1, <1>14, KindFacts DEF Unmap, Staged, Identified
<1>15. CASE Unserve(o)
  BY <1>0, <1>1, <1>15, KindFacts DEF Unserve, Staged, Identified
<1>16. CASE Leave(o)
  BY <1>0, <1>1, <1>16, KindFacts DEF Leave, AfterLeave, Staged, Identified
<1>17. CASE Serve(o)
  BY <1>0, <1>1, <1>17, KindFacts DEF Serve, Staged, Identified
<1> QED
  BY <1>2, <1>3, <1>4, <1>5, <1>6, <1>7, <1>8, <1>9, <1>10, <1>11, <1>12, <1>13, <1>14, <1>15, <1>16, <1>17 DEF Handler

\* Every step preserves it.
LEMMA OwnedNext == IInv /\ Owned /\ [Next]_vars => Owned'
<1> SUFFICES ASSUME IInv, Owned, [Next]_vars PROVE Owned'
  OBVIOUS
<1>0. TypeOK /\ Numbered
  BY DEF IInv
<1>1. ASSUME NEW k \in {"register", "login", "logout", "connect"},
             NEW n \in Names \cup {Nil}, NEW t \in Ops \cup {Nil},
             NEW l \in {"check", "find", "session"}, Start(k, n, t, l),
             k = "register" => l = "check", k = "login" => l = "find",
             k \in {"logout", "connect"} => l = "session"
      PROVE  Owned'
  <2>1. PICK o \in Ops : o = started + 1
    BY <1>1 DEF Start
  <2>2. /\ kind' = [kind EXCEPT ![o] = k] /\ name' = [name EXCEPT ![o] = n]
        /\ pc' = [pc EXCEPT ![o] = l] /\ UNCHANGED <<table, uid>>
    BY <1>1, <2>1 DEF Start, Goto
  <2>3. Staged(o)' /\ Identified(o)'
    BY <1>0, <1>1, <2>2 DEF TypeOK, Staged, Identified, Writing
  <2>4. \A p \in Ops \ {o} : Staged(p)' /\ Identified(p)'
    BY <1>0, <2>2 DEF TypeOK, Owned, Staged, Identified
  <2> QED
    BY <2>2, <2>3, <2>4 DEF Owned, Unique
<1>2. ASSUME NEW n \in Names, StartRegister(n) \/ StartLogin(n) PROVE Owned'
  BY <1>1, <1>2 DEF StartRegister, StartLogin
<1>3. ASSUME NEW t \in Ops, StartLogout(t) \/ StartConnect(t) PROVE Owned'
  BY <1>1, <1>3 DEF StartLogout, StartConnect
<1>4. ASSUME NEW o \in Ops, Handler(o) PROVE Owned'
  <2>1. ASSUME NEW p \in Ops \ {o} PROVE Staged(p)' /\ Identified(p)'
    <3>1. Staged(p) /\ Identified(p)
      BY DEF Owned
    <3>2. pc'[p] = pc[p] /\ uid'[p] = uid[p] /\ UNCHANGED <<kind, name>>
      BY <1>0, <1>4, Frame
    <3>3. \A u \in DOMAIN table : u \in DOMAIN table' /\ table'[u] = table[u]
      BY <1>4, TableNext
    <3> QED
      BY <3>1, <3>2, <3>3 DEF Staged, Identified
  <2> QED
    BY <1>4, <2>1, OwnHandlerNext, TableNext DEF Owned
<1>5. CASE (\E i \in DOMAIN idle : Age(i)) \/ UNCHANGED vars
  <2>1. UNCHANGED <<table, kind, name, pc, uid>>
    BY <1>5 DEF Age, argVars, vars
  <2> QED
    BY <2>1 DEF Owned, Unique, Staged, Identified
<1> QED
  BY <1>2, <1>3, <1>4, <1>5 DEF Next

THEOREM EveryOneOwned == Spec => [](IInv /\ Owned)
BY InvariantInit, InvariantNext, OwnedInit, OwnedNext, PTL DEF Spec

\* A name is one user: two Registers of one name that have both found it free are
\* confirmed for the same row, however they interleave (logic/rpc.go Register,
\* logic/dao/user.go Add).
THEOREM NameIsOneUser == Spec => []OneUser
<1>1. Owned => OneUser
  BY DEF Owned, Unique, Identified, OneUser, Rows
<1> QED
  BY <1>1, EveryOneOwned, PTL
-------------------------------------------------------------------------------
(* When clients wait for each answer: the sessions, the map of last logins and the *)
(* server keys agree.                                                             *)

\* One request at a time, and no connection closed.
Calm == limits.active = 1 /\ aged = 0
Solo == \A o, p \in Active : o = p

\* The one connection of the pool that is in use, and what its transaction has queued.
Own(o) == IF held[o] # Nil THEN held[o] ELSE idle[1]
Queue(o) ==
  [k \in Keys |-> IF k = SessKey(o) /\ pc[o] # "putSession" THEN uid[o]
                  ELSE IF k = MapKey(uid[o]) /\ pc[o] = "exec" /\ kind[o] = "login" THEN o
                  ELSE Keep]
Pooled ==
  /\ Len(idle) <= 1
  /\ \A o \in Ops : held[o] # Nil => pc[o] \in Commands /\ idle = <<>>
  /\ \A o \in Ops : pc[o] \in Writing => (held[o] # Nil \/ idle # <<>>) /\ tx[Own(o)] = Queue(o)
  /\ \A c \in Conns : tx[c] # Nil => \E o \in Ops : pc[o] \in Writing /\ c = Own(o)

\* A Register makes a user of its own.
Grown == Len(Known) <= Len(table)
Newly(o) ==
  /\ kind[o] = "register" /\ pc[o] \in {"add", "create"} => Rows(name[o]) = {}
  /\ kind[o] = "register" /\ pc[o] \in {"multi"} \cup Writing => uid[o] \notin DOMAIN Known

\* A Login is between the session it expels and the one it makes.
Renews(o, u) == kind[o] = "login" /\ uid[o] = u /\ pc[o] \in {"multi"} \cup Writing
Renewed(u) == \E o \in Ops : Renews(o, u)
\* A Logout has unmapped its user and not yet deleted the session.
Unmaps(t) == \E o \in Ops : pc[o] \in {"unserve", "leave"} /\ token[o] = t

\* The invariants behind CurrentLive, LoggedOut and OneSession.
Mapped == \A u \in Ids : LET t == store[MapKey(u)] IN
            t # Nil => store[SessKey(t)] = u \/ Renewed(u)
Served == \A u \in Ids : store[ServerKey(u)] # Nil => Live(u) # {} \/ Renewed(u)
Single == \A u \in DOMAIN Known, t \in Ops :
            store[SessKey(t)] = u => store[MapKey(u)] = t \/ Unmaps(t)

\* What the handler at work knows of Redis.
Within(o) ==
  /\ pc[o] = "expel" => old[o] = store[MapKey(uid[o])]
  /\ \A u \in DOMAIN Known : Renews(o, u) => Live(u) = {}
  /\ pc[o] \in {"unmap", "unserve", "leave", "serve"} =>
       token[o] \in Ops /\ store[SessKey(token[o])] = uid[o]
  /\ pc[o] \in {"unserve", "leave"} => store[MapKey(uid[o])] = Nil
  /\ pc[o] = "leave" => store[ServerKey(uid[o])] = Nil

Turn == /\ Solo /\ Pooled /\ Grown /\ Mapped /\ Served /\ Single
        /\ \A o \in Ops : Newly(o) /\ Within(o)
-------------------------------------------------------------------------------
LEMMA TurnInit == Init => Turn
<1> SUFFICES ASSUME Init PROVE Turn
  OBVIOUS
<1>1. /\ \A o \in Ops : pc[o] = "idle" /\ held[o] = Nil
      /\ table = Known /\ idle = <<>> /\ \A c \in Conns : tx[c] = Nil
      /\ \A k \in Keys : store[k] = Nil
  BY DEF Init
<1>2. Solo /\ Pooled
  BY <1>1 DEF Solo, Active, Ended, Pooled, Writing
<1>3. Grown
  BY <1>1, AuthAssumption DEF AuthAssumption, Grown
<1>4. Mapped /\ Served
  BY <1>1, KeyFacts DEF Mapped, Served
<1>5. DOMAIN Known \subseteq Ids
  BY AuthAssumption DEF AuthAssumption, Ids
<1>6. Single
  BY <1>1, <1>5, KeyFacts, ValueFacts DEF Single
<1>7. \A o \in Ops : Newly(o) /\ Within(o)
  BY <1>1 DEF Newly, Within, Renews, Writing
<1> QED
  BY <1>2, <1>3, <1>4, <1>6, <1>7 DEF Turn

\* Only the request that takes a step is active.
LEMMA Alone ==
  ASSUME TypeOK, Solo, NEW o \in Ops, Handler(o)
  PROVE  /\ \A p \in Ops \ {o} : pc[p] \in {"idle"} \cup Ended
         /\ \A p \in Ops \ {o} : pc'[p] = pc[p] /\ uid'[p] = uid[p] /\ old'[p] = old[p]
         /\ UNCHANGED <<limits, kind, name, token, aged>>
<1>1. o \in Active
  BY Frame DEF Active
<1> QED
  BY <1>1, Frame DEF Solo, Active

\* The connection of a command: inside a transaction exactly when the handler wrote MULTI.
LEMMA Connected ==
  ASSUME IInv, Turn, NEW o \in Ops, Handler(o), held[o] # Nil
  PROVE  /\ held[o] \in Conns /\ idle = <<>>
         /\ \A p \in Ops \ {o} : held[p] = Nil
         /\ pc[o] \in Writing => InMulti(o) /\ tx[held[o]] = Queue(o)
         /\ pc[o] \notin Writing => ~InMulti(o)
         /\ \A c \in Conns \ {held[o]} : tx[c] = Nil
<1>0. TypeOK /\ Solo /\ Pooled
  BY DEF IInv, Turn
<1>1. held[o] \in Conns /\ idle = <<>>
  BY <1>0 DEF TypeOK, Pooled
<1>2. \A p \in Ops \ {o} : pc[p] \in {"idle"} \cup Ended
  BY <1>0, Alone
<1>3. \A p \in Ops \ {o} : held[p] = Nil
  BY <1>0, <1>2 DEF Pooled, Commands, Ended
<1>4. \A c \in Conns : tx[c] # Nil => pc[o] \in Writing /\ c = held[o]
  BY <1>0, <1>2 DEF Pooled, Writing, Ended, Own
<1>5. pc[o] \in Writing => tx[held[o]] = Queue(o)
  BY <1>0 DEF Pooled, Own
<1>6. Queue(o) # Nil
  <2>1. DOMAIN Queue(o) = Keys /\ Queue(o) \in [Keys -> Values \cup {Keep}]
    BY <1>0, ValueFacts DEF Queue, TypeOK, Values
  <2> QED
    BY <2>1, QueueAssumption
<1> QED
  BY <1>1, <1>3, <1>4, <1>5, <1>6 DEF InMulti

\* The store as a Login or Register leaves it.
Executed(o) ==
  [k \in Keys |-> IF k = SessKey(o) THEN uid[o]
                  ELSE IF k = MapKey(uid[o]) /\ kind[o] = "login" THEN o
                  ELSE store[k]]

\* What a step does to Redis when requests take turns: a command runs at once or in the
\* transaction of its own request.
LEMMA TurnEffect ==
  ASSUME IInv, Owned, Turn, NEW o \in Ops, Handler(o)
  PROVE  \/ /\ UNCHANGED store
            /\ pc[o] \in {"multi"} \cup Writing => pc'[o] \in {"multi"} \cup Writing /\ uid'[o] = uid[o]
            /\ pc[o] \in {"expel", "unmap", "unserve", "leave", "serve", "exec"} => pc'[o] = pc[o]
         \/ /\ uid' = uid /\ kind[o] = "login" /\ pc[o] = "expel" /\ pc'[o] = "multi" /\ old[o] \in Ops
            /\ store' = [store EXCEPT ![SessKey(old[o])] = Nil]
         \/ /\ uid' = uid /\ pc[o] = "unmap" /\ pc'[o] = "unserve"
            /\ store' = [store EXCEPT ![MapKey(uid[o])] = Nil]
         \/ /\ uid' = uid /\ pc[o] = "unserve" /\ pc'[o] = "leave"
            /\ store' = [store EXCEPT ![ServerKey(uid[o])] = Nil]
         \/ /\ uid' = uid /\ pc[o] = "leave" /\ pc'[o] = "ok"
            /\ store' = [store EXCEPT ![SessKey(token[o])] = Nil]
         \/ /\ uid' = uid /\ pc[o] = "serve" /\ pc'[o] = "ok"
            /\ store' = [store EXCEPT ![ServerKey(uid[o])] = uid[o]]
         \/ /\ uid' = uid /\ pc[o] = "exec" /\ pc'[o] = "ok" /\ kind[o] \in {"login", "register"}
            /\ store[SessKey(o)] = Nil /\ store' = Executed(o)
<1> USE DEF Goto, OrFail, Runs, redisVars, poolVars
<1>0. /\ TypeOK /\ Found(o) /\ Staged(o) /\ Identified(o) /\ Within(o) /\ Typed /\ WrittenOnce
      /\ DOMAIN pc = Ops /\ DOMAIN uid = Ops
  BY DEF IInv, Owned, Turn, TypeOK
<1>1. CASE Take(o)
  BY <1>0, <1>1 DEF Take
<1>2. CASE Check(o) \/ Add(o) \/ Create(o) \/ Find(o)
  BY <1>0, <1>2 DEF Check, Add, Create, Find, Writing
<1>3. CASE Last(o)
  BY <1>0, <1>3 DEF Last, Writing
<1>4. CASE Multi(o)
  BY <1>0, <1>4 DEF Multi, Writing
<1>5. CASE PutSession(o) \/ PutMap(o)
  <2>1. InMulti(o)
    BY <1>0, <1>5, Connected DEF PutSession, PutMap, Writing
  <2> QED
    BY <1>0, <1>5, <2>1 DEF PutSession, PutMap, Writing, Write
<1>6. CASE Session(o)
  BY <1>0, <1>6 DEF Session, Writing
<1>7. CASE Expel(o)
  <2>1. pc[o] = "expel" /\ ~InMulti(o) /\ kind[o] = "login" /\ uid[o] \in Ids
    BY <1>0, <1>7, Connected DEF Expel, Writing, Staged, Ended, Found
  <2>2. old[o] \in Ops
    <3>1. old[o] \in Ops \cup {Queued} /\ old[o] = store[MapKey(uid[o])]
      BY <1>0, <2>1 DEF Found, Within
    <3>2. store[MapKey(uid[o])] \in Ops \cup {Nil}
      BY <1>0, <2>1, KeyFacts DEF Typed, Fits
    <3> QED
      BY <3>1, <3>2, AuthAssumption DEF AuthAssumption, Queued
  <2> QED
    BY <1>0, <1>7, <2>1, <2>2, ValueFacts DEF Expel, Expelled, Write
<1>8. CASE Unmap(o)
  <2>1. pc[o] = "unmap" /\ ~InMulti(o)
    BY <1>0, <1>8, Connected DEF Unmap, Writing
  <2> QED
    BY <1>0, <1>8, <2>1 DEF Unmap, Unmapped, Write
<1>9. CASE Unserve(o)
  <2>1. pc[o] = "unserve" /\ ~InMulti(o)
    BY <1>0, <1>9, Connected DEF Unserve, Writing
  <2> QED
    BY <1>0, <1>9, <2>1 DEF Unserve, Unserved, Write
<1>10. CASE Leave(o)
  <2>1. pc[o] = "leave" /\ ~InMulti(o)
    BY <1>0, <1>10, Connected DEF Leave, Writing
  <2> QED
    BY <1>0, <1>10, <2>1 DEF Leave, AfterLeave, Write
<1>11. CASE Serve(o)
  <2>1. pc[o] = "serve" /\ ~InMulti(o)
    BY <1>0, <1>11, Connected DEF Serve, Writing
  <2> QED
    BY <1>0, <1>11, <2>1 DEF Serve, Write
<1>12. CASE Exec(o)
  <2>1. /\ pc[o] = "exec" /\ InMulti(o) /\ kind[o] \in {"login", "register"}
        /\ tx[held[o]] = Queue(o) /\ held[o] \in Conns
    BY <1>0, <1>12, Connected DEF Exec, Writing, Staged, Ended
  <2>2. /\ uid[o] \in Ids /\ uid[o] # Keep /\ o # Keep
        /\ SessKey(o) \in Keys /\ MapKey(uid[o]) \in Keys /\ SessKey(o) # MapKey(uid[o])
    <3>1. uid[o] \in DOMAIN table
      BY <1>0, <2>1 DEF Identified, Writing
    <3>2. uid[o] \in Ids
      BY <1>0, <3>1, AuthAssumption DEF AuthAssumption, TypeOK, Ids
    <3> QED
      BY <3>2, KeyFacts, ValueFacts
  <2>3. \A k \in Keys : Queue(o)[k] = IF k = SessKey(o) THEN uid[o]
                                       ELSE IF k = MapKey(uid[o]) /\ kind[o] = "login" THEN o
                                       ELSE Keep
    BY <2>1 DEF Queue
  <2>4. Pending(held[o], o)
    BY <2>1, <2>2, <2>3 DEF Pending, InMulti
  <2>5. store[SessKey(o)] = Nil
    BY <1>0, <2>1, <2>4 DEF WrittenOnce
  <2>6. store' = [k \in Keys |-> IF Queue(o)[k] = Keep THEN store[k] ELSE Queue(o)[k]]
    BY <1>12, <2>1 DEF Exec
  <2>7. store' = Executed(o)
    BY <2>2, <2>3, <2>6 DEF Executed
  <2> QED
    BY <1>0, <1>12, <2>1, <2>5, <2>7 DEF Exec
<1> QED
  BY <1>1, <1>2, <1>3, <1>4, <1>5, <1>6, <1>7, <1>8, <1>9, <1>10, <1>11, <1>12 DEF Handler

\* Facts the lemmas below share.
LEMMA TurnFacts ==
  ASSUME IInv, Owned, Turn, NEW o \in Ops, Handler(o)
  PROVE  /\ store \in [Keys -> Values] /\ DOMAIN Known \subseteq Ids
         /\ \A p \in Ops \ {o} : pc[p] \in {"idle"} \cup Ended /\ pc'[p] \in {"idle"} \cup Ended
         /\ UNCHANGED <<kind, token>>
         /\ \A u \in Ids : store[MapKey(u)] \in Ops \cup {Nil}
         /\ pc[o] \in {"last", "expel", "multi", "unmap", "unserve", "leave", "serve"} \cup Writing => uid[o] \in Ids
         /\ pc[o] \in {"unmap", "unserve", "leave", "serve"} => token[o] \in Ops
<1>1. TypeOK /\ Solo /\ Found(o) /\ Staged(o) /\ Identified(o) /\ Within(o) /\ Typed
  BY DEF IInv, Owned, Turn
<1>2. \A u \in Ids : store[MapKey(u)] \in Ops \cup {Nil}
  BY <1>1, KeyFacts DEF Typed, Fits
<1>3. pc[o] = "exec" => uid[o] \in Ids
  <2>1. SUFFICES ASSUME pc[o] = "exec" PROVE uid[o] \in Ids
    OBVIOUS
  <2>2. kind[o] \in {"login", "register"}
    BY <1>1, <2>1 DEF Staged, Ended
  <2>3. uid[o] \in DOMAIN table
    BY <1>1, <2>1, <2>2 DEF Identified, Writing
  <2> QED
    BY <1>1, <2>3, AuthAssumption DEF AuthAssumption, TypeOK, Ids
<1>4. DOMAIN Known \subseteq Ids
  BY AuthAssumption DEF AuthAssumption, Ids
<1>5. \A p \in Ops \ {o} : pc[p] \in {"idle"} \cup Ended /\ pc'[p] \in {"idle"} \cup Ended
  BY <1>1, Alone
<1> QED
  BY <1>1, <1>2, <1>3, <1>4, <1>5, Alone DEF Found, Within, Writing, TypeOK

\* sess_map names a session of its user, or his Login is about to replace it.
LEMMA MappedNext ==
  ASSUME IInv, Owned, Turn, NEW o \in Ops, Handler(o)
  PROVE  Mapped'
<1> SUFFICES ASSUME NEW u \in Ids, store'[MapKey(u)] # Nil
             PROVE  store'[SessKey(store'[MapKey(u)])] = u \/ Renewed(u)'
  BY DEF Mapped
<1> USE DEF Writing
<1> DEFINE t == store[MapKey(u)]
<1>0. /\ store \in [Keys -> Values] /\ t \in Ops \cup {Nil} /\ MapKey(u) \in Keys
      /\ t \in Ops => SessKey(t) \in Keys
      /\ UNCHANGED kind /\ Within(o)
  BY TurnFacts, KeyFacts DEF Turn
<1>1. t # Nil => store[SessKey(t)] = u \/ Renews(o, u)
  BY TurnFacts DEF Turn, Mapped, Renewed, Renews, Ended
<1>2. Renews(o, u)' => Renewed(u)'
  BY DEF Renewed
<1>3. CASE /\ UNCHANGED store
           /\ pc[o] \in {"multi"} \cup Writing => pc'[o] \in {"multi"} \cup Writing /\ uid'[o] = uid[o]
  BY <1>0, <1>1, <1>2, <1>3 DEF Renews
<1>4. CASE /\ uid' = uid /\ kind[o] = "login" /\ pc[o] = "expel" /\ pc'[o] = "multi" /\ old[o] \in Ops
           /\ store' = [store EXCEPT ![SessKey(old[o])] = Nil]
  <2>1. store'[MapKey(u)] = t
    BY <1>0, <1>4, KeyFacts
  <2>2. store[SessKey(t)] = u
    BY <1>1, <1>4, <2>1 DEF Renews
  <2>3. CASE u = uid[o]
    BY <1>0, <1>2, <1>4, <2>3 DEF Renews
  <2>4. CASE u # uid[o]
    <3>1. uid[o] \in Ids /\ old[o] = store[MapKey(uid[o])] /\ ~Renews(o, uid[o])
      BY <1>0, <1>4, TurnFacts DEF Within, Renews
    <3>2. store[SessKey(old[o])] = uid[o]
      BY <1>4, <3>1, TurnFacts, AuthAssumption DEF AuthAssumption, Turn, Mapped, Renewed, Renews, Ended, Ops
    <3>3. t # old[o]
      BY <2>2, <2>4, <3>2
    <3> QED
      BY <1>0, <1>4, <2>1, <2>2, <3>3, KeyFacts
  <2> QED
    BY <2>3, <2>4
<1>5. CASE /\ uid' = uid /\ pc[o] = "unmap" /\ pc'[o] = "unserve"
           /\ store' = [store EXCEPT ![MapKey(uid[o])] = Nil]
  <2>1. uid[o] # u
    BY <1>0, <1>5
  <2>2. store'[MapKey(u)] = t /\ (t \in Ops => store'[SessKey(t)] = store[SessKey(t)])
    BY <1>0, <1>5, <2>1, KeyFacts, TurnFacts
  <2> QED
    BY <1>0, <1>1, <1>5, <2>2 DEF Renews
<1>6. CASE /\ uid' = uid /\ pc[o] \in {"unserve", "serve"}
           /\ \E v \in Values : store' = [store EXCEPT ![ServerKey(uid[o])] = v]
  <2>1. store'[MapKey(u)] = t /\ (t \in Ops => store'[SessKey(t)] = store[SessKey(t)])
    BY <1>0, <1>6, KeyFacts, TurnFacts
  <2> QED
    BY <1>0, <1>1, <1>6, <2>1 DEF Renews
<1>7. CASE /\ uid' = uid /\ pc[o] = "leave" /\ pc'[o] = "ok"
           /\ store' = [store EXCEPT ![SessKey(token[o])] = Nil]
  <2>1. store'[MapKey(u)] = t
    BY <1>0, <1>7, KeyFacts
  <2>2. store[SessKey(t)] = u
    BY <1>1, <1>7, <2>1 DEF Renews
  <2>3. store[SessKey(token[o])] = uid[o] /\ store[MapKey(uid[o])] = Nil
    BY <1>0, <1>7 DEF Within
  <2>4. t # token[o]
    BY <2>1, <2>2, <2>3
  <2> QED
    BY <1>0, <1>7, <2>1, <2>2, <2>4, KeyFacts, TurnFacts
<1>8. CASE /\ uid' = uid /\ pc[o] = "exec" /\ pc'[o] = "ok" /\ kind[o] \in {"login", "register"}
           /\ store[SessKey(o)] = Nil /\ store' = Executed(o)
  <2>1. /\ uid[o] \in Ids /\ SessKey(o) \in Keys /\ MapKey(uid[o]) \in Keys
        /\ store'[SessKey(o)] = uid[o]
        /\ \A p \in Ops \ {o} : store'[SessKey(p)] = store[SessKey(p)]
        /\ store'[MapKey(u)] = IF u = uid[o] /\ kind[o] = "login" THEN o ELSE t
    BY <1>0, <1>8, KeyFacts, TurnFacts DEF Executed
  <2>2. CASE u = uid[o] /\ kind[o] = "login"
    BY <2>1, <2>2
  <2>3. CASE ~(u = uid[o] /\ kind[o] = "login")
    <3>1. store'[MapKey(u)] = t /\ store[SessKey(t)] = u
      BY <1>1, <2>1, <2>3 DEF Renews
    <3>2. t # o
      BY <1>8, <3>1, ValueFacts
    <3> QED
      BY <1>0, <2>1, <3>1, <3>2
  <2> QED
    BY <2>2, <2>3
<1> QED
  BY <1>3, <1>4, <1>5, <1>6, <1>7, <1>8, TurnEffect, TurnFacts, ValueFacts

\* The session a Login expels is one of its user.
LEMMA ExpelsOwn ==
  ASSUME IInv, Owned, Turn, NEW o \in Ops, Handler(o), pc[o] = "expel", old[o] \in Ops
  PROVE  store[MapKey(uid[o])] = old[o] /\ store[SessKey(old[o])] = uid[o]
<1>1. uid[o] \in Ids /\ old[o] = store[MapKey(uid[o])]
  BY TurnFacts DEF Turn, Within
<1>2. ~Renewed(uid[o])
  BY TurnFacts DEF Renewed, Renews, Writing, Ended
<1> QED
  BY <1>1, <1>2, AuthAssumption DEF AuthAssumption, Turn, Mapped, Ops

\* A user with a server key has a session, or his Login is about to make one.
LEMMA ServedNext ==
  ASSUME IInv, Owned, Turn, NEW o \in Ops, Handler(o)
  PROVE  Served'
<1> SUFFICES ASSUME NEW u \in Ids, store'[ServerKey(u)] # Nil
             PROVE  (\E t \in Ops : store'[SessKey(t)] = u) \/ Renewed(u)'
  BY DEF Served, Live
<1> USE DEF Writing
<1>0. /\ store \in [Keys -> Values] /\ ServerKey(u) \in Keys /\ \A t \in Ops : SessKey(t) \in Keys
      /\ UNCHANGED kind /\ Within(o)
  BY TurnFacts, KeyFacts DEF Turn
<1>1. store[ServerKey(u)] # Nil => (\E t \in Ops : store[SessKey(t)] = u) \/ Renews(o, u)
  BY TurnFacts DEF Turn, Served, Live, Renewed, Renews, Ended
<1>2. Renews(o, u)' => Renewed(u)'
  BY DEF Renewed
<1>3. CASE /\ UNCHANGED store
           /\ pc[o] \in {"multi"} \cup Writing => pc'[o] \in {"multi"} \cup Writing /\ uid'[o] = uid[o]
  BY <1>0, <1>1, <1>2, <1>3 DEF Renews
<1>4. CASE /\ uid' = uid /\ kind[o] = "login" /\ pc[o] = "expel" /\ pc'[o] = "multi" /\ old[o] \in Ops
           /\ store' = [store EXCEPT ![SessKey(old[o])] = Nil]
  <2>1. CASE u = uid[o]
    BY <1>0, <1>2, <1>4, <2>1 DEF Renews
  <2>2. CASE u # uid[o]
    <3>1. store'[ServerKey(u)] = store[ServerKey(u)]
      BY <1>0, <1>4, KeyFacts
    <3>2. PICK t \in Ops : store[SessKey(t)] = u
      BY <1>1, <1>4, <3>1 DEF Renews
    <3>3. t # old[o]
      BY <1>4, <2>2, <3>2, ExpelsOwn
    <3>4. store'[SessKey(t)] = u
      BY <1>0, <1>4, <3>2, <3>3, KeyFacts
    <3> QED
      BY <3>4
  <2> QED
    BY <2>1, <2>2
<1>5. CASE /\ uid' = uid /\ pc[o] = "unmap" /\ pc'[o] = "unserve"
           /\ store' = [store EXCEPT ![MapKey(uid[o])] = Nil]
  <2>1. store'[ServerKey(u)] = store[ServerKey(u)] /\ \A t \in Ops : store'[SessKey(t)] = store[SessKey(t)]
    BY <1>0, <1>5, KeyFacts, TurnFacts
  <2> QED
    BY <1>1, <1>5, <2>1 DEF Renews
<1>6. CASE /\ uid' = uid /\ pc[o] = "unserve" /\ pc'[o] = "leave"
           /\ store' = [store EXCEPT ![ServerKey(uid[o])] = Nil]
  <2>1. u # uid[o]
    BY <1>0, <1>6
  <2>2. store'[ServerKey(u)] = store[ServerKey(u)] /\ \A t \in Ops : store'[SessKey(t)] = store[SessKey(t)]
    BY <1>0, <1>6, <2>1, KeyFacts, TurnFacts
  <2> QED
    BY <1>1, <1>6, <2>2 DEF Renews
<1>7. CASE /\ uid' = uid /\ pc[o] = "leave" /\ pc'[o] = "ok"
           /\ store' = [store EXCEPT ![SessKey(token[o])] = Nil]
  <2>1. store'[ServerKey(u)] = store[ServerKey(u)]
    BY <1>0, <1>7, KeyFacts
  <2>2. u # uid[o] /\ store[SessKey(token[o])] = uid[o]
    BY <1>0, <1>7, <2>1 DEF Within
  <2>3. PICK t \in Ops : store[SessKey(t)] = u
    BY <1>1, <1>7, <2>1 DEF Renews
  <2>4. store'[SessKey(t)] = u
    BY <1>0, <1>7, <2>2, <2>3, KeyFacts, TurnFacts
  <2> QED
    BY <2>4
<1>8. CASE /\ uid' = uid /\ pc[o] = "serve" /\ pc'[o] = "ok"
           /\ store' = [store EXCEPT ![ServerKey(uid[o])] = uid[o]]
  <2>1. \A t \in Ops : store'[SessKey(t)] = store[SessKey(t)]
    BY <1>0, <1>8, KeyFacts, TurnFacts
  <2>2. CASE u = uid[o]
    <3>1. token[o] \in Ops /\ store[SessKey(token[o])] = u
      BY <1>0, <1>8, <2>2 DEF Within
    <3> QED
      BY <2>1, <3>1
  <2>3. CASE u # uid[o]
    <3>1. store'[ServerKey(u)] = store[ServerKey(u)]
      BY <1>0, <1>8, <2>3, KeyFacts
    <3>2. ~Renews(o, u)
      BY <1>8 DEF Renews
    <3>3. PICK t \in Ops : store[SessKey(t)] = u
      BY <1>1, <3>1, <3>2
    <3> QED
      BY <2>1, <3>3
  <2> QED
    BY <2>2, <2>3
<1>9. CASE /\ uid' = uid /\ pc[o] = "exec" /\ pc'[o] = "ok" /\ kind[o] \in {"login", "register"}
           /\ store[SessKey(o)] = Nil /\ store' = Executed(o)
  <2>1. /\ store'[SessKey(o)] = uid[o] /\ store'[ServerKey(u)] = store[ServerKey(u)]
        /\ \A p \in Ops \ {o} : store'[SessKey(p)] = store[SessKey(p)]
    BY <1>0, <1>9, KeyFacts, TurnFacts DEF Executed
  <2>2. CASE u = uid[o]
    BY <2>1, <2>2
  <2>3. CASE u # uid[o]
    <3>1. PICK t \in Ops : store[SessKey(t)] = u
      BY <1>1, <2>1, <2>3 DEF Renews
    <3>2. t # o
      BY <1>9, <3>1, ValueFacts
    <3> QED
      BY <2>1, <3>1, <3>2
  <2> QED
    BY <2>2, <2>3
<1> QED
  BY <1>3, <1>4, <1>5, <1>6, <1>7, <1>8, <1>9, TurnEffect

\* A user of the table at the start has no session but the one sess_map names, and the one
\* his Logout is about to delete.
LEMMA SingleNext ==
  ASSUME IInv, Owned, Turn, NEW o \in Ops, Handler(o)
  PROVE  Single'
<1> SUFFICES ASSUME NEW u \in DOMAIN Known, NEW t \in Ops, store'[SessKey(t)] = u
             PROVE  store'[MapKey(u)] = t \/ Unmaps(t)'
  BY DEF Single
<1> USE DEF Writing
<1>0. /\ store \in [Keys -> Values] /\ u \in Ids /\ MapKey(u) \in Keys /\ SessKey(t) \in Keys
      /\ UNCHANGED <<kind, token>> /\ Within(o) /\ Newly(o) /\ u # Nil
  BY TurnFacts, KeyFacts, ValueFacts DEF Turn
<1>1. store[SessKey(t)] = u => store[MapKey(u)] = t \/ (pc[o] \in {"unserve", "leave"} /\ token[o] = t)
  BY TurnFacts DEF Turn, Single, Unmaps, Ended
<1>2. pc'[o] \in {"unserve", "leave"} /\ token[o] = t => Unmaps(t)'
  BY <1>0 DEF Unmaps
<1>3. CASE UNCHANGED store /\ (pc[o] \in {"unserve", "leave"} => pc'[o] = pc[o])
  BY <1>1, <1>2, <1>3
<1>4. CASE /\ uid' = uid /\ pc[o] = "expel" /\ old[o] \in Ops
           /\ store' = [store EXCEPT ![SessKey(old[o])] = Nil]
  <2>1. store'[MapKey(u)] = store[MapKey(u)] /\ store[SessKey(t)] = u
    BY <1>0, <1>4, KeyFacts
  <2> QED
    BY <1>1, <1>4, <2>1
<1>5. CASE /\ uid' = uid /\ pc[o] = "unmap" /\ pc'[o] = "unserve"
           /\ store' = [store EXCEPT ![MapKey(uid[o])] = Nil]
  <2>1. store[SessKey(t)] = u
    BY <1>0, <1>5, KeyFacts, TurnFacts
  <2>2. store[MapKey(u)] = t
    BY <1>1, <1>5, <2>1
  <2>3. CASE u = uid[o]
    <3>1. token[o] \in Ops /\ store[SessKey(token[o])] = u
      BY <1>0, <1>5, <2>3 DEF Within
    <3>2. store[MapKey(u)] = token[o]
      BY <1>5, <3>1, TurnFacts DEF Turn, Single, Unmaps, Ended
    <3> QED
      BY <1>2, <1>5, <2>2, <3>2
  <2>4. CASE u # uid[o]
    BY <1>0, <1>5, <2>2, <2>4, KeyFacts
  <2> QED
    BY <2>3, <2>4
<1>6. CASE \/ /\ pc[o] = "unserve" /\ pc'[o] = "leave"
              /\ store' = [store EXCEPT ![ServerKey(uid[o])] = Nil]
           \/ pc[o] = "serve" /\ store' = [store EXCEPT ![ServerKey(uid[o])] = uid[o]]
  <2>1. store'[MapKey(u)] = store[MapKey(u)] /\ store[SessKey(t)] = u
    BY <1>0, <1>6, KeyFacts, TurnFacts
  <2> QED
    BY <1>1, <1>2, <1>6, <2>1
<1>7. CASE /\ pc[o] = "leave" /\ store' = [store EXCEPT ![SessKey(token[o])] = Nil]
  <2>1. t # token[o]
    BY <1>0, <1>7
  <2>2. store'[MapKey(u)] = store[MapKey(u)] /\ store[SessKey(t)] = u
    BY <1>0, <1>7, <2>1, KeyFacts, TurnFacts
  <2> QED
    BY <1>1, <2>1, <2>2
<1>8. CASE /\ pc[o] = "exec" /\ kind[o] \in {"login", "register"} /\ store' = Executed(o)
  <2>1. /\ store'[SessKey(o)] = uid[o]
        /\ t # o => store'[SessKey(t)] = store[SessKey(t)]
        /\ store'[MapKey(u)] = IF u = uid[o] /\ kind[o] = "login" THEN o ELSE store[MapKey(u)]
    BY <1>0, <1>8, KeyFacts, TurnFacts DEF Executed
  <2>2. CASE t = o
    <3>1. u = uid[o]
      BY <2>1, <2>2
    <3>2. kind[o] = "login"
      BY <1>0, <1>8, <3>1 DEF Newly
    <3> QED
      BY <2>1, <2>2, <3>1, <3>2
  <2>3. CASE t # o
    <3>1. store[SessKey(t)] = u
      BY <2>1, <2>3
    <3>2. ~Renews(o, u)
      BY <1>0, <3>1 DEF Within, Live
    <3> QED
      BY <1>1, <1>8, <2>1, <3>1, <3>2 DEF Renews
  <2> QED
    BY <2>2, <2>3
<1> QED
  BY <1>3, <1>4, <1>5, <1>6, <1>7, <1>8, TurnEffect

\* The handler at work knows what it has found and done.
LEMMA WithinNext ==
  ASSUME IInv, Owned, Turn, NEW o \in Ops, Handler(o)
  PROVE  Within(o)'
<1> USE DEF Goto, OrFail, Runs, Writing
<1>0. /\ TypeOK /\ Typed /\ Within(o) /\ Found(o) /\ Staged(o) /\ Single
      /\ DOMAIN pc = Ops /\ DOMAIN uid = Ops /\ DOMAIN old = Ops /\ UNCHANGED <<kind, token>>
      /\ store \in [Keys -> Values]
  BY TurnFacts DEF IInv, Owned, Turn, TypeOK
<1>1. CASE Take(o)
  BY <1>0, <1>1 DEF Take, Within, Renews, Live, redisVars
<1>2. CASE Check(o) \/ Add(o) \/ Create(o) \/ Find(o)
  <2>1. /\ pc'[o] \in {"add", "create", "fail", "last"}
           \/ (pc'[o] = "multi" /\ kind[o] = "register")
    BY <1>0, <1>2, KindFacts DEF Check, Add, Create, Find, Staged, Ended
  <2> QED
    BY <1>0, <2>1 DEF Within, Renews
<1>3. CASE Last(o)
  <2>1. pc[o] = "last" /\ uid[o] \in Ids /\ uid' = uid /\ store' = store
    BY <1>0, <1>3 DEF Last, Found, redisVars
  <2>2. ~InMulti(o)
    BY <1>3, <2>1, Connected DEF Last
  <2>3. old'[o] = store[MapKey(uid[o])] /\ pc'[o] = IF store[MapKey(uid[o])] # Nil THEN "expel" ELSE "multi"
    BY <1>0, <1>3, <2>2 DEF Last
  <2>4. ASSUME NEW u \in DOMAIN Known, uid[o] = u, pc'[o] = "multi" PROVE Live(u)' = {}
    <3>1. store[MapKey(u)] = Nil
      BY <2>3, <2>4
    <3>2. \A t \in Ops : store[SessKey(t)] = u => store[MapKey(u)] = t \/ Unmaps(t)
      BY <1>0 DEF Single
    <3>3. \A t \in Ops : ~Unmaps(t)
      BY <2>1, TurnFacts DEF Unmaps, Ended
    <3>4. \A t \in Ops : store[SessKey(t)] # u
      BY <3>1, <3>2, <3>3, AuthAssumption DEF AuthAssumption, Ops
    <3> QED
      BY <2>1, <3>4 DEF Live
  <2> QED
    BY <1>0, <2>1, <2>3, <2>4 DEF Within, Renews
<1>4. CASE Multi(o) \/ PutSession(o) \/ PutMap(o)
  <2>1. /\ pc[o] \in {"multi"} \cup Writing /\ pc'[o] \in Writing /\ uid' = uid
    BY <1>0, <1>4 DEF Multi, PutSession, PutMap
  <2>2. store' = store
    BY <2>1, TurnEffect
  <2> QED
    BY <1>0, <2>1, <2>2 DEF Within, Renews, Live
<1>5. CASE Session(o)
  <2>1. /\ store' = store /\ pc[o] = "session" /\ token[o] \in Ops
        /\ \/ pc'[o] = "fail"
           \/ pc'[o] \in {"unmap", "serve"} /\ uid'[o] = store[SessKey(token[o])]
    BY <1>0, <1>5 DEF Session, Found, redisVars
  <2> QED
    BY <1>0, <2>1 DEF Within, Renews
<1>6. CASE Expel(o)
  <2>1. /\ uid' = uid /\ kind[o] = "login" /\ pc'[o] = "multi" /\ old[o] \in Ops /\ pc[o] = "expel"
        /\ store' = [store EXCEPT ![SessKey(old[o])] = Nil]
    BY <1>0, <1>6, TurnEffect DEF Expel
  <2>2. ASSUME NEW u \in DOMAIN Known, uid[o] = u PROVE Live(u)' = {}
    <3>1. store[MapKey(u)] = old[o] /\ u \in Ids
      BY <2>1, <2>2, ExpelsOwn, TurnFacts
    <3>2. \A t \in Ops : store[SessKey(t)] = u => store[MapKey(u)] = t \/ Unmaps(t)
      BY <1>0 DEF Single
    <3>3. \A t \in Ops : ~Unmaps(t)
      BY <2>1, TurnFacts DEF Unmaps, Ended
    <3>4. \A t \in Ops : store'[SessKey(t)] # u
      BY <1>0, <2>1, <3>1, <3>2, <3>3, KeyFacts, ValueFacts
    <3> QED
      BY <3>4 DEF Live
  <2> QED
    BY <1>0, <2>1, <2>2 DEF Within, Renews
<1>7. CASE Unmap(o)
  <2>1. /\ uid' = uid /\ pc[o] = "unmap" /\ pc'[o] = "unserve" /\ uid[o] \in Ids /\ token[o] \in Ops
        /\ store' = [store EXCEPT ![MapKey(uid[o])] = Nil]
    BY <1>0, <1>7, TurnEffect DEF Unmap, Found, Ended
  <2>2. store'[MapKey(uid[o])] = Nil /\ store'[SessKey(token[o])] = store[SessKey(token[o])]
    BY <1>0, <2>1, KeyFacts
  <2> QED
    BY <1>0, <2>1, <2>2 DEF Within, Renews
<1>8. CASE Unserve(o)
  <2>1. /\ uid' = uid /\ pc[o] = "unserve" /\ pc'[o] = "leave" /\ uid[o] \in Ids /\ token[o] \in Ops
        /\ store' = [store EXCEPT ![ServerKey(uid[o])] = Nil]
    BY <1>0, <1>8, TurnEffect DEF Unserve, Found
  <2>2. /\ store'[MapKey(uid[o])] = store[MapKey(uid[o])] /\ store'[ServerKey(uid[o])] = Nil
        /\ store'[SessKey(token[o])] = store[SessKey(token[o])]
    BY <1>0, <2>1, KeyFacts
  <2> QED
    BY <1>0, <2>1, <2>2 DEF Within, Renews
<1>9. CASE Leave(o) \/ Serve(o) \/ Exec(o)
  <2>1. pc'[o] \in Ended
    BY <1>0, <1>9 DEF Leave, AfterLeave, Serve, Exec, Ended
  <2> QED
    BY <2>1 DEF Within, Renews, Ended
<1> QED
  BY <1>1, <1>2, <1>3, <1>4, <1>5, <1>6, <1>7, <1>8, <1>9 DEF Handler

\* A Register that takes its turn makes a new user.
LEMMA NewlyNext ==
  ASSUME IInv, Owned, Turn, NEW o \in Ops, Handler(o)
  PROVE  Newly(o)' /\ Grown'
<1> USE DEF Goto, OrFail, Runs, Writing
<1>0. /\ TypeOK /\ Newly(o) /\ Staged(o) /\ Grown /\ table \in Seq(Names)
      /\ DOMAIN pc = Ops /\ DOMAIN uid = Ops /\ UNCHANGED <<kind, name>>
  BY TurnFacts, Alone DEF IInv, Owned, Turn, TypeOK
<1>1. CASE Create(o) /\ Rows(name[o]) = {}
  <2>1. /\ table' = Append(table, name[o]) /\ uid' = [uid EXCEPT ![o] = Len(table) + 1]
        /\ pc'[o] = "multi" /\ name[o] \in Names
    BY <1>0, <1>1, TurnFacts DEF Create, Taken, IInv, Found
  <2>2. Len(table') = Len(table) + 1 /\ Len(table) \in Nat /\ Len(Known) \in Nat /\ DOMAIN Known = 1 .. Len(Known)
    BY <1>0, <2>1, AuthAssumption DEF AuthAssumption
  <2> QED
    BY <1>0, <2>1, <2>2 DEF Newly, Grown
<1>2. CASE table' = table
  <2>1. Grown' /\ Rows(name[o])' = Rows(name[o])
    BY <1>0, <1>2 DEF Grown, Rows
  <2>2. CASE Take(o)
    BY <1>0, <2>1, <2>2 DEF Take, Newly
  <2>3. CASE Check(o)
    BY <1>0, <2>1, <2>3 DEF Check, Newly
  <2>4. CASE Add(o)
    BY <1>0, <2>1, <2>4, KindFacts DEF Add, First, Newly, Staged
  <2>5. CASE Create(o)
    <3>1. kind[o] = "register" /\ pc[o] = "create"
      BY <1>0, <2>5, KindFacts DEF Create, Staged, Ended
    <3>2. pc'[o] = "fail" \/ Rows(name[o]) = {}
      BY <1>0, <2>5 DEF Create, Taken
    <3> QED
      BY <1>1, <2>1, <2>5, <3>2 DEF Newly
  <2>6. CASE Multi(o) \/ PutSession(o) \/ PutMap(o)
    BY <1>0, <2>1, <2>6 DEF Multi, PutSession, PutMap, Newly
  <2>7. CASE Find(o) \/ Last(o) \/ Expel(o) \/ Session(o) \/ Unmap(o) \/ Unserve(o) \/ Serve(o)
    <3>1. kind[o] # "register"
      BY <1>0, <2>7, KindFacts DEF Find, Last, Expel, Session, Unmap, Unserve, Serve, Staged, Ended
    <3> QED
      BY <1>0, <2>1, <3>1 DEF Newly
  <2>8. CASE Leave(o) \/ Exec(o)
    <3>1. pc'[o] \in Ended
      BY <1>0, <2>8 DEF Leave, AfterLeave, Exec, Ended
    <3> QED
      BY <2>1, <3>1 DEF Newly, Ended
  <2> QED
    BY <2>2, <2>3, <2>4, <2>5, <2>6, <2>7, <2>8 DEF Handler
<1> QED
  BY <1>1, <1>2, TableNext

\* One connection serves the handler, and carries the transaction it has opened.
LEMMA PooledNext ==
  ASSUME IInv, Owned, Turn, NEW o \in Ops, Handler(o)
  PROVE  Pooled'
<1> USE DEF Goto, OrFail, Runs, redisVars, poolVars
<1>0. /\ TypeOK /\ Pooled /\ Found(o) /\ Staged(o)
      /\ DOMAIN pc = Ops /\ DOMAIN uid = Ops /\ UNCHANGED kind
      /\ idle \in Seq(Conns) /\ held \in [Ops -> Conns \cup {Nil}] /\ Nil \notin Conns
      /\ tx \in [Conns -> [Keys -> Values \cup {Keep}] \cup {Nil}]
  BY TurnFacts, AuthAssumption DEF AuthAssumption, IInv, Owned, Turn, TypeOK
<1>1. \A p \in Ops \ {o} : pc[p] \notin Commands /\ pc'[p] \notin Commands /\ held[p] = Nil
  <2>1. \A p \in Ops \ {o} : pc[p] \in {"idle"} \cup Ended /\ pc'[p] \in {"idle"} \cup Ended
    BY TurnFacts
  <2> QED
    BY <1>0, <2>1 DEF Pooled, Commands, Ended
<1>2. Writing \subseteq Commands
  BY DEF Writing, Commands
\* A query of the database does not touch Redis.
<1>3. ASSUME UNCHANGED <<redisVars, poolVars>>, pc[o] \notin Commands, pc'[o] \notin Writing
      PROVE  Pooled'
  BY <1>0, <1>1, <1>2, <1>3 DEF Pooled
\* A command gives the connection back.
<1>4. ASSUME held[o] # Nil, GiveBack(o),
             pc'[o] \in Writing => tx'[held[o]] = Queue(o)',
             pc'[o] \notin Writing => tx'[held[o]] = Nil,
             \A c \in Conns \ {held[o]} : tx'[c] = Nil
      PROVE  Pooled'
  <2>1. held[o] \in Conns /\ idle = <<>>
    BY <1>0, <1>4 DEF Pooled
  <2>2. idle' = <<held[o]>> /\ held'[o] = Nil /\ \A p \in Ops : held'[p] = Nil
    BY <1>0, <1>1, <1>4, <2>1 DEF GiveBack
  <2>3. Len(idle') = 1 /\ idle' # <<>> /\ Own(o)' = held[o]
    BY <2>2 DEF Own
  <2>4. \A p \in Ops : pc'[p] \in Writing => p = o
    BY <1>1, <1>2
  <2>5. \A c \in Conns : tx'[c] # Nil => pc'[o] \in Writing /\ c = Own(o)'
    BY <1>4, <2>3
  <2>6. \A p \in Ops : pc'[p] \in Writing => tx'[Own(p)'] = Queue(p)'
    BY <1>4, <2>3, <2>4
  <2> QED
    BY <2>2, <2>3, <2>4, <2>5, <2>6 DEF Pooled
<1>5. CASE Take(o)
  <2>1. pc[o] \in Commands /\ held[o] = Nil /\ UNCHANGED <<pc, uid, tx, kind>>
    BY <1>5, <1>0 DEF Take
  <2>2. \A p \in Ops : Queue(p)' = Queue(p)
    BY <2>1 DEF Queue
  <2>3. idle' = <<>> /\ \E c \in Conns : held' = [held EXCEPT ![o] = c] /\ (idle # <<>> => c = idle[1])
    <3>1. CASE idle # <<>>
      <4>1. Len(idle) = 1
        <5>1. Len(idle) <= 1
          BY <1>0 DEF Pooled
        <5>2. Len(idle) \in Nat \ {0}
          BY <1>0, <3>1, EmptySeq, Zenon
        <5> QED
          BY <5>1, <5>2
      <4>2. idle' = SubSeq(idle, 1, 0) /\ held' = [held EXCEPT ![o] = idle[1]] /\ idle[1] \in Conns
        BY <1>0, <1>5, <3>1, <4>1 DEF Take
      <4>3. SubSeq(idle, 1, 0) = <<>>
        BY SubSeqEmpty
      <4> QED
        BY <1>0, <4>2, <4>3
    <3>2. CASE idle = <<>>
      BY <1>5, <3>2 DEF Take
    <3> QED
      BY <3>1, <3>2
  <2>4. held'[o] # Nil /\ \A p \in Ops \ {o} : held'[p] = Nil
    BY <1>0, <1>1, <2>3
  <2>5. pc[o] \in Writing => idle # <<>> /\ Own(o)' = Own(o)
    BY <1>0, <2>1, <2>3, <2>4 DEF Pooled, Own
  <2>6. Len(idle') <= 1
    BY <2>3
  <2>7. \A p \in Ops : pc'[p] \in Writing =>
          p = o /\ (held'[p] # Nil \/ idle' # <<>>) /\ tx'[Own(p)'] = Queue(p)'
    BY <1>0, <1>1, <1>2, <2>1, <2>2, <2>4, <2>5 DEF Pooled
  <2>8. \A c \in Conns : tx'[c] # Nil => pc'[o] \in Writing /\ c = Own(o)'
    BY <1>0, <1>1, <1>2, <2>1, <2>5 DEF Pooled
  <2> QED
    BY <2>1, <2>3, <2>4, <2>6, <2>7, <2>8 DEF Pooled
<1>6. CASE Check(o) \/ Add(o) \/ Create(o) \/ Find(o)
  BY <1>0, <1>3, <1>6 DEF Check, Add, Create, Find, Commands, Writing
<1>7. CASE Last(o) \/ Expel(o) \/ Session(o) \/ Unmap(o) \/ Unserve(o) \/ Leave(o) \/ Serve(o)
  <2>1. /\ held[o] # Nil /\ GiveBack(o)
        /\ pc[o] \notin Writing /\ pc'[o] \notin Writing
    BY <1>0, <1>7
       DEF Last, Expel, Session, Unmap, Unserve, Leave, AfterLeave, Serve, Writing
  <2>2. ~InMulti(o) /\ held[o] \in Conns /\ \A c \in Conns \ {held[o]} : tx[c] = Nil
    BY <2>1, Connected
  <2>3. tx' = tx
    BY <1>7, <2>2 DEF Last, Expel, Session, Unmap, Unserve, Leave, Serve, Write
  <2> QED
    BY <1>4, <2>1, <2>2, <2>3 DEF InMulti
<1>8. CASE Multi(o)
  <2>1. pc[o] = "multi" /\ held[o] # Nil /\ GiveBack(o) /\ pc'[o] = "putSession" /\ UNCHANGED uid
    BY <1>0, <1>8 DEF Multi
  <2>2. ~InMulti(o) /\ held[o] \in Conns /\ \A c \in Conns \ {held[o]} : tx[c] = Nil
    BY <2>1, Connected DEF Writing
  <2>3. tx' = [tx EXCEPT ![held[o]] = [k \in Keys |-> Keep]]
    BY <1>8, <2>2 DEF Multi
  <2>4. Queue(o)' = [k \in Keys |-> Keep]
    BY <2>1 DEF Queue
  <2> QED
    BY <1>0, <1>4, <2>1, <2>2, <2>3, <2>4 DEF Writing
<1>9. ASSUME NEW k \in Keys, NEW v, held[o] # Nil, GiveBack(o), Write(o, k, v),
             pc[o] \in Writing, pc'[o] \in Writing, Queue(o)' = [Queue(o) EXCEPT ![k] = v]
      PROVE  Pooled'
  <2>1. /\ InMulti(o) /\ held[o] \in Conns /\ \A c \in Conns \ {held[o]} : tx[c] = Nil
        /\ tx[held[o]] = Queue(o)
    BY <1>9, Connected
  <2>2. tx' = [tx EXCEPT ![held[o]][k] = v]
    BY <1>9, <2>1 DEF Write
  <2> QED
    BY <1>0, <1>4, <1>9, <2>1, <2>2
<1>10. CASE PutSession(o)
  <2>1. /\ pc[o] = "putSession" /\ held[o] # Nil /\ GiveBack(o) /\ Write(o, SessKey(o), uid[o])
        /\ pc'[o] = (IF kind[o] = "login" THEN "putMap" ELSE "exec") /\ uid' = uid /\ kind' = kind
        /\ uid[o] \in Ids /\ SessKey(o) \in Keys
    BY <1>0, <1>10, KeyFacts DEF PutSession, Found
  <2>2. Queue(o)' = [Queue(o) EXCEPT ![SessKey(o)] = uid[o]]
    BY <2>1, KeyFacts DEF Queue
  <2> QED
    BY <1>9, <2>1, <2>2 DEF Writing
<1>11. CASE PutMap(o)
  <2>1. /\ pc[o] = "putMap" /\ held[o] # Nil /\ GiveBack(o) /\ Write(o, MapKey(uid[o]), o)
        /\ pc'[o] = "exec" /\ uid' = uid /\ kind' = kind /\ kind[o] = "login"
        /\ uid[o] \in Ids /\ MapKey(uid[o]) \in Keys
    BY <1>0, <1>11, KeyFacts DEF PutMap, Found, Staged, Ended
  <2>2. Queue(o)' = [Queue(o) EXCEPT ![MapKey(uid[o])] = o]
    BY <2>1, KeyFacts DEF Queue
  <2> QED
    BY <1>9, <2>1, <2>2 DEF Writing
<1>12. CASE Exec(o)
  <2>1. pc[o] = "exec" /\ held[o] # Nil /\ GiveBack(o) /\ pc'[o] \notin Writing
    BY <1>0, <1>12 DEF Exec, Writing
  <2>2. InMulti(o) /\ held[o] \in Conns /\ \A c \in Conns \ {held[o]} : tx[c] = Nil
    BY <2>1, Connected DEF Writing
  <2>3. tx' = [tx EXCEPT ![held[o]] = Nil]
    BY <1>12, <2>2 DEF Exec
  <2> QED
    BY <1>0, <1>4, <2>1, <2>2, <2>3
<1> QED
  BY <1>5, <1>6, <1>7, <1>8, <1>10, <1>11, <1>12 DEF Handler

\* A handler's step keeps everything.
LEMMA HandlerTurn ==
  ASSUME IInv, Owned, Turn, NEW o \in Ops, Handler(o)
  PROVE  Turn'
<1>1. TypeOK /\ Solo
  BY DEF IInv, Turn
<1>2. \A p \in Ops \ {o} : pc'[p] \in {"idle"} \cup Ended
  BY TurnFacts
<1>3. Solo'
  BY <1>2 DEF Solo, Active
<1>4. ASSUME NEW p \in Ops \ {o} PROVE Newly(p)' /\ Within(p)'
  BY <1>2 DEF Newly, Within, Renews, Writing, Ended
<1> QED
  BY <1>3, <1>4, PooledNext, NewlyNext, MappedNext, ServedNext, SingleNext, WithinNext DEF Turn

\* A request that arrives finds no other, and no transaction.
LEMMA StartTurn ==
  ASSUME IInv, Turn, Calm, NEW k, NEW n, NEW t, NEW l \in {"check", "find", "session"}, Start(k, n, t, l)
  PROVE  Turn'
<1>0. TypeOK /\ Numbered
  BY DEF IInv
<1>1. Active = {}
  <2>1. IsFiniteSet(Active)
    <3>1. IsFiniteSet(Ops)
      BY FS_Interval, AuthAssumption DEF AuthAssumption, Ops
    <3>2. Active \subseteq Ops
      BY DEF Active
    <3> QED
      BY <3>1, <3>2, FS_Subset
  <2>2. Cardinality(Active) < 1 /\ Cardinality(Active) \in Nat
    BY <2>1, FS_CardinalityType DEF Start, Calm
  <2> QED
    BY <2>1, <2>2, FS_EmptySet
<1>2. PICK o \in Ops : o = started + 1
  BY DEF Start
<1>3. /\ pc' = [pc EXCEPT ![o] = l] /\ kind' = [kind EXCEPT ![o] = k]
      /\ UNCHANGED <<table, store, tx, idle, held, uid, old>>
  BY <1>2 DEF Start, Goto, redisVars, poolVars
<1>4. \A p \in Ops : pc[p] \in {"idle"} \cup Ended
  BY <1>1 DEF Active
<1>5. pc'[o] = l /\ \A p \in Ops \ {o} : pc'[p] \in {"idle"} \cup Ended
  BY <1>0, <1>3, <1>4 DEF TypeOK
<1>6. Solo'
  BY <1>5 DEF Solo, Active
<1>7. Pooled'
  <2>1. \A p \in Ops : pc[p] \notin Commands /\ pc[p] \notin Writing /\ pc'[p] \notin Writing
    BY <1>4, <1>5 DEF Commands, Writing, Ended
  <2> QED
    BY <1>3, <2>1 DEF Pooled, Turn
<1>8. \A p \in Ops : \A u : ~Renews(p, u) /\ ~Renews(p, u)'
  BY <1>4, <1>5 DEF Renews, Writing, Ended
<1>9. \A v : ~Unmaps(v)
  BY <1>4 DEF Unmaps, Ended
<1>10. Mapped' /\ Served' /\ Single' /\ Grown'
  BY <1>3, <1>8, <1>9 DEF Turn, Mapped, Served, Single, Grown, Live, Renewed
<1>11. \A p \in Ops : Newly(p)' /\ Within(p)'
  BY <1>5, <1>8 DEF Newly, Within, Ended, Writing
<1> QED
  BY <1>6, <1>7, <1>10, <1>11 DEF Turn

\* As long as requests take turns, every step keeps it.
LEMMA TurnNext == IInv /\ Owned /\ (Calm => Turn) /\ [Next]_vars => (Calm => Turn)'
<1> SUFFICES ASSUME IInv, Owned, Calm => Turn, [Next]_vars, Calm' PROVE Turn'
  OBVIOUS
<1>0. TypeOK
  BY DEF IInv
<1>1. Calm => Turn'
  <2>1. ASSUME Calm, NEW m \in Names, StartRegister(m) \/ StartLogin(m) PROVE Turn'
    BY <2>1, StartTurn DEF StartRegister, StartLogin
  <2>2. ASSUME Calm, NEW v \in Ops, StartLogout(v) \/ StartConnect(v) PROVE Turn'
    BY <2>2, StartTurn DEF StartLogout, StartConnect
  <2>3. ASSUME Calm, NEW o \in Ops, Handler(o) PROVE Turn'
    BY <2>3, HandlerTurn
  <2>4. ASSUME NEW i \in DOMAIN idle, Age(i) PROVE FALSE
    BY <1>0, <2>4 DEF Calm, Age, TypeOK
  <2>5. ASSUME Calm, UNCHANGED vars PROVE Turn'
    BY <2>5 DEF vars, redisVars, poolVars, argVars, Turn, Solo, Active, Pooled, Own, Queue, Grown, Newly,
                Rows, Renews, Renewed, Unmaps, Mapped, Served, Single, Live, Within
  <2> QED
    BY <2>1, <2>2, <2>3, <2>4, <2>5 DEF Next
<1>2. Calm
  <2>1. limits' = limits
    BY <1>0, Frame DEF Next, StartRegister, StartLogin, StartLogout, StartConnect, Start, Age, argVars, vars
  <2>2. aged' = aged \/ \E i \in DOMAIN idle : Age(i)
    BY <1>0, Frame DEF Next, StartRegister, StartLogin, StartLogout, StartConnect, Start, vars
  <2>3. \A i \in DOMAIN idle : Age(i) => aged' = aged + 1
    BY DEF Age
  <2> QED
    BY <1>0, <2>1, <2>2, <2>3 DEF Calm, TypeOK
<1> QED
  BY <1>1, <1>2

LEMMA InTurn == Spec => [](IInv /\ Owned /\ (Calm => Turn))
<1>1. Init => IInv /\ Owned /\ (Calm => Turn)
  BY InvariantInit, OwnedInit, TurnInit
<1>2. IInv /\ Owned /\ (Calm => Turn) /\ [Next]_vars => (IInv /\ Owned /\ (Calm => Turn))'
  BY InvariantNext, OwnedNext, TurnNext
<1> QED
  BY <1>1, <1>2, PTL DEF Spec
-------------------------------------------------------------------------------
LEMMA AtRest ==
  ASSUME Turn, Active = {}
  PROVE  /\ \A u : ~Renewed(u)
         /\ \A t : ~Unmaps(t)
BY DEF Active, Ended, Renewed, Renews, Writing, Unmaps

\* Between two requests, the token sess_map names for a user is a session of that user
\* (logic/rpc.go Login, Logout).
THEOREM MapIsLive == Spec => []CurrentLive
<1>1. (Calm => Turn) => CurrentLive
  BY AtRest DEF CurrentLive, Apart, Calm, Turn, Mapped
<1> QED
  BY <1>1, InTurn, PTL

\* Between two requests, a user without a session has no server key (logic/rpc.go Logout).
THEOREM ServerKeyGoes == Spec => []LoggedOut
<1>1. (Calm => Turn) => LoggedOut
  BY AtRest DEF LoggedOut, Apart, Calm, Turn, Served
<1> QED
  BY <1>1, InTurn, PTL

\* Between two requests, a user of the table at the start has at most one session
\* (logic/rpc.go Login).
THEOREM SessionsAreSingle == Spec => []OneSession
<1>1. (Calm => Turn) => OneSession
  <2>1. SUFFICES ASSUME Turn, Active = {}, NEW u \in DOMAIN Known PROVE Cardinality(Live(u)) <= 1
    BY DEF OneSession, Apart, Calm
  <2>2. Live(u) \subseteq {store[MapKey(u)]}
    BY <2>1, AtRest DEF Live, Turn, Single
  <2>3. IsFiniteSet({store[MapKey(u)]}) /\ Cardinality({store[MapKey(u)]}) = 1
    BY FS_Singleton
  <2> QED
    BY <2>2, <2>3, FS_Subset
<1> QED
  BY <1>1, InTurn, PTL
===============================================================================
