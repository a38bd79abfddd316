---------------------------- MODULE BucketProofs ----------------------------
(* What holds of a Bucket for every value of the constants. *)
EXTENDS Bucket, FiniteSetTheorems, TLAPS

\* The type invariant, with the facts about the locals that make it inductive, holds
\* initially.
LEMMA TypedInit == Init => Typed
BY BucketAssumption DEF BucketAssumption, Init, Typed, TypeOK, InBucket, InRoom, Room

\* Every step keeps the types.
LEMMA TypedNext == Typed /\ [Next]_vars => Typed'
<1> SUFFICES ASSUME Typed, [Next]_vars PROVE Typed'
  OBVIOUS
<1> USE BucketAssumption DEF BucketAssumption, Typed, TypeOK, InBucket, InRoom, Goto,
      bucketVars, roomVars, histVars, linkVars, sessVars, readVars, pushVars
<1>1. ASSUME NEW s \in Sessions, NEW u \in Users, NEW r \in RoomIds \cup {NoRoom}, Join(s, u, r)
      PROVE  Typed'
  BY <1>1 DEF Join
<1>2. ASSUME NEW s \in Sessions, PutNoRoom(s)
      PROVE  Typed'
  BY <1>2 DEF PutNoRoom
<1>3. ASSUME NEW s \in Sessions, PutRoom(s)
      PROVE  Typed'
  BY <1>3 DEF PutRoom, Room
<1>4. ASSUME NEW s \in Sessions, RoomPut(s)
      PROVE  Typed'
  BY <1>4 DEF RoomPut
<1>5. ASSUME NEW s \in Sessions, RoomRefused(s)
      PROVE  Typed'
  BY <1>5 DEF RoomRefused, AfterRefusal
<1>6. ASSUME NEW s \in Sessions, Quit(s) \/ Malformed(s)
      PROVE  Typed'
  <2>1. /\ pc[s] = "read" /\ (arg' = arg \/ arg' = [arg EXCEPT ![s] = Nil])
        /\ UNCHANGED <<bucketVars, roomVars, histVars, linkVars, chRoom, chUser, joins, target, room, load,
                       pushVars>>
        /\ \/ /\ conn' = [conn EXCEPT ![s] = "closed"]
              /\ \E l \in {"closed", "panic"} : pc' = [pc EXCEPT ![s] = l]
           \/ chUser[s] # Nil /\ pc' = [pc EXCEPT ![s] = "lookup"] /\ conn' = conn
    BY <1>6 DEF Quit, Malformed, Deferred
  <2>2. arg' \in [Sessions -> (Users \X (RoomIds \cup {NoRoom})) \cup {Nil}]
        /\ \A x \in Sessions : x # s => arg'[x] = arg[x]
    BY <2>1
  <2>3. CASE chUser[s] # Nil /\ pc' = [pc EXCEPT ![s] = "lookup"] /\ conn' = conn
    BY <2>1, <2>2, <2>3
  <2>4. ASSUME conn' = [conn EXCEPT ![s] = "closed"],
               NEW l \in {"closed", "panic"}, pc' = [pc EXCEPT ![s] = l]
        PROVE  Typed'
    BY <2>1, <2>2, <2>4
  <2> QED
    BY <2>1, <2>3, <2>4
<1>7. ASSUME NEW s \in Sessions, Lookup(s)
      PROVE  Typed'
  <2> DEFINE t == chs[chUser[s]]
  <2>1. pc[s] = "lookup" /\ t \in Sessions \cup {Nil} /\ (t # Nil => chUser[t] \in Users)
    BY <1>7 DEF Lookup
  <2>2. CASE t = Nil \/ chs[chUser[t]] = Nil
    BY <1>7, <2>1, <2>2 DEF Lookup
  <2>3. CASE t # Nil /\ chs[chUser[t]] # Nil
    <3>1. t \in Sessions /\ chRoom[chs[chUser[t]]] \in Room \cup {Nil}
      BY <2>1, <2>3
    <3>2. /\ target' = [target EXCEPT ![s] = t]
          /\ room' = [room EXCEPT ![s] = chRoom[chs[chUser[t]]]]
          /\ pc' = [pc EXCEPT ![s] = "forget"]
          /\ UNCHANGED <<bucketVars, roomVars, histVars, linkVars, sessVars, arg, load, pushVars>>
      BY <1>7, <2>3 DEF Lookup
    <3> HIDE DEF t
    <3> QED
      BY <2>1, <3>1, <3>2
  <2> QED
    BY <2>2, <2>3
<1>8. ASSUME NEW s \in Sessions, Forget(s)
      PROVE  Typed'
  BY <1>8 DEF Forget, Forgotten
<1>9. ASSUME NEW s \in Sessions, UnlinkNext(s)
      PROVE  Typed'
  BY <1>9 DEF UnlinkNext
<1>10. ASSUME NEW s \in Sessions, UnlinkPrev(s)
      PROVE  Typed'
  BY <1>10 DEF UnlinkPrev, NextAfter
<1>11. ASSUME NEW s \in Sessions, DecLoad(s)
      PROVE  Typed'
  BY <1>11 DEF DecLoad
<1>12. ASSUME NEW s \in Sessions, DecStore(s)
      PROVE  Typed'
  BY <1>12 DEF DecStore, Decremented
<1>13. ASSUME NEW s \in Sessions, DropClear(s)
      PROVE  Typed'
  BY <1>13 DEF DropClear
<1>14. ASSUME NEW s \in Sessions, DropTest(s)
      PROVE  Typed'
  BY <1>14 DEF DropTest, Exhausted
<1>15. ASSUME NEW s \in Sessions, Evict(s)
      PROVE  Typed'
  BY <1>15 DEF Evict
<1>16. ASSUME NEW s \in Sessions, Unlock(s)
      PROVE  Typed'
  BY <1>16 DEF Unlock
<1>17. ASSUME NEW s \in Sessions, Close(s)
      PROVE  Typed'
  BY <1>17 DEF Close
<1>18. ASSUME NEW w \in Routines, NEW r \in RoomIds, TakeMsg(w, r)
      PROVE  Typed'
  BY <1>18 DEF TakeMsg
<1>19. ASSUME NEW w \in Routines, PushBegin(w)
      PROVE  Typed'
  BY <1>19 DEF PushBegin
<1>20. ASSUME NEW w \in Routines, PushNext(w)
      PROVE  Typed'
  BY <1>20 DEF PushNext, Advance
<1>21. ASSUME NEW w \in Routines, PushEnd(w)
      PROVE  Typed'
  BY <1>21 DEF PushEnd
<1>22. CASE UNCHANGED vars
  BY <1>22 DEF vars
<1> QED
  BY <1>1, <1>2, <1>3, <1>4, <1>5, <1>6, <1>7, <1>8, <1>9, <1>10, <1>11, <1>12, <1>13, <1>14,
     <1>15, <1>16, <1>17, <1>18, <1>19, <1>20, <1>21, <1>22
     DEF Next, Reader, Delete, Push

\* Every variable of the bucket keeps its type: no step ever stores a wrong pointer.
THEOREM TypeCorrect == Spec => []TypeOK
<1>1. Typed => TypeOK
  BY DEF Typed
<1> QED
  BY TypedInit, TypedNext, <1>1, PTL DEF Spec
-----------------------------------------------------------------------------
(* A retired room stays retired, when readers leave one at a time. *)

\* With the bound MaxExit = 1 at most one reader is in Bucket.DeleteChannel.
LEMMA OneExitNext == MaxExit = 1 /\ Typed /\ OneExit /\ [Next]_vars => OneExit'
<1> SUFFICES ASSUME MaxExit = 1, Typed, OneExit, [Next]_vars PROVE OneExit'
  OBVIOUS
<1> USE DEF Exiting, InBucket, InRoom
<1>1. ASSUME NEW s \in Sessions, Lookup(s)
      PROVE  OneExit'
  <2>1. IsFiniteSet(Exiting) /\ Cardinality(Exiting) = 0
    BY <1>1, BucketAssumption, FS_Subset, FS_CardinalityType DEF Lookup, BucketAssumption
  <2>2. Exiting = {}
    BY <2>1, FS_EmptySet
  <2> QED
    BY <1>1, <2>2 DEF Lookup, OneExit, Goto, Typed, TypeOK
<1>2. ASSUME NEW s \in Sessions, Delete(s), ~Lookup(s)
      PROVE  OneExit'
  <2>1. pc[s] \in InBucket \cup {"disconnect"} /\ \A x \in Sessions \ {s} : pc'[x] = pc[x]
    BY <1>2 DEF Typed, TypeOK, Delete, Forget, UnlinkNext, UnlinkPrev, DecLoad, DecStore, DropClear,
       DropTest, Evict, Unlock, Close, Goto
  <2>2. pc[s] = "disconnect" => pc'[s] \notin InBucket
    BY <1>2 DEF Typed, TypeOK, Delete, Forget, UnlinkNext, UnlinkPrev, DecLoad, DecStore, DropClear,
       DropTest, Evict, Unlock, Close, Goto
  <2> QED
    BY <2>1, <2>2 DEF OneExit
<1>3. ASSUME NEW s \in Sessions, Reader(s), ~Delete(s)
      PROVE  OneExit'
  <2>1. \E l \in {"put", "read", "roomPut", "lookup", "closed", "panic"} : pc' = [pc EXCEPT ![s] = l]
    BY <1>3 DEF Reader, Join, PutNoRoom, PutRoom, RoomPut, RoomRefused, Quit, Malformed, Deferred, Goto
  <2> QED
    BY <2>1 DEF OneExit, Typed, TypeOK
<1>4. ASSUME NEW w \in Routines, Push(w)
      PROVE  OneExit'
  BY <1>4 DEF OneExit, Push, TakeMsg, PushBegin, PushNext, PushEnd
<1>5. CASE UNCHANGED vars
  BY <1>5 DEF OneExit, vars
<1> QED
  BY <1>1, <1>2, <1>3, <1>4, <1>5 DEF Next, Reader

\* The count a deletion stores is the count it read less one, and a room with
\* the mark set counts nobody.
LEMMA EmptiedInit == Init => OneExit /\ Loaded /\ Emptied
BY DEF Init, OneExit, Loaded, Emptied, Exiting, InBucket, InRoom

LEMMA EmptiedNext ==
  Typed /\ OneExit /\ Loaded /\ Emptied /\ [Next]_vars => Loaded' /\ Emptied'
<1> SUFFICES ASSUME Typed, OneExit, Loaded, Emptied, [Next]_vars PROVE Loaded' /\ Emptied'
  OBVIOUS
<1> USE DEF Typed, TypeOK, OneExit, Loaded, Emptied, Exiting, InBucket, InRoom, Goto,
            bucketVars, roomVars, histVars, linkVars, sessVars, readVars, pushVars
<1>1. ASSUME NEW s \in Sessions, RoomPut(s)
      PROVE  Loaded' /\ Emptied'
  BY <1>1 DEF RoomPut, RoomLocked, Dropped
<1>2. ASSUME NEW s \in Sessions, Lookup(s)
      PROVE  Loaded' /\ Emptied'
  BY <1>2 DEF Lookup
<1>3. ASSUME NEW s \in Sessions, DecLoad(s)
      PROVE  Loaded' /\ Emptied'
  BY <1>3 DEF DecLoad
<1>4. ASSUME NEW s \in Sessions, DecStore(s)
      PROVE  Loaded' /\ Emptied'
  BY <1>4 DEF DecStore, Decremented
<1>5. ASSUME NEW s \in Sessions, DropClear(s)
      PROVE  Loaded' /\ Emptied'
  BY <1>5 DEF DropClear
<1>6. ASSUME NEW s \in Sessions, DropTest(s)
      PROVE  Loaded' /\ Emptied'
  BY <1>6 DEF DropTest, Exhausted
<1>7. ASSUME NEW s \in Sessions, Unlock(s)
      PROVE  Loaded' /\ Emptied'
  BY <1>7 DEF Unlock
<1>8. ASSUME NEW s \in Sessions,
             Forget(s) \/ UnlinkNext(s) \/ UnlinkPrev(s) \/ Evict(s) \/ Close(s)
      PROVE  Loaded' /\ Emptied'
  BY <1>8 DEF Forget, UnlinkNext, UnlinkPrev, Evict, Close
<1>9. ASSUME NEW s \in Sessions,
             \/ \E u \in Users, r \in RoomIds \cup {NoRoom} : Join(s, u, r)
             \/ PutNoRoom(s) \/ PutRoom(s) \/ RoomRefused(s) \/ Quit(s) \/ Malformed(s)
      PROVE  Loaded' /\ Emptied'
  <2>1. \E l \in {"put", "read", "roomPut", "lookup", "closed", "panic"} : pc' = [pc EXCEPT ![s] = l]
    BY <1>9 DEF Join, PutNoRoom, PutRoom, RoomRefused, Quit, Malformed, Deferred
  <2>2. pc[s] \notin InBucket /\ UNCHANGED <<roomVars, histVars, room, load>>
    BY <1>9 DEF Join, PutNoRoom, PutRoom, RoomRefused, Quit, Malformed, Deferred
  <2> QED
    BY <2>1, <2>2
<1>10. ASSUME NEW w \in Routines, Push(w)
      PROVE  Loaded' /\ Emptied'
  BY <1>10 DEF Push, TakeMsg, PushBegin, PushNext, PushEnd
<1>11. CASE UNCHANGED vars
  BY <1>11 DEF vars
<1> QED
  BY <1>1, <1>2, <1>3, <1>4, <1>5, <1>6, <1>7, <1>8, <1>9, <1>10, <1>11 DEF Next, Reader, Delete

\* What one step does to a retired room.
LEMMA DropFinalStep ==
  ASSUME Typed, OneExit, Loaded, Emptied, [Next]_vars, NEW o \in Room, Retired(o)
  PROVE  Retired(o)' /\ linked'[o] \subseteq linked[o]
<1> USE DEF Typed, TypeOK, OneExit, Loaded, Emptied, Exiting, InBucket, InRoom, Goto, Retired, Deleting,
            bucketVars, roomVars, histVars, linkVars, sessVars, readVars, pushVars
<1> DEFINE Kept == Retired(o)' /\ linked'[o] \subseteq linked[o]
<1>1. ASSUME NEW s \in Sessions, RoomPut(s)
      PROVE  Kept
  BY <1>1 DEF RoomPut, RoomLocked, Dropped
<1>2. ASSUME NEW s \in Sessions, Lookup(s)
      PROVE  Kept
  BY <1>2 DEF Lookup
<1>3. ASSUME NEW s \in Sessions, DecStore(s)
      PROVE  Kept
  BY <1>3 DEF DecStore, Decremented
<1>4. ASSUME NEW s \in Sessions, DropClear(s)
      PROVE  Kept
  BY <1>4 DEF DropClear
<1>5. ASSUME NEW s \in Sessions, DropTest(s)
      PROVE  Kept
  BY <1>5 DEF DropTest, Exhausted
<1>6. ASSUME NEW s \in Sessions, Unlock(s) \/ Forget(s) \/ Evict(s) \/ Close(s)
      PROVE  Kept
  BY <1>6 DEF Unlock, Forget, Evict, Close
<1>7. ASSUME NEW s \in Sessions, UnlinkNext(s) \/ UnlinkPrev(s) \/ DecLoad(s)
      PROVE  Kept
  BY <1>7 DEF UnlinkNext, UnlinkPrev, DecLoad
<1>8. ASSUME NEW s \in Sessions,
             \/ \E u \in Users, r \in RoomIds \cup {NoRoom} : Join(s, u, r)
             \/ PutNoRoom(s) \/ PutRoom(s) \/ RoomRefused(s) \/ Quit(s) \/ Malformed(s)
      PROVE  Kept
  <2>1. \E l \in {"put", "read", "roomPut", "lookup", "closed", "panic"} : pc' = [pc EXCEPT ![s] = l]
    BY <1>8 DEF Join, PutNoRoom, PutRoom, RoomRefused, Quit, Malformed, Deferred
  <2>2. pc[s] \notin InBucket /\ UNCHANGED <<roomVars, histVars, room, load>>
    BY <1>8 DEF Join, PutNoRoom, PutRoom, RoomRefused, Quit, Malformed, Deferred
  <2> QED
    BY <2>1, <2>2
<1>9. ASSUME NEW w \in Routines, Push(w)
      PROVE  Kept
  BY <1>9 DEF Push, TakeMsg, PushBegin, PushNext, PushEnd
<1>10. CASE UNCHANGED vars
  BY <1>10 DEF vars
<1> QED
  BY <1>1, <1>2, <1>3, <1>4, <1>5, <1>6, <1>7, <1>8, <1>9, <1>10 DEF Next, Reader, Delete

\* When readers leave one at a time, a room that DeleteChannel marked never takes a
\* connection again: the mark is cleared and set again, but under the lock and with a
\* count that can only have fallen.
THEOREM RoomDropFinal == MaxExit = 1 => (Spec => DropFinal)
<1> SUFFICES ASSUME MaxExit = 1 PROVE Spec => DropFinal
  OBVIOUS
<1> DEFINE I == Typed /\ OneExit /\ Loaded /\ Emptied
<1>1. Init => I
  BY TypedInit, EmptiedInit
<1>2. I /\ [Next]_vars => I'
  BY TypedNext, OneExitNext, EmptiedNext
<1>3. I /\ [Next]_vars => [\A o \in Room : Retired(o) => Retired(o)' /\ linked'[o] \subseteq linked[o]]_vars
  BY DropFinalStep
<1> QED
  BY <1>1, <1>2, <1>3, PTL DEF Spec, DropFinal
-----------------------------------------------------------------------------
(* The inductive invariant, in the gentle case. *)

\* Two connections never present tokens of one user, nor one for no room.
LEMMA OwnUser ==
  ASSUME Own, NEW s \in Sessions, NEW t \in Sessions, NEW u \in Users,
         NEW r \in RoomIds \cup {NoRoom}, NEW q \in RoomIds \cup {NoRoom},
         <<s, u, r>> \in Request, <<t, u, q>> \in Request
  PROVE  s = t /\ r # NoRoom
BY DEF Own

\* What the steps of a reader inside Bucket.DeleteChannel past delete(b.chs, ...) leave alone.
InDelete(s) == \/ UnlinkNext(s) \/ UnlinkPrev(s) \/ DecLoad(s) \/ DecStore(s)
               \/ DropClear(s) \/ DropTest(s) \/ Evict(s)

\* A connection is found under its own user until it deletes itself, and deletes nobody else.
LEMMA RegisteredNext ==
  ASSUME Own, Typed, Registered, [Next]_vars PROVE Registered'
<1> USE DEF Goto, bucketVars, roomVars, histVars, linkVars, sessVars, readVars, pushVars
<1>0. /\ chs \in [Users -> Sessions \cup {Nil}] /\ chUser \in [Sessions -> Users \cup {Nil}]
      /\ chRoom \in [Sessions -> Room \cup {Nil}] /\ joins \in [Sessions -> 0 .. MaxJoin]
      /\ arg \in [Sessions -> (Users \X (RoomIds \cup {NoRoom})) \cup {Nil}]
      /\ target \in [Sessions -> Sessions \cup {Nil}] /\ room \in [Sessions -> Room \cup {Nil}]
      /\ DOMAIN pc = Sessions
  BY DEF Typed, TypeOK
<1>00. Nil \notin Room /\ Nil \notin Users /\ Nil \notin Sessions
  BY BucketAssumption DEF BucketAssumption, Room
<1>1. ASSUME NEW s \in Sessions, NEW u \in Users, NEW r \in RoomIds \cup {NoRoom}, Join(s, u, r)
      PROVE  Registered'
  <2>1. joins[s] = 0 /\ joins'[s] = 1
    BY <1>0, <1>1 DEF Join, Own
  <2>2. \A x \in Sessions : RegSession(x)'
    BY <1>0, <1>1, <2>1 DEF Join, Registered, RegSession, InMap, Deleter, InRoom
  <2>3. ASSUME NEW x \in Users
        PROVE  RegUser(x)'
    <3>1. UNCHANGED <<chs, chUser>> /\ \A t \in Sessions : t # s => pc'[t] = pc[t]
      BY <1>0, <1>1 DEF Join
    <3>2. chUser[s] = Nil
      <4>1. joins[s] # 1
        BY <2>1
      <4> QED
        BY <4>1 DEF Registered, RegSession
    <3> QED
      BY <1>0, <1>00, <3>1, <3>2 DEF Registered, RegUser
  <2> QED
    BY <2>2, <2>3 DEF Registered
<1>2. ASSUME NEW s \in Sessions, PutNoRoom(s)
      PROVE  Registered'
  <2>1. arg[s] \in Users \X (RoomIds \cup {NoRoom}) /\ <<s, arg[s][1], arg[s][2]>> \in Request
    BY <1>2 DEF PutNoRoom, Typed, Registered, RegSession
  <2> QED
    BY <1>2, <2>1, OwnUser DEF PutNoRoom
<1>3. ASSUME NEW s \in Sessions, PutRoom(s)
      PROVE  Registered'
  <2> DEFINE u == arg[s][1]
             r == arg[s][2]
  <2>1. u \in Users /\ r \in RoomIds \cup {NoRoom} /\ r # NoRoom
        /\ <<s, u, r>> \in Request /\ chUser[s] = Nil /\ joins[s] = 1
    BY <1>3 DEF PutRoom, Typed, Registered, RegSession
  <2>2. \E o \in Room : chRoom' = [chRoom EXCEPT ![s] = o]
    BY <1>3 DEF PutRoom
  <2>3. /\ pc[s] = "put" /\ pc' = [pc EXCEPT ![s] = "roomPut"]
        /\ chUser' = [chUser EXCEPT ![s] = u] /\ chs' = [chs EXCEPT ![u] = s]
        /\ UNCHANGED <<joins, arg, target, room>>
    BY <1>3 DEF PutRoom
  <2> HIDE DEF u, r
  <2>4. ASSUME NEW t \in Sessions, chUser[t] = u
        PROVE  t = s
    <3>1. PICK q \in RoomIds : <<t, u, q>> \in Request
      BY <1>00, <2>1, <2>4 DEF Registered, RegSession
    <3> QED
      BY <2>1, <3>1, OwnUser
  <2>5. ASSUME NEW x \in Sessions
        PROVE  RegSession(x)'
    <3>1. CASE x = s
      <4>1. chUser'[s] = u /\ chRoom'[s] \in Room /\ chs'[u] = s /\ pc'[s] = "roomPut" /\ joins'[s] = 1
        BY <1>0, <2>1, <2>2, <2>3
      <4> QED
        BY <1>00, <2>1, <3>1, <4>1 DEF RegSession, Deleter, InRoom
    <3>2. CASE x # s
      <4>1. /\ chUser'[x] = chUser[x] /\ chRoom'[x] = chRoom[x] /\ pc'[x] = pc[x]
            /\ joins'[x] = joins[x] /\ arg'[x] = arg[x] /\ target'[x] = target[x] /\ room'[x] = room[x]
        BY <1>0, <2>2, <2>3, <3>2
      <4>2. chUser[x] # Nil => chs'[chUser[x]] = chs[chUser[x]]
        BY <1>0, <2>3, <2>4, <3>2
      <4> QED
        BY <4>1, <4>2 DEF Registered, RegSession
    <3> QED
      BY <3>1, <3>2
  <2>6. ASSUME NEW x \in Users, chs'[x] # Nil
        PROVE  chUser'[chs'[x]] = x /\ pc'[chs'[x]] \in InMap
    <3>1. CASE x = u
      BY <1>0, <2>1, <2>3, <3>1 DEF InMap
    <3>2. CASE x # u
      <4>1. chs'[x] = chs[x] /\ chs[x] \in Sessions /\ chUser[chs[x]] = x /\ pc[chs[x]] \in InMap
        BY <1>0, <2>3, <2>6, <3>2 DEF Registered, RegUser
      <4> QED
        BY <1>0, <1>00, <2>1, <2>3, <4>1
    <3> QED
      BY <3>1, <3>2
  <2> QED
    BY <2>5, <2>6 DEF Registered, RegUser
<1>4. ASSUME NEW s \in Sessions, RoomPut(s) \/ RoomRefused(s) \/ Quit(s) \/ Malformed(s)
      PROVE  Registered'
  <2>1. chUser[s] = Nil <=> chRoom[s] = Nil
    BY DEF Registered, RegSession
  <2>2. pc[s] = "roomPut" => chUser[s] # Nil
    BY <1>00 DEF Typed
  <2>3. \E l \in {"read", "lookup", "closed", "panic"} :
          /\ pc' = [pc EXCEPT ![s] = l]
          /\ l \in {"closed", "panic"} => chUser[s] = Nil
          /\ l = "lookup" => chUser[s] # Nil
    BY <1>4, <2>1, <2>2 DEF RoomPut, RoomRefused, Quit, Malformed, Deferred
  <2>4. /\ pc[s] \in {"read", "roomPut"} /\ UNCHANGED <<chs, chUser, chRoom, joins, target, room>>
        /\ \A x \in Sessions : x # s => arg'[x] = arg[x]
    BY <1>0, <1>4 DEF RoomPut, RoomRefused, Quit, Malformed, Deferred
  <2>5. \A x \in Sessions : RegSession(x)'
    BY <1>0, <2>3, <2>4 DEF Registered, RegSession, InMap, Deleter, InRoom
  <2>6. \A x \in Users : RegUser(x)'
    BY <1>0, <1>00, <2>3, <2>4 DEF Registered, RegUser, InMap
  <2> QED
    BY <2>5, <2>6 DEF Registered
<1>5. ASSUME NEW s \in Sessions, Lookup(s)
      PROVE  Registered'
  <2>1. chUser[s] \in Users /\ chs[chUser[s]] = s
    BY <1>00, <1>5 DEF Lookup, Typed, Registered, RegSession, InMap
  <2>2. /\ pc[s] = "lookup" /\ pc' = [pc EXCEPT ![s] = "forget"]
        /\ target' = [target EXCEPT ![s] = s] /\ room' = [room EXCEPT ![s] = chRoom[s]]
        /\ UNCHANGED <<chs, chUser, chRoom, joins, arg>>
    BY <1>5, <1>00, <2>1 DEF Lookup
  <2>3. \A x \in Sessions : RegSession(x)'
    BY <1>0, <2>1, <2>2 DEF Registered, RegSession, InMap, Deleter, InRoom
  <2>4. \A x \in Users : RegUser(x)'
    BY <1>0, <1>00, <2>2 DEF Registered, RegUser, InMap
  <2> QED
    BY <2>3, <2>4 DEF Registered
<1>6. ASSUME NEW s \in Sessions, Forget(s)
      PROVE  Registered'
  <2>1. target[s] = s /\ room[s] = chRoom[s] /\ chUser[s] # Nil /\ room[s] # Nil
    BY <1>6 DEF Forget, Registered, RegSession, Deleter
  <2>2. /\ pc[s] = "forget" /\ pc' = [pc EXCEPT ![s] = "unlinkNext"]
        /\ chs' = [chs EXCEPT ![chUser[s]] = Nil]
        /\ UNCHANGED <<chUser, chRoom, joins, arg, target, room>>
    BY <1>6, <2>1 DEF Forget, Forgotten
  <2>3. ASSUME NEW x \in Sessions, x # s, chUser[x] # Nil, pc[x] \in InMap
        PROVE  chUser[x] # chUser[s]
    BY <2>1, <2>2, <2>3 DEF Registered, RegSession, InMap
  <2>4. \A x \in Sessions : RegSession(x)'
    BY <1>0, <2>1, <2>2, <2>3 DEF Registered, RegSession, InMap, Deleter, InRoom
  <2>5. \A x \in Users : RegUser(x)'
    BY <1>0, <1>00, <2>1, <2>2 DEF Registered, RegSession, RegUser, InMap
  <2> QED
    BY <2>4, <2>5 DEF Registered
<1>7. ASSUME NEW s \in Sessions, InDelete(s) \/ Unlock(s) \/ Close(s)
      PROVE  Registered'
  <2>1. \E l \in (Deleter \ {"forget"}) \cup {"unlock", "disconnect", "closed", "panic"} :
          /\ pc' = [pc EXCEPT ![s] = l]
          /\ l \in Deleter => pc[s] \in Deleter /\ UNCHANGED <<target, room>>
    BY <1>7 DEF InDelete, UnlinkNext, UnlinkPrev, DecLoad, DecStore, DropClear, DropTest, Evict, Unlock,
                Close, Deleter, InRoom
  <2>2. /\ pc[s] \notin InMap /\ UNCHANGED <<chs, chUser, chRoom, joins, arg>>
        /\ \A t \in Sessions : t # s => target'[t] = target[t] /\ room'[t] = room[t]
    BY <1>0, <1>7 DEF InDelete, UnlinkNext, UnlinkPrev, DecLoad, DecStore, DropClear, DropTest, Evict,
                Unlock, Close, InMap
  <2>3. \A x \in Sessions : RegSession(x)'
    BY <1>0, <2>1, <2>2 DEF Registered, RegSession, InMap, Deleter, InRoom
  <2>4. \A x \in Users : RegUser(x)'
    BY <1>0, <1>00, <2>1, <2>2 DEF Registered, RegUser, InMap
  <2> QED
    BY <2>3, <2>4 DEF Registered
<1>8. ASSUME UNCHANGED <<chs, chUser, chRoom, joins, arg, pc, target, room>>
      PROVE  Registered'
  BY <1>8 DEF Registered, RegSession, RegUser
<1>9. ASSUME NEW w \in Routines, Push(w)
      PROVE  UNCHANGED <<chs, chUser, chRoom, joins, arg, pc, target, room>>
  BY <1>9 DEF Push, TakeMsg, PushBegin, PushNext, PushEnd
<1>10. CASE UNCHANGED vars
  BY <1>8, <1>10 DEF vars
<1> QED
  BY <1>1, <1>2, <1>3, <1>4, <1>5, <1>6, <1>7, <1>8, <1>9, <1>10 DEF Next, Reader, Delete, InDelete

\* Where the reader s is inside DeleteChannel, its target is itself.
LEMMA Deletes ==
  ASSUME Typed, Registered, NEW s \in Sessions, pc[s] \in Deleter
  PROVE  target[s] = s /\ room[s] = chRoom[s] /\ room[s] # Nil /\ chUser[s] # Nil
BY DEF Registered, RegSession

\* When the reader s takes itself out of its list, its neighbours are members.
LEMMA Neighbours ==
  ASSUME IInv, NEW s \in Sessions, pc[s] = "unlinkPrev", stamp[s] # 0
  PROVE  /\ s \in linked[chRoom[s]] /\ room[s] = chRoom[s] /\ target[s] = s /\ chRoom[s] \in Room
         /\ IF prev[s] = Nil THEN head[chRoom[s]] = s
                             ELSE prev[s] \in linked[chRoom[s]] /\ next[prev[s]] = s
         /\ next[s] # Nil => next[s] \in linked[chRoom[s]] /\ prev[next[s]] = prev[s]
         /\ next[s] # s
<1>1. chRoom[s] \in Room /\ s \in linked[chRoom[s]] /\ room[s] = chRoom[s] /\ target[s] = s
  <2>1. room[s] \in Room /\ target[s] = s /\ room[s] = chRoom[s]
    BY Deletes DEF IInv, Typed, InRoom, Deleter
  <2> QED
    BY <2>1 DEF IInv, Stamped, StampSession, InList
<1>2. next[s] # Nil => next[s] # s
  BY DEF IInv, Forward, Typed, TypeOK
<1>3. next[s] # s
  BY <1>2, BucketAssumption DEF BucketAssumption
<1>4. ~Skipped(s)
  BY <1>3 DEF Skipped, IInv, OneExit, Exiting, InBucket, InRoom
<1> QED
  BY <1>1, <1>3, <1>4 DEF IInv, Forward, Backward

\* Membership, stamps and retirement go together.
LEMMA StampedNext ==
  ASSUME Gentle, IInv, [Next]_vars PROVE Stamped'
<1> USE DEF Goto, bucketVars, roomVars, histVars, linkVars, sessVars, readVars, pushVars
<1>0. /\ chRoom \in [Sessions -> Room \cup {Nil}] /\ linked \in [Room -> SUBSET Sessions]
      /\ stamp \in [Sessions -> Nat] /\ puts \in Nat
      /\ next \in [Sessions -> Sessions \cup {Nil}] /\ prev \in [Sessions -> Sessions \cup {Nil}]
      /\ DOMAIN pc = Sessions
  BY DEF IInv, Typed, TypeOK
<1>00. Nil \notin Room /\ Nil \notin Sessions
  BY BucketAssumption DEF BucketAssumption, Room
<1>01. \A o \in Room : Retired(o) => Retired(o)'
  BY DropFinalStep DEF IInv
\* Most steps of a reader only move its control state.
<1>02. ASSUME NEW s \in Sessions, NEW l, pc' = [pc EXCEPT ![s] = l],
              UNCHANGED <<stamp, puts, linked>>,
              \A x \in Sessions : x # s => chRoom'[x] = chRoom[x],
              \A x \in Sessions : stamp[x] = 0 => next'[x] = Nil /\ prev'[x] = Nil,
              \/ stamp[s] # 0 /\ chRoom'[s] = chRoom[s] /\ (l \in InList <=> pc[s] \in InList) /\ l # "roomPut"
              \/ stamp[s] = 0 /\ (chRoom'[s] = Nil \/ l = "roomPut" \/ Retired(chRoom[s])'),
              chRoom' \in [Sessions -> Room \cup {Nil}]
       PROVE  Stamped'
  <2> SUFFICES ASSUME NEW x \in Sessions PROVE StampSession(x)'
    BY DEF Stamped
  <2>1. CASE x = s
    <3>1. pc'[s] = l /\ stamp'[s] = stamp[s] /\ puts' = puts /\ StampSession(s)
          /\ (stamp[s] = 0 => next'[s] = Nil /\ prev'[s] = Nil)
          /\ (\A t \in Sessions : stamp'[t] = stamp[t]) /\ (\A o \in Room : linked'[o] = linked[o])
      BY <1>0, <1>02 DEF IInv, Stamped
    <3>2. CASE stamp[s] # 0
      BY <1>02, <2>1, <3>1, <3>2 DEF StampSession
    <3>3. CASE stamp[s] = 0
      BY <1>02, <2>1, <3>1, <3>3 DEF StampSession
    <3> QED
      BY <3>2, <3>3
  <2>2. CASE x # s
    BY <1>0, <1>01, <1>02, <2>2 DEF IInv, Stamped, StampSession
  <2> QED
    BY <2>1, <2>2
<1>1. ASSUME NEW s \in Sessions, NEW u \in Users, NEW r \in RoomIds \cup {NoRoom}, Join(s, u, r)
      PROVE  Stamped'
  <2>1. stamp[s] = 0 /\ chRoom[s] = Nil
    <3>1. joins[s] # 1
      BY <1>1 DEF Join, Gentle, Own, IInv, Typed, TypeOK
    <3> QED
      BY <3>1 DEF IInv, Registered, RegSession, Stamped, StampSession
  <2> QED
    BY <1>0, <1>02, <1>1, <2>1 DEF Join, IInv, Stamped, StampSession
<1>2. ASSUME NEW s \in Sessions, PutNoRoom(s)
      PROVE  Stamped'
  <2>1. arg[s] \in Users \X (RoomIds \cup {NoRoom}) /\ <<s, arg[s][1], arg[s][2]>> \in Request
    BY <1>2 DEF PutNoRoom, IInv, Typed, Registered, RegSession
  <2> QED
    BY <1>2, <2>1, OwnUser DEF PutNoRoom, Gentle
<1>3. ASSUME NEW s \in Sessions, PutRoom(s)
      PROVE  Stamped'
  <2>1. stamp[s] = 0
    BY <1>3 DEF PutRoom, IInv, Registered, RegSession, Stamped, StampSession
  <2>2. \E o \in Room : chRoom' = [chRoom EXCEPT ![s] = o]
    BY <1>3 DEF PutRoom
  <2> QED
    BY <1>0, <1>02, <1>3, <2>1, <2>2 DEF PutRoom, IInv, Stamped, StampSession
<1>4. ASSUME NEW s \in Sessions, RoomPut(s)
      PROVE  Stamped'
  <2> DEFINE o == chRoom[s]
  <2>1. pc[s] = "roomPut" /\ stamp[s] = 0 /\ o \in Room
    BY <1>4 DEF RoomPut, IInv, Typed, Stamped, StampSession
  <2>2. /\ pc' = [pc EXCEPT ![s] = "read"] /\ puts' = puts + 1 /\ stamp' = [stamp EXCEPT ![s] = puts + 1]
        /\ linked' = [linked EXCEPT ![o] = @ \cup {s}] /\ UNCHANGED chRoom
        /\ \A x \in Sessions : x # s => next'[x] = next[x] /\ (prev'[x] = prev[x] \/ x = head[o])
    BY <1>0, <1>4 DEF RoomPut
  <2>3. head[o] # Nil => stamp[head[o]] # 0
    <3>1. head[o] # Nil => head[o] \in linked[o]
      BY <2>1 DEF IInv, Forward
    <3> QED
      BY <1>0, <2>1, <3>1 DEF IInv, Stamped, StampSession
  <2> HIDE DEF o
  <2>4. StampSession(s)'
    <3>1. stamp'[s] = puts' /\ puts' = puts + 1 /\ puts' # 0 /\ pc'[s] = "read" /\ chRoom'[s] = o
      BY <1>0, <2>2 DEF o
    <3>2. \A t \in Sessions : t # s => stamp'[t] # puts'
      BY <1>0, <2>2, <3>1 DEF IInv, Stamped, StampSession
    <3>3. \A p \in Room : s \in linked'[p] <=> p = o
      BY <1>0, <2>1, <2>2 DEF IInv, Stamped, StampSession
    <3> QED
      BY <1>0, <1>00, <2>1, <3>1, <3>2, <3>3 DEF StampSession, InList
  <2>5. ASSUME NEW x \in Sessions, x # s
        PROVE  StampSession(x)'
    <3>1. stamp'[x] = stamp[x] /\ pc'[x] = pc[x] /\ chRoom'[x] = chRoom[x] /\ next'[x] = next[x]
          /\ (stamp[x] = 0 => prev'[x] = prev[x]) /\ \A p \in Room : x \in linked'[p] <=> x \in linked[p]
      BY <1>00, <1>0, <2>1, <2>2, <2>3, <2>5
    <3>2. stamp[x] <= puts /\ StampSession(x)
      BY DEF IInv, Stamped, StampSession
    <3> QED
      BY <1>0, <1>01, <2>2, <3>1, <3>2 DEF StampSession
  <2> QED
    BY <2>4, <2>5 DEF Stamped
<1>5. ASSUME NEW s \in Sessions, RoomRefused(s)
      PROVE  Stamped'
  <2>1. stamp[s] = 0 /\ Retired(chRoom[s])' /\ UNCHANGED chRoom
    BY <1>0, <1>01, <1>5 DEF RoomRefused, Dropped, IInv, Typed, Stamped, StampSession, Retired
  <2>2. \E l : pc' = [pc EXCEPT ![s] = l]
    BY <1>5 DEF RoomRefused
  <2>3. UNCHANGED <<stamp, puts, linked, next, prev>>
    BY <1>5 DEF RoomRefused
  <2>4. \A x \in Sessions : stamp[x] = 0 => next'[x] = Nil /\ prev'[x] = Nil
    BY <2>3 DEF IInv, Stamped, StampSession
  <2> QED
    BY <1>0, <1>02, <2>1, <2>2, <2>3, <2>4
<1>6. ASSUME NEW s \in Sessions, Quit(s) \/ Malformed(s)
      PROVE  Stamped'
  <2>1. /\ stamp[s] # 0 => pc' = [pc EXCEPT ![s] = "lookup"]
        /\ stamp[s] = 0 => chRoom[s] = Nil \/ Retired(chRoom[s])
        /\ \E l : pc' = [pc EXCEPT ![s] = l]
    BY <1>6 DEF Quit, Malformed, Deferred, IInv, Registered, RegSession, Stamped, StampSession
  <2> QED
    BY <1>0, <1>01, <1>02, <1>6, <2>1 DEF Quit, Malformed, Deferred, IInv, Stamped, StampSession, InList
<1>7. ASSUME NEW s \in Sessions, Lookup(s) \/ Forget(s) \/ DecLoad(s) \/ DecStore(s) \/ DropClear(s)
                                 \/ DropTest(s) \/ Evict(s) \/ Unlock(s) \/ Close(s)
      PROVE  Stamped'
  <2>1. pc[s] # "read" /\ pc[s] # "roomPut" /\ UNCHANGED <<stamp, puts, linked, chRoom, next, prev>>
    BY <1>7 DEF Lookup, Forget, DecLoad, DecStore, DropClear, DropTest, Evict, Unlock, Close
  <2>2. pc[s] = "forget" => room[s] # Nil
    BY Deletes DEF IInv, Deleter
  <2>3. pc[s] = "lookup" => chs[chUser[s]] = s /\ chUser[s] # Nil
    BY DEF IInv, Registered, RegSession, InMap
  <2>4. \E l : pc' = [pc EXCEPT ![s] = l] /\ (l \in InList <=> pc[s] \in InList) /\ l # "roomPut"
    BY <1>00, <1>7, <2>2, <2>3 DEF Lookup, Forget, DecLoad, DecStore, DropClear, DropTest, Evict, Unlock,
         Close, InList
  <2>5. stamp[s] # 0 \/ chRoom[s] = Nil \/ Retired(chRoom[s])'
    BY <1>0, <1>01, <2>1 DEF IInv, Stamped, StampSession
  <2>6. \A x \in Sessions : stamp[x] = 0 => next'[x] = Nil /\ prev'[x] = Nil
    BY <2>1 DEF IInv, Stamped, StampSession
  <2>7. chRoom[s] # Nil \/ stamp[s] = 0
    BY DEF IInv, Stamped, StampSession
  <2> QED
    BY <1>0, <1>02, <2>1, <2>4, <2>5, <2>6, <2>7
<1>8. ASSUME NEW s \in Sessions, UnlinkNext(s)
      PROVE  Stamped'
  <2>1. target[s] = s
    BY <1>8, Deletes DEF UnlinkNext, IInv, Deleter, InRoom
  <2>2. next[s] # Nil => stamp[next[s]] # 0
    BY <1>0 DEF IInv, Forward, Stamped, StampSession
  <2>3. \A x \in Sessions : stamp[x] = 0 => next'[x] = Nil /\ prev'[x] = Nil
    BY <1>8, <2>1, <2>2, <1>00 DEF UnlinkNext, IInv, Stamped, StampSession
  <2>4. stamp[s] # 0 \/ chRoom[s] = Nil \/ Retired(chRoom[s])'
    BY <1>0, <1>01, <1>8 DEF UnlinkNext, IInv, Stamped, StampSession
  <2> QED
    <3>1. pc' = [pc EXCEPT ![s] = "unlinkPrev"] /\ pc[s] = "unlinkNext"
          /\ UNCHANGED <<stamp, puts, linked, chRoom>>
      BY <1>8 DEF UnlinkNext
    <3>2. stamp[s] # 0 => chRoom[s] # Nil
      BY DEF IInv, Stamped, StampSession
    <3> QED
      BY <1>0, <1>02, <2>3, <2>4, <3>1, <3>2 DEF InList
<1>9. ASSUME NEW s \in Sessions, UnlinkPrev(s)
      PROVE  Stamped'
  <2>1. target[s] = s /\ room[s] = chRoom[s] /\ room[s] \in Room
    BY <1>9, Deletes DEF UnlinkPrev, IInv, Typed, Deleter, InRoom
  <2>2. prev[s] # Nil => stamp[prev[s]] # 0
    BY <1>0, <1>9, <2>1, Neighbours DEF UnlinkPrev, IInv, Stamped, StampSession
  <2>3. \A x \in Sessions : stamp[x] = 0 => next'[x] = Nil /\ prev'[x] = Nil
    BY <1>9, <2>1, <2>2, <1>00 DEF UnlinkPrev, NextAfter, IInv, Stamped, StampSession
  <2>4. /\ UNCHANGED <<stamp, puts, chRoom>> /\ pc' = [pc EXCEPT ![s] = "decLoad"]
        /\ linked' = [linked EXCEPT ![room[s]] = @ \ {s}]
    BY <1>9, <2>1 DEF UnlinkPrev
  <2>5. ASSUME NEW x \in Sessions, x # s
        PROVE  StampSession(x)'
    BY <1>0, <1>01, <2>1, <2>3, <2>4, <2>5 DEF IInv, Stamped, StampSession
  <2>6. StampSession(s)'
    <3>1. \A o \in Room : s \notin linked'[o]
      BY <1>0, <2>1, <2>4 DEF IInv, Stamped, StampSession
    <3>2. stamp[s] = 0 /\ pc[s] # "roomPut" => Retired(chRoom[s])'
      <4>1. stamp[s] = 0 /\ pc[s] # "roomPut" => Retired(chRoom[s])
        BY <2>1, <1>00 DEF IInv, Stamped, StampSession
      <4> QED
        BY <1>01, <2>1, <2>4, <4>1
    <3> QED
      BY <1>0, <1>00, <1>9, <2>1, <2>3, <2>4, <3>1, <3>2
         DEF UnlinkPrev, IInv, Stamped, StampSession, InList
  <2> QED
    BY <2>5, <2>6 DEF Stamped
<1>10. ASSUME UNCHANGED <<bucketVars, roomVars, histVars, linkVars, sessVars, pc, readVars>>
       PROVE  Stamped'
  BY <1>10 DEF IInv, Stamped, StampSession, Retired, Deleting
<1>11. ASSUME NEW w \in Routines, Push(w)
       PROVE  Stamped'
  BY <1>10, <1>11 DEF Push, TakeMsg, PushBegin, PushNext, PushEnd
<1>12. CASE UNCHANGED vars
  BY <1>10, <1>12 DEF vars
<1> QED
  BY <1>1, <1>2, <1>3, <1>4, <1>5, <1>6, <1>7, <1>8, <1>9, <1>11, <1>12 DEF Next, Reader, Delete

\* OnlineCount follows the list, one decrement late.
LEMMA CountedNext ==
  ASSUME Gentle, IInv, [Next]_vars PROVE Counted'
<1> USE DEF Goto, bucketVars, roomVars, histVars, linkVars, sessVars, readVars, pushVars
<1>0. /\ linked \in [Room -> SUBSET Sessions] /\ count \in [Room -> Int] /\ drop \in [Room -> BOOLEAN]
      /\ room \in [Sessions -> Room \cup {Nil}] /\ load \in [Sessions -> Int]
      /\ DOMAIN pc = Sessions
  BY DEF IInv, Typed, TypeOK
<1>01. \A o \in Room : IsFiniteSet(linked[o]) /\ Cardinality(linked[o]) \in Nat
                       /\ (Cardinality(linked[o]) = 0 <=> linked[o] = {})
  BY <1>0, BucketAssumption, FS_Subset, FS_CardinalityType, FS_EmptySet DEF BucketAssumption
<1>02. ASSUME NEW s \in Sessions, NEW t \in Sessions, pc[s] \in InBucket, pc[t] \in InBucket
       PROVE  s = t
  BY <1>02 DEF IInv, OneExit, Exiting
<1>1. ASSUME NEW s \in Sessions, RoomPut(s)
      PROVE  Counted'
  <2>0. PICK o \in Room : o = chRoom[s]
    BY <1>1 DEF RoomPut, IInv, Typed
  <2>1. s \notin linked[o]
    BY <1>1 DEF RoomPut, IInv, Stamped, StampSession
  <2>2. ~drop[o] /\ ~Deleting(o, InRoom)
    BY <1>1, <2>0 DEF RoomPut, RoomLocked, Dropped, Deleting
  <2>3. /\ linked' = [linked EXCEPT ![o] = @ \cup {s}] /\ count' = [count EXCEPT ![o] = @ + 1]
        /\ drop' = drop /\ room' = room /\ \A S \in SUBSET InRoom, p \in Room : Deleting(p, S)' <=> Deleting(p, S)
    BY <1>0, <1>1, <2>0 DEF RoomPut, Deleting, InRoom
  <2>4. ~Retired(o) /\ ~Retired(o)' /\ Pending(o) = 0 /\ Pending(o)' = 0
    BY <1>0, <1>1, <2>1, <2>2, <2>3 DEF RoomPut, Retired, Pending, Deleting, InRoom
  <2>5. Cardinality(linked'[o]) = Cardinality(linked[o]) + 1
    BY <1>0, <1>01, <2>1, <2>3, FS_AddElement
  <2>6. count'[o] = Cardinality(linked'[o]) + Pending(o)'
    BY <1>0, <1>01, <2>1, <2>3, <2>4, <2>5 DEF IInv, Counted
  <2>7. ASSUME NEW p \in Room, p # o
        PROVE  (Retired(p)' <=> Retired(p)) /\ Pending(p)' = Pending(p) /\ count'[p] = count[p] /\ linked'[p] = linked[p]
    <3>1. count'[p] = count[p] /\ linked'[p] = linked[p]
      BY <1>0, <2>1, <2>3, <2>7
    <3>2. Deleting(p, {"dropTest"})' <=> Deleting(p, {"dropTest"})
      BY <2>3 DEF InRoom
    <3>3. Deleting(p, {"decLoad", "decStore"})' <=> Deleting(p, {"decLoad", "decStore"})
      BY <2>3 DEF InRoom
    <3> QED
      BY <2>3, <3>1, <3>2, <3>3 DEF Retired, Pending
  <2> SUFFICES ASSUME NEW p \in Room
               PROVE  /\ Retired(p)' => linked'[p] = {}
                      /\ ~Retired(p)' => count'[p] = Cardinality(linked'[p]) + Pending(p)'
    BY DEF Counted
  <2>8. CASE p = o
    BY <2>4, <2>6, <2>8
  <2>9. CASE p # o
    BY <2>7, <2>9 DEF IInv, Counted
  <2> QED
    BY <2>8, <2>9
<1>2. ASSUME NEW s \in Sessions, pc[s] \in InRoom, NEW l \in InRoom \cup {"evict"},
             pc' = [pc EXCEPT ![s] = l], room' = room, NEW o \in Room, o = room[s]
      PROVE  /\ \A p \in Room : p # o => /\ Deleting(p, {"dropTest"})' <=> Deleting(p, {"dropTest"})
                                         /\ Pending(p)' = Pending(p)
             /\ Deleting(o, {"dropTest"}) <=> pc[s] = "dropTest"
             /\ Deleting(o, {"dropTest"})' <=> l = "dropTest"
             /\ Pending(o) = IF pc[s] \in {"decLoad", "decStore"} THEN 1 ELSE 0
             /\ Pending(o)' = IF l \in {"decLoad", "decStore"} THEN 1 ELSE 0
  <2>1. pc'[s] = l /\ room'[s] = room[s]
        /\ \A x \in Sessions : x # s => pc'[x] = pc[x] /\ room'[x] = room[x] /\ pc[x] \notin InRoom
    BY <1>0, <1>02, <1>2 DEF InBucket
  <2> QED
    BY <1>2, <2>1 DEF Deleting, Pending, InRoom
<1>3. ASSUME NEW s \in Sessions, UnlinkPrev(s)
      PROVE  Counted'
  <2>0. PICK o \in Room : o = room[s]
    BY <1>3 DEF UnlinkPrev, IInv, Typed, InRoom
  <2>1. /\ pc[s] = "unlinkPrev" /\ pc' = [pc EXCEPT ![s] = "decLoad"] /\ room' = room
        /\ linked' = [linked EXCEPT ![o] = @ \ {target[s]}] /\ UNCHANGED <<count, drop>>
    BY <1>3, <2>0 DEF UnlinkPrev
  <2>2. target[s] = s /\ o = chRoom[s]
    BY <2>0, <2>1, Deletes DEF IInv, Typed, Deleter, InRoom
  <2>3. /\ Pending(o) = 0 /\ Pending(o)' = 1 /\ (Retired(o) <=> drop[o]) /\ (Retired(o)' <=> drop[o])
        /\ \A p \in Room : p # o => Pending(p)' = Pending(p) /\ (Retired(p)' <=> Retired(p))
    BY <1>2, <2>0, <2>1 DEF InRoom, Retired
  <2>4. ~drop[o] => s \in linked[o]
    <3>1. Nil \notin Room
      BY BucketAssumption DEF BucketAssumption, Room
    <3> QED
      BY <2>1, <2>2, <2>3, <3>1 DEF IInv, Stamped, StampSession, InList
  <2>5. ~drop[o] => Cardinality(linked'[o]) = Cardinality(linked[o]) - 1
    <3>1. linked'[o] = linked[o] \ {s}
      BY <1>0, <2>1, <2>2
    <3> QED
      BY <1>01, <2>4, <3>1, FS_RemoveElement
  <2> SUFFICES ASSUME NEW p \in Room
               PROVE  /\ Retired(p)' => linked'[p] = {}
                      /\ ~Retired(p)' => count'[p] = Cardinality(linked'[p]) + Pending(p)'
    BY DEF Counted
  <2>6. CASE p = o
    BY <1>0, <1>01, <2>1, <2>2, <2>3, <2>5, <2>6 DEF IInv, Counted
  <2>7. CASE p # o
    BY <1>0, <2>1, <2>3, <2>7 DEF IInv, Counted
  <2> QED
    BY <2>6, <2>7
<1>4. ASSUME NEW s \in Sessions, DecStore(s)
      PROVE  Counted'
  <2>0. PICK o \in Room : o = room[s]
    BY <1>4 DEF DecStore, IInv, Typed, InRoom
  <2>1. /\ pc[s] = "decStore" /\ pc' = [pc EXCEPT ![s] = "dropClear"] /\ room' = room
        /\ count' = [count EXCEPT ![o] = load[s] - 1] /\ UNCHANGED <<linked, drop>>
    BY <1>4, <2>0 DEF DecStore, Decremented
  <2>2. load[s] = count[o]
    BY <2>0, <2>1 DEF IInv, Loaded
  <2>3. /\ Pending(o) = 1 /\ Pending(o)' = 0 /\ (Retired(o) <=> drop[o]) /\ (Retired(o)' <=> drop[o])
        /\ \A p \in Room : p # o => Pending(p)' = Pending(p) /\ (Deleting(p, {"dropTest"})' <=> Deleting(p, {"dropTest"}))
    <3>1. /\ Pending(o) = 1 /\ Pending(o)' = 0 /\ ~Deleting(o, {"dropTest"}) /\ ~Deleting(o, {"dropTest"})'
          /\ \A p \in Room : p # o => Pending(p)' = Pending(p)
                                        /\ (Deleting(p, {"dropTest"})' <=> Deleting(p, {"dropTest"}))
      <4>1. pc[s] \in InRoom /\ "dropClear" \in InRoom \cup {"evict"} /\ room' = room
            /\ pc' = [pc EXCEPT ![s] = "dropClear"] /\ pc[s] = "decStore"
        BY <2>1 DEF InRoom
      <4> QED
        BY <1>2, <2>0, <4>1
    <3> QED
      BY <2>1, <3>1 DEF Retired
  <2> SUFFICES ASSUME NEW p \in Room
               PROVE  /\ Retired(p)' => linked'[p] = {}
                      /\ ~Retired(p)' => count'[p] = Cardinality(linked'[p]) + Pending(p)'
    BY DEF Counted
  <2>4. CASE p = o
    BY <1>0, <1>01, <2>1, <2>2, <2>3, <2>4 DEF IInv, Counted
  <2>5. CASE p # o
    BY <1>0, <2>1, <2>3, <2>5 DEF IInv, Counted, Retired
  <2> QED
    BY <2>4, <2>5
<1>5. ASSUME NEW s \in Sessions, DropClear(s)
      PROVE  Counted'
  <2>0. PICK o \in Room : o = room[s]
    BY <1>5 DEF DropClear, IInv, Typed, InRoom
  <2>1. /\ pc[s] = "dropClear" /\ pc' = [pc EXCEPT ![s] = "dropTest"] /\ room' = room
        /\ drop' = [drop EXCEPT ![o] = FALSE] /\ UNCHANGED <<linked, count>>
    BY <1>5, <2>0 DEF DropClear
  <2>2. /\ Pending(o) = 0 /\ Pending(o)' = 0 /\ (Retired(o) <=> drop[o])
        /\ (Retired(o)' <=> count[o] <= 0)
        /\ \A p \in Room : p # o => Pending(p)' = Pending(p) /\ (Deleting(p, {"dropTest"})' <=> Deleting(p, {"dropTest"}))
    BY <1>0, <1>2, <2>0, <2>1 DEF InRoom, Retired
  <2>3. drop[o] => count[o] <= 0
    BY <2>2 DEF IInv, Emptied
  <2> SUFFICES ASSUME NEW p \in Room
               PROVE  /\ Retired(p)' => linked'[p] = {}
                      /\ ~Retired(p)' => count'[p] = Cardinality(linked'[p]) + Pending(p)'
    BY DEF Counted
  <2>4. CASE p = o
    BY <1>0, <1>01, <2>1, <2>2, <2>3, <2>4 DEF IInv, Counted
  <2>5. CASE p # o
    BY <1>0, <2>1, <2>2, <2>5 DEF IInv, Counted, Retired
  <2> QED
    BY <2>4, <2>5
<1>6. ASSUME NEW s \in Sessions, DropTest(s)
      PROVE  Counted'
  <2>0. PICK o \in Room : o = room[s]
    BY <1>6 DEF DropTest, IInv, Typed, InRoom
  <2>1. /\ pc[s] = "dropTest" /\ pc' = [pc EXCEPT ![s] = "evict"] /\ room' = room
        /\ drop' = [drop EXCEPT ![o] = @ \/ count[o] <= 0] /\ UNCHANGED <<linked, count>>
    BY <1>6, <2>0 DEF DropTest, Exhausted
  <2>2. /\ Pending(o) = 0 /\ Pending(o)' = 0 /\ (Retired(o) <=> drop[o] \/ count[o] <= 0)
        /\ (Retired(o)' <=> drop[o] \/ count[o] <= 0)
        /\ \A p \in Room : p # o => Pending(p)' = Pending(p) /\ (Deleting(p, {"dropTest"})' <=> Deleting(p, {"dropTest"}))
    BY <1>0, <1>2, <2>0, <2>1 DEF InRoom, Retired
  <2>3. \A p \in Room : Retired(p)' <=> Retired(p)
    BY <1>0, <2>1, <2>2 DEF Retired
  <2>4. \A p \in Room : Pending(p)' = Pending(p)
    BY <2>2
  <2> QED
    BY <2>1, <2>3, <2>4 DEF IInv, Counted
<1>7. ASSUME NEW s \in Sessions, NEW l, pc' = [pc EXCEPT ![s] = l], UNCHANGED <<linked, count, drop>>,
             \/ pc[s] \notin InRoom /\ l \notin InRoom
             \/ pc[s] \notin InRoom /\ l = "unlinkNext" /\ ~Deleting(room[s], InRoom)
             \/ pc[s] = "unlinkNext" /\ l = "unlinkPrev"
             \/ pc[s] = "decLoad" /\ l = "decStore",
             \A x \in Sessions : x # s \/ pc[s] \in InRoom => room'[x] = room[x]
      PROVE  Counted'
  <2>1. \A o \in Room : Deleting(o, {"dropTest"})' <=> Deleting(o, {"dropTest"})
    BY <1>0, <1>7 DEF Deleting, InRoom
  <2>2. \A o \in Room : Deleting(o, {"decLoad", "decStore"})' <=> Deleting(o, {"decLoad", "decStore"})
    BY <1>0, <1>7 DEF Deleting, InRoom
  <2> QED
    BY <1>7, <2>1, <2>2 DEF IInv, Counted, Retired, Pending
<1>8. ASSUME NEW s \in Sessions, Lookup(s)
      PROVE  Counted'
  <2>1. pc[s] = "lookup" /\ \A x \in Sessions : x # s => room'[x] = room[x]
    BY <1>0, <1>8 DEF Lookup
  <2>2. \E l : pc' = [pc EXCEPT ![s] = l] /\ l \notin InRoom
    BY <1>8 DEF Lookup, InRoom
  <2>3. UNCHANGED <<linked, count, drop>>
    BY <1>8 DEF Lookup
  <2> QED
    BY <1>7, <2>1, <2>2, <2>3 DEF InRoom
<1>9. ASSUME NEW s \in Sessions, Forget(s)
      PROVE  Counted'
  <2>1. pc[s] = "forget" /\ UNCHANGED <<room, linked, count, drop>>
    BY <1>9 DEF Forget
  <2>2. \E l \in {"unlock", "unlinkNext"} : pc' = [pc EXCEPT ![s] = l]
    BY <1>9 DEF Forget
  <2>3. ~Deleting(room[s], InRoom)
    BY <1>02, <2>1 DEF Deleting, InRoom, InBucket
  <2> QED
    BY <1>7, <2>1, <2>2, <2>3 DEF InRoom
<1>10. ASSUME NEW s \in Sessions, UnlinkNext(s) \/ DecLoad(s)
       PROVE  Counted'
  <2>1. /\ UNCHANGED <<room, linked, count, drop>>
        /\ \/ pc[s] = "unlinkNext" /\ pc' = [pc EXCEPT ![s] = "unlinkPrev"]
           \/ pc[s] = "decLoad" /\ pc' = [pc EXCEPT ![s] = "decStore"]
    BY <1>10 DEF UnlinkNext, DecLoad
  <2> QED
    BY <1>7, <2>1
<1>11. ASSUME NEW s \in Sessions,
              \/ \E u \in Users, r \in RoomIds \cup {NoRoom} : Join(s, u, r)
              \/ PutNoRoom(s) \/ PutRoom(s) \/ RoomRefused(s) \/ Quit(s) \/ Malformed(s)
              \/ Evict(s) \/ Unlock(s) \/ Close(s)
       PROVE  Counted'
  <2>1. \E l \in {"read", "put", "roomPut", "lookup", "closed", "panic", "unlock", "disconnect"} :
          pc' = [pc EXCEPT ![s] = l]
    BY <1>11 DEF Join, PutNoRoom, PutRoom, RoomRefused, Quit, Malformed, Deferred, Evict, Unlock, Close
  <2>2. pc[s] \notin InRoom /\ UNCHANGED <<linked, count, drop>>
    BY <1>11 DEF Join, PutNoRoom, PutRoom, RoomRefused, Quit, Malformed, Deferred,
            Evict, Unlock, Close, InRoom
  <2>3. \A x \in Sessions : x # s => room'[x] = room[x]
    BY <1>0, <1>11 DEF Join, PutNoRoom, PutRoom, RoomRefused, Quit, Malformed, Deferred, Evict, Unlock, Close
  <2> QED
    BY <1>7, <2>1, <2>2, <2>3 DEF InRoom
<1>12. ASSUME UNCHANGED <<pc, room, linked, count, drop>>
       PROVE  Counted'
  BY <1>12 DEF IInv, Counted, Retired, Pending, Deleting
<1>13. ASSUME NEW w \in Routines, Push(w)
       PROVE  Counted'
  BY <1>12, <1>13 DEF Push, TakeMsg, PushBegin, PushNext, PushEnd
<1>14. CASE UNCHANGED vars
  BY <1>12, <1>14 DEF vars
<1> QED
  BY <1>1, <1>3, <1>4, <1>5, <1>6, <1>8, <1>9, <1>10, <1>11, <1>13, <1>14 DEF Next, Reader, Delete

\* A refused connection, whose room is retired and empty, takes nothing out of it.
LEMMA RefusedUnlink ==
  ASSUME IInv, NEW s \in Sessions, UnlinkPrev(s), stamp[s] = 0
  PROVE  UNCHANGED <<head, next, linked>>
<1>1. target[s] = s /\ room[s] = chRoom[s] /\ room[s] \in Room
  BY Deletes DEF UnlinkPrev, IInv, Typed, Deleter, InRoom
<1>2. Nil \notin Room /\ Nil \notin Sessions
  BY BucketAssumption DEF BucketAssumption, Room
<1>3. Retired(chRoom[s]) /\ next[s] = Nil /\ prev[s] = Nil
  BY <1>1, <1>2 DEF UnlinkPrev, IInv, Stamped, StampSession
<1>4. linked[room[s]] = {} /\ head[room[s]] = Nil
  BY <1>1, <1>3 DEF IInv, Counted, Forward
<1>5. head \in [Room -> Sessions \cup {Nil}] /\ linked \in [Room -> SUBSET Sessions]
      /\ next \in [Sessions -> Sessions \cup {Nil}]
  BY DEF IInv, Typed, TypeOK
<1>6. /\ next' = [x \in Sessions |-> IF x = prev[s] THEN next[s] ELSE next[x]]
      /\ head' = [head EXCEPT ![room[s]] = Nil] /\ linked' = [linked EXCEPT ![room[s]] = {}]
  BY <1>1, <1>3, <1>4 DEF UnlinkPrev, NextAfter
<1> QED
  BY <1>2, <1>3, <1>4, <1>5, <1>6

\* The forward order of the lists is kept.
LEMMA ForwardNext ==
  ASSUME Gentle, IInv, [Next]_vars PROVE Forward'
<1> USE DEF Goto, bucketVars, roomVars, histVars, linkVars, sessVars, readVars, pushVars
<1>0. /\ head \in [Room -> Sessions \cup {Nil}] /\ linked \in [Room -> SUBSET Sessions]
      /\ stamp \in [Sessions -> Nat] /\ puts \in Nat /\ chRoom \in [Sessions -> Room \cup {Nil}]
      /\ next \in [Sessions -> Sessions \cup {Nil}] /\ prev \in [Sessions -> Sessions \cup {Nil}]
  BY DEF IInv, Typed, TypeOK
<1>00. Nil \notin Room /\ Nil \notin Sessions
  BY BucketAssumption DEF BucketAssumption, Room
<1>01. /\ \A o \in Room : \A x \in linked[o] : stamp[x] # 0 /\ chRoom[x] = o
       /\ \A x, y \in Sessions : stamp[x] = stamp[y] /\ stamp[x] # 0 => x = y
       /\ \A x \in Sessions : stamp[x] <= puts /\ (stamp[x] # 0 => chRoom[x] \in Room)
  BY <1>0 DEF IInv, Stamped, StampSession
<1>1. ASSUME NEW s \in Sessions, RoomPut(s)
      PROVE  Forward'
  <2>0. PICK o \in Room : o = chRoom[s]
    BY <1>1 DEF RoomPut, IInv, Typed
  <2>1. stamp[s] = 0
    BY <1>1 DEF RoomPut, IInv, Stamped, StampSession
  <2>2. /\ \A x \in Sessions : stamp'[x] = IF x = s THEN puts + 1 ELSE stamp[x]
        /\ \A x \in Sessions : next'[x] = IF x = s THEN head[o] ELSE next[x]
        /\ \A p \in Room : head'[p] = IF p = o THEN s ELSE head[p]
        /\ \A p \in Room : linked'[p] = IF p = o THEN linked[p] \cup {s} ELSE linked[p]
        /\ chRoom' = chRoom
    BY <1>0, <1>1, <2>0 DEF RoomPut
  <2>3. head[o] # Nil => head[o] \in linked[o] /\ \A x \in linked[o] : stamp[x] <= stamp[head[o]]
    BY DEF IInv, Forward
  <2>4. head[o] = Nil => linked[o] = {}
    BY DEF IInv, Forward
  <2>5. \A p \in Room : /\ head'[p] = Nil => linked'[p] = {}
                        /\ head'[p] # Nil => head'[p] \in linked'[p]
                        /\ \A x \in linked'[p] : stamp'[x] <= stamp'[head'[p]]
    <3> SUFFICES ASSUME NEW p \in Room
                 PROVE  /\ head'[p] = Nil => linked'[p] = {}
                        /\ head'[p] # Nil => head'[p] \in linked'[p]
                        /\ \A x \in linked'[p] : stamp'[x] <= stamp'[head'[p]]
      OBVIOUS
    <3>1. CASE p = o
      <4>1. head'[p] = s /\ linked'[p] = linked[p] \cup {s} /\ stamp'[s] = puts + 1
        BY <2>2, <3>1
      <4>2. \A x \in linked'[p] : stamp'[x] <= puts + 1
        BY <1>0, <1>01, <2>2, <4>1
      <4> QED
        BY <1>00, <4>1, <4>2
    <3>2. CASE p # o
      <4>1. head'[p] = head[p] /\ linked'[p] = linked[p]
        BY <2>2, <3>2
      <4>2. \A x \in linked[p] : x # s /\ stamp'[x] = stamp[x]
        BY <1>0, <1>01, <2>1, <2>2
      <4>3. head[p] # Nil => head[p] \in linked[p]
        BY DEF IInv, Forward
      <4> QED
        BY <4>1, <4>2, <4>3 DEF IInv, Forward
    <3> QED
      BY <3>1, <3>2
  <2>6. ASSUME NEW c \in Sessions, stamp'[c] # 0
        PROVE  /\ next'[c] # Nil => /\ chRoom'[next'[c]] = chRoom'[c]
                                    /\ 0 < stamp'[next'[c]] /\ stamp'[next'[c]] < stamp'[c]
               /\ \A x \in linked'[chRoom'[c]] : stamp'[x] < stamp'[c] =>
                    next'[c] # Nil /\ stamp'[x] <= stamp'[next'[c]]
    <3>1. CASE c = s
      <4>1. next'[c] = head[o] /\ chRoom'[c] = o /\ stamp'[c] = puts + 1 /\ linked'[o] = linked[o] \cup {s}
        BY <2>0, <2>2, <3>1
      <4>2. \A x \in linked[o] : x # s /\ stamp'[x] = stamp[x] /\ 0 < stamp[x] /\ stamp[x] < puts + 1
                                  /\ chRoom'[x] = o
        BY <1>0, <1>01, <2>1, <2>2
      <4>3. \A x \in linked'[o] : stamp'[x] < puts + 1 => x \in linked[o]
        BY <1>0, <4>1, <3>1
      <4> QED
        BY <2>3, <2>4, <3>1, <4>1, <4>2, <4>3
    <3>2. CASE c # s
      <4>1. stamp'[c] = stamp[c] /\ stamp[c] # 0 /\ next'[c] = next[c] /\ chRoom[c] \in Room /\ stamp[c] <= puts
        BY <1>01, <2>2, <2>6, <3>2
      <4>2. /\ next[c] # Nil => /\ chRoom[next[c]] = chRoom[c]
                                /\ 0 < stamp[next[c]] /\ stamp[next[c]] < stamp[c]
            /\ \A x \in linked[chRoom[c]] : stamp[x] < stamp[c] => next[c] # Nil /\ stamp[x] <= stamp[next[c]]
        BY <4>1 DEF IInv, Forward
      <4>3. next[c] # Nil => stamp'[next[c]] = stamp[next[c]]
        BY <1>0, <2>1, <2>2, <4>2
      <4>4. ASSUME NEW x \in linked'[chRoom[c]], stamp'[x] < stamp[c]
            PROVE  x \in linked[chRoom[c]] /\ stamp'[x] = stamp[x]
        <5>1. x \in linked[chRoom[c]] \cup {s}
          BY <2>2, <4>1, <4>4
        <5>2. stamp'[s] = puts + 1 /\ stamp[c] \in Nat /\ puts \in Nat
          BY <1>0, <2>2
        <5>3. x # s
          BY <4>1, <4>4, <5>2
        <5> QED
          BY <1>0, <2>2, <4>1, <5>1, <5>3
      <4> QED
        BY <2>2, <4>1, <4>2, <4>3, <4>4
    <3> QED
      BY <3>1, <3>2
  <2>7. \A p \in Room : \A x \in linked'[p] : next'[x] \in linked'[p] \cup {Nil}
    <3>1. \A p \in Room : \A x \in linked[p] : x # s /\ next[x] \in linked[p] \cup {Nil}
      BY <1>01, <2>1 DEF IInv, Forward
    <3> SUFFICES ASSUME NEW p \in Room, NEW x \in linked'[p] PROVE next'[x] \in linked'[p] \cup {Nil}
      OBVIOUS
    <3>2. CASE x = s
      <4>1. p = o
        BY <2>2, <3>1, <3>2
      <4> QED
        BY <2>2, <2>3, <3>2, <4>1
    <3>3. CASE x # s
      <4>1. x \in linked[p]
        BY <2>2, <3>3
      <4>2. next'[x] = next[x] /\ linked[p] \subseteq linked'[p]
        BY <1>0, <2>2, <3>3, <4>1
      <4> QED
        BY <3>1, <4>1, <4>2
    <3> QED
      BY <3>2, <3>3
  <2> QED
    BY <2>5, <2>6, <2>7 DEF Forward
<1>2. ASSUME NEW s \in Sessions, UnlinkPrev(s), stamp[s] # 0
      PROVE  Forward'
  <2>0. PICK o \in Room : o = chRoom[s]
    BY <1>01, <1>2
  <2>1. /\ s \in linked[o] /\ room[s] = o /\ target[s] = s
        /\ IF prev[s] = Nil THEN head[o] = s ELSE prev[s] \in linked[o] /\ next[prev[s]] = s
        /\ next[s] # Nil => next[s] \in linked[o]
        /\ next[s] # s
    BY <1>2, <2>0, Neighbours DEF UnlinkPrev
  <2>2. /\ \A x \in Sessions : next'[x] = IF x = prev[s] THEN next[s] ELSE next[x]
        /\ \A p \in Room : head'[p] = IF p = o /\ prev[s] = Nil THEN next[s] ELSE head[p]
        /\ \A p \in Room : linked'[p] = linked[p] \ {s}
        /\ UNCHANGED <<chRoom, stamp>>
    BY <1>0, <1>01, <1>2, <2>0, <2>1 DEF UnlinkPrev, NextAfter
  <2>3. /\ next[s] # Nil => stamp[next[s]] < stamp[s]
        /\ \A x \in linked[o] : stamp[x] < stamp[s] => next[s] # Nil /\ stamp[x] <= stamp[next[s]]
    BY <1>2, <2>0 DEF IInv, Forward
  <2>4. \A x \in linked[o] : x # s => stamp[x] # stamp[s]
    BY <1>0, <1>01, <1>2, <2>1
  <2>5. ASSUME NEW x \in linked[o], x # prev[s]
        PROVE  next[x] # s
    <3>1. next[x] = s => stamp[s] < stamp[x] /\ stamp[x] \in Nat /\ stamp[s] \in Nat
      BY <1>0, <1>00, <1>01 DEF IInv, Forward
    <3>2. CASE prev[s] = Nil
      BY <1>0, <2>1, <3>1, <3>2 DEF IInv, Forward
    <3>3. CASE prev[s] # Nil
      <4> DEFINE p == prev[s]
      <4>1. p \in linked[o] /\ next[p] = s /\ stamp[p] # stamp[x] /\ stamp[p] \in Nat /\ stamp[s] < stamp[p]
        BY <1>0, <1>00, <1>01, <2>1, <2>5, <3>3 DEF IInv, Forward
      <4>2. stamp[x] < stamp[p] => stamp[x] <= stamp[s]
        BY <1>0, <1>01, <4>1 DEF IInv, Forward
      <4>3. next[x] = s /\ stamp[p] < stamp[x] => stamp[p] <= stamp[s]
        BY <1>0, <1>01, <4>1 DEF IInv, Forward
      <4> QED
        BY <1>0, <3>1, <4>1, <4>2, <4>3
    <3> QED
      BY <3>2, <3>3
  <2>6. ASSUME NEW p \in Room
        PROVE  /\ head'[p] = Nil => linked'[p] = {}
               /\ head'[p] # Nil => head'[p] \in linked'[p]
               /\ \A x \in linked'[p] : stamp'[x] <= stamp'[head'[p]]
    <3>1. CASE p = o /\ prev[s] = Nil
      <4>1. head'[p] = next[s] /\ linked'[p] = linked[o] \ {s}
        BY <2>2, <3>1
      <4>2. \A x \in linked'[p] : stamp[x] < stamp[s]
        <5>1. \A x \in linked[o] : stamp[x] <= stamp[s]
          BY <2>1, <3>1 DEF IInv, Forward
        <5> QED
          BY <1>0, <2>4, <4>1, <5>1
      <4> QED
        BY <2>1, <2>2, <2>3, <4>1, <4>2
    <3>2. CASE ~(p = o /\ prev[s] = Nil)
      <4>1. head'[p] = head[p] /\ linked'[p] = linked[p] \ {s}
        BY <2>2, <3>2
      <4>2. head[p] # s
        <5>1. CASE p = o
          <6>1. prev[s] \in linked[o] /\ stamp[s] < stamp[prev[s]]
            BY <1>0, <1>00, <1>01, <2>1, <3>2, <5>1 DEF IInv, Forward
          <6>2. stamp[prev[s]] <= stamp[head[o]]
            BY <6>1 DEF IInv, Forward
          <6> QED
            BY <1>0, <1>00, <5>1, <6>1, <6>2
        <5>2. CASE p # o
          BY <1>00, <1>01, <2>0, <5>2 DEF IInv, Forward
        <5> QED
          BY <5>1, <5>2
      <4> QED
        BY <2>2, <4>1, <4>2 DEF IInv, Forward
    <3> QED
      BY <3>1, <3>2
  <2>7. ASSUME NEW c \in Sessions, stamp'[c] # 0
        PROVE  /\ next'[c] # Nil => /\ chRoom'[next'[c]] = chRoom'[c]
                                    /\ 0 < stamp'[next'[c]] /\ stamp'[next'[c]] < stamp'[c]
               /\ \A x \in linked'[chRoom'[c]] : stamp'[x] < stamp'[c] =>
                    next'[c] # Nil /\ stamp'[x] <= stamp'[next'[c]]
    <3>1. /\ next[c] # Nil => /\ chRoom[next[c]] = chRoom[c]
                              /\ 0 < stamp[next[c]] /\ stamp[next[c]] < stamp[c]
          /\ \A x \in linked[chRoom[c]] : stamp[x] < stamp[c] => next[c] # Nil /\ stamp[x] <= stamp[next[c]]
          /\ linked'[chRoom[c]] = linked[chRoom[c]] \ {s}
      BY <1>01, <2>2, <2>7 DEF IInv, Forward
    <3>2. CASE c = prev[s]
      <4>1. chRoom[c] = o /\ next[c] = s /\ next'[c] = next[s]
        BY <1>00, <1>01, <2>1, <2>2, <3>2
      <4>2. next[s] # Nil => chRoom[next[s]] = o /\ 0 < stamp[next[s]] /\ stamp[next[s]] < stamp[c]
        BY <1>0, <1>00, <1>01, <2>1, <2>3, <3>1, <4>1
      <4>3. ASSUME NEW x \in linked[o], x # s, stamp[x] < stamp[c]
            PROVE  next[s] # Nil /\ stamp[x] <= stamp[next[s]]
        <5>1. stamp[x] <= stamp[s] /\ stamp[x] # stamp[s]
          BY <1>00, <2>4, <3>1, <4>1, <4>3
        <5>2. stamp[x] < stamp[s]
          BY <1>0, <5>1
        <5> QED
          BY <2>3, <5>2
      <4> QED
        BY <2>2, <3>1, <4>1, <4>2, <4>3
    <3>3. CASE c # prev[s]
      BY <2>2, <3>1, <3>3
    <3> QED
      BY <3>2, <3>3
  <2>8. ASSUME NEW p \in Room, NEW x \in linked'[p]
        PROVE  next'[x] \in linked'[p] \cup {Nil}
    <3>1. x \in linked[p] /\ linked'[p] = linked[p] \ {s} /\ next[x] \in linked[p] \cup {Nil}
      BY <2>2 DEF IInv, Forward
    <3>2. CASE x = prev[s]
      <4>1. p = o
        BY <1>0, <1>00, <1>01, <2>1, <3>1, <3>2
      <4> QED
        BY <1>0, <2>1, <2>2, <3>1, <3>2, <4>1
    <3>3. CASE x # prev[s]
      <4>1. next[x] # s
        BY <1>00, <1>01, <2>1, <2>5, <3>1, <3>3
      <4> QED
        <5>1. next'[x] = next[x]
          BY <1>0, <2>2, <3>1, <3>3
        <5> QED
          BY <3>1, <4>1, <5>1
    <3> QED
      BY <3>2, <3>3
  <2> QED
    BY <2>6, <2>7, <2>8 DEF Forward
\* A connection that is being put into a room has no stamp yet, and nothing leads to it.
<1>3. ASSUME NEW s \in Sessions, PutRoom(s)
      PROVE  Forward'
  <2>1. stamp[s] = 0 /\ UNCHANGED <<head, next, linked, stamp>>
    BY <1>3 DEF PutRoom, IInv, Registered, RegSession, Stamped, StampSession
  <2>2. \A x \in Sessions : x # s => chRoom'[x] = chRoom[x]
    BY <1>0, <1>3 DEF PutRoom
  <2>3. \A c \in Sessions : stamp[c] # 0 /\ next[c] # Nil => next[c] # s
    BY <2>1 DEF IInv, Forward
  <2> QED
    BY <1>0, <2>1, <2>2, <2>3 DEF IInv, Forward
<1>4. ASSUME UNCHANGED <<head, next, linked, stamp, chRoom>>
      PROVE  Forward'
  BY <1>4 DEF IInv, Forward
<1>5. ASSUME NEW s \in Sessions, UnlinkPrev(s), stamp[s] = 0
      PROVE  Forward'
  BY <1>4, <1>5, RefusedUnlink DEF UnlinkPrev
<1>6. ASSUME NEW s \in Sessions,
             \/ \E u \in Users, r \in RoomIds \cup {NoRoom} : Join(s, u, r)
             \/ PutNoRoom(s) \/ RoomRefused(s) \/ Quit(s) \/ Malformed(s)
             \/ Lookup(s) \/ Forget(s) \/ UnlinkNext(s) \/ DecLoad(s) \/ DecStore(s) \/ DropClear(s)
             \/ DropTest(s) \/ Evict(s) \/ Unlock(s) \/ Close(s)
      PROVE  UNCHANGED <<head, next, linked, stamp, chRoom>>
  BY <1>6 DEF Join, PutNoRoom, RoomRefused, Quit, Malformed, Deferred,
         Lookup, Forget, UnlinkNext, DecLoad, DecStore, DropClear, DropTest, Evict, Unlock, Close
<1>7. ASSUME NEW w \in Routines, Push(w)
      PROVE  UNCHANGED <<head, next, linked, stamp, chRoom>>
  BY <1>7 DEF Push, TakeMsg, PushBegin, PushNext, PushEnd
<1>8. CASE UNCHANGED vars
  BY <1>4, <1>8 DEF vars
<1> QED
  BY <1>1, <1>2, <1>3, <1>4, <1>5, <1>6, <1>7, <1>8 DEF Next, Reader, Delete

\* Prev stays the inverse of Next, up to the half-done deletion.
LEMMA BackwardNext ==
  ASSUME Gentle, IInv, [Next]_vars PROVE Backward'
<1> USE DEF Goto, bucketVars, roomVars, histVars, linkVars, sessVars, readVars, pushVars
<1>0. /\ head \in [Room -> Sessions \cup {Nil}] /\ linked \in [Room -> SUBSET Sessions]
      /\ stamp \in [Sessions -> Nat] /\ puts \in Nat /\ chRoom \in [Sessions -> Room \cup {Nil}]
      /\ next \in [Sessions -> Sessions \cup {Nil}] /\ prev \in [Sessions -> Sessions \cup {Nil}]
      /\ DOMAIN pc = Sessions
  BY DEF IInv, Typed, TypeOK
<1>00. Nil \notin Room /\ Nil \notin Sessions
  BY BucketAssumption DEF BucketAssumption, Room
<1>01. /\ \A o \in Room : \A x \in linked[o] : stamp[x] # 0 /\ chRoom[x] = o
       /\ \A x \in Sessions : stamp[x] = 0 => next[x] = Nil
  BY <1>0 DEF IInv, Stamped, StampSession
<1>02. ASSUME NEW s \in Sessions, NEW t \in Sessions, pc[s] \in InBucket, pc[t] \in InBucket
       PROVE  s = t
  BY <1>02 DEF IInv, OneExit, Exiting
<1>03. \A x \in Sessions : stamp[x] # 0 /\ next[x] # Nil => next[x] # x
  BY <1>0 DEF IInv, Forward
<1>1. ASSUME NEW s \in Sessions, RoomPut(s)
      PROVE  Backward'
  <2>0. PICK o \in Room : o = chRoom[s]
    BY <1>1 DEF RoomPut, IInv, Typed
  <2>1. stamp[s] = 0 /\ pc[s] = "roomPut" /\ \A d \in Sessions : pc[d] \in InRoom => room[d] # o
    BY <1>1, <2>0 DEF RoomPut, RoomLocked, IInv, Stamped, StampSession
  <2>2. /\ \A x \in Sessions : prev'[x] = IF x = s THEN Nil ELSE IF x = head[o] THEN s ELSE prev[x]
        /\ \A x \in Sessions : next'[x] = IF x = s THEN head[o] ELSE next[x]
        /\ \A x \in Sessions : x # s => stamp'[x] = stamp[x]
        /\ \A p \in Room : head'[p] = IF p = o THEN s ELSE head[p]
        /\ \A p \in Room : linked'[p] = IF p = o THEN linked[p] \cup {s} ELSE linked[p]
        /\ \A x \in Sessions : pc'[x] = "unlinkPrev" <=> pc[x] = "unlinkPrev"
    BY <1>0, <1>1, <2>0 DEF RoomPut
  <2>3. head[o] # Nil => head[o] \in linked[o]
    BY DEF IInv, Forward
  <2>4. \A x \in Sessions : x # s => (Skipped(x)' <=> Skipped(x))
    BY <2>1, <2>2 DEF Skipped
  <2>5. ASSUME NEW p \in Room, NEW x \in linked'[p], ~Skipped(x)'
        PROVE  IF prev'[x] = Nil THEN head'[p] = x ELSE prev'[x] \in linked'[p] /\ next'[prev'[x]] = x
    <3>1. CASE x = s
      <4>1. p = o
        BY <1>01, <2>1, <2>2, <3>1
      <4> QED
        BY <2>2, <3>1, <4>1
    <3>20. x # s => x \in linked[p] /\ x \in Sessions /\ linked[p] \subseteq linked'[p]
      <4>1. linked[p] \subseteq linked'[p] /\ linked'[p] \subseteq linked[p] \cup {s}
        BY <2>2
      <4> QED
        BY <1>0, <4>1
    <3>2. CASE x # s /\ x = head[o]
      <4>1. p = o /\ x \in Sessions
        BY <1>00, <1>01, <2>3, <3>2, <3>20
      <4> QED
        BY <1>00, <2>2, <3>2, <4>1
    <3>3. CASE x # s /\ x # head[o]
      <4>1. x \in linked[p] /\ x \in Sessions /\ prev'[x] = prev[x] /\ linked[p] \subseteq linked'[p]
        BY <2>2, <3>3, <3>20
      <4>2. IF prev[x] = Nil THEN head[p] = x ELSE prev[x] \in linked[p] /\ next[prev[x]] = x
        BY <2>4, <2>5, <3>3, <4>1 DEF IInv, Backward
      <4>3. CASE prev[x] = Nil
        BY <2>2, <3>3, <4>1, <4>2, <4>3
      <4>4. CASE prev[x] # Nil
        <5>1. prev[x] # s /\ prev[x] \in Sessions
          BY <1>0, <1>01, <2>1, <4>2, <4>4
        <5> QED
          BY <2>2, <4>1, <4>2, <4>4, <5>1
      <4> QED
        BY <4>3, <4>4
    <3> QED
      BY <3>1, <3>2, <3>3
  <2>6. ASSUME NEW d \in Sessions, pc'[d] = "unlinkPrev", next'[d] # Nil
        PROVE  prev'[next'[d]] = prev'[d]
    <3>1. pc[d] = "unlinkPrev" /\ d # s /\ next'[d] = next[d] /\ stamp[d] # 0
      BY <1>01, <2>1, <2>2, <2>6
    <3>2. chRoom[d] # o
      BY <2>1, <3>1, Deletes DEF IInv, InRoom, Deleter
    <3>3. next[d] \in Sessions /\ stamp[next[d]] # 0 /\ chRoom[next[d]] # o /\ prev[next[d]] = prev[d]
      BY <1>0, <2>6, <3>1, <3>2 DEF IInv, Forward, Backward
    <3>4. d # head[o] /\ next[d] # head[o] /\ next[d] # s
      BY <1>00, <1>01, <2>1, <2>3, <3>2, <3>3
    <3> QED
      BY <2>2, <3>1, <3>3, <3>4
  <2> QED
    BY <2>5, <2>6 DEF Backward
<1>2. ASSUME NEW s \in Sessions, UnlinkNext(s)
      PROVE  Backward'
  <2>1. target[s] = s
    BY <1>2, Deletes DEF UnlinkNext, IInv, Deleter, InRoom
  <2>2. /\ pc[s] = "unlinkNext" /\ pc' = [pc EXCEPT ![s] = "unlinkPrev"]
        /\ \A x \in Sessions : prev'[x] = IF x = next[s] THEN prev[s] ELSE prev[x]
        /\ UNCHANGED <<next, head, linked, stamp>>
    BY <1>2, <2>1 DEF UnlinkNext
  <2>3. \A d \in Sessions : pc[d] # "unlinkPrev" /\ (pc'[d] = "unlinkPrev" <=> d = s)
    BY <1>0, <1>02, <2>2 DEF InBucket, InRoom
  <2>4. \A x \in Sessions : ~Skipped(x) /\ (Skipped(x)' <=> x = next[s])
    BY <1>00, <1>01, <2>2, <2>3 DEF Skipped
  <2>5. ASSUME NEW p \in Room, NEW x \in linked[p], x # next[s]
        PROVE  IF prev'[x] = Nil THEN head[p] = x ELSE prev'[x] \in linked[p] /\ next[prev'[x]] = x
    BY <1>0, <2>2, <2>4, <2>5 DEF IInv, Backward
  <2>6. next[s] # Nil => prev'[next[s]] = prev'[s]
    BY <1>0, <1>01, <1>03, <2>2
  <2> QED
    BY <1>0, <2>2, <2>3, <2>4, <2>5, <2>6 DEF Backward
<1>3. ASSUME NEW s \in Sessions, UnlinkPrev(s)
      PROVE  /\ \A d \in Sessions : (pc[d] = "unlinkPrev" => d = s) /\ pc'[d] # "unlinkPrev"
             /\ \A x \in Sessions : ~Skipped(x)'
             /\ \A x \in Sessions : Skipped(x) => stamp[s] # 0 /\ x = next[s]
  <2>1. pc[s] = "unlinkPrev" /\ pc' = [pc EXCEPT ![s] = "decLoad"]
    BY <1>3 DEF UnlinkPrev
  <2>2. \A d \in Sessions : (pc[d] = "unlinkPrev" => d = s) /\ pc'[d] # "unlinkPrev"
    BY <1>0, <1>02, <2>1 DEF InBucket, InRoom
  <2> QED
    BY <2>2 DEF Skipped
<1>4. ASSUME NEW s \in Sessions, UnlinkPrev(s), stamp[s] = 0
      PROVE  Backward'
  <2>1. UNCHANGED <<head, next, prev, linked>>
    BY <1>4, RefusedUnlink DEF UnlinkPrev
  <2> QED
    BY <1>0, <1>3, <1>4, <2>1 DEF IInv, Backward
<1>5. ASSUME NEW s \in Sessions, UnlinkPrev(s), stamp[s] # 0
      PROVE  Backward'
  <2>0. PICK o \in Room : o = chRoom[s]
    BY <1>5, Neighbours DEF UnlinkPrev
  <2>1. /\ s \in linked[o] /\ room[s] = o /\ target[s] = s
        /\ IF prev[s] = Nil THEN head[o] = s ELSE prev[s] \in linked[o] /\ next[prev[s]] = s
        /\ next[s] # Nil => next[s] \in linked[o] /\ prev[next[s]] = prev[s]
        /\ next[s] # s
    BY <1>5, <2>0, Neighbours DEF UnlinkPrev
  <2>2. /\ \A x \in Sessions : next'[x] = IF x = prev[s] THEN next[s] ELSE next[x]
        /\ \A p \in Room : head'[p] = IF p = o /\ prev[s] = Nil THEN next[s] ELSE head[p]
        /\ \A p \in Room : linked'[p] = linked[p] \ {s}
        /\ prev' = prev
    BY <1>0, <1>01, <1>5, <2>1 DEF UnlinkPrev, NextAfter
  <2>3. ASSUME NEW p \in Room, NEW x \in linked'[p]
        PROVE  IF prev[x] = Nil THEN head'[p] = x ELSE prev[x] \in linked'[p] /\ next'[prev[x]] = x
    <3>1. x \in linked[p] /\ x \in Sessions /\ x # s
      BY <1>0, <2>2
    <3>2. CASE x = next[s]
      <4>1. p = o /\ prev[x] = prev[s] /\ prev[s] # s
        BY <1>00, <1>01, <2>1, <3>1, <3>2
      <4> QED
        BY <1>0, <2>1, <2>2, <3>2, <4>1
    <3>3. CASE x # next[s]
      <4>1. IF prev[x] = Nil THEN head[p] = x ELSE prev[x] \in linked[p] /\ next[prev[x]] = x
        BY <1>3, <1>5, <3>1, <3>3 DEF IInv, Backward
      <4>2. CASE prev[x] = Nil
        <5>1. p = o => prev[s] # Nil
          BY <2>1, <3>1, <4>1, <4>2
        <5> QED
          BY <2>2, <4>1, <4>2, <5>1
      <4>3. CASE prev[x] # Nil
        <5>1. prev[x] \in Sessions /\ prev[x] # s /\ prev[x] # prev[s]
          BY <1>0, <2>1, <3>1, <3>3, <4>1, <4>3
        <5> QED
          BY <2>2, <4>1, <4>3, <5>1
      <4> QED
        BY <4>2, <4>3
    <3> QED
      BY <3>2, <3>3
  <2> QED
    BY <1>3, <1>5, <2>2, <2>3 DEF Backward
<1>6. ASSUME UNCHANGED <<head, next, prev, linked, stamp>>,
             \A x \in Sessions : pc'[x] = "unlinkPrev" <=> pc[x] = "unlinkPrev"
      PROVE  Backward'
  <2>1. \A x \in Sessions : Skipped(x)' <=> Skipped(x)
    BY <1>6 DEF Skipped
  <2> QED
    BY <1>0, <1>6, <2>1 DEF IInv, Backward
<1>7. ASSUME NEW s \in Sessions,
             \/ \E u \in Users, r \in RoomIds \cup {NoRoom} : Join(s, u, r)
             \/ PutNoRoom(s) \/ PutRoom(s) \/ RoomRefused(s) \/ Quit(s) \/ Malformed(s)
             \/ Lookup(s) \/ Forget(s) \/ DecLoad(s) \/ DecStore(s) \/ DropClear(s)
             \/ DropTest(s) \/ Evict(s) \/ Unlock(s) \/ Close(s)
      PROVE  Backward'
  <2>1. UNCHANGED <<head, next, prev, linked, stamp>> /\ pc[s] # "unlinkPrev"
    BY <1>7 DEF Join, PutNoRoom, PutRoom, RoomRefused, Quit, Malformed, Deferred,
         Lookup, Forget, DecLoad, DecStore, DropClear, DropTest, Evict, Unlock, Close
  <2>2. \E l : l # "unlinkPrev" /\ pc' = [pc EXCEPT ![s] = l]
    BY <1>7 DEF Join, PutNoRoom, PutRoom, RoomRefused, Quit, Malformed, Deferred,
         Lookup, Forget, DecLoad, DecStore, DropClear, DropTest, Evict, Unlock, Close
  <2>3. \A x \in Sessions : pc'[x] = "unlinkPrev" <=> pc[x] = "unlinkPrev"
    BY <1>0, <2>1, <2>2
  <2> QED
    BY <1>6, <2>1, <2>3
<1>8. ASSUME NEW w \in Routines, Push(w)
      PROVE  Backward'
  BY <1>6, <1>8 DEF Push, TakeMsg, PushBegin, PushNext, PushEnd
<1>9. CASE UNCHANGED vars
  BY <1>6, <1>9 DEF vars
<1> QED
  BY <1>1, <1>2, <1>4, <1>5, <1>7, <1>8, <1>9 DEF Next, Reader, Delete

\* A walk keeps what it has reached ahead of its cursor.
LEMMA WalkedNext ==
  ASSUME Gentle, IInv, [Next]_vars PROVE Walked'
<1> USE DEF Goto, bucketVars, roomVars, histVars, linkVars, sessVars, readVars, pushVars
<1>0. /\ head \in [Room -> Sessions \cup {Nil}] /\ linked \in [Room -> SUBSET Sessions]
      /\ stamp \in [Sessions -> Nat] /\ chRoom \in [Sessions -> Room \cup {Nil}]
      /\ next \in [Sessions -> Sessions \cup {Nil}]
      /\ wpc \in [Routines -> {"idle", "found", "walk"}] /\ wroom \in [Routines -> Room \cup {Nil}]
      /\ cursor \in [Routines -> Sessions \cup {Nil}] /\ seen \in [Routines -> SUBSET Sessions]
  BY DEF IInv, Typed, TypeOK
<1>00. Nil \notin Room /\ Nil \notin Sessions
  BY BucketAssumption DEF BucketAssumption, Room
<1>01. /\ \A o \in Room : \A x \in linked[o] : stamp[x] # 0 /\ chRoom[x] = o
       /\ \A x, y \in Sessions : stamp[x] = stamp[y] /\ stamp[x] # 0 => x = y
       /\ \A w \in Routines : wpc[w] \in {"found", "walk"} => wroom[w] \in Room
  BY <1>0 DEF IInv, Typed, Stamped, StampSession
\* What the steps of the readers leave of a walk: members go, stamps and rooms of members stay.
<1>02. ASSUME UNCHANGED pushVars,
              \A x \in Sessions : stamp[x] # 0 => stamp'[x] = stamp[x] /\ chRoom'[x] = chRoom[x],
              \A w \in Routines : wpc[w] = "walk" => linked'[wroom[w]] \subseteq linked[wroom[w]]
       PROVE  Walked'
  <2> SUFFICES ASSUME NEW w \in Routines, wpc[w] = "walk"
               PROVE  /\ cursor[w] # Nil => stamp'[cursor[w]] # 0 /\ chRoom'[cursor[w]] = wroom[w]
                      /\ \A x \in linked'[wroom[w]] :
                           x \in seen[w] \/ (cursor[w] # Nil /\ stamp'[x] <= stamp'[cursor[w]])
    BY <1>02 DEF Walked
  <2>1. /\ cursor[w] # Nil => stamp[cursor[w]] # 0 /\ chRoom[cursor[w]] = wroom[w]
        /\ \A x \in linked[wroom[w]] :
             x \in seen[w] \/ (cursor[w] # Nil /\ stamp[x] <= stamp[cursor[w]])
    BY DEF IInv, Walked
  <2>2. cursor[w] # Nil => stamp'[cursor[w]] = stamp[cursor[w]] /\ chRoom'[cursor[w]] = chRoom[cursor[w]]
    BY <1>0, <1>02, <2>1
  <2>3. \A x \in linked'[wroom[w]] : x \in linked[wroom[w]] /\ stamp'[x] = stamp[x]
    BY <1>0, <1>01, <1>02
  <2> QED
    BY <2>1, <2>2, <2>3
<1>1. ASSUME NEW s \in Sessions, RoomPut(s)
      PROVE  Walked'
  <2>0. PICK o \in Room : o = chRoom[s]
    BY <1>1 DEF RoomPut, IInv, Typed
  <2>1. stamp[s] = 0 /\ \A w \in Routines : wpc[w] = "walk" => wroom[w] # o
    BY <1>1, <2>0 DEF RoomPut, RoomLocked, IInv, Stamped, StampSession
  <2>2. /\ UNCHANGED pushVars /\ chRoom' = chRoom
        /\ \A x \in Sessions : x # s => stamp'[x] = stamp[x]
        /\ \A p \in Room : p # o => linked'[p] = linked[p]
    BY <1>0, <1>1, <2>0 DEF RoomPut
  <2> QED
    BY <1>01, <1>02, <2>1, <2>2
<1>2. ASSUME NEW s \in Sessions, UnlinkPrev(s)
      PROVE  Walked'
  <2>1. /\ UNCHANGED <<pushVars, stamp, chRoom>>
        /\ \A p \in Room : linked'[p] \subseteq linked[p]
    BY <1>0, <1>2 DEF UnlinkPrev
  <2> QED
    BY <1>01, <1>02, <2>1
<1>3. ASSUME NEW s \in Sessions, PutRoom(s)
      PROVE  Walked'
  <2>1. stamp[s] = 0 /\ UNCHANGED <<pushVars, stamp, linked>>
    BY <1>3 DEF PutRoom, IInv, Registered, RegSession, Stamped, StampSession
  <2>2. \A x \in Sessions : x # s => chRoom'[x] = chRoom[x]
    BY <1>0, <1>3 DEF PutRoom
  <2> QED
    BY <1>02, <2>1, <2>2
<1>4. ASSUME UNCHANGED <<pushVars, stamp, chRoom, linked>>
      PROVE  Walked'
  BY <1>02, <1>4
<1>5. ASSUME NEW s \in Sessions,
             \/ \E u \in Users, r \in RoomIds \cup {NoRoom} : Join(s, u, r)
             \/ PutNoRoom(s) \/ RoomRefused(s) \/ Quit(s) \/ Malformed(s)
             \/ Lookup(s) \/ Forget(s) \/ UnlinkNext(s) \/ DecLoad(s) \/ DecStore(s) \/ DropClear(s)
             \/ DropTest(s) \/ Evict(s) \/ Unlock(s) \/ Close(s)
      PROVE  UNCHANGED <<pushVars, stamp, chRoom, linked>>
  BY <1>5 DEF Join, PutNoRoom, RoomRefused, Quit, Malformed, Deferred,
         Lookup, Forget, UnlinkNext, DecLoad, DecStore, DropClear, DropTest, Evict, Unlock, Close
\* A step of one walk leaves the others alone.
<1>6. ASSUME NEW w \in Routines, UNCHANGED <<stamp, chRoom, linked>>,
             \A v \in Routines : v # w => /\ wpc'[v] = wpc[v] /\ wroom'[v] = wroom[v]
                                          /\ cursor'[v] = cursor[v] /\ seen'[v] = seen[v],
             wpc'[w] = "walk" =>
               /\ cursor'[w] # Nil => stamp[cursor'[w]] # 0 /\ chRoom[cursor'[w]] = wroom'[w]
               /\ \A x \in linked[wroom'[w]] :
                    x \in seen'[w] \/ (cursor'[w] # Nil /\ stamp[x] <= stamp[cursor'[w]])
      PROVE  Walked'
  BY <1>6 DEF IInv, Walked
<1>7. ASSUME NEW w \in Routines, NEW r \in RoomIds, TakeMsg(w, r)
      PROVE  Walked'
  <2>1. wpc'[w] = "found" /\ UNCHANGED <<stamp, chRoom, linked, cursor, seen>>
        /\ \A v \in Routines : v # w => wpc'[v] = wpc[v] /\ wroom'[v] = wroom[v]
    BY <1>0, <1>7 DEF TakeMsg
  <2> QED
    BY <1>6, <2>1
<1>8. ASSUME NEW w \in Routines, PushBegin(w)
      PROVE  Walked'
  <2>1. /\ cursor'[w] = head[wroom[w]] /\ wroom[w] \in Room
        /\ UNCHANGED <<stamp, chRoom, linked, wroom, seen>>
        /\ \A v \in Routines : v # w => wpc'[v] = wpc[v] /\ cursor'[v] = cursor[v]
    BY <1>0, <1>01, <1>8 DEF PushBegin
  <2>2. /\ head[wroom[w]] = Nil => linked[wroom[w]] = {}
        /\ head[wroom[w]] # Nil => head[wroom[w]] \in linked[wroom[w]]
        /\ \A x \in linked[wroom[w]] : stamp[x] <= stamp[head[wroom[w]]]
    BY <2>1 DEF IInv, Forward
  <2> QED
    BY <1>01, <1>6, <2>1, <2>2
<1>9. ASSUME NEW w \in Routines, PushNext(w)
      PROVE  Walked'
  <2>1. /\ wpc[w] = "walk" /\ cursor[w] \in Sessions /\ cursor'[w] = next[cursor[w]]
        /\ seen'[w] = seen[w] \cup {cursor[w]} /\ wroom[w] \in Room
        /\ UNCHANGED <<stamp, chRoom, linked, wroom, wpc>>
        /\ \A v \in Routines : v # w => cursor'[v] = cursor[v] /\ seen'[v] = seen[v]
    BY <1>0, <1>01, <1>9 DEF PushNext, Advance
  <2>2. /\ stamp[cursor[w]] # 0 /\ chRoom[cursor[w]] = wroom[w]
        /\ \A x \in linked[wroom[w]] : x \in seen[w] \/ stamp[x] <= stamp[cursor[w]]
    BY <1>00, <2>1 DEF IInv, Walked
  <2>3. /\ next[cursor[w]] # Nil => /\ chRoom[next[cursor[w]]] = wroom[w]
                                    /\ stamp[next[cursor[w]]] # 0
        /\ \A x \in linked[wroom[w]] : stamp[x] < stamp[cursor[w]] =>
             next[cursor[w]] # Nil /\ stamp[x] <= stamp[next[cursor[w]]]
    BY <1>0, <2>1, <2>2 DEF IInv, Forward
  <2>4. ASSUME NEW x \in linked[wroom[w]], x \notin seen'[w]
        PROVE  stamp[x] < stamp[cursor[w]]
    <3>1. x \in Sessions /\ x # cursor[w] /\ stamp[x] <= stamp[cursor[w]]
      BY <1>0, <2>1, <2>2, <2>4
    <3>2. stamp[x] # stamp[cursor[w]]
      BY <1>01, <2>1, <2>2, <3>1
    <3> QED
      BY <1>0, <2>1, <3>1, <3>2
  <2> QED
    BY <1>6, <2>1, <2>3, <2>4
<1>10. ASSUME NEW w \in Routines, PushEnd(w)
       PROVE  Walked'
  <2>1. /\ wpc'[w] = "idle" /\ UNCHANGED <<stamp, chRoom, linked, cursor>>
        /\ \A v \in Routines : v # w => wpc'[v] = wpc[v] /\ wroom'[v] = wroom[v] /\ seen'[v] = seen[v]
    BY <1>0, <1>10 DEF PushEnd
  <2> QED
    BY <1>6, <2>1
<1>11. CASE UNCHANGED vars
  BY <1>4, <1>11 DEF vars
<1> QED
  BY <1>1, <1>2, <1>3, <1>4, <1>5, <1>7, <1>8, <1>9, <1>10, <1>11 DEF Next, Reader, Delete, Push

\* A walk has only its audience before it: nobody enters the room meanwhile, and Next of
\* a member, as of one that left during the walk, is a member of the audience or Nil.
LEMMA ReachedNext ==
  ASSUME Gentle, IInv, [Next]_vars PROVE Reached'
<1> USE DEF Goto, bucketVars, roomVars, histVars, linkVars, sessVars, readVars, pushVars
<1>0. /\ head \in [Room -> Sessions \cup {Nil}] /\ linked \in [Room -> SUBSET Sessions]
      /\ stamp \in [Sessions -> Nat] /\ chRoom \in [Sessions -> Room \cup {Nil}]
      /\ next \in [Sessions -> Sessions \cup {Nil}] /\ prev \in [Sessions -> Sessions \cup {Nil}]
      /\ wpc \in [Routines -> {"idle", "found", "walk"}] /\ wroom \in [Routines -> Room \cup {Nil}]
      /\ cursor \in [Routines -> Sessions \cup {Nil}] /\ seen \in [Routines -> SUBSET Sessions]
      /\ audience \in [Routines -> SUBSET Sessions]
  BY DEF IInv, Typed, TypeOK
<1>00. Nil \notin Room /\ Nil \notin Sessions
  BY BucketAssumption DEF BucketAssumption, Room
<1>01. /\ \A o \in Room : \A x \in linked[o] : stamp[x] # 0 /\ chRoom[x] = o
       /\ \A w \in Routines : wpc[w] \in {"found", "walk"} => wroom[w] \in Room
       /\ \A w \in Routines : ReachedBy(w)
  BY <1>0 DEF IInv, Typed, Stamped, StampSession, Reached
\* What the steps of the readers leave of a walk: members go, and the rest stays.
<1>02. ASSUME UNCHANGED pushVars,
              \A x \in Sessions : stamp[x] # 0 => stamp'[x] = stamp[x] /\ chRoom'[x] = chRoom[x],
              \A w \in Routines : wpc[w] = "walk" => linked'[wroom[w]] \subseteq linked[wroom[w]],
              \A w \in Routines : wpc[w] = "walk" =>
                \A x \in audience[w] : next'[x] \in audience[w] \cup {Nil}
       PROVE  Reached'
  <2> SUFFICES ASSUME NEW w \in Routines PROVE ReachedBy(w)'
    BY DEF Reached
  <2>1. CASE wpc[w] # "walk"
    BY <1>01, <1>02, <2>1 DEF ReachedBy
  <2>2. CASE wpc[w] = "walk"
    <3>1. /\ seen[w] \cup linked[wroom[w]] \subseteq audience[w]
          /\ cursor[w] \in audience[w] \cup {Nil}
          /\ \A x \in audience[w] : stamp[x] # 0 /\ chRoom[x] = wroom[w]
          /\ cursor[w] # Nil => \A x \in seen[w] : stamp[cursor[w]] < stamp[x]
      BY <1>01, <2>2 DEF ReachedBy
    <3>2. \A x \in audience[w] : stamp'[x] = stamp[x] /\ chRoom'[x] = chRoom[x]
      BY <1>0, <1>02, <3>1
    <3>3. cursor[w] # Nil => cursor[w] \in audience[w]
      BY <3>1
    <3> QED
      BY <1>02, <2>2, <3>1, <3>2, <3>3 DEF ReachedBy
  <2> QED
    BY <2>1, <2>2
<1>1. ASSUME NEW s \in Sessions, RoomPut(s)
      PROVE  Reached'
  <2>0. PICK o \in Room : o = chRoom[s]
    BY <1>1 DEF RoomPut, IInv, Typed
  <2>1. stamp[s] = 0 /\ \A w \in Routines : wpc[w] = "walk" => wroom[w] # o /\ s \notin audience[w]
    BY <1>01, <1>1, <2>0 DEF RoomPut, RoomLocked, IInv, Stamped, StampSession, ReachedBy
  <2>2. /\ UNCHANGED pushVars /\ chRoom' = chRoom
        /\ \A x \in Sessions : x # s => stamp'[x] = stamp[x] /\ next'[x] = next[x]
        /\ \A p \in Room : p # o => linked'[p] = linked[p]
    BY <1>0, <1>1, <2>0 DEF RoomPut
  <2>3. \A w \in Routines : wpc[w] = "walk" => \A x \in audience[w] : next'[x] \in audience[w] \cup {Nil}
    BY <1>0, <1>01, <2>1, <2>2 DEF ReachedBy
  <2> QED
    BY <1>01, <1>02, <2>1, <2>2, <2>3
<1>2. ASSUME NEW s \in Sessions, UnlinkPrev(s)
      PROVE  Reached'
  <2>1. /\ UNCHANGED <<pushVars, stamp, chRoom>>
        /\ \A p \in Room : linked'[p] \subseteq linked[p]
        /\ \A x \in Sessions : next'[x] = IF x = prev[s] THEN next[s] ELSE next[x]
    <3>1. target[s] = s
      BY <1>2, Deletes DEF UnlinkPrev, Deleter, InRoom, IInv
    <3> QED
      BY <1>0, <1>2, <3>1 DEF UnlinkPrev, NextAfter
  \* The Channel unlinked is itself in the audience when its predecessor is.
  <2>2. ASSUME NEW w \in Routines, wpc[w] = "walk", NEW x \in audience[w]
        PROVE  next'[x] \in audience[w] \cup {Nil}
    <3>1. CASE x # prev[s]
      BY <1>0, <1>01, <2>1, <2>2, <3>1 DEF ReachedBy
    <3>2. CASE x = prev[s]
      <4>1. x \in Sessions /\ x # Nil /\ chRoom[x] = wroom[w] /\ wroom[w] \in Room
        BY <1>0, <1>00, <1>01, <2>2 DEF ReachedBy
      <4>2. pc[s] = "unlinkPrev" /\ stamp[s] # 0
        BY <1>2, <3>2, <4>1 DEF UnlinkPrev, IInv, Stamped, StampSession
      <4>3. s \in linked[chRoom[s]] /\ chRoom[s] \in Room /\ chRoom[x] = chRoom[s]
        BY <1>0, <1>00, <1>01, <3>2, <4>1, <4>2, Neighbours
      <4>4. s \in audience[w]
        BY <1>01, <2>2, <4>1, <4>3 DEF ReachedBy
      <4> QED
        BY <1>01, <2>1, <2>2, <3>2, <4>1, <4>4 DEF ReachedBy
    <3> QED
      BY <3>1, <3>2
  <2> QED
    BY <1>01, <1>02, <2>1, <2>2
<1>3. ASSUME NEW s \in Sessions, PutRoom(s)
      PROVE  Reached'
  <2>1. stamp[s] = 0 /\ UNCHANGED <<pushVars, stamp, linked, next>>
    BY <1>3 DEF PutRoom, IInv, Registered, RegSession, Stamped, StampSession
  <2>2. \A x \in Sessions : x # s => chRoom'[x] = chRoom[x]
    BY <1>0, <1>3 DEF PutRoom
  <2> QED
    BY <1>01, <1>02, <2>1, <2>2 DEF ReachedBy
<1>4. ASSUME UNCHANGED <<pushVars, stamp, chRoom, linked, next>>
      PROVE  Reached'
  BY <1>01, <1>02, <1>4 DEF ReachedBy
<1>5. ASSUME NEW s \in Sessions,
             \/ \E u \in Users, r \in RoomIds \cup {NoRoom} : Join(s, u, r)
             \/ PutNoRoom(s) \/ RoomRefused(s) \/ Quit(s) \/ Malformed(s)
             \/ Lookup(s) \/ Forget(s) \/ UnlinkNext(s) \/ DecLoad(s) \/ DecStore(s) \/ DropClear(s)
             \/ DropTest(s) \/ Evict(s) \/ Unlock(s) \/ Close(s)
      PROVE  UNCHANGED <<pushVars, stamp, chRoom, linked, next>>
  BY <1>5 DEF Join, PutNoRoom, RoomRefused, Quit, Malformed, Deferred,
         Lookup, Forget, UnlinkNext, DecLoad, DecStore, DropClear, DropTest, Evict, Unlock, Close
\* A step of one walk leaves the others alone.
<1>6. ASSUME NEW w \in Routines, UNCHANGED <<stamp, chRoom, linked, next>>, ReachedBy(w)',
             \A v \in Routines : v # w => /\ wpc'[v] = wpc[v] /\ wroom'[v] = wroom[v] /\ cursor'[v] = cursor[v]
                                          /\ seen'[v] = seen[v] /\ audience'[v] = audience[v]
      PROVE  Reached'
  <2> SUFFICES ASSUME NEW v \in Routines, v # w PROVE ReachedBy(v)'
    BY <1>6 DEF Reached
  <2> QED
    BY <1>01, <1>6 DEF ReachedBy
<1>7. ASSUME NEW w \in Routines, NEW r \in RoomIds, TakeMsg(w, r)
      PROVE  Reached'
  <2>1. /\ wpc[w] = "idle" /\ wpc'[w] = "found"
        /\ UNCHANGED <<stamp, chRoom, linked, next, cursor, seen, audience>>
        /\ \A v \in Routines : v # w => wpc'[v] = wpc[v] /\ wroom'[v] = wroom[v]
    BY <1>0, <1>7 DEF TakeMsg
  <2> QED
    BY <1>01, <1>6, <2>1 DEF ReachedBy
<1>8. ASSUME NEW w \in Routines, PushBegin(w)
      PROVE  Reached'
  <2>1. /\ wpc[w] = "found" /\ wpc'[w] = "walk" /\ wroom[w] \in Room
        /\ cursor'[w] = head[wroom[w]] /\ audience'[w] = linked[wroom[w]]
        /\ UNCHANGED <<stamp, chRoom, linked, next, wroom, seen>>
        /\ \A v \in Routines : v # w => wpc'[v] = wpc[v] /\ cursor'[v] = cursor[v] /\ audience'[v] = audience[v]
    BY <1>0, <1>01, <1>8 DEF PushBegin
  <2>2. seen[w] = {}
    BY <1>01, <2>1 DEF ReachedBy
  <2>3. /\ head[wroom[w]] # Nil => head[wroom[w]] \in linked[wroom[w]]
        /\ \A x \in linked[wroom[w]] : next[x] \in linked[wroom[w]] \cup {Nil}
    BY <2>1 DEF IInv, Forward
  <2>4. ReachedBy(w)'
    BY <1>01, <2>1, <2>2, <2>3 DEF ReachedBy
  <2> QED
    BY <1>6, <2>1, <2>4
<1>9. ASSUME NEW w \in Routines, PushNext(w)
      PROVE  Reached'
  <2>1. /\ wpc[w] = "walk" /\ wpc'[w] = "walk" /\ cursor[w] \in Sessions /\ cursor[w] # Nil
        /\ cursor'[w] = next[cursor[w]] /\ seen'[w] = seen[w] \cup {cursor[w]}
        /\ UNCHANGED <<stamp, chRoom, linked, next, wroom, wpc, audience>>
        /\ \A v \in Routines : v # w => cursor'[v] = cursor[v] /\ seen'[v] = seen[v]
    BY <1>0, <1>00, <1>9 DEF PushNext, Advance
  <2>2. /\ seen[w] \cup linked[wroom[w]] \subseteq audience[w] /\ cursor[w] \in audience[w]
        /\ \A x \in audience[w] : stamp[x] # 0 /\ chRoom[x] = wroom[w] /\ next[x] \in audience[w] \cup {Nil}
        /\ \A x \in seen[w] : stamp[cursor[w]] < stamp[x]
    BY <1>00, <1>01, <2>1 DEF ReachedBy
  <2>3. next[cursor[w]] # Nil => stamp[next[cursor[w]]] < stamp[cursor[w]] /\ next[cursor[w]] \in Sessions
    BY <1>0, <2>1, <2>2 DEF IInv, Forward
  <2>4. ASSUME next[cursor[w]] # Nil, NEW x \in seen'[w]
        PROVE  stamp[next[cursor[w]]] < stamp[x]
    <3>1. CASE x = cursor[w]
      BY <2>3, <2>4, <3>1
    <3>2. CASE x \in seen[w]
      <4>1. stamp[cursor[w]] < stamp[x] /\ x \in Sessions
        BY <1>0, <2>2, <3>2
      <4> QED
        BY <1>0, <2>1, <2>3, <2>4, <4>1
    <3> QED
      BY <2>1, <2>4, <3>1, <3>2
  <2>5. ReachedBy(w)'
    BY <2>1, <2>2, <2>4 DEF ReachedBy
  <2> QED
    BY <1>6, <2>1, <2>5
<1>10. ASSUME NEW w \in Routines, PushEnd(w)
       PROVE  Reached'
  <2>1. /\ wpc'[w] = "idle" /\ seen'[w] = {} /\ UNCHANGED <<stamp, chRoom, linked, next, cursor>>
        /\ \A v \in Routines : v # w => /\ wpc'[v] = wpc[v] /\ wroom'[v] = wroom[v]
                                        /\ seen'[v] = seen[v] /\ audience'[v] = audience[v]
    BY <1>0, <1>10 DEF PushEnd
  <2> QED
    BY <1>6, <2>1 DEF ReachedBy
<1>11. CASE UNCHANGED vars
  BY <1>4, <1>11 DEF vars
<1> QED
  BY <1>1, <1>2, <1>3, <1>4, <1>5, <1>7, <1>8, <1>9, <1>10, <1>11 DEF Next, Reader, Delete, Push

LEMMA InvariantInit == Gentle /\ Init => IInv
<1> SUFFICES ASSUME Gentle, Init PROVE IInv
  OBVIOUS
<1>1. Typed /\ OneExit /\ Loaded /\ Emptied
  BY TypedInit, EmptiedInit
<1>2. Registered
  BY BucketAssumption DEF BucketAssumption, Init, Registered, RegSession, RegUser, Deleter, InRoom
<1>3. Stamped
  BY DEF Init, Stamped, StampSession
<1>4. Counted
  <2>1. \A o \in Room : ~Retired(o) /\ Pending(o) = 0
    BY DEF Init, Retired, Pending, Deleting
  <2> QED
    BY <2>1, FS_EmptySet DEF Init, Counted
<1>5. Forward /\ Backward /\ Walked /\ Reached
  BY DEF Init, Forward, Backward, Walked, Reached, ReachedBy
<1> QED
  BY <1>1, <1>2, <1>3, <1>4, <1>5 DEF IInv

LEMMA InvariantNext == Gentle /\ IInv /\ [Next]_vars => IInv'
<1> SUFFICES ASSUME Gentle, IInv, [Next]_vars PROVE IInv'
  OBVIOUS
<1>1. Typed' /\ OneExit' /\ Loaded' /\ Emptied'
  BY TypedNext, OneExitNext, EmptiedNext DEF IInv, Gentle
<1>2. Registered'
  BY RegisteredNext DEF IInv, Gentle
<1> QED
  BY <1>1, <1>2, StampedNext, CountedNext, ForwardNext, BackwardNext, WalkedNext, ReachedNext DEF IInv

\* The list of a room at rest is its members in order, seen from both ends.
LEMMA ListFollows == IInv => ListWellFormed
<1> SUFFICES ASSUME IInv, NEW o \in Room, AtRest(o)
             PROVE  /\ head[o] = Nil <=> linked[o] = {}
                    /\ \A x \in linked[o] :
                         /\ head[o] = x <=> \A y \in linked[o] : stamp[y] <= stamp[x]
                         /\ prev[x] = Nil <=> head[o] = x
                         /\ \A y \in linked[o] : next[x] = y <=> prev[y] = x
                         /\ \A y \in linked[o] : stamp[y] < stamp[x] =>
                              next[x] \in linked[o] /\ stamp[y] <= stamp[next[x]] /\ stamp[next[x]] < stamp[x]
                         /\ next[x] \in linked[o] \cup {Nil}
  BY DEF ListWellFormed
<1>0. /\ linked[o] \subseteq Sessions /\ stamp \in [Sessions -> Nat] /\ head[o] \in Sessions \cup {Nil}
      /\ next \in [Sessions -> Sessions \cup {Nil}] /\ prev \in [Sessions -> Sessions \cup {Nil}]
  BY DEF IInv, Typed, TypeOK
<1>00. Nil \notin Sessions
  BY BucketAssumption DEF BucketAssumption
<1>01. /\ \A x \in linked[o] : stamp[x] # 0 /\ chRoom[x] = o
       /\ \A x, y \in Sessions : stamp[x] = stamp[y] /\ stamp[x] # 0 => x = y
  BY <1>0 DEF IInv, Stamped, StampSession
<1>1. \A x \in linked[o] : ~Skipped(x)
  <2> SUFFICES ASSUME NEW x \in linked[o], NEW d \in Sessions, pc[d] = "unlinkPrev", stamp[d] # 0, next[d] = x
               PROVE  FALSE
    BY DEF Skipped
  <2>1. chRoom[d] = o
    BY <1>0, <1>00, <1>01 DEF IInv, Forward
  <2>2. room[d] = o
    BY <2>1, Deletes DEF IInv, InRoom, Deleter
  <2> QED
    BY <2>2 DEF AtRest, Deleting, InRoom
<1>2. /\ head[o] = Nil => linked[o] = {}
      /\ head[o] # Nil => head[o] \in linked[o]
      /\ \A x \in linked[o] : stamp[x] <= stamp[head[o]]
  BY DEF IInv, Forward
<1>3. ASSUME NEW x \in linked[o]
      PROVE  /\ next[x] # Nil => stamp[next[x]] < stamp[x]
             /\ \A y \in linked[o] : stamp[y] < stamp[x] => next[x] # Nil /\ stamp[y] <= stamp[next[x]]
             /\ next[x] \in linked[o] \cup {Nil}
  BY <1>0, <1>01 DEF IInv, Forward
<1>4. ASSUME NEW x \in linked[o]
      PROVE  IF prev[x] = Nil THEN head[o] = x ELSE prev[x] \in linked[o] /\ next[prev[x]] = x
  BY <1>1 DEF IInv, Backward
<1>5. ASSUME NEW x \in linked[o]
      PROVE  head[o] = x <=> \A y \in linked[o] : stamp[y] <= stamp[x]
  <2>1. ASSUME \A y \in linked[o] : stamp[y] <= stamp[x]
        PROVE  head[o] = x
    <3>1. head[o] \in linked[o] /\ stamp[head[o]] <= stamp[x] /\ stamp[x] <= stamp[head[o]]
      BY <1>2, <2>1
    <3> QED
      BY <1>0, <1>01, <3>1
  <2> QED
    BY <1>2, <2>1
\* Two members with the same next member would be each newer than the other.
<1>6. ASSUME NEW x \in linked[o], NEW y \in linked[o], next[x] = y
      PROVE  prev[y] = x
  <2>1. prev[y] # Nil
    <3>1. stamp[y] < stamp[x]
      BY <1>0, <1>00, <1>3, <1>6
    <3> QED
      BY <1>0, <1>2, <1>4, <3>1
  <2>2. prev[y] \in linked[o] /\ next[prev[y]] = y
    BY <1>4, <2>1
  <2>3. stamp[y] < stamp[x] /\ stamp[y] < stamp[prev[y]]
    BY <1>0, <1>00, <1>3, <1>6, <2>2
  <2>4. ~(stamp[x] < stamp[prev[y]]) /\ ~(stamp[prev[y]] < stamp[x])
    <3>1. stamp[x] < stamp[prev[y]] => stamp[x] <= stamp[y]
      BY <1>3, <2>2
    <3>2. stamp[prev[y]] < stamp[x] => stamp[prev[y]] <= stamp[y]
      BY <1>3, <1>6, <2>2
    <3> QED
      BY <1>0, <2>2, <2>3, <3>1, <3>2
  <2> QED
    BY <1>0, <1>01, <2>2, <2>4
<1>7. ASSUME NEW x \in linked[o]
      PROVE  prev[x] = Nil <=> head[o] = x
  <2>1. ASSUME prev[x] # Nil
        PROVE  head[o] # x
    <3>1. prev[x] \in linked[o] /\ stamp[x] < stamp[prev[x]]
      BY <1>0, <1>00, <1>3, <1>4, <2>1
    <3> QED
      BY <1>0, <1>2, <3>1
  <2> QED
    BY <1>4, <2>1
<1>8. ASSUME NEW x \in linked[o], NEW y \in linked[o], prev[y] = x
      PROVE  next[x] = y
  BY <1>0, <1>00, <1>4, <1>8
<1>9. \A x \in linked[o] : head[o] # Nil
  BY <1>2
<1> QED
  BY <1>2, <1>3, <1>5, <1>6, <1>7, <1>8, <1>9

\* A closed connection is past every state in which the map or a list holds one.
LEMMA ClosedFollows == IInv => ClosedForgotten
<1> SUFFICES ASSUME IInv, NEW s \in Sessions, pc[s] = "closed"
             PROVE  (\A u \in Users : chs[u] # s) /\ (\A o \in Room : s \notin linked[o])
  BY DEF ClosedForgotten
<1>1. Nil \notin Sessions
  BY BucketAssumption DEF BucketAssumption
<1> QED
  BY <1>1 DEF IInv, Registered, RegUser, InMap, Stamped, StampSession, InList

\* The four theorems below are about gentle buckets only, of any number of connections,
\* users, rooms and pushing goroutines: one reader deletes at a time, and every connection
\* sends one connect message, for a room, with a user no other connection has (Gentle).
\* The code enforces none of it.  Then the inductive invariant holds.
THEOREM InvariantHolds == Gentle => (Spec => []IInv)
<1> SUFFICES ASSUME Gentle PROVE Spec => []IInv
  OBVIOUS
<1>1. Init => IInv
  BY InvariantInit
<1>2. IInv /\ [Next]_vars => IInv'
  BY InvariantNext
<1> QED
  BY <1>1, <1>2, PTL DEF Spec

\* In a gentle bucket a room's list is well formed whenever nobody is deleting from it,
\* although a deletion splices it under the shared lock, beside walks of it.
THEOREM RoomIntegrity == Gentle => (Spec => []ListWellFormed)
BY InvariantHolds, ListFollows, PTL

\* In a gentle bucket a push misses no member, although one Channel after the other
\* leaves under it.  It may when two leave at once.
THEOREM PushMissesNobody == Gentle => (Spec => []PushComplete)
<1>1. IInv => PushComplete
  BY DEF IInv, Walked, PushComplete
<1> QED
  BY <1>1, InvariantHolds, PTL

\* In a gentle bucket a closed connection is in no map and in no list.  One that joined
\* no room would stay in the map: its reader skips the clean-up.
THEOREM ClosedIsForgotten == Gentle => (Spec => []ClosedForgotten)
BY InvariantHolds, ClosedFollows, PTL
-----------------------------------------------------------------------------
(* Readers that leave together: the count may stay too high, never too low. *)

LEMMA OwedIsFinite ==
  ASSUME NEW o \in Room
  PROVE  /\ IsFiniteSet(Owed(o)) /\ Cardinality(Owed(o)) \in Nat
         /\ Cardinality(Owed(o)) = 0 <=> Owed(o) = {}
<1>1. Owed(o) \subseteq Sessions
  BY DEF Owed
<1> QED
  BY <1>1, BucketAssumption, FS_Subset, FS_CardinalityType, FS_EmptySet DEF BucketAssumption

\* A room that retired stays retired: nobody decrements from more than one.
LEMMA RetiredLasts ==
  ASSUME Tallied, [Next]_vars, NEW o \in Room, Retired(o)
  PROVE  Retired(o)' /\ linked'[o] \subseteq linked[o]
<1> USE DEF Typed, TypeOK, Goto, Retired, Deleting,
            bucketVars, roomVars, histVars, linkVars, sessVars, readVars, pushVars
<1> DEFINE Kept == Retired(o)' /\ linked'[o] \subseteq linked[o]
<1>0. Typed /\ count[o] <= 0
  BY DEF Tallied, Tally
<1>1. ASSUME NEW s \in Sessions, RoomPut(s)
      PROVE  Kept
  BY <1>0, <1>1 DEF RoomPut, RoomLocked, Dropped, InRoom
<1>2. ASSUME NEW s \in Sessions, Lookup(s)
      PROVE  Kept
  BY <1>0, <1>2 DEF Lookup
<1>3. ASSUME NEW s \in Sessions, DecStore(s)
      PROVE  Kept
  <2>1. room[s] = o => load[s] <= 1
    BY <1>3, Deletes DEF DecStore, Tallied, Tally, Deleter, InRoom
  <2>2. /\ drop' = drop /\ room' = room /\ linked' = linked /\ pc' = [pc EXCEPT ![s] = "dropClear"]
        /\ pc[s] = "decStore" /\ count' = [count EXCEPT ![room[s]] = load[s] - 1]
    BY <1>3 DEF DecStore, Decremented
  <2>3. count'[o] <= 0
    BY <1>0, <2>1, <2>2
  <2> QED
    BY <1>0, <2>2, <2>3
<1>4. ASSUME NEW s \in Sessions, DropClear(s)
      PROVE  Kept
  BY <1>0, <1>4 DEF DropClear
<1>5. ASSUME NEW s \in Sessions, DropTest(s)
      PROVE  Kept
  BY <1>0, <1>5 DEF DropTest, Exhausted
<1>6. ASSUME NEW s \in Sessions, Unlock(s) \/ Forget(s) \/ Evict(s) \/ Close(s)
      PROVE  Kept
  BY <1>0, <1>6 DEF Unlock, Forget, Evict, Close
<1>7. ASSUME NEW s \in Sessions, UnlinkNext(s) \/ UnlinkPrev(s) \/ DecLoad(s)
      PROVE  Kept
  BY <1>0, <1>7 DEF UnlinkNext, UnlinkPrev, DecLoad
<1>8. ASSUME NEW s \in Sessions,
             \/ \E u \in Users, r \in RoomIds \cup {NoRoom} : Join(s, u, r)
             \/ PutNoRoom(s) \/ PutRoom(s) \/ RoomRefused(s) \/ Quit(s) \/ Malformed(s)
      PROVE  Kept
  <2>1. \E l : pc' = [pc EXCEPT ![s] = l]
    BY <1>8 DEF Join, PutNoRoom, PutRoom, RoomRefused, Quit, Malformed, Deferred
  <2>2. pc[s] # "dropTest" /\ UNCHANGED <<roomVars, histVars, room>>
    BY <1>8 DEF Join, PutNoRoom, PutRoom, RoomRefused, Quit, Malformed, Deferred
  <2> QED
    BY <1>0, <2>1, <2>2
<1>9. ASSUME NEW w \in Routines, Push(w)
      PROVE  Kept
  BY <1>9 DEF Push, TakeMsg, PushBegin, PushNext, PushEnd
<1>10. CASE UNCHANGED vars
  BY <1>10 DEF vars
<1> QED
  BY <1>1, <1>2, <1>3, <1>4, <1>5, <1>6, <1>7, <1>8, <1>9, <1>10 DEF Next, Reader, Delete

\* What a room's tally depends on.
LEMMA TallyFrame ==
  ASSUME NEW o \in Room, Tally(o), Owed(o)' = Owed(o), count'[o] = count[o], Retired(o)' <=> Retired(o),
         \A x \in Sessions : pc'[x] = "decStore" /\ chRoom'[x] = o =>
           pc[x] = "decStore" /\ chRoom[x] = o /\ load'[x] = load[x]
  PROVE  Tally(o)'
BY DEF Tally

\* Most steps of a reader move only its control state.
LEMMA Moves ==
  ASSUME Tallied, [Next]_vars, NEW s \in Sessions, NEW l, pc' = [pc EXCEPT ![s] = l],
         UNCHANGED <<stamp, linked, count, drop, chRoom>>,
         \A x \in Sessions : x # s => room'[x] = room[x] /\ load'[x] = load[x],
         l \notin {"decStore", "dropTest", "roomPut"}, pc[s] # "dropTest",
         pc[s] = "roomPut" => Retired(chRoom[s]),
         stamp[s] # 0 => (l \in InList <=> pc[s] \in InList) /\ (l \in InTally <=> pc[s] \in InTally)
  PROVE  (\A x \in Sessions : Belongs(x)') /\ (\A o \in Room : Tally(o)')
<1>1. /\ chRoom \in [Sessions -> Room \cup {Nil}] /\ linked \in [Room -> SUBSET Sessions]
      /\ DOMAIN pc = Sessions /\ Nil \notin Room
  BY BucketAssumption DEF BucketAssumption, Room, Tallied, Typed, TypeOK
<1>2. pc'[s] = l /\ \A x \in Sessions : x # s => pc'[x] = pc[x]
  BY <1>1
<1>3. \A o \in Room : Retired(o)' <=> Retired(o)
  BY <1>1, <1>2 DEF Retired, Deleting
<1>4. ASSUME NEW x \in Sessions
      PROVE  Belongs(x)'
  <2>1. Belongs(x)
    BY DEF Tallied
  <2>2. chRoom[x] # Nil => (Retired(chRoom[x])' <=> Retired(chRoom[x]))
    BY <1>1, <1>3
  <2>3. CASE x = s
    BY <1>2, <2>1, <2>2, <2>3 DEF Belongs
  <2>4. CASE x # s
    BY <1>2, <2>1, <2>2, <2>4 DEF Belongs
  <2> QED
    BY <2>3, <2>4
<1>5. ASSUME NEW o \in Room
      PROVE  Tally(o)'
  <2>1. Owed(o)' = Owed(o)
    BY <1>2 DEF Owed
  <2>2. Tally(o)
    BY DEF Tallied
  <2> QED
    BY <1>2, <1>3, <2>1, <2>2, TallyFrame
<1> QED
  BY <1>4, <1>5
\* Of the steps of a reader, these move only its control state.
LEMMA MovingSteps ==
  ASSUME Own, Tallied, [Next]_vars, NEW s \in Sessions,
         \/ \E u \in Users, r \in RoomIds \cup {NoRoom} : Join(s, u, r)
         \/ PutNoRoom(s) \/ RoomRefused(s) \/ Quit(s) \/ Malformed(s)
         \/ Lookup(s) \/ Forget(s) \/ UnlinkNext(s) \/ Evict(s) \/ Unlock(s) \/ Close(s)
  PROVE  (\A x \in Sessions : Belongs(x)') /\ (\A o \in Room : Tally(o)')
<1> USE DEF Goto, bucketVars, roomVars, histVars, linkVars, sessVars, readVars, pushVars
<1>0. /\ DOMAIN room = Sessions /\ DOMAIN load = Sessions /\ DOMAIN pc = Sessions
      /\ Nil \notin Room /\ Nil \notin Users /\ Nil \notin Sessions
  BY BucketAssumption DEF BucketAssumption, Room, Tallied, Typed, TypeOK
<1>1. stamp[s] # 0 => chRoom[s] # Nil /\ chUser[s] # Nil /\ joins[s] = 1 /\ pc[s] # "roomPut"
  BY DEF Tallied, Belongs, Registered, RegSession
<1>2. ASSUME NEW u \in Users, NEW r \in RoomIds \cup {NoRoom}, Join(s, u, r)
      PROVE  stamp[s] = 0 /\ pc' = [pc EXCEPT ![s] = "put"] /\ pc[s] = "read"
             /\ UNCHANGED <<stamp, linked, count, drop, chRoom, room, load>>
  <2>1. joins[s] # 1
    BY <1>2 DEF Join, Own, Tallied, Typed, TypeOK
  <2> QED
    BY <1>1, <1>2, <2>1 DEF Join
<1>3. ~PutNoRoom(s)
  <2>1. SUFFICES ASSUME PutNoRoom(s) PROVE FALSE
    OBVIOUS
  <2>2. arg[s] \in Users \X (RoomIds \cup {NoRoom}) /\ <<s, arg[s][1], arg[s][2]>> \in Request
    BY <2>1 DEF PutNoRoom, Tallied, Typed, Registered, RegSession
  <2> QED
    BY <2>1, <2>2, OwnUser DEF PutNoRoom
<1>4. ASSUME RoomRefused(s)
      PROVE  /\ stamp[s] = 0 /\ Retired(chRoom[s]) /\ pc[s] = "roomPut"
             /\ \E l \in {"read", "lookup"} : pc' = [pc EXCEPT ![s] = l]
             /\ UNCHANGED <<stamp, linked, count, drop, chRoom, room, load>>
  BY <1>1, <1>4 DEF RoomRefused, Dropped, Retired
<1>5. ASSUME Quit(s) \/ Malformed(s)
      PROVE  /\ pc[s] = "read" /\ UNCHANGED <<stamp, linked, count, drop, chRoom, room, load>>
             /\ \E l \in {"lookup", "closed", "panic"} :
                  pc' = [pc EXCEPT ![s] = l] /\ (stamp[s] # 0 => l = "lookup")
  BY <1>1, <1>5 DEF Quit, Malformed, Deferred
<1>6. ASSUME Lookup(s)
      PROVE  /\ pc[s] = "lookup" /\ UNCHANGED <<stamp, linked, count, drop, chRoom, load>>
             /\ \A x \in Sessions : x # s => room'[x] = room[x]
             /\ pc' = [pc EXCEPT ![s] = "forget"]
  <2>1. chUser[s] \in Users /\ chs[chUser[s]] = s
    BY <1>0, <1>6 DEF Lookup, Tallied, Typed, Registered, RegSession, InMap
  <2> QED
    BY <1>0, <1>6, <2>1 DEF Lookup
<1>7. ASSUME Forget(s)
      PROVE  /\ pc[s] = "forget" /\ pc' = [pc EXCEPT ![s] = "unlinkNext"]
             /\ UNCHANGED <<stamp, linked, count, drop, chRoom, room, load>>
  BY <1>7, Deletes DEF Forget, Tallied, Deleter
<1>8. ASSUME UnlinkNext(s)
      PROVE  /\ pc[s] = "unlinkNext" /\ pc' = [pc EXCEPT ![s] = "unlinkPrev"]
             /\ UNCHANGED <<stamp, linked, count, drop, chRoom, room, load>>
  BY <1>8 DEF UnlinkNext
<1>9. ASSUME Evict(s) \/ Unlock(s) \/ Close(s)
      PROVE  /\ pc[s] \in {"evict", "unlock", "disconnect"} /\ UNCHANGED <<stamp, linked, count, drop, chRoom>>
             /\ \A x \in Sessions : x # s => room'[x] = room[x] /\ load'[x] = load[x]
             /\ \E l \in {"unlock", "disconnect", "closed", "panic"} : pc' = [pc EXCEPT ![s] = l]
  BY <1>0, <1>9 DEF Evict, Unlock, Close
<1>10. /\ pc[s] # "dropTest" /\ (pc[s] = "roomPut" => Retired(chRoom[s]))
       /\ UNCHANGED <<stamp, linked, count, drop, chRoom>>
       /\ \A x \in Sessions : x # s => room'[x] = room[x] /\ load'[x] = load[x]
  BY <1>2, <1>3, <1>4, <1>5, <1>6, <1>7, <1>8, <1>9
<1>11. PICK l \in {"put", "read", "lookup", "closed", "panic", "forget", "unlinkNext", "unlinkPrev",
                   "unlock", "disconnect"} :
         /\ pc' = [pc EXCEPT ![s] = l]
         /\ stamp[s] # 0 => (l \in InList <=> pc[s] \in InList) /\ (l \in InTally <=> pc[s] \in InTally)
  BY <1>2, <1>3, <1>4, <1>5, <1>6, <1>7, <1>8, <1>9 DEF InList, InTally
<1>12. l \notin {"decStore", "dropTest", "roomPut"}
  OBVIOUS
<1> QED
  BY <1>10, <1>11, <1>12, Moves
\* A connection may be unlinked twice as late as it is no longer counted, and a
\* decrement never stores less than what is left.
LEMMA TalliedNext ==
  ASSUME Own, Tallied, [Next]_vars
  PROVE  (\A x \in Sessions : Belongs(x)') /\ (\A o \in Room : Tally(o)')
<1> USE DEF Goto, bucketVars, roomVars, histVars, linkVars, sessVars, readVars, pushVars
<1> DEFINE Kept == (\A x \in Sessions : Belongs(x)') /\ (\A o \in Room : Tally(o)')
<1>0. /\ chRoom \in [Sessions -> Room \cup {Nil}] /\ linked \in [Room -> SUBSET Sessions]
      /\ stamp \in [Sessions -> Nat] /\ puts \in Nat /\ count \in [Room -> Int]
      /\ drop \in [Room -> BOOLEAN] /\ load \in [Sessions -> Int] /\ room \in [Sessions -> Room \cup {Nil}]
      /\ DOMAIN pc = Sessions /\ Nil \notin Room
  BY BucketAssumption DEF BucketAssumption, Room, Tallied, Typed, TypeOK
<1>00. (\A x \in Sessions : Belongs(x)) /\ (\A o \in Room : Tally(o))
  BY DEF Tallied
<1>01. \A o \in Room : Retired(o) => Retired(o)'
  BY RetiredLasts
\* What keeps Belongs when a reader leaves its Room and its stamp alone.
<1>02. ASSUME NEW s \in Sessions, NEW l, pc' = [pc EXCEPT ![s] = l], pc[s] # "roomPut", l # "roomPut",
              UNCHANGED <<stamp, chRoom>>,
              \A o \in Room, x \in Sessions : x # s \/ chRoom[s] # o => (x \in linked'[o] <=> x \in linked[o]),
              chRoom[s] # Nil => (s \in linked'[chRoom[s]] <=> stamp[s] # 0 /\ l \in InList)
       PROVE  \A x \in Sessions : Belongs(x)'
  <2> SUFFICES ASSUME NEW x \in Sessions PROVE Belongs(x)'
    OBVIOUS
  <2>1. Belongs(x) /\ chRoom'[x] = chRoom[x] /\ (chRoom[x] # Nil => chRoom[x] \in Room)
    BY <1>0, <1>00, <1>02
  <2>2. CASE x = s
    BY <1>0, <1>01, <1>02, <2>1, <2>2 DEF Belongs
  <2>3. CASE x # s
    BY <1>0, <1>01, <1>02, <2>1, <2>3 DEF Belongs
  <2> QED
    BY <2>2, <2>3
<1>1. ASSUME NEW s \in Sessions, UnlinkPrev(s)
      PROVE  Kept
  <2>1. pc[s] = "unlinkPrev" /\ target[s] = s /\ room[s] = chRoom[s] /\ chRoom[s] \in Room
    BY <1>0, <1>1, Deletes DEF UnlinkPrev, Tallied, Deleter, InRoom
  <2>2. /\ pc' = [pc EXCEPT ![s] = "decLoad"] /\ UNCHANGED <<stamp, count, drop, chRoom, room, load>>
        /\ linked' = [linked EXCEPT ![chRoom[s]] = @ \ {s}]
    BY <1>1, <2>1 DEF UnlinkPrev
  <2>3. \A x \in Sessions : Belongs(x)'
    BY <1>0, <1>02, <2>1, <2>2 DEF InList
  <2>4. ASSUME NEW o \in Room
        PROVE  Tally(o)'
    <3>1. Owed(o)' = Owed(o) /\ (Retired(o)' <=> Retired(o))
      BY <1>0, <2>1, <2>2 DEF Owed, InTally, InList, Retired, Deleting
    <3> QED
      BY <1>0, <1>00, <2>2, <3>1, TallyFrame
  <2> QED
    BY <2>3, <2>4
<1>2. ASSUME NEW s \in Sessions, DecLoad(s)
      PROVE  Kept
  <2>1. pc[s] = "decLoad" /\ room[s] = chRoom[s] /\ chRoom[s] \in Room
    BY <1>0, <1>2, Deletes DEF DecLoad, Tallied, Deleter, InRoom
  <2>2. /\ pc' = [pc EXCEPT ![s] = "decStore"] /\ UNCHANGED <<stamp, linked, count, drop, chRoom, room>>
        /\ load' = [load EXCEPT ![s] = count[chRoom[s]]]
    BY <1>2, <2>1 DEF DecLoad
  <2>3. \A x \in Sessions : Belongs(x)'
    BY <1>0, <1>00, <1>02, <2>1, <2>2 DEF InList, Belongs
  <2>4. ASSUME NEW o \in Room
        PROVE  Tally(o)'
    <3>1. Owed(o)' = Owed(o) /\ (Retired(o)' <=> Retired(o))
      BY <1>0, <2>1, <2>2 DEF Owed, InTally, Retired, Deleting
    <3>2. CASE o # chRoom[s]
      BY <1>0, <1>00, <2>2, <3>1, <3>2, TallyFrame
    <3>3. CASE o = chRoom[s]
      <4>1. Tally(o) /\ count'[o] = count[o] /\ count[o] \in Int
            /\ \A x \in Sessions : pc'[x] = "decStore" /\ chRoom'[x] = o =>
                 load'[x] = count[o] \/ (pc[x] = "decStore" /\ chRoom[x] = o /\ load'[x] = load[x])
        BY <1>0, <1>00, <2>2, <3>3
      <4>2. CASE Retired(o)
        BY <3>1, <4>1, <4>2 DEF Tally
      <4>3. CASE ~Retired(o)
        BY <3>1, <4>1, <4>3 DEF Tally
      <4> QED
        BY <4>2, <4>3
    <3> QED
      BY <3>2, <3>3
  <2> QED
    BY <2>3, <2>4
<1>3. ASSUME NEW s \in Sessions, DecStore(s)
      PROVE  Kept
  <2>1. pc[s] = "decStore" /\ room[s] = chRoom[s] /\ chRoom[s] \in Room
    BY <1>0, <1>3, Deletes DEF DecStore, Tallied, Deleter, InRoom
  <2>2. /\ pc' = [pc EXCEPT ![s] = "dropClear"] /\ UNCHANGED <<stamp, linked, drop, chRoom, room, load>>
        /\ count' = [count EXCEPT ![chRoom[s]] = load[s] - 1]
    BY <1>3, <2>1 DEF DecStore, Decremented
  <2>3. \A x \in Sessions : Belongs(x)'
    BY <1>0, <1>00, <1>02, <2>1, <2>2 DEF InList, Belongs
  <2>4. ASSUME NEW o \in Room, o # chRoom[s]
        PROVE  Tally(o)'
    <3>1. Owed(o)' = Owed(o) /\ (Retired(o)' <=> Retired(o)) /\ count'[o] = count[o]
      BY <1>0, <2>1, <2>2, <2>4 DEF Owed, InTally, Retired, Deleting
    <3> QED
      BY <1>0, <1>00, <2>2, <3>1, TallyFrame
  <2>5. ASSUME NEW o \in Room, o = chRoom[s]
        PROVE  Tally(o)'
    <3>1. Owed(o)' = Owed(o) \ {s}
      BY <1>0, <2>1, <2>2 DEF Owed, InTally, InList
    <3>2. /\ count'[o] = load[s] - 1 /\ load[s] \in Int
          /\ \A x \in Sessions : pc'[x] = "decStore" /\ chRoom'[x] = o =>
               x # s /\ pc[x] = "decStore" /\ chRoom[x] = o /\ load'[x] = load[x] /\ load[x] \in Int
      BY <1>0, <2>1, <2>2, <2>5
    <3>3. CASE Retired(o)
      <4>1. Owed(o)' = {} /\ Retired(o)' /\ load[s] <= 1
        BY <1>00, <1>01, <2>1, <2>5, <3>1, <3>3 DEF Tally
      <4> QED
        BY <1>00, <3>2, <3>3, <4>1 DEF Tally
    <3>4. CASE ~Retired(o)
      <4>1. s \in Owed(o) /\ Cardinality(Owed(o)') = Cardinality(Owed(o)) - 1 /\ Cardinality(Owed(o)) \in Nat
            /\ Cardinality(Owed(o)') \in Nat /\ (Cardinality(Owed(o)') = 0 => Owed(o)' = {})
        <5>1. s \in Owed(o)
          BY <1>0, <1>00, <2>1, <2>5, <3>4 DEF Owed, InTally, Belongs
        <5>2. /\ IsFiniteSet(Owed(o)) /\ Cardinality(Owed(o)) \in Nat /\ Cardinality(Owed(o)) # 0
              /\ Cardinality(Owed(o) \ {s}) = Cardinality(Owed(o)) - 1 /\ IsFiniteSet(Owed(o) \ {s})
          BY <5>1, OwedIsFinite, FS_RemoveElement
        <5>3. Cardinality(Owed(o) \ {s}) = 0 => Owed(o) \ {s} = {}
          BY <5>2, FS_EmptySet
        <5> QED
          BY <3>1, <5>1, <5>2, <5>3
      <4>2. load[s] >= Cardinality(Owed(o)) /\ \A x \in Sessions :
              pc'[x] = "decStore" /\ chRoom'[x] = o => x \in Owed(o)' /\ load'[x] >= Cardinality(Owed(o))
        <5>1. \A x \in Sessions : pc[x] = "decStore" /\ chRoom[x] = o =>
                x \in Owed(o) /\ load[x] >= Cardinality(Owed(o))
          BY <1>0, <1>00, <3>4 DEF Owed, InTally, Belongs, Tally
        <5> QED
          BY <2>1, <2>5, <3>1, <3>2, <5>1
      <4>3. CASE Retired(o)'
        <5>1. count'[o] <= 0
          <6>1. ~drop'[o]
            BY <2>2, <3>4 DEF Retired
          <6> QED
            BY <4>3, <6>1 DEF Retired
        <5>2. Cardinality(Owed(o)') = 0
          BY <3>2, <4>1, <4>2, <5>1
        <5>3. Owed(o)' = {}
          BY <4>1, <5>2
        <5> QED
          BY <4>2, <4>3, <5>1, <5>3 DEF Tally
      <4>4. CASE ~Retired(o)'
        BY <3>2, <4>1, <4>2, <4>4 DEF Tally
      <4> QED
        BY <4>3, <4>4
    <3> QED
      BY <3>3, <3>4
  <2> QED
    BY <2>3, <2>4, <2>5
<1>4. ASSUME NEW s \in Sessions, DropClear(s)
      PROVE  Kept
  <2>1. pc[s] = "dropClear" /\ room[s] = chRoom[s] /\ chRoom[s] \in Room
    BY <1>0, <1>4, Deletes DEF DropClear, Tallied, Deleter, InRoom
  <2>2. /\ pc' = [pc EXCEPT ![s] = "dropTest"] /\ UNCHANGED <<stamp, linked, count, chRoom, room, load>>
        /\ drop' = [drop EXCEPT ![chRoom[s]] = FALSE]
    BY <1>4, <2>1 DEF DropClear
  <2>3. \A x \in Sessions : Belongs(x)'
    BY <1>0, <1>00, <1>02, <2>1, <2>2 DEF InList, Belongs
  <2>4. ASSUME NEW o \in Room
        PROVE  Tally(o)'
    <3>1. Owed(o)' = Owed(o)
      BY <1>0, <2>1, <2>2 DEF Owed, InTally, InList
    <3>2. \A x \in Sessions : pc'[x] = "decStore" /\ chRoom'[x] = o =>
            pc[x] = "decStore" /\ chRoom[x] = o /\ load'[x] = load[x]
      BY <1>0, <2>2
    <3>3. CASE Retired(o)' <=> Retired(o)
      BY <1>00, <2>2, <3>1, <3>2, <3>3, TallyFrame
    <3>4. CASE Retired(o)' /\ ~Retired(o)
      <4>1. count[o] <= 0
        <5>1. ~drop'[o]
          BY <1>0, <2>1, <2>2, <3>4 DEF Retired
        <5> QED
          BY <2>2, <3>4, <5>1 DEF Retired
      <4>2. Owed(o) = {}
        <5>1. count[o] >= Cardinality(Owed(o))
          BY <1>00, <3>4 DEF Tally
        <5> QED
          BY <1>0, <4>1, <5>1, OwedIsFinite
      <4>3. \A x \in Sessions : pc[x] = "decStore" /\ chRoom[x] = o => x \in Owed(o)
        BY <1>0, <1>00, <3>4 DEF Owed, InTally, Belongs
      <4> QED
        BY <2>2, <3>1, <3>2, <3>4, <4>1, <4>2, <4>3 DEF Tally
    <3> QED
      BY <1>01, <3>3, <3>4
  <2> QED
    BY <2>3, <2>4
<1>5. ASSUME NEW s \in Sessions, DropTest(s)
      PROVE  Kept
  <2>1. pc[s] = "dropTest" /\ room[s] = chRoom[s] /\ chRoom[s] \in Room
    BY <1>0, <1>5, Deletes DEF DropTest, Tallied, Deleter, InRoom
  <2>2. /\ pc' = [pc EXCEPT ![s] = "evict"] /\ UNCHANGED <<stamp, linked, count, chRoom, room, load>>
        /\ drop' = [drop EXCEPT ![chRoom[s]] = @ \/ count[chRoom[s]] <= 0]
    BY <1>5, <2>1 DEF DropTest, Exhausted
  <2>3. \A x \in Sessions : Belongs(x)'
    BY <1>0, <1>00, <1>02, <2>1, <2>2 DEF InList, Belongs
  <2>4. ASSUME NEW o \in Room
        PROVE  Tally(o)'
    <3>1. Owed(o)' = Owed(o)
      BY <1>0, <2>1, <2>2 DEF Owed, InTally, InList
    <3>2. Retired(o)' => Retired(o)
      BY <1>0, <2>1, <2>2 DEF Retired, Deleting
    <3>3. \A x \in Sessions : pc'[x] = "decStore" /\ chRoom'[x] = o =>
            pc[x] = "decStore" /\ chRoom[x] = o /\ load'[x] = load[x]
      BY <1>0, <2>2
    <3> QED
      BY <1>00, <1>01, <2>2, <3>1, <3>2, <3>3, TallyFrame
  <2> QED
    BY <2>3, <2>4
<1>6. ASSUME NEW s \in Sessions, PutRoom(s)
      PROVE  Kept
  <2>1. pc[s] = "put" /\ stamp[s] = 0
    <3>1. pc[s] = "put" /\ chUser[s] = Nil /\ chRoom[s] = Nil
      BY <1>6 DEF PutRoom, Tallied, Registered, RegSession
    <3> QED
      BY <1>00, <3>1 DEF Belongs
  <2>2. /\ pc' = [pc EXCEPT ![s] = "roomPut"] /\ UNCHANGED <<stamp, linked, drop, count, room, load>>
        /\ \A x \in Sessions : x # s => chRoom'[x] = chRoom[x]
    BY <1>0, <1>6 DEF PutRoom
  <2>3. ASSUME NEW x \in Sessions
        PROVE  Belongs(x)'
    <3>1. Belongs(x) /\ (chRoom[x] # Nil => chRoom[x] \in Room)
      BY <1>0, <1>00
    <3>2. CASE x = s
      BY <1>0, <1>01, <2>1, <2>2, <3>1, <3>2 DEF Belongs
    <3>3. CASE x # s
      BY <1>0, <1>01, <2>2, <3>1, <3>3 DEF Belongs
    <3> QED
      BY <3>2, <3>3
  <2>4. ASSUME NEW o \in Room
        PROVE  Tally(o)'
    <3>1. Owed(o)' = Owed(o)
      BY <1>0, <2>1, <2>2 DEF Owed
    <3>2. Retired(o)' <=> Retired(o)
      BY <1>0, <2>1, <2>2 DEF Retired, Deleting
    <3>3. \A x \in Sessions : pc'[x] = "decStore" /\ chRoom'[x] = o =>
            pc[x] = "decStore" /\ chRoom[x] = o /\ load'[x] = load[x]
      BY <1>0, <2>2
    <3> QED
      BY <1>00, <2>2, <3>1, <3>2, <3>3, TallyFrame
  <2> QED
    BY <2>3, <2>4
<1>7. ASSUME NEW s \in Sessions, RoomPut(s)
      PROVE  Kept
  <2>0. PICK o \in Room : o = chRoom[s]
    BY <1>7 DEF RoomPut, Tallied, Typed
  <2>1. pc[s] = "roomPut" /\ stamp[s] = 0 /\ ~Retired(o) /\ \A x \in Sessions : pc[x] = "decStore" => chRoom[x] # o
    <3>1. pc[s] = "roomPut" /\ ~drop[o] /\ \A x \in Sessions : pc[x] \in InRoom => room[x] # o
      BY <1>7, <2>0 DEF RoomPut, Dropped, RoomLocked
    <3>2. \A x \in Sessions : pc[x] = "decStore" => room[x] = chRoom[x]
      BY Deletes DEF Tallied, Deleter, InRoom
    <3>3. stamp[s] = 0
      BY <1>00, <3>1 DEF Belongs
    <3> QED
      BY <3>1, <3>2, <3>3 DEF Retired, Deleting, InRoom
  <2>2. /\ pc' = [pc EXCEPT ![s] = "read"] /\ UNCHANGED <<drop, chRoom, room, load>>
        /\ stamp' = [stamp EXCEPT ![s] = puts + 1] /\ count' = [count EXCEPT ![o] = @ + 1]
        /\ linked' = [linked EXCEPT ![o] = @ \cup {s}]
    BY <1>7, <2>0 DEF RoomPut
  <2>3. ASSUME NEW x \in Sessions
        PROVE  Belongs(x)'
    <3>1. Belongs(x) /\ (chRoom[x] # Nil => chRoom[x] \in Room)
      BY <1>0, <1>00
    <3>2. CASE x = s
      BY <1>0, <1>01, <2>0, <2>1, <2>2, <3>1, <3>2 DEF Belongs, InList
    <3>3. CASE x # s
      BY <1>0, <1>01, <2>2, <3>1, <3>3 DEF Belongs
    <3> QED
      BY <3>2, <3>3
  <2>4. ASSUME NEW p \in Room, p # o
        PROVE  Tally(p)'
    <3>1. Owed(p)' = Owed(p) /\ count'[p] = count[p]
      BY <1>0, <2>0, <2>1, <2>2, <2>4 DEF Owed
    <3>2. Retired(p)' <=> Retired(p)
      BY <1>0, <2>1, <2>2, <2>4 DEF Retired, Deleting
    <3>3. \A x \in Sessions : pc'[x] = "decStore" /\ chRoom'[x] = p =>
            pc[x] = "decStore" /\ chRoom[x] = p /\ load'[x] = load[x]
      BY <1>0, <2>2
    <3> QED
      BY <1>00, <3>1, <3>2, <3>3, TallyFrame
  <2>5. Tally(o)'
    <3>1. ~Retired(o)' /\ \A x \in Sessions : ~(pc'[x] = "decStore" /\ chRoom'[x] = o)
      <4>1. \A x \in Sessions : pc[x] = "dropTest" => room[x] # o
        BY <1>7, <2>0 DEF RoomPut, RoomLocked, InRoom
      <4> QED
        BY <1>0, <2>1, <2>2, <4>1 DEF Retired, Deleting
    <3>2. Owed(o)' = Owed(o) \cup {s} /\ s \notin Owed(o)
      BY <1>0, <2>0, <2>1, <2>2 DEF Owed, InTally, InList
    <3>3. Cardinality(Owed(o)') = Cardinality(Owed(o)) + 1 /\ Cardinality(Owed(o)) \in Nat
      BY <3>2, OwedIsFinite, FS_AddElement
    <3>4. count'[o] = count[o] + 1 /\ count[o] >= Cardinality(Owed(o)) /\ count[o] \in Int
      BY <1>0, <1>00, <2>1, <2>2 DEF Tally
    <3> QED
      BY <3>1, <3>3, <3>4 DEF Tally
  <2> QED
    BY <2>3, <2>4, <2>5
<1>8. CASE UNCHANGED <<pc, stamp, linked, count, drop, chRoom, room, load>>
  BY <1>8 DEF Tallied, Belongs, Tally, Owed, Retired, Deleting
<1>9. ASSUME NEW w \in Routines, Push(w)
      PROVE  UNCHANGED <<pc, stamp, linked, count, drop, chRoom, room, load>>
  BY <1>9 DEF Push, TakeMsg, PushBegin, PushNext, PushEnd
<1> QED
  BY <1>1, <1>2, <1>3, <1>4, <1>5, <1>6, <1>7, <1>8, <1>9, MovingSteps DEF Next, Reader, Delete, vars

LEMMA TalliedHolds == Own => (Spec => []Tallied)
<1> SUFFICES ASSUME Own PROVE Spec => []Tallied
  OBVIOUS
<1>1. ASSUME Init
      PROVE  Tallied
  <2>1. Typed /\ Registered
    BY <1>1, TypedInit, BucketAssumption DEF BucketAssumption, Init, Registered, RegSession, RegUser,
       Deleter, InRoom
  <2>2. \A s \in Sessions : Belongs(s)
    BY <1>1 DEF Init, Belongs
  <2>3. ASSUME NEW o \in Room
        PROVE  ~Retired(o) /\ Owed(o) = {}
    <3>1. ~drop[o] /\ \A s \in Sessions : pc[s] = "read" /\ stamp[s] = 0
      BY <1>1 DEF Init
    <3> QED
      BY <3>1 DEF Retired, Deleting, Owed
  <2>4. ASSUME NEW o \in Room
        PROVE  Tally(o)
    <3>1. count[o] = 0 /\ Cardinality(Owed(o)) = 0 /\ \A s \in Sessions : pc[s] = "read"
      BY <1>1, <2>3, FS_EmptySet DEF Init
    <3> QED
      BY <2>3, <3>1 DEF Tally
  <2> QED
    BY <2>1, <2>2, <2>4 DEF Tallied
<1>2. ASSUME Tallied, [Next]_vars
      PROVE  Tallied'
  <2>1. Typed' /\ Registered'
    BY <1>2, TypedNext, RegisteredNext DEF Tallied
  <2> QED
    BY <1>2, <2>1, TalliedNext DEF Tallied
<1> QED
  BY <1>1, <1>2, PTL DEF Spec

\* However many readers leave at once, a room with a member counts every one of them and
\* is not marked drop, if every connection keeps to its own user and joins once: a lost
\* decrement keeps an empty room, and never evicts an occupied one.
THEOREM NobodyUncounted == Own => (Spec => []MembersCounted)
<1>1. ASSUME Tallied, NEW o \in Room, linked[o] # {}
      PROVE  ~drop[o] /\ count[o] >= Cardinality(linked[o])
  <2>1. linked[o] \subseteq Owed(o)
    BY <1>1 DEF Tallied, Typed, TypeOK, Belongs, Owed, InTally
  <2>2. ~Retired(o) /\ count[o] >= Cardinality(Owed(o))
    BY <1>1, <2>1 DEF Tallied, Tally
  <2>3. Cardinality(linked[o]) <= Cardinality(Owed(o)) /\ Cardinality(linked[o]) \in Nat
    BY <2>1, OwedIsFinite, FS_Subset, FS_CardinalityType
  <2> QED
    BY <1>1, <2>2, <2>3, OwedIsFinite DEF Tallied, Typed, TypeOK, Retired
<1>2. Tallied => MembersCounted
  BY <1>1 DEF MembersCounted
<1> QED
  BY <1>2, TalliedHolds, PTL

\* Nor does such a room ever take a connection again once it is marked.
THEOREM RetiredForGood == Own => (Spec => DropFinal)
<1>1. Tallied /\ [Next]_vars => [\A o \in Room : Retired(o) => Retired(o)' /\ linked'[o] \subseteq linked[o]]_vars
  BY RetiredLasts
<1> QED
  BY <1>1, TalliedHolds, PTL DEF Spec, DropFinal
=============================================================================
