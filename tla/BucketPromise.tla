---------------------------- MODULE BucketPromise ----------------------------
(* A gentle Bucket implements Membership, for every value of the constants. *)
EXTENDS BucketProofs

\* The room a connection is in, for Membership, is the one whose list has it.
Located == \A s \in Sessions : /\ At(s) \in Room \cup {Nil}
                               /\ \A o \in Room : At(s) = o <=> s \in linked[o]

LEMMA AtIs == IInv => Located
<1> SUFFICES ASSUME IInv, NEW s \in Sessions
             PROVE  At(s) \in Room \cup {Nil} /\ \A o \in Room : At(s) = o <=> s \in linked[o]
  BY DEF Located
<1>1. chRoom[s] \in Room \cup {Nil} /\ Nil \notin Room
  BY BucketAssumption DEF BucketAssumption, Room, IInv, Typed, TypeOK
<1>2. \A o \in Room : s \in linked[o] => chRoom[s] = o
  BY DEF IInv, Stamped, StampSession
<1> QED
  BY <1>1, <1>2 DEF At

LEMMA AtIsNext == IInv' => Located'
BY AtIs, PTL

LEMMA MembersAre ==
  ASSUME IInv, NEW o \in Room
  PROVE  Promise!Members(o) = linked[o]
<1>1. linked[o] \subseteq Sessions
  BY DEF IInv, Typed, TypeOK
<1> QED
  BY <1>1, AtIs DEF Located, Promise!Members

\* The initial states map to initial states.
LEMMA PromiseInit == Init => Promise!Init
<1> SUFFICES ASSUME Init PROVE Promise!Init
  OBVIOUS
<1>1. \A s \in Sessions : At(s) = Nil /\ stamp[s] = 0
  BY DEF Init, At
<1>2. \A o \in Room : ~Retired(o)
  BY DEF Init, Retired, Deleting
<1>3. \A w \in Routines : wpc[w] # "walk"
  BY DEF Init
<1>4. audience = [w \in Routines |-> {}] /\ seen = [w \in Routines |-> {}]
  BY DEF Init
<1> QED
  BY <1>1, <1>2, <1>3, <1>4 DEF Promise!Init

\* Who is in a room changes with the lists only.
LEMMA SameAt ==
  ASSUME IInv, IInv', linked' = linked
  PROVE  [s \in Sessions |-> At(s)]' = [s \in Sessions |-> At(s)]
<1>1. Located /\ Located'
  BY AtIs, AtIsNext
<1>2. ASSUME NEW s \in Sessions
      PROVE  At(s)' = At(s)
  <2>1. At(s)' \in Room \cup {Nil} /\ \A o \in Room : At(s)' = o <=> s \in linked'[o]
    BY <1>1 DEF Located, Room
  <2>2. At(s) \in Room \cup {Nil} /\ \A o \in Room : At(s) = o <=> s \in linked[o]
    BY <1>1 DEF Located
  <2> QED
    BY <2>1, <2>2
<1> QED
  BY <1>2

\* The rooms retired change only with the mark, the count and the test of the count.
LEMMA SameRetired ==
  ASSUME UNCHANGED <<drop, count>>,
         \A s \in Sessions : /\ pc'[s] = "dropTest" <=> pc[s] = "dropTest"
                             /\ pc[s] = "dropTest" => room'[s] = room[s]
  PROVE  {o \in Room : Retired(o)}' = {o \in Room : Retired(o)}
BY DEF Retired, Deleting, Room

\* The goroutines' part of the mapping.
WalkIn(w) == IF wpc[w] = "walk" THEN wroom[w] ELSE Nil

LEMMA SameWalk ==
  ASSUME UNCHANGED <<wpc, wroom>>
  PROVE  [w \in Routines |-> WalkIn(w)]' = [w \in Routines |-> WalkIn(w)]
BY DEF WalkIn

\* The steps that change no list, no stamp, no walk and no retirement do not show.
LEMMA Stutters ==
  ASSUME IInv, IInv', UNCHANGED <<linked, stamp, pushVars>>,
         {o \in Room : Retired(o)}' = {o \in Room : Retired(o)}
  PROVE  UNCHANGED Promise!vars
<1>1. [s \in Sessions |-> At(s)]' = [s \in Sessions |-> At(s)]
  BY SameAt
<1>2. [w \in Routines |-> WalkIn(w)]' = [w \in Routines |-> WalkIn(w)]
  BY SameWalk DEF pushVars
<1> QED
  BY <1>1, <1>2 DEF Promise!vars, WalkIn, pushVars

\* Room.Put is an Enter: the room is not retired, and nobody walks its list.
LEMMA Enters ==
  ASSUME IInv, IInv', NEW s \in Sessions, RoomPut(s)
  PROVE  Promise!Next
<1> USE DEF Goto, bucketVars, roomVars, histVars, linkVars, sessVars, readVars, pushVars
<1>1. PICK o \in Room : o = chRoom[s]
  BY DEF RoomPut, IInv, Typed
<1>2. stamp[s] = 0 /\ stamp' = [stamp EXCEPT ![s] = puts + 1] /\ puts \in Nat
      /\ stamp \in [Sessions -> Nat] /\ linked' = [linked EXCEPT ![o] = @ \cup {s}]
      /\ linked \in [Room -> SUBSET Sessions]
  BY <1>1 DEF RoomPut, IInv, Typed, TypeOK, Stamped, StampSession
<1>3. o \notin {p \in Room : Retired(p)}
  BY <1>1 DEF RoomPut, RoomLocked, Dropped, Retired, Deleting, InRoom
<1>4. {p \in Room : Retired(p)}' = {p \in Room : Retired(p)}
  <2>1. UNCHANGED <<drop, room>> /\ count' = [count EXCEPT ![o] = @ + 1]
        /\ pc[s] = "roomPut" /\ pc' = [pc EXCEPT ![s] = "read"]
    BY <1>1 DEF RoomPut
  <2>2. DOMAIN pc = Sessions /\ DOMAIN count = Room
    BY DEF IInv, Typed, TypeOK
  <2>3. \A x \in Sessions : pc'[x] = "dropTest" <=> pc[x] = "dropTest"
    BY <2>1, <2>2
  <2>4. ~Deleting(o, {"dropTest"})
    BY <1>1 DEF RoomPut, RoomLocked, Deleting, InRoom
  <2>5. ASSUME NEW p \in Room
        PROVE  Retired(p)' <=> Retired(p)
    <3>1. Deleting(p, {"dropTest"})' <=> Deleting(p, {"dropTest"})
      BY <2>1, <2>3 DEF Deleting
    <3>2. CASE p = o
      BY <2>1, <2>4, <3>1, <3>2 DEF Retired
    <3>3. CASE p # o
      BY <2>1, <2>2, <3>1, <3>3 DEF Retired
    <3> QED
      BY <3>2, <3>3
  <2> QED
    BY <2>5 DEF Room
<1>5. \A w \in Routines : WalkIn(w) # o
  BY <1>1, BucketAssumption DEF RoomPut, RoomLocked, WalkIn, BucketAssumption, Room
<1>6. [w \in Routines |-> WalkIn(w)]' = [w \in Routines |-> WalkIn(w)]
  BY SameWalk DEF RoomPut
<1>7. [x \in Sessions |-> At(x)]' = [[x \in Sessions |-> At(x)] EXCEPT ![s] = o]
  <2>1. Located /\ Located'
    BY AtIs, AtIsNext
  <2>2. ASSUME NEW x \in Sessions
        PROVE  At(x)' = IF x = s THEN o ELSE At(x)
    <3>1. At(x)' \in Room \cup {Nil} /\ \A p \in Room : At(x)' = p <=> x \in linked'[p]
      BY <2>1 DEF Located, Room
    <3>2. At(x) \in Room \cup {Nil} /\ \A p \in Room : At(x) = p <=> x \in linked[p]
      BY <2>1 DEF Located
    <3>3. \A p \in Room : x # s => (x \in linked'[p] <=> x \in linked[p])
      BY <1>2
    <3>4. s \in linked'[o]
      BY <1>2
    <3> QED
      BY <3>1, <3>2, <3>3, <3>4
  <2> QED
    BY <2>2
<1>8. s \notin {x \in Sessions : stamp[x] # 0}
      /\ {x \in Sessions : stamp[x] # 0}' = {x \in Sessions : stamp[x] # 0} \cup {s}
  BY <1>2
<1>9. UNCHANGED <<audience, seen>>
  BY DEF RoomPut
<1>10. Promise!Enter(s, o)
  BY <1>3, <1>4, <1>5, <1>6, <1>7, <1>8, <1>9 DEF Promise!Enter, WalkIn
<1> QED
  BY <1>10 DEF Promise!Next

\* Closing the list over a member is a Leave; a refused connection was in none.
LEMMA Leaves ==
  ASSUME IInv, IInv', NEW s \in Sessions, UnlinkPrev(s)
  PROVE  Promise!Next \/ UNCHANGED Promise!vars
<1> USE DEF Goto, bucketVars, roomVars, histVars, linkVars, sessVars, readVars, pushVars
<1>0. linked \in [Room -> SUBSET Sessions] /\ DOMAIN pc = Sessions
  BY DEF IInv, Typed, TypeOK
<1>1. PICK o \in Room : o = room[s]
  BY DEF UnlinkPrev, IInv, Typed, InRoom
<1>2. target[s] = s /\ chRoom[s] = o
  BY <1>1, Deletes DEF UnlinkPrev, IInv, Deleter, InRoom
<1>3. linked' = [linked EXCEPT ![o] = @ \ {s}] /\ UNCHANGED <<stamp, pushVars, drop, count, room>>
      /\ pc' = [pc EXCEPT ![s] = "decLoad"] /\ pc[s] = "unlinkPrev"
  BY <1>1, <1>2 DEF UnlinkPrev
<1>4. {p \in Room : Retired(p)}' = {p \in Room : Retired(p)}
  BY <1>0, <1>3, SameRetired
<1>5. [w \in Routines |-> WalkIn(w)]' = [w \in Routines |-> WalkIn(w)]
  BY <1>3, SameWalk
<1>6. CASE s \in linked[o]
  <2>1. Located /\ Located' /\ Nil \notin Room
    BY AtIs, AtIsNext, BucketAssumption DEF BucketAssumption, Room
  <2>2. ASSUME NEW x \in Sessions
        PROVE  At(x)' = IF x = s THEN Nil ELSE At(x)
    <3>1. At(x)' \in Room \cup {Nil} /\ \A p \in Room : At(x)' = p <=> x \in linked'[p]
      BY <2>1 DEF Located, Room
    <3>2. At(x) \in Room \cup {Nil} /\ \A p \in Room : At(x) = p <=> x \in linked[p]
      BY <2>1 DEF Located
    <3>3. \A p \in Room : x # s => (x \in linked'[p] <=> x \in linked[p])
      BY <1>0, <1>3
    <3>4. \A p \in Room : s \notin linked'[p]
      <4>1. \A p \in Room : s \in linked[p] => chRoom[s] = p
        BY DEF IInv, Stamped, StampSession
      <4> QED
        BY <1>0, <1>2, <1>3, <4>1
    <3> QED
      BY <3>1, <3>2, <3>3, <3>4
  <2>3. [x \in Sessions |-> At(x)]' = [[x \in Sessions |-> At(x)] EXCEPT ![s] = Nil]
    BY <2>2
  <2>4. At(s) # Nil
    BY <1>6, <2>1 DEF Located
  <2>5. Promise!Leave(s)
    BY <1>3, <1>4, <1>5, <2>3, <2>4 DEF Promise!Leave, WalkIn
  <2> QED
    BY <2>5 DEF Promise!Next
<1>7. CASE s \notin linked[o]
  <2>1. linked' = linked
    BY <1>0, <1>3, <1>7
  <2> QED
    BY <1>3, <1>4, <2>1, Stutters
<1> QED
  BY <1>6, <1>7

\* r.drop = false retires the room when its count is at zero, for the test that follows.
LEMMA Retires ==
  ASSUME IInv, IInv', NEW s \in Sessions, DropClear(s)
  PROVE  Promise!Next \/ UNCHANGED Promise!vars
<1> USE DEF Goto, bucketVars, roomVars, histVars, linkVars, sessVars, readVars, pushVars
<1>0. /\ DOMAIN pc = Sessions /\ drop \in [Room -> BOOLEAN] /\ linked \in [Room -> SUBSET Sessions]
      /\ count \in [Room -> Int]
  BY DEF IInv, Typed, TypeOK
<1>1. PICK o \in Room : o = room[s]
  BY DEF DropClear, IInv, Typed, InRoom
<1>2. /\ drop' = [drop EXCEPT ![o] = FALSE] /\ UNCHANGED <<count, linked, stamp, pushVars, room, chRoom>>
      /\ pc[s] = "dropClear" /\ pc' = [pc EXCEPT ![s] = "dropTest"]
  BY <1>1 DEF DropClear
<1>3. \A x \in Sessions : pc[x] # "dropTest"
  BY <1>2 DEF IInv, OneExit, Exiting, InBucket, InRoom
<1>4. ASSUME NEW p \in Room
      PROVE  Retired(p)' <=> IF p = o THEN count[o] <= 0 ELSE Retired(p)
  <2>1. p # o => ~Deleting(p, {"dropTest"})'
    BY <1>0, <1>1, <1>2, <1>3 DEF Deleting
  <2>2. ~Deleting(p, {"dropTest"})
    BY <1>3 DEF Deleting
  <2>3. p = o => Deleting(p, {"dropTest"})'
    BY <1>0, <1>1, <1>2 DEF Deleting
  <2> QED
    BY <1>0, <1>2, <2>1, <2>2, <2>3 DEF Retired
<1>5. Retired(o) => count[o] <= 0
  BY DEF IInv, Emptied, Retired
<1>6. CASE Retired(o) \/ ~(count[o] <= 0)
  <2>1. {p \in Room : Retired(p)}' = {p \in Room : Retired(p)}
    BY <1>4, <1>5, <1>6 DEF Room
  <2> QED
    BY <1>2, <2>1, Stutters
<1>7. CASE ~Retired(o) /\ count[o] <= 0
  <2>1. {p \in Room : Retired(p)}' = {p \in Room : Retired(p)} \cup {o}
    BY <1>4, <1>7 DEF Room
  <2>2. linked[o] = {}
    <3>1. count[o] = Cardinality(linked[o]) + Pending(o) /\ Pending(o) \in {0, 1}
      BY <1>7 DEF IInv, Counted, Pending
    <3>2. IsFiniteSet(linked[o]) /\ Cardinality(linked[o]) \in Nat
      BY <1>0, BucketAssumption, FS_Subset, FS_CardinalityType DEF BucketAssumption
    <3>3. Cardinality(linked[o]) = 0
      BY <1>7, <3>1, <3>2
    <3> QED
      BY <3>2, <3>3, FS_EmptySet
  <2>3. Promise!Members(o) = {}
    BY <2>2, MembersAre
  <2>4. [x \in Sessions |-> At(x)]' = [x \in Sessions |-> At(x)]
    BY <1>2, SameAt
  <2>5. [w \in Routines |-> WalkIn(w)]' = [w \in Routines |-> WalkIn(w)]
    BY <1>2, SameWalk
  <2>6. Promise!Retire(o)
    BY <1>2, <2>1, <2>3, <2>4, <2>5 DEF Promise!Retire, WalkIn
  <2> QED
    BY <2>6 DEF Promise!Next
<1> QED
  BY <1>6, <1>7

\* The test confirms what the cleared mark announced, and the count falls where no room
\* is half retired.
LEMMA Confirms ==
  ASSUME IInv, IInv', NEW s \in Sessions, DropTest(s) \/ DecStore(s)
  PROVE  UNCHANGED Promise!vars
<1> USE DEF Goto, bucketVars, roomVars, histVars, linkVars, sessVars, readVars, pushVars
<1>0. DOMAIN pc = Sessions /\ drop \in [Room -> BOOLEAN] /\ count \in [Room -> Int]
  BY DEF IInv, Typed, TypeOK
<1>1. PICK o \in Room : o = room[s]
  BY DEF DropTest, DecStore, IInv, Typed, InRoom
<1>2. UNCHANGED <<linked, stamp, pushVars, room>>
  BY DEF DropTest, DecStore
<1>3. \A x \in Sessions : x # s => pc[x] \notin InBucket
  BY DEF DropTest, DecStore, IInv, OneExit, Exiting, InBucket, InRoom
<1>4. ASSUME NEW p \in Room
      PROVE  Retired(p)' <=> Retired(p)
  <2>1. CASE DropTest(s)
    <3>1. /\ drop' = [drop EXCEPT ![o] = @ \/ count[o] <= 0] /\ count' = count
          /\ pc[s] = "dropTest" /\ pc' = [pc EXCEPT ![s] = "evict"]
      BY <1>1, <2>1 DEF DropTest, Exhausted
    <3>2. ~Deleting(p, {"dropTest"})'
      BY <1>0, <1>3, <3>1 DEF Deleting, InBucket, InRoom
    <3>3. Deleting(p, {"dropTest"}) <=> p = o
      BY <1>1, <1>3, <3>1 DEF Deleting, InBucket, InRoom
    <3>4. drop'[p] <=> drop[p] \/ (p = o /\ count[o] <= 0)
      BY <1>0, <3>1
    <3> QED
      BY <3>1, <3>2, <3>3, <3>4 DEF Retired
  <2>2. CASE DecStore(s)
    <3>1. drop' = drop /\ pc[s] = "decStore" /\ pc' = [pc EXCEPT ![s] = "dropClear"]
      BY <2>2 DEF DecStore
    <3>2. ~Deleting(p, {"dropTest"})' /\ ~Deleting(p, {"dropTest"})
      BY <1>0, <1>3, <3>1 DEF Deleting, InBucket, InRoom
    <3> QED
      BY <3>1, <3>2 DEF Retired
  <2> QED
    BY <2>1, <2>2
<1>5. {p \in Room : Retired(p)}' = {p \in Room : Retired(p)}
  BY <1>4 DEF Room
<1> QED
  BY <1>2, <1>5, Stutters

\* A push is a Begin, a Reach for every Channel it gets to, and an End.
LEMMA Pushes ==
  ASSUME IInv, IInv', NEW w \in Routines, Push(w)
  PROVE  Promise!Next \/ UNCHANGED Promise!vars
<1> USE DEF Goto, bucketVars, roomVars, histVars, linkVars, sessVars, readVars, pushVars
<1>0. /\ wpc \in [Routines -> {"idle", "found", "walk"}] /\ wroom \in [Routines -> Room \cup {Nil}]
      /\ cursor \in [Routines -> Sessions \cup {Nil}] /\ seen \in [Routines -> SUBSET Sessions]
      /\ audience \in [Routines -> SUBSET Sessions]
      /\ wpc[w] \in {"found", "walk"} => wroom[w] \in Room
  BY DEF IInv, Typed, TypeOK
<1>00. Nil \notin Room /\ Nil \notin Sessions
  BY BucketAssumption DEF BucketAssumption, Room
<1>1. UNCHANGED <<linked, stamp, drop, count, pc, room>>
  BY DEF Push, TakeMsg, PushBegin, PushNext, PushEnd
<1>2. {p \in Room : Retired(p)}' = {p \in Room : Retired(p)}
  BY <1>1, SameRetired
<1>3. [x \in Sessions |-> At(x)]' = [x \in Sessions |-> At(x)]
  BY <1>1, SameAt
<1>4. {x \in Sessions : stamp[x] # 0}' = {x \in Sessions : stamp[x] # 0}
  BY <1>1
<1>5. ASSUME NEW r \in RoomIds, TakeMsg(w, r)
      PROVE  UNCHANGED Promise!vars
  <2>1. [v \in Routines |-> WalkIn(v)]' = [v \in Routines |-> WalkIn(v)]
    BY <1>0, <1>5 DEF TakeMsg, WalkIn
  <2>2. UNCHANGED <<audience, seen>>
    BY <1>5 DEF TakeMsg
  <2> QED
    BY <1>2, <1>3, <1>4, <2>1, <2>2 DEF Promise!vars, WalkIn
<1>6. ASSUME PushBegin(w)
      PROVE  Promise!Next
  <2>1. wroom[w] \in Room /\ wpc[w] = "found" /\ wpc' = [wpc EXCEPT ![w] = "walk"]
        /\ audience' = [audience EXCEPT ![w] = linked[wroom[w]]] /\ UNCHANGED <<seen, wroom>>
    BY <1>0, <1>6 DEF PushBegin
  <2>2. PICK o \in Room : o = wroom[w]
    BY <2>1
  <2>3. [v \in Routines |-> WalkIn(v)]' = [[v \in Routines |-> WalkIn(v)] EXCEPT ![w] = o]
    BY <1>0, <2>1, <2>2 DEF WalkIn
  <2>4. Promise!Members(o) = linked[o]
    BY MembersAre
  <2>5. WalkIn(w) = Nil
    BY <2>1 DEF WalkIn
  <2>6. Promise!Begin(w, o)
    BY <1>2, <1>3, <1>4, <2>1, <2>2, <2>3, <2>4, <2>5 DEF Promise!Begin, WalkIn
  <2> QED
    BY <2>6 DEF Promise!Next
<1>7. ASSUME PushNext(w)
      PROVE  Promise!Next
  <2>1. /\ wroom[w] \in Room /\ wpc[w] = "walk" /\ cursor[w] \in Sessions
        /\ seen' = [seen EXCEPT ![w] = @ \cup {cursor[w]}] /\ UNCHANGED <<wpc, wroom, audience>>
    BY <1>0, <1>7 DEF PushNext
  <2>2. cursor[w] \in audience[w] \ seen[w]
    <3>1. cursor[w] \in audience[w] /\ \A x \in seen[w] : stamp[cursor[w]] < stamp[x]
      BY <1>00, <2>1 DEF IInv, Reached, ReachedBy
    <3>2. stamp[cursor[w]] \in Nat
      BY <2>1 DEF IInv, Typed, TypeOK
    <3> QED
      BY <3>1, <3>2
  <2>3. [v \in Routines |-> WalkIn(v)]' = [v \in Routines |-> WalkIn(v)]
    BY <2>1, SameWalk
  <2>4. WalkIn(w) # Nil
    BY <1>00, <2>1 DEF WalkIn
  <2>5. Promise!Reach(w, cursor[w])
    BY <1>2, <1>3, <1>4, <2>1, <2>2, <2>3, <2>4 DEF Promise!Reach, WalkIn
  <2> QED
    BY <2>1, <2>5 DEF Promise!Next
<1>8. ASSUME PushEnd(w)
      PROVE  Promise!Next
  <2>1. /\ wroom[w] \in Room /\ wpc[w] = "walk" /\ cursor[w] = Nil
        /\ wpc' = [wpc EXCEPT ![w] = "idle"] /\ wroom' = [wroom EXCEPT ![w] = Nil]
        /\ seen' = [seen EXCEPT ![w] = {}] /\ audience' = [audience EXCEPT ![w] = {}]
    BY <1>0, <1>8 DEF PushEnd
  <2>2. linked[wroom[w]] \subseteq seen[w]
    BY <2>1 DEF IInv, Walked
  <2>3. Promise!Members(wroom[w]) = linked[wroom[w]]
    BY <2>1, MembersAre
  <2>4. [v \in Routines |-> WalkIn(v)]' = [[v \in Routines |-> WalkIn(v)] EXCEPT ![w] = Nil]
    BY <1>0, <2>1 DEF WalkIn
  <2>5. WalkIn(w) = wroom[w] /\ wroom[w] # Nil
    BY <1>00, <2>1 DEF WalkIn
  <2>6. Promise!End(w)
    BY <1>2, <1>3, <1>4, <2>1, <2>2, <2>3, <2>4, <2>5 DEF Promise!End, WalkIn
  <2> QED
    BY <2>6 DEF Promise!Next
<1> QED
  BY <1>5, <1>6, <1>7, <1>8 DEF Push

\* Every step is a step of the promise or changes none of its state.
LEMMA PromiseNext ==
  ASSUME IInv, IInv', [Next]_vars
  PROVE  Promise!Next \/ UNCHANGED Promise!vars
<1> USE DEF Goto, bucketVars, roomVars, histVars, linkVars, sessVars, readVars, pushVars
<1>0. DOMAIN pc = Sessions
  BY DEF IInv, Typed, TypeOK
\* The steps of a reader that touch neither list nor count, and are not at the test.
<1>1. ASSUME NEW s \in Sessions, UNCHANGED <<linked, stamp, pushVars, drop, count>>,
             NEW l, pc' = [pc EXCEPT ![s] = l], l # "dropTest", pc[s] # "dropTest",
             \A x \in Sessions : x # s => room'[x] = room[x]
      PROVE  UNCHANGED Promise!vars
  <2>1. {o \in Room : Retired(o)}' = {o \in Room : Retired(o)}
    BY <1>0, <1>1, SameRetired
  <2> QED
    BY <1>1, <2>1, Stutters
<1>2. ASSUME NEW s \in Sessions,
             \/ \E u \in Users, r \in RoomIds \cup {NoRoom} : Join(s, u, r)
             \/ PutNoRoom(s) \/ PutRoom(s) \/ RoomRefused(s) \/ Quit(s) \/ Malformed(s)
      PROVE  UNCHANGED Promise!vars
  <2>1. /\ UNCHANGED <<linked, stamp, pushVars, drop, count, room>> /\ pc[s] # "dropTest"
        /\ \E l \in {"put", "read", "roomPut", "lookup", "closed", "panic"} : pc' = [pc EXCEPT ![s] = l]
    BY <1>2 DEF Join, PutNoRoom, PutRoom, RoomRefused, Quit, Malformed, Deferred
  <2> QED
    BY <1>1, <2>1
<1>3. ASSUME NEW s \in Sessions,
             Lookup(s) \/ Forget(s) \/ UnlinkNext(s) \/ DecLoad(s) \/ Evict(s) \/ Unlock(s) \/ Close(s)
      PROVE  UNCHANGED Promise!vars
  <2>1. /\ UNCHANGED <<linked, stamp, pushVars, drop, count>> /\ pc[s] # "dropTest"
        /\ \E l \in {"unlock", "forget", "panic", "unlinkNext", "unlinkPrev", "decStore", "disconnect", "closed"} :
             pc' = [pc EXCEPT ![s] = l]
    BY <1>3 DEF Lookup, Forget, UnlinkNext, DecLoad, Evict, Unlock, Close
  <2>2. \A x \in Sessions : x # s => room'[x] = room[x]
    <3>1. DOMAIN room = Sessions
      BY DEF IInv, Typed, TypeOK
    <3> QED
      BY <1>3, <3>1 DEF Lookup, Forget, UnlinkNext, DecLoad, Evict, Unlock, Close
  <2> QED
    BY <1>1, <2>1, <2>2
<1>4. CASE UNCHANGED vars
  <2>1. UNCHANGED <<linked, stamp, pushVars, drop, count, pc, room>>
    BY <1>4 DEF vars
  <2>2. {o \in Room : Retired(o)}' = {o \in Room : Retired(o)}
    BY <2>1, SameRetired
  <2> QED
    BY <2>1, <2>2, Stutters
<1> QED
  BY <1>2, <1>3, <1>4, Enters, Leaves, Retires, Confirms, Pushes DEF Next, Reader, Delete

\* A gentle bucket (one reader leaves at a time; every connection sends one connect
\* message, for a room, with a user no other connection has) implements Membership, for
\* any number of connections, rooms and broadcasting goroutines: locks, lists, counts and
\* refusals never show.
THEOREM PromiseKept == Gentle => (Spec => KeepsPromise)
<1> SUFFICES ASSUME Gentle PROVE Spec => KeepsPromise
  OBVIOUS
<1>1. Init => IInv /\ Promise!Init
  BY InvariantInit, PromiseInit
<1>2. IInv /\ [Next]_vars => IInv'
  BY InvariantNext
<1>3. IInv /\ IInv' /\ [Next]_vars => [Promise!Next]_(Promise!vars)
  BY PromiseNext
<1> QED
  BY <1>1, <1>2, <1>3, PTL DEF Spec, KeepsPromise, Promise!Spec
=============================================================================
