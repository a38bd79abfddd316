------------------------------ MODULE TaskProofs ------------------------------
(* What the task layer keeps for any number of servers, workers and messages: a  *)
(* message for a server that is registered does not end the process, and room    *)
(* messages get to the connect servers in order.                                 *)
EXTENDS Task, SequenceTheorems, TLAPS

Deliveries(n) == [id : 1 .. n, op : {"single", "room", "count", "info"},
                  body : {"text", "empty", "count", "users"}]

\* The subscriber waits for a channel, or calls servers, or is idle.
Scalars ==
  /\ boot \in {"subscribe", "discover", "push", "done"}
  /\ (clients = Nil \/ clients \subseteq Servers)
  /\ sub \in 0 .. Len(log) /\ slot \in Slots \cup {NoSlot, NilSlot} /\ todo \subseteq Servers
  /\ work \in [Slots -> 0 .. Len(log)] /\ early \in 0 .. Len(log) /\ aired \subseteq 1 .. Len(log)
  /\ down \subseteq Servers /\ faults \in 0 .. MaxFault
  /\ tries \in [Servers -> [1 .. MaxMsg -> 0 .. Attempts]]
  /\ late \subseteq Servers \X (1 .. Len(log)) \X (1 .. Attempts)
  /\ Len(log) <= MaxMsg
  /\ dead \in MapRace .. Len(log)
  /\ sub = 0 => slot \notin Slots /\ todo = {}
  /\ todo # {} => slot \notin Slots

\* The channel the subscriber waits for has been made.
Streams ==
  /\ log \in Seq(Messages) /\ bus \in Seq(1 .. Len(log))
  /\ DOMAIN pushChannel = Slots /\ DOMAIN inbox = Servers
  /\ \A i \in Slots : pushChannel[i] = Nil \/ (pushChannel[i] \in Seq(1 .. Len(log)) /\
                                               Len(pushChannel[i]) <= PushChanSize)
  /\ slot \in Slots => pushChannel[slot] \in Seq(1 .. Len(log))
  /\ \A k \in Servers : inbox[k] \in Seq(Deliveries(Len(log)))

Typed == Scalars /\ Streams

LEMMA TypedIsTyped == Typed => TypeOK
BY DEF Typed, Scalars, Streams, TypeOK, Deliveries

\* Before the list of servers is full there is no channel, and so nothing at a worker.
Staged ==
  /\ boot \in {"subscribe", "discover"} =>
       slot \notin Slots /\ \A i \in Slots : pushChannel[i] = Nil /\ work[i] = 0
  /\ boot \in {"push", "done"} => clients # Nil /\ Registered \subseteq clients

-------------------------------------------------------------------------------
\* What logic publishes is a message of its type.
LEMMA ContentTyped == Content \subseteq Messages
<1>1. \A k \in Servers \cup {Nil} : PushMsg(k) \in Messages
  BY DEF PushMsg, Messages
<1>2. RoomMsg \in Messages /\ CountMsg \in Messages /\ RoomInfoMsg \in Messages /\ LeaveMsg \in Messages
  BY DEF RoomMsg, CountMsg, RoomInfoMsg, LeaveMsg, Messages
<1>3. Published \subseteq Messages
  BY <1>1, <1>2 DEF Published
<1> QED
  BY <1>3, TaskAssumption DEF TaskAssumption

\* The streams when a message is published.
LEMMA Longer ==
  ASSUME Streams, NEW n \in Nat, n >= Len(log)
  PROVE  /\ Len(log) \in Nat /\ 1 .. Len(log) \subseteq 1 .. n /\ 0 .. Len(log) \subseteq 0 .. n
         /\ bus \in Seq(1 .. n)
         /\ \A i \in Slots : pushChannel[i] \in Seq(1 .. Len(log)) => pushChannel[i] \in Seq(1 .. n)
         /\ \A k \in Servers : inbox[k] \in Seq(Deliveries(n))
<1>1. Len(log) \in Nat
  BY LenProperties DEF Streams
<1>2. 1 .. Len(log) \subseteq 1 .. n /\ 0 .. Len(log) \subseteq 0 .. n
  BY <1>1
<1>3. bus \in Seq(1 .. n)
  BY <1>2, SeqMonotonic DEF Streams
<1>4. \A i \in Slots : pushChannel[i] \in Seq(1 .. Len(log)) => pushChannel[i] \in Seq(1 .. n)
  BY <1>2, SeqMonotonic
<1>5. Deliveries(Len(log)) \subseteq Deliveries(n)
  BY <1>2 DEF Deliveries
<1>6. \A k \in Servers : inbox[k] \in Seq(Deliveries(n))
  BY <1>5, SeqMonotonic DEF Streams
<1> QED
  BY <1>1, <1>2, <1>3, <1>4, <1>6

\* What a call that a server runs adds to its inbox.
LEMMA Called ==
  ASSUME Typed, NEW k \in Servers, NEW n \in 1 .. Len(log), inbox' = Handled(k, n)
  PROVE  /\ Delivery(n) \in Deliveries(Len(log)) /\ Delivery(n).id = n /\ Delivery(n).op = log[n].op
         /\ DOMAIN inbox' = Servers
         /\ \A s \in Servers : inbox'[s] \in Seq(Deliveries(Len(log)))
         /\ \A s \in Servers : s # k => inbox'[s] = inbox[s]
         /\ inbox'[k] = Append(inbox[k], Delivery(n))
<1>1. log[n] \in Messages
  <2>1. log \in Seq(Messages)
    BY DEF Typed, Streams
  <2> HIDE DEF Messages
  <2> QED
    BY <2>1, ElementOfSeq
<1>2. log[n].op \in {"single", "room", "count", "info"}
  BY <1>1 DEF Messages
<1>3. Body(log[n]) \in {"text", "empty", "count", "users"}
  BY <1>2 DEF Body
<1>4. /\ Delivery(n) \in Deliveries(Len(log)) /\ Delivery(n).id = n /\ Delivery(n).op = log[n].op
  BY <1>2, <1>3 DEF Delivery, Deliveries
<1>5. DOMAIN inbox = Servers /\ \A s \in Servers : inbox[s] \in Seq(Deliveries(Len(log)))
  BY DEF Typed, Streams
<1>6. Append(inbox[k], Delivery(n)) \in Seq(Deliveries(Len(log)))
  BY <1>4, <1>5, AppendProperties
<1> QED
  BY <1>4, <1>5, <1>6 DEF Handled

\* What a broken attempt changes.
LEMMA Broken ==
  ASSUME Typed, NEW k \in Servers, NEW n \in 1 .. Len(log), Break(k, n)
  PROVE  /\ tries[k][n] \in 0 .. Attempts - 1 /\ tries'[k][n] = tries[k][n] + 1
         /\ \A s \in Servers, m \in 1 .. MaxMsg : s # k \/ m # n => tries'[s][m] = tries[s][m]
         /\ tries' \in [Servers -> [1 .. MaxMsg -> 0 .. Attempts]]
         /\ late' = late \cup {<<k, n, tries[k][n] + 1>>}
         /\ late' \subseteq Servers \X (1 .. Len(log)) \X (1 .. Attempts)
         /\ faults' \in 0 .. MaxFault /\ inbox' = inbox /\ k \notin down
<1>1. /\ tries \in [Servers -> [1 .. MaxMsg -> 0 .. Attempts]] /\ Len(log) \in Nat /\ Len(log) <= MaxMsg
      /\ late \subseteq Servers \X (1 .. Len(log)) \X (1 .. Attempts) /\ faults \in 0 .. MaxFault
      /\ MaxMsg \in Nat /\ Attempts \in Nat /\ MaxFault \in Nat
  BY LenProperties, TaskAssumption DEF Typed, Scalars, Streams, TaskAssumption
<1>2. n \in 1 .. MaxMsg
  BY <1>1
<1>3. tries[k][n] \in 0 .. Attempts - 1 /\ tries[k][n] + 1 \in 1 .. Attempts
  BY <1>1, <1>2 DEF Break
<1>4. tries' = [tries EXCEPT ![k][n] = tries[k][n] + 1]
  BY DEF Break
<1>5. tries'[k][n] = tries[k][n] + 1
  BY <1>1, <1>2, <1>4
<1>6. late' = late \cup {<<k, n, tries[k][n] + 1>>}
  BY <1>5 DEF Break
<1>7. faults' \in 0 .. MaxFault /\ inbox' = inbox /\ k \notin down
  BY <1>1 DEF Break
<1>8. tries' \in [Servers -> [1 .. MaxMsg -> 0 .. Attempts]]
  BY <1>1, <1>2, <1>3, <1>4
<1>9. \A s \in Servers, m \in 1 .. MaxMsg : s # k \/ m # n => tries'[s][m] = tries[s][m]
  BY <1>1, <1>2, <1>4
<1>10. late' \subseteq Servers \X (1 .. Len(log)) \X (1 .. Attempts)
  BY <1>1, <1>3, <1>6
<1> QED
  BY <1>3, <1>5, <1>6, <1>7, <1>8, <1>9, <1>10

\* The calls of the subscriber and of a worker.
LEMMA RoomCalled ==
  ASSUME Typed, NEW k \in Servers, CallRoom(k)
  PROVE  /\ k \in todo /\ sub \in 1 .. Len(log) /\ slot \notin Slots
         /\ \E over \in BOOLEAN :
              /\ Attempt(k, sub, over) /\ todo' = (IF over THEN todo \ {k} ELSE todo)
              /\ sub' = (IF todo' = {} THEN 0 ELSE sub)
              /\ aired' = (IF todo' = {} THEN aired \cup {sub} ELSE aired)
         /\ UNCHANGED <<log, bus, boot, clients, pushChannel, slot, early, work, down, dead>>
<1>1. k \in todo /\ UNCHANGED <<log, bus, boot, clients, pushChannel, slot, early, work, down, dead>>
  BY DEF CallRoom, busVars, bootVars
<1>2. sub \in 1 .. Len(log) /\ slot \notin Slots
  BY <1>1, LenProperties DEF Typed, Scalars, Streams
<1> QED
  BY <1>1, <1>2 DEF CallRoom, Rest

LEMMA SingleCalled ==
  ASSUME Typed, NEW i \in Slots, CallSingle(i)
  PROVE  /\ work[i] \in 1 .. Len(log)
         /\ \/ /\ dead' = work[i] /\ UNCHANGED <<inbox, tries, late, faults, work>>
               /\ ~(clients # Nil /\ log[work[i]].server \in clients /\ UnderServerId(log[work[i]].server))
            \/ /\ dead' = dead /\ log[work[i]].server \in Servers
               /\ \E over \in BOOLEAN : Attempt(log[work[i]].server, work[i], over)
               /\ work' = work \/ work' = [work EXCEPT ![i] = 0]
         /\ UNCHANGED <<log, bus, boot, clients, pushChannel, sub, slot, todo, early, aired, down>>
<1>1. work[i] # 0 /\ UNCHANGED <<log, bus, boot, clients, pushChannel, sub, slot, todo, early, aired, down>>
  BY DEF CallSingle, busVars, bootVars, subVars
<1>2. work[i] \in 1 .. Len(log) /\ (clients # Nil => clients \subseteq Servers)
  BY <1>1, LenProperties DEF Typed, Scalars, Streams
<1>3. CASE clients # Nil /\ log[work[i]].server \in clients /\ UnderServerId(log[work[i]].server)
  BY <1>1, <1>2, <1>3 DEF CallSingle
<1>4. CASE ~(clients # Nil /\ log[work[i]].server \in clients /\ UnderServerId(log[work[i]].server))
  BY <1>1, <1>2, <1>4 DEF CallSingle, callVars
<1> QED
  BY <1>3, <1>4

\* What an attempt, and one that arrives late, may do.
LEMMA Attempted ==
  ASSUME NEW k, NEW n, NEW over \in BOOLEAN, Attempt(k, n, over)
  PROVE  \/ over /\ k \notin down /\ inbox' = Handled(k, n) /\ UNCHANGED <<tries, late, faults>>
         \/ over /\ k \in down /\ UNCHANGED <<inbox, tries, late, faults>>
         \/ Break(k, n) /\ (over <=> tries'[k][n] = Attempts)
BY DEF Attempt, Answer

LEMMA Arrived ==
  ASSUME Typed, NEW k \in Servers, NEW n \in 1 .. Len(log), NEW try \in 1 .. Attempts, Arrive(k, n, try)
  PROVE  /\ k \notin down /\ <<k, n, try>> \in late /\ late' \subseteq late /\ inbox' = Handled(k, n)
         /\ UNCHANGED <<log, bus, boot, clients, pushChannel, sub, slot, todo, early, aired, work, down,
                        tries, faults, dead>>
BY DEF Arrive, busVars, bootVars, subVars

LEMMA TypedInit == Init => Typed /\ Staged
<1> SUFFICES ASSUME Init PROVE Typed /\ Staged
  OBVIOUS
<1>1. /\ log = <<>> /\ bus = <<>> /\ boot = "subscribe" /\ clients = Nil
      /\ pushChannel = [i \in Slots |-> Nil] /\ sub = 0 /\ slot = NoSlot /\ todo = {} /\ early = 0
      /\ aired = {} /\ work = [i \in Slots |-> 0] /\ inbox = [k \in Servers |-> <<>>] /\ down = {}
      /\ tries = [k \in Servers |-> [n \in 1 .. MaxMsg |-> 0]] /\ late = {} /\ faults = 0
      /\ dead = 0 /\ Len(log) = 0
  BY EmptySeq DEF Init, Alive
<1>2. log \in Seq(Messages) /\ bus \in Seq(1 .. Len(log))
  BY <1>1, EmptySeq
<1>3. \A k \in Servers : inbox[k] \in Seq(Deliveries(Len(log)))
  BY <1>1, EmptySeq
<1>4. NoSlot \notin Slots
  BY TaskAssumption DEF TaskAssumption, NoSlot, Slots
<1>a. tries \in [Servers -> [1 .. MaxMsg -> 0 .. Attempts]]
  BY <1>1, TaskAssumption DEF TaskAssumption
<1>5. Scalars
  BY <1>1, <1>4, <1>a, TaskAssumption DEF Scalars, TaskAssumption, MapRace
<1>6. Streams
  BY <1>1, <1>2, <1>3, <1>4 DEF Streams
<1> QED
  BY <1>1, <1>4, <1>5, <1>6 DEF Typed, Staged

\* A published message changes no type.
LEMMA PublishTyped ==
  ASSUME Typed, NEW m \in Content, Publish(m)
  PROVE  Typed'
<1>0. Len(log) \in Nat /\ log \in Seq(Messages) /\ m \in Messages
  BY LenProperties, TaskAssumption, ContentTyped DEF Typed, Streams, TaskAssumption
<1>1. /\ log' = Append(log, m) /\ bus' \in {bus, Append(bus, Len(log) + 1)}
      /\ UNCHANGED <<boot, clients, pushChannel, sub, slot, todo, early, aired, work, inbox, tries, late, faults,
                     down, dead>>
  BY DEF Publish, bootVars, subVars, netVars, callVars
<1>2. log' \in Seq(Messages) /\ Len(log') = Len(log) + 1
  BY <1>0, <1>1, AppendProperties
<1> DEFINE n == Len(log) + 1
<1>3. n \in Nat /\ n >= Len(log) /\ Len(log') = n /\ Len(log') <= MaxMsg
  BY <1>0, <1>2, TaskAssumption, ContentTyped DEF Publish, TaskAssumption
<1> HIDE DEF n
<1>4. /\ 1 .. Len(log) \subseteq 1 .. n /\ 0 .. Len(log) \subseteq 0 .. n
      /\ bus \in Seq(1 .. n)
      /\ \A i \in Slots : pushChannel[i] \in Seq(1 .. Len(log)) => pushChannel[i] \in Seq(1 .. n)
      /\ \A k \in Servers : inbox[k] \in Seq(Deliveries(n))
  BY <1>3, Longer DEF Typed
<1>5. bus' \in Seq(1 .. n)
  <2>1. Len(log) + 1 \in 1 .. n
    BY <1>0, <1>3 DEF n
  <2>2. bus \in Seq(1 .. n) => Append(bus, Len(log) + 1) \in Seq(1 .. n)
    <3> DEFINE S == 1 .. n
    <3>1. Len(log) + 1 \in S
      BY <2>1
    <3> HIDE DEF S
    <3>2. bus \in Seq(S) => Append(bus, Len(log) + 1) \in Seq(S)
      BY <3>1, AppendProperties
    <3> QED
      BY <3>2 DEF S
  <2> QED
    BY <1>1, <1>4, <2>2
<1>6. dead \in MapRace .. n /\ early \in 0 .. n /\ sub \in 0 .. n /\ aired \subseteq 1 .. n
      /\ work \in [Slots -> 0 .. n] /\ late \subseteq Servers \X (1 .. n) \X (1 .. Attempts)
  BY <1>0, <1>3, <1>4 DEF Typed, Scalars, MapRace
<1> QED
  <2>1. Scalars'
    BY <1>1, <1>3, <1>6 DEF Typed, Scalars
  <2>2. Streams'
    BY <1>1, <1>2, <1>3, <1>4, <1>5 DEF Typed, Streams
  <2> QED
    BY <2>1, <2>2 DEF Typed

\* The subscriber takes the first message of the bus.
LEMMA Taken ==
  ASSUME Typed, bus # <<>>
  PROVE  Head(bus) \in 1 .. Len(log) /\ Head(bus) # 0 /\ Tail(bus) \in Seq(1 .. Len(log)) /\ Len(log) \in Nat
         /\ Early(Head(bus)) \in 0 .. Len(log)
<1>1. bus \in Seq(1 .. Len(log)) /\ early \in 0 .. Len(log)
  BY DEF Typed, Scalars, Streams
<1>2. Head(bus) \in 1 .. Len(log) /\ Tail(bus) \in Seq(1 .. Len(log))
  BY <1>1, HeadTailProperties
<1>3. Len(log) \in Nat
  BY LenProperties DEF Typed, Streams
<1> QED
  BY <1>1, <1>2, <1>3 DEF Early

LEMMA ScalarsNext == Typed /\ dead = Alive /\ (Run \/ Subscriber \/ \E i \in Slots : Worker(i)) => Scalars'
<1> SUFFICES ASSUME Typed, dead = Alive, Run \/ Subscriber \/ \E i \in Slots : Worker(i) PROVE Scalars'
  OBVIOUS
<1> USE DEF busVars, bootVars, subVars, netVars, callVars
<1>0. /\ Len(log) \in Nat /\ NoSlot \notin Slots /\ NilSlot \notin Slots /\ Scalars
  BY LenProperties, TaskAssumption DEF Typed, Streams, NoSlot, NilSlot, Slots, TaskAssumption
<1>1. CASE Subscribe
  BY <1>0, <1>1 DEF Subscribe, After, Scalars
<1>2. CASE MakeClients
  BY <1>0, <1>2 DEF MakeClients, Scalars
<1>3. ASSUME NEW k \in Servers, AddClient(k) PROVE Scalars'
  <2>1. /\ clients' \subseteq Servers /\ boot' \in {"discover", "push"} /\ todo' \subseteq Servers
        /\ (todo = {} => todo' = {}) /\ dead' \in {dead, MapRace} /\ (todo' # {} => todo # {})
    BY <1>0, <1>3 DEF AddClient, After, Scalars
  <2>2. dead' \in MapRace .. Len(log)
    BY <1>0, <2>1 DEF Scalars, MapRace
  <2> QED
    BY <1>0, <1>3, <2>1, <2>2 DEF AddClient, Scalars
<1>4. ASSUME NEW i \in Slots, GoPush(i) PROVE Scalars'
  BY <1>0, <1>4 DEF GoPush, After, Scalars
<1>5. ASSUME NEW i \in Slots, TakeSingle(i) PROVE Scalars'
  <2>1. /\ Head(bus) \in 1 .. Len(log) /\ Early(Head(bus)) \in 0 .. Len(log)
    BY <1>5, Taken DEF TakeSingle
  <2>2. sub' \in 0 .. Len(log) /\ sub' # 0 /\ early' \in 0 .. Len(log) /\ slot' \in Slots \cup {NoSlot, NilSlot}
    BY <1>0, <1>5, <2>1 DEF TakeSingle
  <2>3. sub = 0 /\ UNCHANGED <<log, boot, clients, todo, aired, work, down, tries, late, faults, dead>>
    BY <1>5 DEF TakeSingle
  <2> QED
    BY <1>0, <2>2, <2>3 DEF Scalars
<1>6. CASE SendSingle
  BY <1>0, <1>6 DEF SendSingle, Scalars
<1>7. CASE TakeRoom
  <2>1. /\ Head(bus) \in 1 .. Len(log) /\ Early(Head(bus)) \in 0 .. Len(log)
    BY <1>7, Taken DEF TakeRoom
  <2>2. todo' \subseteq Servers
    BY <1>0, <1>7 DEF TakeRoom, Scalars
  <2>3. aired' \subseteq 1 .. Len(log)
    <3>1. aired' \in {aired, aired \cup {Head(bus)}} /\ aired \subseteq 1 .. Len(log)
      BY <1>0, <1>7 DEF TakeRoom, Scalars
    <3> QED
      BY <2>1, <3>1
  <2>4. sub = 0 /\ UNCHANGED <<log, boot, clients, slot, work, down, tries, late, faults, dead>>
        /\ early' = Early(Head(bus)) /\ sub' = IF todo' = {} THEN 0 ELSE Head(bus)
    BY <1>7 DEF TakeRoom
  <2>5. sub' \in 0 .. Len(log) /\ (sub' = 0 => todo' = {})
    BY <1>0, <2>1, <2>4
  <2> QED
    BY <1>0, <2>1, <2>2, <2>3, <2>4, <2>5 DEF Scalars
\* What an attempt does to the counters.
<1>b. ASSUME NEW k \in Servers, NEW n \in 1 .. Len(log), NEW over \in BOOLEAN, Attempt(k, n, over)
      PROVE  /\ tries' \in [Servers -> [1 .. MaxMsg -> 0 .. Attempts]] /\ faults' \in 0 .. MaxFault
             /\ late' \subseteq Servers \X (1 .. Len(log)) \X (1 .. Attempts)
  <2>1. CASE Break(k, n)
    BY <2>1, Broken
  <2>2. CASE UNCHANGED <<tries, late, faults>>
    BY <1>0, <2>2 DEF Scalars
  <2> QED
    BY <1>b, <2>1, <2>2, Attempted
<1>8. ASSUME NEW k \in Servers, CallRoom(k) PROVE Scalars'
  <2>1. /\ k \in todo /\ sub \in 1 .. Len(log) /\ slot \notin Slots
        /\ UNCHANGED <<log, bus, boot, clients, pushChannel, slot, early, work, down, dead>>
    BY <1>8, RoomCalled
  <2>2. PICK over \in BOOLEAN :
          /\ Attempt(k, sub, over) /\ todo' = (IF over THEN todo \ {k} ELSE todo)
          /\ sub' = (IF todo' = {} THEN 0 ELSE sub)
          /\ aired' = (IF todo' = {} THEN aired \cup {sub} ELSE aired)
    BY <1>8, RoomCalled
  <2>3. /\ tries' \in [Servers -> [1 .. MaxMsg -> 0 .. Attempts]] /\ faults' \in 0 .. MaxFault
        /\ late' \subseteq Servers \X (1 .. Len(log)) \X (1 .. Attempts)
    BY <1>b, <2>1, <2>2
  <2>4. sub' \in 0 .. Len(log) /\ aired' \subseteq 1 .. Len(log) /\ (sub' = 0 => todo' = {})
    <3>1. aired \subseteq 1 .. Len(log)
      BY <1>0 DEF Scalars
    <3>2. aired' \subseteq 1 .. Len(log)
      BY <2>1, <2>2, <3>1
    <3> QED
      BY <1>0, <2>1, <2>2, <3>2
  <2>5. todo' \subseteq Servers
    BY <1>0, <2>2 DEF Scalars
  <2> QED
    BY <1>0, <2>1, <2>3, <2>4, <2>5 DEF Scalars
<1>9. ASSUME NEW i \in Slots, Receive(i) PROVE Scalars'
  <2>1. Head(pushChannel[i]) \in 1 .. Len(log)
    BY <1>9, HeadTailProperties DEF Receive, Typed, Streams
  <2>2. /\ work' = [work EXCEPT ![i] = Head(pushChannel[i])]
        /\ UNCHANGED <<log, boot, clients, sub, slot, todo, early, aired, down, tries, late, faults, dead>>
    BY <1>9 DEF Receive
  <2>3. work' \in [Slots -> 0 .. Len(log)]
    BY <1>0, <2>1, <2>2 DEF Scalars
  <2> QED
    BY <1>0, <2>2, <2>3 DEF Scalars
<1>10. ASSUME NEW i \in Slots, CallSingle(i) PROVE Scalars'
  <2>1. /\ work[i] \in 1 .. Len(log)
        /\ UNCHANGED <<log, boot, clients, sub, slot, todo, early, aired, down>>
    BY <1>10, SingleCalled
  <2>2. work' \in {work, [work EXCEPT ![i] = 0]} /\ dead' \in {dead, work[i]}
    BY <1>10, SingleCalled
  <2>3. /\ tries' \in [Servers -> [1 .. MaxMsg -> 0 .. Attempts]] /\ faults' \in 0 .. MaxFault
        /\ late' \subseteq Servers \X (1 .. Len(log)) \X (1 .. Attempts)
    <3>1. CASE UNCHANGED <<tries, late, faults>>
      BY <1>0, <3>1 DEF Scalars
    <3>2. CASE ~UNCHANGED <<tries, late, faults>>
      <4>1. /\ log[work[i]].server \in Servers
            /\ \E over \in BOOLEAN : Attempt(log[work[i]].server, work[i], over)
        BY <1>10, <3>2, SingleCalled
      <4> QED
        BY <1>b, <2>1, <4>1
    <3> QED
      BY <3>1, <3>2
  <2>4. work' \in [Slots -> 0 .. Len(log)] /\ dead' \in MapRace .. Len(log)
    BY <1>0, <2>1, <2>2 DEF Scalars, MapRace
  <2> QED
    BY <1>0, <2>1, <2>3, <2>4 DEF Scalars
<1> QED
  BY <1>1, <1>2, <1>3, <1>4, <1>5, <1>6, <1>7, <1>8, <1>9, <1>10 DEF Run, Subscriber, Worker

LEMMA StreamsNext == Typed /\ dead = Alive /\ (Run \/ Subscriber \/ \E i \in Slots : Worker(i)) => Streams'
<1> SUFFICES ASSUME Typed, dead = Alive, Run \/ Subscriber \/ \E i \in Slots : Worker(i) PROVE Streams'
  OBVIOUS
<1> USE DEF busVars, bootVars, subVars, netVars, callVars
<1> DEFINE Ids == 1 .. Len(log)
           Fits(q) == q \in Seq(Ids) /\ Len(q) <= PushChanSize
<1>0. /\ Len(log) \in Nat /\ NoSlot \notin Slots /\ NilSlot \notin Slots /\ PushChanSize \in Nat /\ Scalars
      /\ log \in Seq(Messages) /\ bus \in Seq(Ids) /\ DOMAIN pushChannel = Slots /\ DOMAIN inbox = Servers
      /\ \A i \in Slots : pushChannel[i] = Nil \/ Fits(pushChannel[i])
      /\ slot \in Slots => pushChannel[slot] \in Seq(Ids)
      /\ \A k \in Servers : inbox[k] \in Seq(Deliveries(Len(log)))
  BY LenProperties, TaskAssumption DEF Typed, Streams, NoSlot, NilSlot, Slots, TaskAssumption
<1>a. Fits(<<>>)
  BY <1>0, EmptySeq
<1> HIDE DEF Ids, Fits
\* A step that writes one channel, and leaves the other streams alone.
<1>b. ASSUME NEW i \in Slots, NEW q, Fits(q), pushChannel' = [pushChannel EXCEPT ![i] = q],
             slot' \notin Slots \/ slot' = slot, UNCHANGED <<log, bus, inbox>>
      PROVE  Streams'
  <2>1. DOMAIN pushChannel' = Slots /\ \A j \in Slots : pushChannel'[j] = IF j = i THEN q ELSE pushChannel[j]
    BY <1>0, <1>b
  <2>2. \A j \in Slots : pushChannel'[j] = Nil \/ Fits(pushChannel'[j])
    BY <1>0, <1>b, <2>1
  <2>3. slot' \in Slots => pushChannel'[slot'] \in Seq(Ids)
    <3>1. q \in Seq(Ids)
      BY <1>b DEF Fits
    <3> QED
      BY <1>0, <1>b, <2>1, <3>1
  <2> QED
    BY <1>0, <1>b, <2>1, <2>2, <2>3 DEF Streams, Fits, Ids
\* A step that writes none.
<1>c. ASSUME UNCHANGED <<log, pushChannel, inbox>>, bus' \in Seq(Ids),
             slot' \notin Slots \/ slot' = slot \/ pushChannel[slot'] # Nil
      PROVE  Streams'
  <2>1. slot' \in Slots => pushChannel[slot'] \in Seq(Ids)
    BY <1>0, <1>c DEF Fits
  <2> QED
    BY <1>0, <1>c, <2>1 DEF Streams, Fits, Ids
\* A call.
<1>d. ASSUME NEW k \in Servers, NEW n \in Ids, NEW over \in BOOLEAN, Attempt(k, n, over),
             UNCHANGED <<log, bus, pushChannel, slot>>
      PROVE  Streams'
  <2>1. CASE inbox' = inbox
    BY <1>0, <1>c, <1>d, <2>1
  <2>2. CASE inbox' = Handled(k, n)
    <3>1. DOMAIN inbox' = Servers /\ \A s \in Servers : inbox'[s] \in Seq(Deliveries(Len(log)))
      BY <1>d, <2>2, Called DEF Ids
    <3> QED
      BY <1>0, <1>d, <3>1 DEF Streams, Fits, Ids
  <2>3. Break(k, n) => inbox' = inbox
    BY DEF Break
  <2> QED
    BY <1>d, <2>1, <2>2, <2>3, Attempted
<1>1. CASE Subscribe \/ MakeClients \/ \E k \in Servers : AddClient(k)
  <2>1. UNCHANGED <<log, bus, pushChannel, inbox, slot>>
    BY <1>1 DEF Subscribe, MakeClients, AddClient
  <2> QED
    BY <1>0, <1>c, <2>1
<1>2. ASSUME NEW i \in Slots, GoPush(i) PROVE Streams'
  <2>1. pushChannel' = [pushChannel EXCEPT ![i] = <<>>] /\ UNCHANGED <<log, bus, inbox, slot>>
    BY <1>2 DEF GoPush
  <2> QED
    BY <1>a, <1>b, <2>1
<1>3. ASSUME NEW i \in Slots, TakeSingle(i) PROVE Streams'
  <2>1. Tail(bus) \in Seq(Ids)
    BY <1>3, Taken DEF TakeSingle, Ids
  <2>2. /\ bus' = Tail(bus) /\ UNCHANGED <<log, pushChannel, inbox>>
        /\ slot' = IF pushChannel[i] = Nil THEN NilSlot ELSE i
    BY <1>3 DEF TakeSingle
  <2> QED
    BY <1>0, <1>c, <2>1, <2>2
<1>4. CASE SendSingle
  <2>1. /\ slot \in Slots /\ Len(pushChannel[slot]) < PushChanSize /\ sub \in Ids
        /\ pushChannel' = [pushChannel EXCEPT ![slot] = Append(pushChannel[slot], sub)]
        /\ slot' = NoSlot /\ UNCHANGED <<log, bus, inbox>>
    BY <1>0, <1>4 DEF SendSingle, HasRoom, Scalars, Ids
  <2>2. /\ pushChannel[slot] \in Seq(Ids) /\ Len(pushChannel[slot]) \in Nat
    BY <1>0, <2>1, LenProperties
  <2>3. /\ Append(pushChannel[slot], sub) \in Seq(Ids)
        /\ Len(Append(pushChannel[slot], sub)) = Len(pushChannel[slot]) + 1
    BY <2>1, <2>2, AppendProperties
  <2>4. Fits(Append(pushChannel[slot], sub))
    BY <1>0, <2>1, <2>2, <2>3 DEF Fits
  <2> QED
    BY <1>0, <1>b, <2>1, <2>4
<1>5. CASE TakeRoom
  <2>1. Tail(bus) \in Seq(Ids)
    BY <1>5, Taken DEF TakeRoom, Ids
  <2>2. bus' = Tail(bus) /\ UNCHANGED <<log, pushChannel, inbox, slot>>
    BY <1>5 DEF TakeRoom
  <2> QED
    BY <1>c, <2>1, <2>2
<1>6. ASSUME NEW k \in Servers, CallRoom(k) PROVE Streams'
  <2>1. sub \in Ids /\ UNCHANGED <<log, bus, pushChannel, slot>> /\ \E over \in BOOLEAN : Attempt(k, sub, over)
    BY <1>6, RoomCalled DEF Ids
  <2> QED
    BY <1>d, <2>1
<1>7. ASSUME NEW i \in Slots, Receive(i) PROVE Streams'
  <2>1. /\ pushChannel[i] # <<>> /\ Fits(pushChannel[i])
        /\ pushChannel' = [pushChannel EXCEPT ![i] = Tail(pushChannel[i])]
        /\ UNCHANGED <<log, bus, slot, inbox>>
    BY <1>0, <1>7 DEF Receive
  <2>2. /\ Tail(pushChannel[i]) \in Seq(Ids) /\ Len(pushChannel[i]) \in Nat
        /\ Len(Tail(pushChannel[i])) = Len(pushChannel[i]) - 1 /\ Len(pushChannel[i]) <= PushChanSize
    BY <2>1, HeadTailProperties, LenProperties DEF Fits
  <2>3. Fits(Tail(pushChannel[i]))
    BY <1>0, <2>2 DEF Fits
  <2> QED
    BY <1>b, <2>1, <2>3
<1>8. ASSUME NEW i \in Slots, CallSingle(i) PROVE Streams'
  <2>1. work[i] \in Ids /\ UNCHANGED <<log, bus, pushChannel, slot>>
    BY <1>8, SingleCalled DEF Ids
  <2>2. CASE inbox' = inbox
    BY <1>0, <1>c, <2>1, <2>2
  <2>3. CASE inbox' # inbox
    <3>1. /\ log[work[i]].server \in Servers
          /\ \E over \in BOOLEAN : Attempt(log[work[i]].server, work[i], over)
      BY <1>8, <2>3, SingleCalled
    <3> QED
      BY <1>d, <2>1, <3>1
  <2> QED
    BY <2>2, <2>3
<1> QED
  BY <1>1, <1>2, <1>3, <1>4, <1>5, <1>6, <1>7, <1>8 DEF Run, Subscriber, Worker

LEMMA TypedNext == Typed /\ [Next]_vars => Typed'
<1>1. ASSUME Typed, NEW k \in Servers, Down(k) PROVE Typed'
  <2>1. /\ down' = down \cup {k} /\ faults' = faults + 1 /\ faults < MaxFault
        /\ UNCHANGED <<log, bus, boot, clients, pushChannel, sub, slot, todo, early, aired, work, inbox,
                       tries, late, dead>>
    BY <1>1 DEF Down, busVars, bootVars, subVars
  <2>2. Scalars'
    <3>1. faults' \in 0 .. MaxFault /\ down' \subseteq Servers
      BY <1>1, <2>1, TaskAssumption DEF Typed, Scalars, TaskAssumption
    <3> QED
      BY <1>1, <2>1, <3>1 DEF Typed, Scalars
  <2>3. Streams'
    BY <1>1, <2>1 DEF Typed, Streams
  <2> QED
    BY <2>2, <2>3 DEF Typed
<1>2. ASSUME Typed, UNCHANGED vars PROVE Typed'
  <2>1. UNCHANGED <<log, bus, boot, clients, pushChannel, sub, slot, todo, early, aired, work, inbox, down,
                    tries, late, faults, dead>>
    BY <1>2 DEF vars, busVars, bootVars, subVars, netVars, callVars
  <2>2. Scalars'
    BY <1>2, <2>1 DEF Typed, Scalars
  <2>3. Streams'
    BY <1>2, <2>1 DEF Typed, Streams
  <2> QED
    BY <2>2, <2>3 DEF Typed
<1>3. ASSUME Typed, NEW k \in Servers, NEW n \in 1 .. Len(log), NEW try \in 1 .. Attempts, Arrive(k, n, try)
      PROVE  Typed'
  <2>1. /\ late' \subseteq late /\ inbox' = Handled(k, n)
        /\ UNCHANGED <<log, bus, boot, clients, pushChannel, sub, slot, todo, early, aired, work, down,
                       tries, faults, dead>>
    BY <1>3, Arrived
  <2>2. DOMAIN inbox' = Servers /\ \A s \in Servers : inbox'[s] \in Seq(Deliveries(Len(log)))
    BY <1>3, <2>1, Called
  <2>3. Scalars'
    BY <1>3, <2>1 DEF Typed, Scalars
  <2>4. Streams'
    BY <1>3, <2>1, <2>2 DEF Typed, Streams
  <2> QED
    BY <2>3, <2>4 DEF Typed
<1> QED
  BY <1>1, <1>2, <1>3, PublishTyped, ScalarsNext, StreamsNext DEF Next, Typed

\* Every variable of the task process and of the connect servers keeps its type.
THEOREM TypeCorrect == Spec => []TypeOK
BY TypedInit, TypedNext, TypedIsTyped, PTL DEF Spec
(* Run fills the list of servers before it makes a channel. *)

LEMMA StagedNext == Typed /\ Staged /\ [Next]_vars => Staged'
<1> SUFFICES ASSUME Typed, Staged, [Next]_vars PROVE Staged'
  OBVIOUS
<1> USE DEF busVars, bootVars, subVars, netVars, callVars
<1>a. NoSlot \notin Slots /\ NilSlot \notin Slots
  BY TaskAssumption DEF NoSlot, NilSlot, Slots, TaskAssumption
<1>b. Scalars /\ DOMAIN pushChannel = Slots
  BY DEF Typed, Streams
<1>0. /\ NoSlot \notin Slots /\ NilSlot \notin Slots /\ Scalars
      /\ DOMAIN pushChannel = Slots /\ DOMAIN work = Slots
  BY <1>a, <1>b DEF Scalars
<1>1. ASSUME UNCHANGED <<boot, clients, slot, pushChannel, work>> PROVE Staged'
  BY <1>1 DEF Staged
<1>2. CASE Subscribe
  BY <1>2 DEF Subscribe, After, Staged
<1>3. CASE MakeClients
  BY <1>3 DEF MakeClients, Staged
<1>4. ASSUME NEW k \in Servers, AddClient(k) PROVE Staged'
  <2>1. /\ boot = "discover" /\ boot' = (IF clients' = Registered THEN "push" ELSE boot)
        /\ clients' = clients \cup {k} /\ UNCHANGED <<slot, pushChannel, work>>
    BY <1>4 DEF AddClient, After
  <2>2. clients' \subseteq Servers /\ clients' # Nil
    BY <1>0, <1>4, <2>1, TaskAssumption DEF AddClient, Scalars, TaskAssumption
  <2> QED
    BY <2>1, <2>2 DEF Staged
<1>5. ASSUME NEW i \in Slots, GoPush(i) PROVE Staged'
  BY <1>5 DEF GoPush, After, Staged
<1>6. ASSUME NEW i \in Slots, TakeSingle(i) PROVE Staged'
  BY <1>0, <1>6 DEF TakeSingle, Staged
<1>7. CASE SendSingle
  <2>1. boot \in {"push", "done"}
    BY <1>0, <1>7 DEF SendSingle, Staged, Scalars
  <2> QED
    BY <1>7, <2>1 DEF SendSingle, Staged
<1>8. ASSUME NEW i \in Slots, Receive(i) PROVE Staged'
  <2>1. boot \in {"push", "done"}
    BY <1>0, <1>8 DEF Receive, Staged, Scalars
  <2> QED
    BY <1>8, <2>1 DEF Receive, Staged
<1>9. ASSUME NEW i \in Slots, CallSingle(i) PROVE Staged'
  <2>1. work[i] # 0 /\ work' \in {work, [work EXCEPT ![i] = 0]} /\ UNCHANGED <<boot, clients, slot, pushChannel>>
    BY <1>9, SingleCalled
  <2>2. boot \in {"push", "done"}
    BY <1>0, <2>1 DEF Staged, Scalars
  <2> QED
    BY <2>1, <2>2 DEF Staged
<1>10. CASE \/ TakeRoom \/ (\E k \in Servers : CallRoom(k) \/ Down(k)) \/ (\E m \in Content : Publish(m))
            \/ (\E k \in Servers, n \in 1 .. Len(log), try \in 1 .. Attempts : Arrive(k, n, try))
            \/ UNCHANGED vars
  <2>1. UNCHANGED <<boot, clients, slot, pushChannel, work>>
    BY <1>10 DEF TakeRoom, CallRoom, Down, Publish, Arrive, vars
  <2> QED
    BY <1>1, <2>1
<1> QED
  BY <1>2, <1>3, <1>4, <1>5, <1>6, <1>7, <1>8, <1>9, <1>10 DEF Next, Run, Subscriber, Worker

LEMMA SafeNext == Typed /\ Staged /\ KnownNeverKills /\ [Next]_vars => KnownNeverKills'
<1> SUFFICES ASSUME Typed, Staged, KnownNeverKills, [Next]_vars PROVE KnownNeverKills'
  OBVIOUS
<1> USE DEF busVars, bootVars, subVars, netVars, callVars
<1>0. /\ Len(log) \in Nat /\ DOMAIN log = 1 .. Len(log) /\ log \in Seq(Messages)
      /\ dead \in MapRace .. Len(log) /\ Scalars /\ MapRace \notin DOMAIN log
  <2>1. log \in Seq(Messages)
    BY DEF Typed, Streams
  <2>2. Len(log) \in Nat /\ DOMAIN log = 1 .. Len(log)
    BY <2>1, LenProperties
  <2> QED
    BY <2>1, <2>2 DEF Typed, Scalars, MapRace
<1>1. ASSUME UNCHANGED <<log, dead>> PROVE KnownNeverKills'
  BY <1>1 DEF KnownNeverKills
<1>2. ASSUME NEW m \in Content, Publish(m) PROVE KnownNeverKills'
  <2>1. log' = Append(log, m) /\ dead' = dead /\ m \in Messages
    BY <1>2, TaskAssumption, ContentTyped DEF Publish, TaskAssumption
  <2>2. /\ DOMAIN log' = 1 .. Len(log) + 1
        /\ \A i \in 1 .. Len(log) : log'[i] = log[i]
    <3>1. log' \in Seq(Messages) /\ Len(log') = Len(log) + 1
          /\ \A i \in 1 .. Len(log) : log'[i] = log[i]
      BY <1>0, <2>1, AppendProperties
    <3> QED
      BY <3>1, LenProperties
  <2>3. dead \in DOMAIN log' => dead \in DOMAIN log
    BY <1>0, <2>2 DEF MapRace
  <2> QED
    BY <1>0, <2>1, <2>2, <2>3 DEF KnownNeverKills
<1>3. ASSUME NEW k \in Servers, AddClient(k) PROVE KnownNeverKills'
  <2>1. log' = log /\ dead' \in {dead, MapRace}
    BY <1>3 DEF AddClient
  <2> QED
    BY <1>0, <2>1 DEF KnownNeverKills
<1>4. ASSUME NEW i \in Slots, CallSingle(i) PROVE KnownNeverKills'
  <2>1. CASE UNCHANGED <<log, dead>>
    BY <1>1, <2>1
  <2>2. CASE ~UNCHANGED <<log, dead>>
    <3>1. /\ work[i] # 0 /\ log' = log /\ dead' = work[i]
          /\ ~(clients # Nil /\ log[work[i]].server \in clients /\ UnderServerId(log[work[i]].server))
      <4>1. work[i] \in 1 .. Len(log)
        BY <1>4, SingleCalled
      <4> QED
        BY <1>0, <1>4, <2>2, <4>1, SingleCalled
    <3>2. clients # Nil /\ Registered \subseteq clients
      BY <1>0, <3>1 DEF Staged, Scalars
    <3> QED
      BY <3>1, <3>2 DEF KnownNeverKills
  <2> QED
    BY <2>1, <2>2
<1>5. CASE \/ Subscribe \/ MakeClients \/ SendSingle \/ TakeRoom
           \/ \E i \in Slots : GoPush(i) \/ TakeSingle(i) \/ Receive(i)
           \/ \E k \in Servers : CallRoom(k) \/ Down(k)
           \/ \E k \in Servers, n \in 1 .. Len(log), try \in 1 .. Attempts : Arrive(k, n, try)
           \/ UNCHANGED vars
  <2>1. UNCHANGED <<log, dead>>
    BY <1>5 DEF Subscribe, MakeClients, SendSingle, TakeRoom, GoPush, TakeSingle, Receive, CallRoom, Down, Arrive, vars
  <2> QED
    BY <1>1, <2>1
<1> QED
  BY <1>2, <1>3, <1>4, <1>5 DEF Next, Run, Subscriber, Worker

\* A single message for a server that was registered at the start under its serverId does
\* not end the process, whatever is published before Run is done (task/task.go Run).
THEOREM RegisteredIsSafe == Spec => []KnownNeverKills
<1>1. Init => KnownNeverKills
  BY DEF Init, KnownNeverKills
<1> QED
  BY <1>1, TypedInit, TypedNext, StagedNext, SafeNext, PTL DEF Spec
-------------------------------------------------------------------------------
(* Room messages are taken in order, one at a time.  An attempt that arrives     *)
(* late is one of a call that is over, and so of a message the server got, or    *)
(* every attempt of which broke.                                                 *)

Room(n) == log[n].op # "single"
Touched(k, n) == n \in Got(k) \/ tries[k][n] > 0

\* What the subscriber will take is newer than what it has taken ...
Ordered ==
  /\ \A i, j \in DOMAIN bus : i < j => bus[i] < bus[j]
  /\ \A i \in DOMAIN bus : sub < bus[i] /\ early < bus[i] /\ \A n \in aired : n < bus[i]

\* ... and than every room message a server was called with.
Behind ==
  \A k \in Servers, n \in 1 .. Len(log) : Room(n) /\ Touched(k, n) =>
    (\A i \in DOMAIN bus : n < bus[i]) /\ (todo # {} => n <= sub)

\* What goes through the workers are single messages.
Singles ==
  /\ \A i \in Slots : work[i] # 0 => log[work[i]].op = "single"
  /\ \A i \in Slots : pushChannel[i] # Nil \/ slot = i =>
                        \A j \in DOMAIN pushChannel[i] : log[pushChannel[i][j]].op = "single"
  /\ slot \in Slots => log[sub].op = "single"

Ops == \A k \in Servers : \A j \in DOMAIN inbox[k] : inbox[k][j].op = log[inbox[k][j].id].op

\* An attempt that may arrive was made, and none of a message that is not published.
Tried ==
  /\ \A k \in Servers, n \in 1 .. MaxMsg : n > Len(log) => tries[k][n] = 0
  /\ \A k \in Servers, n \in 1 .. Len(log), try \in 1 .. Attempts : <<k, n, try>> \in late => tries[k][n] > 0

\* A call of which an attempt broke is being made, or the server got the message, or
\* every attempt broke.
Settled ==
  \A k \in Servers \ down, n \in 1 .. Len(log) : Room(n) /\ tries[k][n] > 0 =>
    (k \in todo /\ n = sub) \/ n \in Got(k) \/ Failed(k, n)

InOrders == \A k \in Servers : InOrder(k)

\* A room message taken after Run was done has got to every server it is not to be sent to
\* any more, and lives, or every attempt to call it broke.
Reaches ==
  \A k \in Registered \ down :
    /\ \A n \in aired : n > early => n \in Got(k) \/ Failed(k, n)
    /\ todo # {} /\ k \notin todo => \A n \in 1 .. Len(log) : n = sub /\ n > early => n \in Got(k) \/ Failed(k, n)

StreamInv == Ordered /\ Behind /\ Singles /\ Ops /\ Tried /\ Settled /\ InOrders /\ Reaches

\* The bus without its first message.
LEMMA Shorter ==
  ASSUME Typed, Ordered, bus # <<>>
  PROVE  /\ \A i, j \in DOMAIN Tail(bus) : i < j => Tail(bus)[i] < Tail(bus)[j]
         /\ \A i \in DOMAIN Tail(bus) : /\ Head(bus) < Tail(bus)[i] /\ early < Tail(bus)[i]
                                        /\ sub < Tail(bus)[i] /\ Early(Head(bus)) < Tail(bus)[i]
                                        /\ \A n \in aired : n < Tail(bus)[i]
         /\ \A n \in aired : n < Head(bus)
         /\ 1 \in DOMAIN bus /\ Head(bus) = bus[1]
         /\ \A i \in DOMAIN Tail(bus) : i + 1 \in DOMAIN bus /\ Tail(bus)[i] = bus[i + 1]
<1>1. bus \in Seq(1 .. Len(log)) /\ Len(log) \in Nat
  BY LenProperties DEF Typed, Streams
<1>2. /\ Tail(bus) \in Seq(1 .. Len(log)) /\ Len(Tail(bus)) = Len(bus) - 1 /\ Head(bus) = bus[1]
      /\ \A i \in 1 .. Len(Tail(bus)) : Tail(bus)[i] = bus[i + 1]
  BY <1>1, HeadTailProperties
<1>3. Len(bus) \in Nat /\ Len(bus) > 0 /\ DOMAIN bus = 1 .. Len(bus) /\ DOMAIN Tail(bus) = 1 .. Len(Tail(bus))
  BY <1>1, <1>2, LenProperties, EmptySeq
<1>4. \A i \in DOMAIN Tail(bus) : i \in Int /\ i + 1 \in DOMAIN bus /\ 1 < i + 1 /\ Tail(bus)[i] = bus[i + 1]
  BY <1>2, <1>3
<1>5. 1 \in DOMAIN bus
  BY <1>3
<1>6. \A i, j \in DOMAIN Tail(bus) : i < j => Tail(bus)[i] < Tail(bus)[j]
  <2> SUFFICES ASSUME NEW i \in DOMAIN Tail(bus), NEW j \in DOMAIN Tail(bus), i < j
               PROVE  Tail(bus)[i] < Tail(bus)[j]
    OBVIOUS
  <2>1. i + 1 < j + 1
    BY <1>4
  <2> QED
    BY <1>4, <2>1 DEF Ordered
<1>7. \A i \in DOMAIN Tail(bus) : /\ Head(bus) < Tail(bus)[i] /\ early < Tail(bus)[i]
                                  /\ sub < Tail(bus)[i] /\ \A n \in aired : n < Tail(bus)[i]
  BY <1>2, <1>4, <1>5 DEF Ordered
<1>8. \A n \in aired : n < Head(bus)
  BY <1>2, <1>5 DEF Ordered
<1> QED
  BY <1>2, <1>4, <1>5, <1>6, <1>7, <1>8 DEF Early

\* What is published is newer than anything before.
LEMMA BusAfter ==
  ASSUME Typed, NEW m \in Content, Publish(m)
  PROVE  \/ bus' = bus
         \/ /\ Len(bus) \in Nat /\ DOMAIN bus = 1 .. Len(bus) /\ DOMAIN bus' = 1 .. Len(bus) + 1
            /\ \A i \in DOMAIN bus : bus'[i] = bus[i] /\ bus[i] \in 1 .. Len(log)
            /\ bus'[Len(bus) + 1] = Len(log) + 1
<1>1. bus \in Seq(1 .. Len(log)) /\ Len(log) \in Nat
  BY LenProperties DEF Typed, Streams
<1>2. bus \in Seq(Nat)
  BY <1>1, SeqMonotonic
<1>3. /\ Append(bus, Len(log) + 1) \in Seq(Nat) /\ Len(Append(bus, Len(log) + 1)) = Len(bus) + 1
      /\ \A i \in 1 .. Len(bus) : Append(bus, Len(log) + 1)[i] = bus[i]
      /\ Append(bus, Len(log) + 1)[Len(bus) + 1] = Len(log) + 1
  BY <1>1, <1>2, AppendProperties
<1>4. /\ Len(bus) \in Nat /\ DOMAIN bus = 1 .. Len(bus)
      /\ DOMAIN Append(bus, Len(log) + 1) = 1 .. Len(bus) + 1
  BY <1>1, <1>3, LenProperties
<1>5. \A i \in DOMAIN bus : bus[i] \in 1 .. Len(log)
  BY <1>1, <1>4, ElementOfSeq
<1> QED
  BY <1>3, <1>4, <1>5 DEF Publish

\* What a server got is a message that was published.
LEMMA GotIds ==
  ASSUME Typed, NEW k \in Servers
  PROVE  DOMAIN inbox[k] \subseteq Nat /\ \A j \in DOMAIN inbox[k] : inbox[k][j].id \in 1 .. Len(log)
<1> DEFINE D == Deliveries(Len(log))
<1>1. inbox[k] \in Seq(D)
  BY DEF Typed, Streams
<1> HIDE DEF D
<1>2. DOMAIN inbox[k] = 1 .. Len(inbox[k]) /\ \A j \in 1 .. Len(inbox[k]) : inbox[k][j] \in D
  BY <1>1, LenProperties, ElementOfSeq
<1> QED
  BY <1>2 DEF D, Deliveries

LEMMA OrderedNext == Typed /\ Ordered /\ [Next]_vars => Ordered'
<1> SUFFICES ASSUME Typed, Ordered, [Next]_vars PROVE Ordered'
  OBVIOUS
<1> USE DEF busVars, bootVars, subVars, netVars, callVars
<1>0. Scalars /\ Len(log) \in Nat
  BY LenProperties DEF Typed, Streams
<1>1. ASSUME UNCHANGED <<bus, early>>, sub' \in {0, sub}, aired' \subseteq aired \cup ({sub} \ {0}) PROVE Ordered'
  <2>1. \A i \in DOMAIN bus : bus[i] \in 1 .. Len(log)
    BY LenProperties, ElementOfSeq DEF Typed, Streams
  <2> QED
    BY <1>1, <2>1 DEF Ordered
<1>2. ASSUME NEW m \in Content, Publish(m) PROVE Ordered'
  <2>1. UNCHANGED <<sub, early, aired>>
    BY <1>2 DEF Publish
  <2>2. CASE bus' = bus
    BY <2>1, <2>2 DEF Ordered
  <2>3. CASE bus' # bus
    <3>1. /\ Len(bus) \in Nat /\ DOMAIN bus = 1 .. Len(bus) /\ DOMAIN bus' = 1 .. Len(bus) + 1
          /\ \A i \in DOMAIN bus : bus'[i] = bus[i] /\ bus[i] \in 1 .. Len(log)
          /\ bus'[Len(bus) + 1] = Len(log) + 1
      BY <1>2, <2>3, BusAfter
    <3>2. sub < Len(log) + 1 /\ early < Len(log) + 1 /\ \A n \in aired : n < Len(log) + 1
      BY <1>0 DEF Scalars
    <3>3. \A i, j \in DOMAIN bus' : i < j => bus'[i] < bus'[j]
      <4> SUFFICES ASSUME NEW i \in DOMAIN bus', NEW j \in DOMAIN bus', i < j PROVE bus'[i] < bus'[j]
        OBVIOUS
      <4>1. i \in DOMAIN bus /\ (j \in DOMAIN bus \/ j = Len(bus) + 1)
        BY <3>1
      <4> QED
        BY <1>0, <3>1, <4>1 DEF Ordered
    <3>4. \A i \in DOMAIN bus' : sub < bus'[i] /\ early < bus'[i] /\ \A n \in aired : n < bus'[i]
      <4> SUFFICES ASSUME NEW i \in DOMAIN bus'
                   PROVE  sub < bus'[i] /\ early < bus'[i] /\ \A n \in aired : n < bus'[i]
        OBVIOUS
      <4>1. i \in DOMAIN bus \/ i = Len(bus) + 1
        BY <3>1
      <4> QED
        BY <3>1, <3>2, <4>1 DEF Ordered
    <3> QED
      BY <2>1, <3>3, <3>4 DEF Ordered
  <2> QED
    BY <2>2, <2>3
<1>3. ASSUME bus # <<>>, bus' = Tail(bus), early' = Early(Head(bus)), sub' \in {sub, 0, Head(bus)}, sub = 0,
             aired' \subseteq aired \cup {Head(bus)}
      PROVE  Ordered'
  BY <1>3, Shorter DEF Ordered
<1>4. CASE \/ Subscribe \/ MakeClients \/ SendSingle
           \/ \E k \in Servers : AddClient(k) \/ CallRoom(k) \/ Down(k)
           \/ \E i \in Slots : GoPush(i) \/ Receive(i) \/ CallSingle(i)
           \/ \E k \in Servers, n \in 1 .. Len(log), try \in 1 .. Attempts : Arrive(k, n, try)
           \/ UNCHANGED vars
  <2>1. UNCHANGED <<bus, early>>
    BY <1>4 DEF Subscribe, MakeClients, SendSingle, AddClient, CallRoom, Down, GoPush, Receive, CallSingle, Arrive, vars
  <2>2. sub' \in {0, sub} /\ aired' \subseteq aired \cup ({sub} \ {0})
    <3>1. ASSUME NEW k \in Servers, CallRoom(k)
          PROVE  sub' \in {0, sub} /\ aired' \subseteq aired \cup ({sub} \ {0})
      BY <1>0, <3>1, RoomCalled
    <3> QED
      BY <1>4, <3>1 DEF Subscribe, MakeClients, SendSingle, AddClient, Down, GoPush, Receive, CallSingle, Arrive, vars
  <2> QED
    BY <1>1, <2>1, <2>2
<1>5. CASE \E i \in Slots : TakeSingle(i)
  BY <1>3, <1>5 DEF TakeSingle
<1>6. CASE TakeRoom
  BY <1>3, <1>6 DEF TakeRoom
<1> QED
  BY <1>2, <1>4, <1>5, <1>6 DEF Next, Run, Subscriber, Worker

LEMMA SinglesNext == Typed /\ Singles /\ [Next]_vars => Singles'
<1> SUFFICES ASSUME Typed, Singles, [Next]_vars PROVE Singles'
  OBVIOUS
<1> USE DEF busVars, bootVars, subVars, netVars, callVars
<1>a. NoSlot \notin Slots /\ NilSlot \notin Slots
  BY TaskAssumption DEF NoSlot, NilSlot, Slots, TaskAssumption
<1>b. Scalars /\ DOMAIN pushChannel = Slots /\ Len(log) \in Nat
  BY LenProperties DEF Typed, Streams
<1>c. \A i \in Slots : (pushChannel[i] # Nil \/ slot = i) => pushChannel[i] \in Seq(1 .. Len(log))
  BY DEF Typed, Streams
<1>0. /\ Len(log) \in Nat /\ NoSlot \notin Slots /\ NilSlot \notin Slots /\ Scalars
      /\ DOMAIN pushChannel = Slots /\ DOMAIN work = Slots
      /\ \A i \in Slots : (pushChannel[i] # Nil \/ slot = i) => pushChannel[i] \in Seq(1 .. Len(log))
  BY <1>a, <1>b, <1>c DEF Scalars
<1>1. ASSUME UNCHANGED <<log, work, pushChannel>>, slot' \notin Slots \/ UNCHANGED <<slot, sub>>
      PROVE  Singles'
  BY <1>1 DEF Singles
<1>2. ASSUME NEW m \in Content, Publish(m) PROVE Singles'
  <2>1. /\ log' = Append(log, m) /\ m \in Messages /\ log \in Seq(Messages)
        /\ UNCHANGED <<work, pushChannel, slot, sub>>
    BY <1>2, TaskAssumption, ContentTyped DEF Publish, TaskAssumption, Typed, Streams
  <2>2. \A i \in 1 .. Len(log) : log'[i] = log[i]
    BY <2>1, AppendProperties
  <2>3. \A i \in Slots : work[i] # 0 => work[i] \in 1 .. Len(log)
    BY <1>0 DEF Scalars
  <2>4. slot \in Slots => sub \in 1 .. Len(log)
    BY <1>0 DEF Scalars
  <2>5. \A i \in Slots : pushChannel[i] # Nil \/ slot = i =>
          \A j \in DOMAIN pushChannel[i] : pushChannel[i][j] \in 1 .. Len(log)
    BY <1>0, LenProperties, ElementOfSeq
  <2> QED
    BY <2>1, <2>2, <2>3, <2>4, <2>5 DEF Singles
<1>3. ASSUME NEW i \in Slots, GoPush(i) PROVE Singles'
  <2>1. /\ pushChannel' = [pushChannel EXCEPT ![i] = <<>>] /\ UNCHANGED <<log, work, slot, sub>>
    BY <1>3 DEF GoPush
  <2>2. \A j \in Slots : pushChannel'[j] = IF j = i THEN <<>> ELSE pushChannel[j]
    BY <1>0, <2>1
  <2>3. DOMAIN <<>> = {}
    OBVIOUS
  <2> QED
    BY <2>1, <2>2, <2>3 DEF Singles
<1>4. ASSUME NEW i \in Slots, TakeSingle(i) PROVE Singles'
  <2>1. /\ log[Head(bus)].op = "single" /\ sub' = Head(bus)
        /\ slot' = (IF pushChannel[i] = Nil THEN NilSlot ELSE i)
        /\ UNCHANGED <<log, work, pushChannel>>
    BY <1>4 DEF TakeSingle
  <2> QED
    BY <1>0, <2>1 DEF Singles
<1>5. CASE SendSingle
  <2>1. /\ slot \in Slots /\ pushChannel' = [pushChannel EXCEPT ![slot] = Append(pushChannel[slot], sub)]
        /\ slot' \notin Slots /\ UNCHANGED <<log, work>>
    BY <1>0, <1>5 DEF SendSingle
  <2>2. sub \in 1 .. Len(log) /\ pushChannel[slot] \in Seq(1 .. Len(log))
    BY <1>0, <2>1 DEF Scalars
  <2> DEFINE S == 1 .. Len(log)
             q == pushChannel[slot]
  <2> HIDE DEF S
  <2>3. sub \in S /\ q \in Seq(S)
    BY <2>2 DEF S
  <2>4. /\ Append(q, sub) \in Seq(S) /\ Len(Append(q, sub)) = Len(q) + 1
        /\ \A j \in 1 .. Len(q) : Append(q, sub)[j] = q[j]
        /\ Append(q, sub)[Len(q) + 1] = sub
    BY <2>3, AppendProperties
  <2>5. Len(q) \in Nat /\ DOMAIN q = 1 .. Len(q) /\ DOMAIN Append(q, sub) = 1 .. Len(q) + 1
    BY <2>3, <2>4, LenProperties
  <2>6. \A j \in DOMAIN Append(q, sub) : log[Append(q, sub)[j]].op = "single"
    <3>1. \A j \in DOMAIN Append(q, sub) : j \in DOMAIN q \/ j = Len(q) + 1
      BY <2>5
    <3> QED
      BY <2>1, <2>4, <2>5, <3>1 DEF Singles
  <2>7. \A j \in Slots : pushChannel'[j] = IF j = slot THEN Append(q, sub) ELSE pushChannel[j]
    BY <1>0, <2>1
  <2> QED
    BY <2>1, <2>6, <2>7 DEF Singles
<1>6. ASSUME NEW i \in Slots, Receive(i) PROVE Singles'
  <2>1. /\ pushChannel[i] # Nil /\ pushChannel[i] # <<>>
        /\ work' = [work EXCEPT ![i] = Head(pushChannel[i])]
        /\ pushChannel' = [pushChannel EXCEPT ![i] = Tail(pushChannel[i])]
        /\ UNCHANGED <<log, slot, sub>>
    BY <1>6 DEF Receive
  <2> DEFINE S == 1 .. Len(log)
             q == pushChannel[i]
  <2> HIDE DEF S
  <2>2. q \in Seq(S) /\ q # <<>>
    BY <1>0, <2>1 DEF S
  <2>3. /\ Tail(q) \in Seq(S) /\ Len(Tail(q)) = Len(q) - 1 /\ Head(q) = q[1]
        /\ \A j \in 1 .. Len(Tail(q)) : Tail(q)[j] = q[j + 1]
    BY <2>2, HeadTailProperties
  <2>4. /\ Len(q) \in Nat /\ Len(q) > 0 /\ DOMAIN q = 1 .. Len(q) /\ DOMAIN Tail(q) = 1 .. Len(Tail(q))
    BY <2>2, <2>3, LenProperties, EmptySeq
  <2>5. \A j \in DOMAIN q : log[q[j]].op = "single"
    BY <2>1 DEF Singles
  <2>6. log[Head(q)].op = "single" /\ \A j \in DOMAIN Tail(q) : log[Tail(q)[j]].op = "single"
    <3>1. 1 \in DOMAIN q /\ \A j \in DOMAIN Tail(q) : j + 1 \in DOMAIN q
      BY <2>3, <2>4
    <3> QED
      BY <2>3, <2>4, <2>5, <3>1
  <2>7. \A j \in Slots : /\ pushChannel'[j] = IF j = i THEN Tail(q) ELSE pushChannel[j]
                         /\ work'[j] = IF j = i THEN Head(q) ELSE work[j]
    BY <1>0, <2>1
  <2> QED
    BY <2>1, <2>6, <2>7 DEF Singles
<1>7. ASSUME NEW i \in Slots, CallSingle(i) PROVE Singles'
  <2>1. /\ work' = work \/ work' = [work EXCEPT ![i] = 0]
        /\ UNCHANGED <<log, pushChannel, slot, sub>>
    BY <1>7, SingleCalled
  <2>2. \A j \in Slots : work'[j] = work[j] \/ work'[j] = 0
    BY <1>0, <2>1
  <2> QED
    BY <2>1, <2>2 DEF Singles
<1>8. CASE \/ Subscribe \/ MakeClients \/ TakeRoom
           \/ \E k \in Servers : AddClient(k) \/ CallRoom(k) \/ Down(k)
           \/ \E k \in Servers, n \in 1 .. Len(log), try \in 1 .. Attempts : Arrive(k, n, try)
           \/ UNCHANGED vars
  <2>1. UNCHANGED <<log, work, pushChannel, slot>> /\ (slot \in Slots => sub' = sub)
    <3>1. CASE TakeRoom
      BY <1>0, <3>1 DEF TakeRoom, Scalars
    <3>2. ASSUME NEW k \in Servers, CallRoom(k)
          PROVE  UNCHANGED <<log, work, pushChannel, slot>> /\ (slot \in Slots => sub' = sub)
      BY <1>0, <3>2, RoomCalled DEF CallRoom
    <3> QED
      BY <1>8, <3>1, <3>2 DEF Subscribe, MakeClients, AddClient, Down, Arrive, vars
  <2> QED
    BY <1>1, <2>1
<1> QED
  BY <1>2, <1>3, <1>4, <1>5, <1>6, <1>7, <1>8 DEF Next, Run, Subscriber, Worker
-------------------------------------------------------------------------------
(* What a step does to the calls.                                                *)

\* The log grows, and only when a message is published.
LEMMA LogAfter ==
  ASSUME Typed, [Next]_vars
  PROVE  /\ Len(log) \in Nat /\ Len(log') \in Nat /\ Len(log) <= Len(log') /\ Len(log') <= MaxMsg /\ MaxMsg \in Nat
         /\ \A n \in 1 .. Len(log) : log'[n] = log[n]
         /\ log' = log \/ (Len(log') = Len(log) + 1 /\
                           UNCHANGED <<sub, todo, aired, early, inbox, tries, late, down>>)
<1>0. /\ log \in Seq(Messages) /\ Len(log) \in Nat /\ Len(log) <= MaxMsg /\ MaxMsg \in Nat
  BY LenProperties, TaskAssumption DEF Typed, Streams, Scalars, TaskAssumption
<1>1. ASSUME NEW m \in Content, Publish(m)
      PROVE  /\ Len(log') = Len(log) + 1 /\ \A n \in 1 .. Len(log) : log'[n] = log[n]
             /\ Len(log') <= MaxMsg /\ UNCHANGED <<sub, todo, aired, early, inbox, tries, late, down>>
  <2>1. log' = Append(log, m) /\ m \in Messages /\ Len(log) < MaxMsg
        /\ UNCHANGED <<sub, todo, aired, early, inbox, tries, late, down>>
    BY <1>1, TaskAssumption, ContentTyped DEF Publish, TaskAssumption, subVars, netVars, callVars
  <2>2. Len(log') = Len(log) + 1 /\ \A n \in 1 .. Len(log) : log'[n] = log[n]
    BY <1>0, <2>1, AppendProperties
  <2> QED
    BY <1>0, <2>1, <2>2
<1>2. ASSUME ~(\E m \in Content : Publish(m)) PROVE log' = log
  BY <1>2 DEF Next, Run, Subscriber, Worker, Subscribe, MakeClients, AddClient, GoPush, TakeSingle, SendSingle,
              TakeRoom, CallRoom, Receive, CallSingle, Down, Arrive, vars, busVars
<1> QED
  BY <1>0, <1>1, <1>2

\* A step that calls nobody leaves the calls alone.  Another one is an attempt, or one that
\* arrives late: of a single message, of the room message at hand, or of one tried before.
LEMMA Effects ==
  ASSUME Typed, Singles, Tried, [Next]_vars
  PROVE  \/ UNCHANGED <<inbox, tries, late>>
         \/ \E k \in Servers, n \in 1 .. Len(log) :
              /\ log' = log /\ k \notin down
              /\ ~Room(n) \/ (n = sub /\ k \in todo) \/ tries[k][n] > 0
              /\ \/ inbox' = Handled(k, n) /\ tries' = tries /\ late' \subseteq late
                 \/ Break(k, n)
<1> USE DEF busVars, bootVars, subVars, netVars, callVars
<1>1. ASSUME NEW k \in Servers, CallRoom(k)
      PROVE  \/ UNCHANGED <<inbox, tries, late>>
             \/ /\ log' = log /\ k \notin down /\ k \in todo /\ sub \in 1 .. Len(log)
                /\ \/ inbox' = Handled(k, sub) /\ tries' = tries /\ late' \subseteq late
                   \/ Break(k, sub)
  <2>1. /\ k \in todo /\ sub \in 1 .. Len(log) /\ log' = log
    BY <1>1, RoomCalled
  <2>2. PICK over \in BOOLEAN : Attempt(k, sub, over)
    BY <1>1, RoomCalled
  <2>3. Break(k, sub) => k \notin down
    BY DEF Break
  <2> QED
    BY <2>1, <2>2, <2>3, Attempted
<1>2. ASSUME NEW i \in Slots, CallSingle(i)
      PROVE  \/ UNCHANGED <<inbox, tries, late>>
             \/ \E k \in Servers, n \in 1 .. Len(log) :
                  /\ log' = log /\ k \notin down /\ ~Room(n)
                  /\ \/ inbox' = Handled(k, n) /\ tries' = tries /\ late' \subseteq late
                     \/ Break(k, n)
  <2>1. work[i] \in 1 .. Len(log) /\ log' = log
    BY <1>2, SingleCalled
  <2>2. ~Room(work[i])
    BY <2>1 DEF Room, Singles
  <2>3. CASE UNCHANGED <<inbox, tries, late>>
    BY <2>3
  <2>4. CASE ~UNCHANGED <<inbox, tries, late>>
    <3>1. log[work[i]].server \in Servers /\ \E over \in BOOLEAN : Attempt(log[work[i]].server, work[i], over)
      BY <1>2, <2>4, SingleCalled
    <3>2. PICK k \in Servers, over \in BOOLEAN : Attempt(k, work[i], over)
      BY <3>1
    <3>3. Break(k, work[i]) => k \notin down
      BY DEF Break
    <3> QED
      BY <2>1, <2>2, <2>4, <3>2, <3>3, Attempted
  <2> QED
    BY <2>3, <2>4
<1>3. ASSUME NEW k \in Servers, NEW n \in 1 .. Len(log), NEW try \in 1 .. Attempts, Arrive(k, n, try)
      PROVE  /\ log' = log /\ k \notin down /\ tries[k][n] > 0
             /\ inbox' = Handled(k, n) /\ tries' = tries /\ late' \subseteq late
  BY <1>3, Arrived DEF Tried
<1>4. CASE \/ \E m \in Content : Publish(m)
           \/ Subscribe \/ MakeClients \/ SendSingle \/ TakeRoom
           \/ \E k \in Servers : AddClient(k) \/ Down(k)
           \/ \E i \in Slots : GoPush(i) \/ TakeSingle(i) \/ Receive(i)
           \/ UNCHANGED vars
  BY <1>4 DEF Publish, Subscribe, MakeClients, SendSingle, TakeRoom, AddClient, Down, GoPush, TakeSingle,
              Receive, vars
<1> QED
  BY <1>1, <1>2, <1>3, <1>4 DEF Next, Run, Subscriber, Worker

\* What a call that a server runs adds to its inbox.
LEMMA InboxAfter ==
  ASSUME Typed, NEW k \in Servers, NEW n \in 1 .. Len(log), inbox' = Handled(k, n)
  PROVE  /\ \A s \in Servers : Got(s) \subseteq Got(s)' /\ (s # k => inbox'[s] = inbox[s])
         /\ \A s \in Servers : \A m \in Got(s)' : m \in Got(s) \/ (s = k /\ m = n)
         /\ n \in Got(k)'
         /\ Len(inbox[k]) \in Nat
         /\ DOMAIN inbox[k] = 1 .. Len(inbox[k]) /\ DOMAIN inbox'[k] = 1 .. Len(inbox[k]) + 1
         /\ \A j \in 1 .. Len(inbox[k]) : inbox'[k][j] = inbox[k][j]
         /\ inbox'[k][Len(inbox[k]) + 1].id = n
         /\ inbox'[k][Len(inbox[k]) + 1].op = log[n].op
<1> DEFINE D == Deliveries(Len(log))
           l == Len(inbox[k])
<1>1. /\ Delivery(n) \in D /\ Delivery(n).id = n /\ Delivery(n).op = log[n].op
      /\ \A s \in Servers : s # k => inbox'[s] = inbox[s]
      /\ inbox'[k] = Append(inbox[k], Delivery(n))
  BY Called
<1>2. inbox[k] \in Seq(D)
  BY DEF Typed, Streams
<1> HIDE DEF D
<1>3. /\ Append(inbox[k], Delivery(n)) \in Seq(D)
      /\ Len(Append(inbox[k], Delivery(n))) = Len(inbox[k]) + 1
      /\ \A j \in 1 .. Len(inbox[k]) : Append(inbox[k], Delivery(n))[j] = inbox[k][j]
      /\ Append(inbox[k], Delivery(n))[Len(inbox[k]) + 1] = Delivery(n)
  BY <1>1, <1>2, AppendProperties
<1>4. Len(inbox[k]) \in Nat /\ DOMAIN inbox[k] = 1 .. Len(inbox[k])
      /\ DOMAIN Append(inbox[k], Delivery(n)) = 1 .. Len(inbox[k]) + 1
  BY <1>2, <1>3, LenProperties
<1>5. /\ DOMAIN inbox'[k] = 1 .. l + 1
      /\ \A j \in 1 .. l : inbox'[k][j] = inbox[k][j]
      /\ inbox'[k][l + 1] = Delivery(n) /\ l \in Nat /\ DOMAIN inbox[k] = 1 .. l
  BY <1>1, <1>3, <1>4
<1> HIDE DEF l
<1>a. /\ \A j \in DOMAIN inbox[k] : j \in DOMAIN inbox'[k] /\ inbox'[k][j] = inbox[k][j]
      /\ \A j \in DOMAIN inbox'[k] : j \in DOMAIN inbox[k] \/ j = l + 1
      /\ l + 1 \in DOMAIN inbox'[k] /\ inbox'[k][l + 1].id = n
  BY <1>1, <1>5
<1>6. ASSUME NEW s \in Servers
      PROVE  Got(s) \subseteq Got(s)' /\ \A m \in Got(s)' : m \in Got(s) \/ (s = k /\ m = n)
  <2>1. CASE s # k
    BY <1>1, <2>1 DEF Got
  <2>2. CASE s = k
    BY <1>a, <2>2 DEF Got
  <2> QED
    BY <2>1, <2>2
<1>7. n \in Got(k)'
  BY <1>a DEF Got
<1> QED
  BY <1>1, <1>5, <1>6, <1>7 DEF l
\* What a server got it keeps, and a call of which every attempt broke is made no more.
LEMMA Grows ==
  ASSUME Typed, Singles, Tried, [Next]_vars
  PROVE  /\ \A k \in Servers : Got(k) \subseteq Got(k)'
         /\ \A k \in Servers, n \in 1 .. MaxMsg : Failed(k, n) => Failed(k, n)'
<1>1. CASE UNCHANGED <<inbox, tries, late>>
  BY <1>1 DEF Got, Failed
<1>2. ASSUME NEW k \in Servers, NEW n \in 1 .. Len(log), inbox' = Handled(k, n), tries' = tries
      PROVE  /\ \A s \in Servers : Got(s) \subseteq Got(s)'
             /\ \A s \in Servers, m \in 1 .. MaxMsg : Failed(s, m) => Failed(s, m)'
  <2>1. \A s \in Servers : Got(s) \subseteq Got(s)'
    BY <1>2, InboxAfter
  <2> QED
    BY <1>2, <2>1 DEF Failed
<1>3. ASSUME NEW k \in Servers, NEW n \in 1 .. Len(log), Break(k, n)
      PROVE  /\ \A s \in Servers : Got(s) \subseteq Got(s)'
             /\ \A s \in Servers, m \in 1 .. MaxMsg : Failed(s, m) => Failed(s, m)'
  <2>1. /\ inbox' = inbox /\ tries[k][n] # Attempts
        /\ \A s \in Servers, m \in 1 .. MaxMsg : s # k \/ m # n => tries'[s][m] = tries[s][m]
    <3>1. tries[k][n] \in 0 .. Attempts - 1 /\ Attempts \in Nat
      BY <1>3, Broken, TaskAssumption DEF TaskAssumption
    <3> QED
      BY <1>3, <3>1, Broken
  <2> QED
    BY <2>1 DEF Got, Failed
<1> QED
  BY <1>1, <1>2, <1>3, Effects

\* The room messages a server is called with are the one at hand and those it was called
\* with before.
LEMMA Touching ==
  ASSUME Typed, Singles, Tried, [Next]_vars, NEW s \in Servers, NEW m \in 1 .. Len(log'),
         log'[m].op # "single", m \in Got(s)' \/ tries'[s][m] > 0
  PROVE  /\ m \in 1 .. Len(log) /\ Room(m)
         /\ Touched(s, m) \/ (m = sub /\ s \in todo)
<1>0. /\ Len(log) \in Nat /\ Len(log') \in Nat /\ Len(log') <= MaxMsg /\ Len(log) <= Len(log') /\ MaxMsg \in Nat
      /\ \A n \in 1 .. Len(log) : log'[n] = log[n]
  BY LogAfter
<1>a. m \in 1 .. MaxMsg
  BY <1>0
<1>1. CASE UNCHANGED <<inbox, tries, late>>
  <2>1. Touched(s, m)
    BY <1>1 DEF Touched, Got
  <2>2. m \in 1 .. Len(log)
    <3>1. CASE m \in Got(s)
      BY <3>1, GotIds DEF Got
    <3>2. CASE tries[s][m] > 0
      BY <1>0, <1>a, <3>2 DEF Tried
    <3> QED
      BY <2>1, <3>1, <3>2 DEF Touched
  <2> QED
    BY <1>0, <2>1, <2>2 DEF Room
<1>2. ASSUME NEW k \in Servers, NEW n \in 1 .. Len(log), log' = log,
             ~Room(n) \/ (n = sub /\ k \in todo) \/ tries[k][n] > 0,
             (inbox' = Handled(k, n) /\ tries' = tries) \/ Break(k, n)
      PROVE  /\ m \in 1 .. Len(log) /\ Room(m)
             /\ Touched(s, m) \/ (m = sub /\ s \in todo)
  <2>1. m \in 1 .. Len(log) /\ Room(m)
    BY <1>2 DEF Room
  <2>2. Touched(s, m) \/ (s = k /\ m = n)
    <3>1. CASE inbox' = Handled(k, n) /\ tries' = tries
      BY <3>1, InboxAfter DEF Touched
    <3>2. CASE Break(k, n)
      <4>1. inbox' = inbox /\ (s # k \/ m # n => tries'[s][m] = tries[s][m])
        BY <1>a, <3>2, Broken
      <4> QED
        BY <4>1 DEF Touched, Got
    <3> QED
      BY <1>2, <3>1, <3>2
  <2> QED
    BY <1>2, <2>1, <2>2 DEF Touched
<1> QED
  BY <1>1, <1>2, Effects

\* The subscriber goes on with a room message, or has called the server, and takes the
\* next one only when it has none.
LEMMA AtHand ==
  ASSUME Typed, [Next]_vars, NEW s \in Servers, s \notin down', NEW m \in 1 .. Len(log), m = sub, s \in todo
  PROVE  \/ s \in todo' /\ sub' = m
         \/ m \in Got(s)' \/ Failed(s, m)'
<1> USE DEF busVars, bootVars, subVars, netVars, callVars
<1>0. Scalars
  BY DEF Typed
<1>1. ASSUME NEW k \in Servers, CallRoom(k)
      PROVE  (s \in todo' /\ sub' = m) \/ m \in Got(s)' \/ Failed(s, m)'
  <2>1. /\ k \in todo /\ sub \in 1 .. Len(log) /\ down' = down
    BY <1>1, RoomCalled
  <2>2. PICK over \in BOOLEAN :
          /\ Attempt(k, m, over) /\ todo' = (IF over THEN todo \ {k} ELSE todo)
          /\ sub' = (IF todo' = {} THEN 0 ELSE sub)
    BY <1>1, RoomCalled
  <2>3. CASE ~over \/ k # s
    BY <2>2, <2>3
  <2>4. CASE over /\ k = s
    <3>1. CASE inbox' = Handled(s, m)
      BY <3>1, InboxAfter
    <3>2. CASE Break(s, m) /\ tries'[s][m] = Attempts
      BY <3>2 DEF Failed
    <3> QED
      BY <2>1, <2>2, <2>4, <3>1, <3>2, Attempted
  <2> QED
    BY <2>3, <2>4
<1>2. CASE (\E i \in Slots : TakeSingle(i)) \/ TakeRoom \/ SendSingle
  BY <1>0, <1>2 DEF TakeSingle, TakeRoom, SendSingle, Scalars
<1>3. CASE \/ \E j \in Content : Publish(j)
           \/ Subscribe \/ MakeClients
           \/ \E k \in Servers : AddClient(k) \/ Down(k)
           \/ \E i \in Slots : GoPush(i) \/ Receive(i) \/ CallSingle(i)
           \/ \E k \in Servers, n \in 1 .. Len(log), try \in 1 .. Attempts : Arrive(k, n, try)
           \/ UNCHANGED vars
  <2>1. todo \subseteq todo' /\ sub' = sub
    BY <1>3 DEF Publish, Subscribe, MakeClients, AddClient, Down, GoPush, Receive, CallSingle, Arrive, vars
  <2> QED
    BY <2>1
<1> QED
  BY <1>1, <1>2, <1>3 DEF Next, Run, Subscriber, Worker

\* What a step does to the bus, and to the message at hand.
LEMMA Taking ==
  ASSUME Typed, [Next]_vars
  PROVE  /\ down \subseteq down'
         /\ \A i \in DOMAIN bus' : bus'[i] = Len(log) + 1 \/ \E j \in DOMAIN bus : bus'[i] = bus[j]
         /\ \/ todo' = {}
            \/ todo # {} /\ sub' = sub /\ early' = early
            \/ TakeRoom
<1> USE DEF busVars, bootVars, subVars, netVars, callVars
<1>0. Scalars
  BY DEF Typed
<1>1. down \subseteq down'
  BY DEF Next, Run, Subscriber, Worker, Subscribe, MakeClients, AddClient, GoPush, TakeSingle, SendSingle,
         TakeRoom, CallRoom, Receive, CallSingle, Down, Arrive, Publish, vars
<1>2. \A i \in DOMAIN bus' : bus'[i] = Len(log) + 1 \/ \E j \in DOMAIN bus : bus'[i] = bus[j]
  <2>1. ASSUME NEW m \in Content, Publish(m)
        PROVE  \A i \in DOMAIN bus' : bus'[i] = Len(log) + 1 \/ \E j \in DOMAIN bus : bus'[i] = bus[j]
    <3>1. CASE bus' = bus
      BY <3>1
    <3>2. CASE bus' # bus
      <4>1. /\ Len(bus) \in Nat /\ DOMAIN bus = 1 .. Len(bus) /\ DOMAIN bus' = 1 .. Len(bus) + 1
            /\ \A i \in DOMAIN bus : bus'[i] = bus[i]
            /\ bus'[Len(bus) + 1] = Len(log) + 1
        BY <2>1, <3>2, BusAfter
      <4>2. \A i \in DOMAIN bus' : i \in DOMAIN bus \/ i = Len(bus) + 1
        BY <4>1
      <4> QED
        BY <4>1, <4>2
    <3> QED
      BY <3>1, <3>2
  <2>2. ASSUME bus # <<>>, bus' = Tail(bus)
        PROVE  \A i \in DOMAIN bus' : bus'[i] = Len(log) + 1 \/ \E j \in DOMAIN bus : bus'[i] = bus[j]
    <3>1. bus \in Seq(1 .. Len(log))
      BY DEF Typed, Streams
    <3>2. /\ Tail(bus) \in Seq(1 .. Len(log)) /\ Len(Tail(bus)) = Len(bus) - 1
          /\ \A i \in 1 .. Len(Tail(bus)) : Tail(bus)[i] = bus[i + 1]
      BY <2>2, <3>1, HeadTailProperties
    <3>3. Len(bus) \in Nat /\ DOMAIN bus = 1 .. Len(bus) /\ DOMAIN Tail(bus) = 1 .. Len(Tail(bus))
      BY <3>1, <3>2, LenProperties
    <3>4. \A i \in DOMAIN Tail(bus) : i + 1 \in DOMAIN bus /\ Tail(bus)[i] = bus[i + 1]
      BY <3>2, <3>3
    <3> QED
      BY <2>2, <3>4
  <2>3. (\E m \in Content : Publish(m)) \/ (bus # <<>> /\ bus' = Tail(bus)) \/ bus' = bus
    BY DEF Next, Run, Subscriber, Worker, Subscribe, MakeClients, AddClient, GoPush, TakeSingle, SendSingle,
           TakeRoom, CallRoom, Receive, CallSingle, Down, Arrive, vars
  <2> QED
    BY <2>1, <2>2, <2>3
<1>3. \/ todo' = {}
      \/ todo # {} /\ sub' = sub /\ early' = early
      \/ TakeRoom
  <2>1. ASSUME NEW k \in Servers, CallRoom(k)
        PROVE  todo' = {} \/ (todo # {} /\ sub' = sub /\ early' = early)
    <3>1. k \in todo /\ early' = early
      BY <2>1, RoomCalled
    <3>2. todo' \in {todo, todo \ {k}} /\ sub' = (IF todo' = {} THEN 0 ELSE sub)
      BY <2>1, RoomCalled
    <3> QED
      BY <2>1, <3>1, <3>2
  <2>2. CASE (\E i \in Slots : TakeSingle(i)) \/ SendSingle
    BY <1>0, <2>2 DEF TakeSingle, SendSingle, Scalars
  <2>3. CASE \/ \E j \in Content : Publish(j)
             \/ Subscribe \/ MakeClients
             \/ \E k \in Servers : AddClient(k) \/ Down(k)
             \/ \E i \in Slots : GoPush(i) \/ Receive(i) \/ CallSingle(i)
             \/ \E k \in Servers, n \in 1 .. Len(log), try \in 1 .. Attempts : Arrive(k, n, try)
             \/ UNCHANGED vars
    <3>1. sub' = sub /\ early' = early /\ (todo = {} => todo' = {})
      BY <2>3 DEF Publish, Subscribe, MakeClients, AddClient, Down, GoPush, Receive, CallSingle, Arrive, vars
    <3> QED
      BY <3>1
  <2> QED
    BY <2>1, <2>2, <2>3 DEF Next, Run, Subscriber, Worker
<1> QED
  BY <1>1, <1>2, <1>3
-------------------------------------------------------------------------------
(* The parts of the invariant.                                                   *)

LEMMA BehindNext == Typed /\ Ordered /\ Behind /\ Singles /\ Tried /\ [Next]_vars => Behind'
<1> SUFFICES ASSUME Typed, Ordered, Behind, Singles, Tried, [Next]_vars,
                    NEW s \in Servers, NEW m \in 1 .. Len(log'), log'[m].op # "single",
                    m \in Got(s)' \/ tries'[s][m] > 0
             PROVE  (\A i \in DOMAIN bus' : m < bus'[i]) /\ (todo' # {} => m <= sub')
  BY DEF Behind, Room, Touched
<1>0. Len(log) \in Nat /\ sub \in 0 .. Len(log)
  BY LenProperties DEF Typed, Streams, Scalars
<1>1. m \in 1 .. Len(log) /\ Room(m) /\ (Touched(s, m) \/ (m = sub /\ s \in todo))
  BY Touching
<1>2. (\A i \in DOMAIN bus : m < bus[i]) /\ (todo # {} => m <= sub)
  <2>1. CASE Touched(s, m)
    BY <1>1, <2>1 DEF Behind
  <2>2. CASE m = sub
    BY <1>0, <2>2 DEF Ordered
  <2> QED
    BY <1>1, <2>1, <2>2
<1>3. \A i \in DOMAIN bus' : m < bus'[i]
  BY <1>0, <1>1, <1>2, Taking
<1>4. TakeRoom /\ todo' # {} => m <= sub'
  <2> SUFFICES ASSUME TakeRoom, todo' # {} PROVE m <= sub'
    OBVIOUS
  <2>1. bus # <<>> /\ sub' = Head(bus)
    BY DEF TakeRoom
  <2>2. Head(bus) = bus[1] /\ 1 \in DOMAIN bus /\ Head(bus) \in 1 .. Len(log)
    BY <2>1, Shorter, Taken
  <2>3. m < bus[1]
    BY <1>2, <2>2
  <2> QED
    BY <1>0, <1>1, <2>1, <2>2, <2>3
<1>5. todo' # {} /\ ~TakeRoom => m <= sub'
  BY <1>2, Taking
<1> QED
  BY <1>3, <1>4, <1>5

LEMMA OpsNext == Typed /\ Ops /\ Singles /\ Tried /\ [Next]_vars => Ops'
<1> SUFFICES ASSUME Typed, Ops, Singles, Tried, [Next]_vars, NEW s \in Servers, NEW j \in DOMAIN inbox'[s]
             PROVE  inbox'[s][j].op = log'[inbox'[s][j].id].op
  BY DEF Ops
<1>1. CASE UNCHANGED <<inbox, tries, late>>
  <2>1. inbox[s][j].id \in 1 .. Len(log) /\ inbox[s][j].op = log[inbox[s][j].id].op
    BY <1>1, GotIds DEF Ops
  <2> QED
    BY <1>1, <2>1, LogAfter
<1>2. ASSUME NEW k \in Servers, NEW n \in 1 .. Len(log), log' = log, inbox' = Handled(k, n)
      PROVE  inbox'[s][j].op = log'[inbox'[s][j].id].op
  <2>1. CASE s # k
    <3>1. inbox'[s] = inbox[s]
      BY <1>2, <2>1, InboxAfter
    <3> QED
      BY <1>2, <3>1 DEF Ops
  <2>2. CASE s = k
    <3>1. \/ j \in DOMAIN inbox[k] /\ inbox'[k][j] = inbox[k][j]
          \/ inbox'[k][j].id = n /\ inbox'[k][j].op = log[n].op
      <4>1. /\ Len(inbox[k]) \in Nat
            /\ DOMAIN inbox[k] = 1 .. Len(inbox[k]) /\ DOMAIN inbox'[k] = 1 .. Len(inbox[k]) + 1
            /\ \A i \in 1 .. Len(inbox[k]) : inbox'[k][i] = inbox[k][i]
            /\ inbox'[k][Len(inbox[k]) + 1].id = n
            /\ inbox'[k][Len(inbox[k]) + 1].op = log[n].op
        BY <1>2, InboxAfter
      <4>2. j \in 1 .. Len(inbox[k]) \/ j = Len(inbox[k]) + 1
        BY <2>2, <4>1
      <4> QED
        BY <4>1, <4>2
    <3> QED
      BY <1>2, <2>2, <3>1 DEF Ops
  <2> QED
    BY <2>1, <2>2
<1>3. ASSUME NEW k \in Servers, NEW n \in 1 .. Len(log), log' = log, Break(k, n)
      PROVE  inbox'[s][j].op = log'[inbox'[s][j].id].op
  BY <1>3 DEF Break, Ops
<1> QED
  BY <1>1, <1>2, <1>3, Effects

LEMMA TriedNext == Typed /\ Singles /\ Tried /\ [Next]_vars => Tried'
<1> SUFFICES ASSUME Typed, Singles, Tried, [Next]_vars PROVE Tried'
  OBVIOUS
<1>0. /\ Len(log) \in Nat /\ Len(log') \in Nat /\ Len(log') <= MaxMsg /\ Len(log) <= Len(log') /\ MaxMsg \in Nat
      /\ late \subseteq Servers \X (1 .. Len(log)) \X (1 .. Attempts)
  BY LogAfter DEF Typed, Scalars
<1>1. CASE tries' = tries /\ late' \subseteq late
  <2>1. \A k \in Servers, n \in 1 .. MaxMsg : n > Len(log') => tries'[k][n] = 0
    BY <1>0, <1>1 DEF Tried
  <2>2. ASSUME NEW k \in Servers, NEW n \in 1 .. Len(log'), NEW try \in 1 .. Attempts, <<k, n, try>> \in late'
        PROVE  tries'[k][n] > 0
    <3>1. <<k, n, try>> \in late /\ n \in 1 .. Len(log)
      BY <1>0, <1>1, <2>2
    <3> QED
      BY <1>1, <3>1 DEF Tried
  <2> QED
    BY <2>1, <2>2 DEF Tried
<1>2. ASSUME NEW k \in Servers, NEW n \in 1 .. Len(log), log' = log, Break(k, n) PROVE Tried'
  <2>1. /\ tries[k][n] \in 0 .. Attempts - 1 /\ tries'[k][n] = tries[k][n] + 1
        /\ \A s \in Servers, m \in 1 .. MaxMsg : s # k \/ m # n => tries'[s][m] = tries[s][m]
        /\ late' = late \cup {<<k, n, tries[k][n] + 1>>}
    BY <1>2, Broken
  <2>2. tries'[k][n] > 0 /\ n <= Len(log) /\ n \in 1 .. MaxMsg
    BY <1>0, <2>1
  <2>3. \A s \in Servers, m \in 1 .. MaxMsg : m > Len(log') => tries'[s][m] = 0
    <3> SUFFICES ASSUME NEW s \in Servers, NEW m \in 1 .. MaxMsg, m > Len(log) PROVE tries'[s][m] = 0
      BY <1>2
    <3>1. m # n
      BY <1>0
    <3> QED
      BY <2>1, <3>1 DEF Tried
  <2>4. ASSUME NEW s \in Servers, NEW m \in 1 .. Len(log'), NEW try \in 1 .. Attempts, <<s, m, try>> \in late'
        PROVE  tries'[s][m] > 0
    <3>1. CASE s = k /\ m = n
      BY <2>2, <3>1
    <3>2. CASE ~(s = k /\ m = n)
      <4>1. <<s, m, try>> \in late /\ m \in 1 .. Len(log) /\ m \in 1 .. MaxMsg
        BY <1>0, <1>2, <2>1, <2>4, <3>2
      <4> QED
        BY <2>1, <3>2, <4>1 DEF Tried
    <3> QED
      BY <3>1, <3>2
  <2> QED
    BY <2>3, <2>4 DEF Tried
<1> QED
  BY <1>1, <1>2, Effects

LEMMA SettledNext == Typed /\ Singles /\ Tried /\ Settled /\ [Next]_vars => Settled'
<1> SUFFICES ASSUME Typed, Singles, Tried, Settled, [Next]_vars,
                    NEW s \in Servers, s \notin down', NEW m \in 1 .. Len(log'), log'[m].op # "single",
                    tries'[s][m] > 0
             PROVE  (s \in todo' /\ m = sub') \/ m \in Got(s)' \/ Failed(s, m)'
  BY DEF Settled, Room
<1>0. /\ Len(log) \in Nat /\ Len(log') \in Nat /\ Len(log') <= MaxMsg /\ MaxMsg \in Nat /\ s \notin down
  BY LogAfter, Taking
<1>1. m \in 1 .. Len(log) /\ m \in 1 .. MaxMsg /\ Room(m) /\ (Touched(s, m) \/ (m = sub /\ s \in todo))
  BY <1>0, Touching
<1>2. CASE m = sub /\ s \in todo
  BY <1>1, <1>2, AtHand
<1>3. CASE m \in Got(s) \/ Failed(s, m)
  BY <1>1, <1>3, Grows
<1>4. CASE tries[s][m] > 0
  BY <1>0, <1>1, <1>2, <1>3, <1>4 DEF Settled
<1> QED
  BY <1>1, <1>2, <1>3, <1>4 DEF Touched

\* A message that is older than one the server has already got was given up, or the server
\* has got it too.
LEMMA OlderIsKnown ==
  ASSUME Typed, Behind, Singles, Tried, Settled, NEW k \in Servers, k \notin down, NEW n \in 1 .. Len(log),
         Room(n), (n = sub /\ k \in todo) \/ tries[k][n] > 0,
         NEW o \in Got(k), o \in 1 .. Len(log), Room(o), n < o
  PROVE  n \in Got(k) \/ Failed(k, n)
<1>0. Len(log) \in Nat /\ sub \in 0 .. Len(log)
  BY LenProperties DEF Typed, Streams, Scalars
<1>1. todo # {} => o <= sub
  BY DEF Behind, Touched
<1>2. ~(n = sub /\ k \in todo)
  BY <1>0, <1>1
<1> QED
  BY <1>2 DEF Settled

LEMMA InOrdersNext ==
  Typed /\ Behind /\ Singles /\ Ops /\ Tried /\ Settled /\ InOrders /\ [Next]_vars => InOrders'
<1> SUFFICES ASSUME Typed, Behind, Singles, Ops, Tried, Settled, InOrders, [Next]_vars PROVE InOrders'
  OBVIOUS
<1>0. Len(log) \in Nat /\ Len(log) <= MaxMsg /\ MaxMsg \in Nat
  BY LogAfter
\* A server that gets nothing.
<1>1. ASSUME NEW s \in Servers, inbox'[s] = inbox[s] PROVE InOrder(s)'
  <2>1. InOrder(s)
    BY DEF InOrders
  <2>2. \A j \in DOMAIN inbox[s] : inbox[s][j].id \in 1 .. MaxMsg
    BY <1>0, GotIds
  <2>3. \A j \in DOMAIN inbox[s] : Failed(s, inbox[s][j].id) => tries'[s][inbox[s][j].id] = Attempts
    BY <2>2, Grows DEF Failed
  <2> QED
    BY <1>1, <2>1, <2>3 DEF InOrder, IsRoom, Failed
<1>2. ASSUME NEW k \in Servers, NEW n \in 1 .. Len(log), k \notin down, inbox' = Handled(k, n), tries' = tries,
             ~Room(n) \/ (n = sub /\ k \in todo) \/ tries[k][n] > 0
      PROVE  InOrder(k)'
  <2> DEFINE l == Len(inbox[k])
  <2>1. /\ l \in Nat /\ DOMAIN inbox[k] = 1 .. l /\ DOMAIN inbox'[k] = 1 .. l + 1
        /\ \A j \in 1 .. l : inbox'[k][j] = inbox[k][j]
        /\ inbox'[k][l + 1].id = n /\ inbox'[k][l + 1].op = log[n].op
    BY <1>2, InboxAfter
  <2> HIDE DEF l
  <2>a. \A a, b \in 1 .. l :
          a < b /\ inbox[k][a].op # "single" /\ inbox[k][b].op # "single" /\ inbox[k][b].id < inbox[k][a].id =>
            Failed(k, inbox[k][b].id) \/ \E p \in 1 .. a - 1 : inbox[k][p].id = inbox[k][b].id
    BY <2>1 DEF InOrders, InOrder, IsRoom
  <2> SUFFICES ASSUME NEW i \in DOMAIN inbox'[k], NEW j \in DOMAIN inbox'[k], i < j,
                      inbox'[k][i].op # "single", inbox'[k][j].op # "single",
                      inbox'[k][j].id < inbox'[k][i].id
               PROVE  \/ tries[k][inbox'[k][j].id] = Attempts
                      \/ \E p \in 1 .. i - 1 : inbox'[k][p].id = inbox'[k][j].id
    BY <1>2 DEF InOrder, IsRoom, Failed
  <2>2. i \in 1 .. l /\ inbox'[k][i] = inbox[k][i] /\ \A p \in 1 .. i - 1 : inbox'[k][p] = inbox[k][p]
    BY <2>1
  <2>3. CASE j \in 1 .. l
    <3>1. inbox'[k][j] = inbox[k][j]
      BY <2>1, <2>3
    <3>2. Failed(k, inbox[k][j].id) \/ \E p \in 1 .. i - 1 : inbox[k][p].id = inbox[k][j].id
      <4>1. /\ inbox[k][i].op # "single" /\ inbox[k][j].op # "single"
            /\ inbox[k][j].id < inbox[k][i].id
        BY <2>2, <3>1
      <4> QED
        BY <2>2, <2>3, <2>a, <4>1
    <3> QED
      BY <2>2, <3>1, <3>2 DEF Failed
  <2>4. CASE j = l + 1
    <3>1. inbox'[k][j].id = n /\ Room(n)
      BY <2>1, <2>4 DEF Room
    <3> DEFINE o == inbox[k][i].id
    <3>2. o \in Got(k) /\ o \in 1 .. Len(log) /\ Room(o) /\ n < o
      <4>1. i \in DOMAIN inbox[k]
        BY <2>1, <2>2
      <4> QED
        BY <2>2, <3>1, <4>1, GotIds DEF Got, Room, Ops
    <3> HIDE DEF o
    <3>3. n \in Got(k) \/ Failed(k, n)
      BY <1>2, <3>1, <3>2, OlderIsKnown
    <3>4. ASSUME n \in Got(k) PROVE Failed(k, n) \/ \E p \in 1 .. i - 1 : inbox[k][p].id = n
      <4>1. PICK q \in 1 .. l : inbox[k][q].id = n
        BY <2>1, <3>4 DEF Got
      <4>2. CASE q < i
        BY <2>2, <4>1, <4>2
      <4>3. CASE i < q
        <5>1. inbox[k][q].op # "single"
          BY <2>1, <3>1, <4>1 DEF Ops, Room
        <5>2. inbox[k][i].op # "single" /\ n < inbox[k][i].id
          BY <2>2, <3>2 DEF o
        <5> QED
          BY <2>2, <2>a, <4>1, <4>3, <5>1, <5>2
      <4>4. q # i
        BY <3>2, <4>1 DEF o
      <4> QED
        BY <2>2, <4>1, <4>2, <4>3, <4>4
    <3> QED
      BY <2>2, <3>1, <3>3, <3>4 DEF Failed
  <2> QED
    BY <2>1, <2>3, <2>4
<1> QED
  <2>1. ASSUME NEW s \in Servers PROVE InOrder(s)'
    <3>1. CASE inbox' = inbox
      BY <1>1, <3>1
    <3>2. CASE inbox' # inbox
      <4>1. PICK k \in Servers, n \in 1 .. Len(log) :
              /\ k \notin down /\ inbox' = Handled(k, n) /\ tries' = tries
              /\ ~Room(n) \/ (n = sub /\ k \in todo) \/ tries[k][n] > 0
        <5>1. \A k \in Servers, n \in 1 .. Len(log) : Break(k, n) => inbox' = inbox
          BY DEF Break
        <5> QED
          BY <3>2, <5>1, Effects
      <4>2. CASE s = k
        BY <1>2, <4>1, <4>2
      <4>3. CASE s # k
        <5>1. inbox'[s] = inbox[s]
          BY <4>1, <4>3, InboxAfter
        <5> QED
          BY <1>1, <5>1
      <4> QED
        BY <4>2, <4>3
    <3> QED
      BY <3>1, <3>2
  <2> QED
    BY <2>1 DEF InOrders
LEMMA ReachesNext ==
  Typed /\ Staged /\ Ordered /\ Singles /\ Tried /\ Reaches /\ [Next]_vars => Reaches'
<1> SUFFICES ASSUME Typed, Staged, Ordered, Singles, Tried, Reaches, [Next]_vars,
                    NEW s \in Registered, s \notin down'
             PROVE  /\ \A n \in aired' : n > early' => n \in Got(s)' \/ Failed(s, n)'
                    /\ todo' # {} /\ s \notin todo' =>
                         \A n \in 1 .. Len(log') : n = sub' /\ n > early' => n \in Got(s)' \/ Failed(s, n)'
  BY DEF Reaches
<1>0. /\ Scalars /\ Len(log) \in Nat /\ s \in Servers /\ s \notin down /\ MaxMsg \in Nat /\ Len(log) <= MaxMsg
      /\ aired \subseteq 1 .. Len(log) /\ early \in 0 .. Len(log)
  <2>1. s \in Servers /\ s \notin down
    BY Taking, TaskAssumption DEF TaskAssumption
  <2> QED
    BY <2>1, LogAfter DEF Typed, Scalars
\* What the server had got before, it has.
<1>1. \A n \in 1 .. Len(log) : n \in Got(s) \/ Failed(s, n) => n \in Got(s)' \/ Failed(s, n)'
  <2>1. \A n \in 1 .. Len(log) : n \in 1 .. MaxMsg
    BY <1>0
  <2> QED
    BY <1>0, <2>1, Grows
<1>2. \A n \in aired : n > early => n \in Got(s)' \/ Failed(s, n)'
  BY <1>0, <1>1 DEF Reaches
\* The message at hand, if it is over for this server.
<1>3. ASSUME todo # {}, sub > early, todo' = {} \/ s \notin todo', NEW n \in 1 .. Len(log), n = sub
      PROVE  n \in Got(s)' \/ Failed(s, n)'
  <2>1. CASE s \in todo
    BY <1>0, <1>3, <2>1, AtHand
  <2>2. CASE s \notin todo
    BY <1>0, <1>1, <1>3, <2>2 DEF Reaches
  <2> QED
    BY <2>1, <2>2
\* What is taken before Run is done does not count; later every registered server is called.
<1>4. ASSUME TakeRoom
      PROVE  /\ \A n \in aired' : n > early' => n \in aired /\ n > early
             /\ todo' # {} /\ s \notin todo' => ~(sub' > early')
  <2>1. /\ bus # <<>> /\ early' = Early(Head(bus))
        /\ todo' = (IF clients = Nil THEN {} ELSE clients)
        /\ sub' = (IF todo' = {} THEN 0 ELSE Head(bus))
        /\ aired' = (IF todo' = {} THEN aired \cup {Head(bus)} ELSE aired)
    BY <1>4 DEF TakeRoom
  <2>2. Head(bus) \in Nat /\ \A n \in aired : n < Head(bus)
    BY <2>1, Shorter, Taken
  <2>3. CASE boot = "done"
    <3>1. s \in todo' /\ aired' = aired /\ early' = early
      BY <1>0, <2>1, <2>3 DEF Staged, Early
    <3> QED
      BY <3>1
  <2>4. CASE boot # "done"
    <3>1. early' = Head(bus)
      BY <2>1, <2>4 DEF Early
    <3>2. \A n \in aired' : n \in Nat /\ n <= early'
      BY <1>0, <2>1, <2>2, <3>1
    <3>3. todo' # {} => sub' = Head(bus)
      BY <2>1
    <3> QED
      BY <2>2, <3>1, <3>2, <3>3
  <2> QED
    BY <2>3, <2>4
<1>5. \A n \in aired' : n > early' => n \in Got(s)' \/ Failed(s, n)'
  <2>1. CASE TakeRoom
    BY <1>2, <1>4, <2>1
  <2>2. CASE aired' = aired
    <3>1. \A n \in aired : n > early' => n > early
      <4>1. CASE early' = early
        BY <4>1
      <4>2. ASSUME NEW i \in Slots, TakeSingle(i) PROVE \A n \in aired : n > early' => n > early
        <5>1. bus # <<>> /\ early' = Early(Head(bus))
          BY <4>2 DEF TakeSingle
        <5>2. Head(bus) \in Nat /\ \A n \in aired : n < Head(bus)
          BY <5>1, Shorter, Taken
        <5> QED
          BY <1>0, <5>1, <5>2 DEF Early
      <4>3. (\E i \in Slots : TakeSingle(i)) \/ TakeRoom \/ early' = early
        BY DEF Next, Run, Subscriber, Worker, Subscribe, MakeClients, AddClient, GoPush, SendSingle, CallRoom,
               Receive, CallSingle, Down, Arrive, Publish, vars, busVars, bootVars, subVars, netVars, callVars
      <4> QED
        BY <1>4, <2>2, <4>1, <4>2, <4>3
    <3> QED
      BY <1>2, <2>2, <3>1
  <2>3. ASSUME NEW k \in Servers, CallRoom(k) PROVE \A n \in aired' : n > early' => n \in Got(s)' \/ Failed(s, n)'
    <3>1. /\ todo # {} /\ sub \in 1 .. Len(log) /\ early' = early
      BY <2>3, RoomCalled
    <3>2. aired' = aired \/ (aired' = aired \cup {sub} /\ todo' = {})
      BY <2>3, RoomCalled
    <3>3. aired' = aired \cup {sub} /\ todo' = {} /\ sub > early => \A n \in {sub} : n \in Got(s)' \/ Failed(s, n)'
      BY <1>3, <3>1
    <3> QED
      BY <1>2, <3>1, <3>2, <3>3
  <2>4. TakeRoom \/ aired' = aired \/ \E k \in Servers : CallRoom(k)
    BY DEF Next, Run, Subscriber, Worker, Subscribe, MakeClients, AddClient, GoPush, TakeSingle, SendSingle,
           Receive, CallSingle, Down, Arrive, Publish, vars, busVars, bootVars, subVars, netVars, callVars
  <2> QED
    BY <2>1, <2>2, <2>3, <2>4
<1>6. todo' # {} /\ s \notin todo' =>
        \A n \in 1 .. Len(log') : n = sub' /\ n > early' => n \in Got(s)' \/ Failed(s, n)'
  <2> SUFFICES ASSUME todo' # {}, s \notin todo', NEW n \in 1 .. Len(log'), n = sub', n > early'
               PROVE  n \in Got(s)' \/ Failed(s, n)'
    OBVIOUS
  <2>1. todo # {} /\ sub' = sub /\ early' = early
    BY <1>4, Taking
  <2>2. n \in 1 .. Len(log)
    BY <1>0, <2>1 DEF Scalars
  <2> QED
    BY <1>3, <2>1, <2>2
<1> QED
  BY <1>5, <1>6

LEMMA StreamFollows == Typed /\ StreamInv => RoomStream
BY TaskAssumption DEF StreamInv, InOrders, Reaches, RoomStream, TaskAssumption

\* Every server first gets room messages in the order they were published, and those taken
\* after Run was done reach every registered server that lives, whatever attempts break or
\* arrive late and whichever servers die, unless every attempt of a call broke
\* (task/push.go Push, task/rpc.go broadcastRoomToConnect and its twins).
THEOREM RoomsInOrder == Spec => []RoomStream
<1>1. Init => StreamInv
  <2> SUFFICES ASSUME Init PROVE StreamInv
    OBVIOUS
  <2>1. /\ bus = <<>> /\ aired = {} /\ todo = {} /\ slot = NoSlot /\ DOMAIN <<>> = {} /\ log = <<>> /\ late = {}
        /\ \A k \in Servers : inbox[k] = <<>>
        /\ \A i \in Slots : pushChannel[i] = Nil /\ work[i] = 0
        /\ \A k \in Servers, n \in 1 .. MaxMsg : tries[k][n] = 0
    BY DEF Init
  <2>2. NoSlot \notin Slots /\ \A n \in 1 .. Len(log) : FALSE
    BY <2>1, TaskAssumption, EmptySeq DEF TaskAssumption, NoSlot, Slots
  <2>3. Ordered /\ Singles
    BY <2>1, <2>2 DEF Ordered, Singles
  <2>4. Ops /\ InOrders
    BY <2>1 DEF Ops, InOrders, InOrder
  <2>5. Behind /\ Settled /\ Reaches
    BY <2>1, <2>2 DEF Behind, Settled, Reaches
  <2>6. Tried
    BY <2>1 DEF Tried
  <2> QED
    BY <2>3, <2>4, <2>5, <2>6 DEF StreamInv
<1>2. Typed /\ Staged /\ StreamInv /\ [Next]_vars => StreamInv'
  BY OrderedNext, BehindNext, SinglesNext, OpsNext, TriedNext, SettledNext, InOrdersNext, ReachesNext DEF StreamInv
<1> QED
  BY <1>1, <1>2, TypedInit, TypedNext, StagedNext, StreamFollows, PTL DEF Spec
===============================================================================
