--------------------------------- MODULE Task ---------------------------------
(***************************************************************************)
(* The task layer (task/task.go, subscribe.go, push.go, rpc.go): one       *)
(* goroutine takes what the logic layer publishes on the Redis channel     *)
(* (logic/publish.go) and either calls every connect server for a room     *)
(* message or hands a single message to one of PushChan workers.           *)
(* The subscriber is started before the list of connect servers is filled  *)
(* and before the channels of the workers are made, so messages meet every *)
(* stage of Task.Run.                                                      *)
(***************************************************************************)
EXTENDS Integers, Sequences, SequencesExt

CONSTANTS
  Servers,       \* connect servers, by serverId
  Registered,    \* the ones in etcd when the task process starts
  Value,         \* Value[k]: what etcd holds for server k, see UnderServerId
  PushChan,      \* config: workers for single messages
  PushChanSize,  \* config: buffer of each worker's channel
  BusSize,       \* buffer of the go-redis subscription
  Content,       \* what logic publishes here, of Published
  Attempts,      \* how often the rpcx client makes a call that breaks: its Retries + 1
  Nil,
  MaxMsg,        \* bound: messages published
  MaxFault       \* bound: calls whose connection breaks, connect servers that die

\* proto.RedisMsg: op, serverId, whether Msg holds a text and RoomUserInfo a list.
Messages == [op : {"single", "room", "count", "info"}, server : Servers \cup {Nil},
             text : BOOLEAN, users : BOOLEAN]

\* logic/publish.go and the handlers of logic/rpc.go that publish: Push with whatever
\* Redis holds for the user, PushRoom, Count, GetRoomInfo and DisConnect, which
\* sends the member list as a room message without a text.
PushMsg(k)  == [op |-> "single", server |-> k, text |-> TRUE, users |-> FALSE]
RoomMsg     == [op |-> "room", server |-> Nil, text |-> TRUE, users |-> TRUE]
CountMsg    == [op |-> "count", server |-> Nil, text |-> FALSE, users |-> FALSE]
RoomInfoMsg == [op |-> "info", server |-> Nil, text |-> FALSE, users |-> TRUE]
LeaveMsg    == [op |-> "room", server |-> Nil, text |-> FALSE, users |-> TRUE]
Published   == {PushMsg(k) : k \in Servers \cup {Nil}} \cup {RoomMsg, CountMsg, RoomInfoMsg, LeaveMsg}

ASSUME TaskAssumption ==
  /\ Registered \subseteq Servers /\ Registered # {} /\ Content \subseteq Published
  /\ PushChan \in Nat \ {0} /\ PushChanSize \in Nat \ {0} /\ BusSize \in Nat \ {0}
  /\ Value \in [Servers -> {"id", "idle", "other"}] /\ Attempts \in Nat \ {0}
  /\ MaxMsg \in Nat /\ MaxFault \in Nat
  /\ Nil \notin Servers /\ \A S \in SUBSET Servers : S # Nil

Slots == 0 .. PushChan - 1
NoSlot  == -1   \* no channel chosen
NilSlot == -2   \* the channel chosen was nil

Alive   == 0    \* what killed the process: nothing yet,
MapRace == -1   \* Go's detection of a concurrent map access, or a message

VARIABLES
  log,        \* history: everything published, in order; a message is its index
  bus,        \* the subscription: messages not taken yet
  boot,       \* Task.Run: what it does next
  clients,    \* RpcConnectClientList; Nil before it is made
  pushChannel,\* the workers' channels; Nil before GoPush makes them
  sub, slot, todo,  \* subscriber: message at hand, channel chosen, servers to call
  work,       \* message at hand of every worker
  inbox,      \* calls each connect server received: [id, op, body]
  down,
  tries,      \* tries[k][n]: attempts to call server k with message n whose connection broke
  late,       \* the ones of them the server may still run: <<k, n, which attempt>>
  faults,     \* for the bound
  dead,       \* what killed the process: Alive, MapRace or a message
  early,      \* history: the last message taken before Run had finished
  aired       \* history: the room messages whose calls are all made

busVars  == <<log, bus>>
bootVars == <<boot, clients, pushChannel>>
subVars  == <<sub, slot, todo, early, aired>>
callVars == <<inbox, tries, late, faults>>
netVars  == <<callVars, down>>
vars == <<busVars, bootVars, subVars, work, netVars, dead>>

Init ==
  /\ log = <<>> /\ bus = <<>>
  /\ boot = "subscribe" /\ clients = Nil /\ pushChannel = [i \in Slots |-> Nil]
  /\ sub = 0 /\ slot = NoSlot /\ todo = {} /\ early = 0 /\ aired = {}
  /\ work = [i \in Slots |-> 0]
  /\ inbox = [k \in Servers |-> <<>>] /\ down = {}
  /\ tries = [k \in Servers |-> [n \in 1 .. MaxMsg |-> 0]] /\ late = {} /\ faults = 0
  /\ dead = Alive
-------------------------------------------------------------------------------
(* Task.Run. *)

\* Redis Publish: lost when nobody subscribes, or when the buffer of the subscription
\* stays full.
Publish(m) ==
  /\ Len(log) < MaxMsg
  /\ log' = Append(log, m)
  /\ bus' = IF boot # "subscribe" /\ Len(bus) < BusSize THEN Append(bus, Len(log) + 1) ELSE bus
  /\ UNCHANGED <<bootVars, subVars, work, netVars, dead>>

\* The order of the calls in Run.
After_PushFirst(step) == CASE step = "subscribe" -> "push"
                           [] step = "push" -> "discover"
                           [] step = "discover" -> "done"
After(step) == CASE step = "subscribe" -> "discover"
                 [] step = "discover" -> "push"
                 [] step = "push" -> "done"

Subscribe ==
  /\ boot = "subscribe"
  /\ boot' = After(boot)
  /\ UNCHANGED <<busVars, clients, pushChannel, subVars, work, netVars, dead>>

\* InitConnectRpcClient makes the map ...
MakeClients ==
  /\ boot = "discover" /\ clients = Nil
  /\ clients' = {}
  /\ UNCHANGED <<busVars, boot, pushChannel, subVars, work, netVars, dead>>

\* The value of a server is its serverId, to which the rpcx plugin of the connect layer
\* adds the calls it counts every minute.  What Replace(value, "=&tps=0", "", 1) leaves
\* of it is the serverId if nothing was added or "=&tps=0", and something else otherwise.
UnderServerId(k) == Value[k] \in {"id", "idle"}

\* ... and fills it, whatever the value is.  The subscriber may be ranging over it at the
\* same time: Go may abort the process, and if not, the loop may see the new entry or
\* miss it.
AddClient(k) ==
  /\ boot = "discover" /\ clients # Nil /\ k \in Registered \ clients
  /\ clients' = clients \cup {k}
  /\ boot' = IF clients' = Registered THEN After(boot) ELSE boot
  /\ \/ UNCHANGED <<todo, dead>>
     \/ todo # {} /\ todo' = todo \cup {k} /\ UNCHANGED dead
     \/ todo # {} /\ dead' = MapRace /\ UNCHANGED todo
  /\ UNCHANGED <<busVars, pushChannel, sub, slot, early, aired, work, netVars>>

\* GoPush: the channel and the goroutine of the next worker.
GoPush(i) ==
  /\ boot = "push" /\ pushChannel[i] = Nil /\ \A j \in 0 .. i - 1 : pushChannel[j] # Nil
  /\ pushChannel' = [pushChannel EXCEPT ![i] = <<>>]
  /\ boot' = IF i = PushChan - 1 THEN After(boot) ELSE boot
  /\ UNCHANGED <<busVars, clients, subVars, work, netVars, dead>>
-------------------------------------------------------------------------------
(* A call to a connect server (rpcx, client.Failtry). *)

\* What the connect server is told: task/rpc.go sends the text of a room message, the
\* number or the list, according to the op.
Body(m) == CASE m.op \in {"single", "room"} -> IF m.text THEN "text" ELSE "empty"
             [] m.op = "count" -> "count"
             [] m.op = "info" -> "users"
Delivery(n) == [id |-> n, op |-> log[n].op, body |-> Body(log[n])]

Handled(k, n) == [inbox EXCEPT ![k] = Append(@, Delivery(n))]

\* The server runs the call and answers it.  A server that is down is an error, which is
\* logged or not and forgotten.
Answer(k, n) ==
  /\ inbox' = IF k \in down THEN inbox ELSE Handled(k, n)
  /\ UNCHANGED <<tries, late, faults>>

\* The connection breaks, and the client calls again or, after its last attempt, returns
\* an error that is forgotten too.  The server may have run the attempt, may run it at
\* any later time, or never.
Break(k, n) ==
  /\ k \notin down /\ faults < MaxFault /\ tries[k][n] < Attempts
  /\ faults' = faults + 1
  /\ tries' = [tries EXCEPT ![k][n] = @ + 1]
  /\ late' = late \cup {<<k, n, tries'[k][n]>>}
  /\ UNCHANGED inbox

Failed(k, n) == tries[k][n] = Attempts

\* One attempt, and whether the call is over with it.
Attempt_GivesUp(k, n, over) == (Answer(k, n) \/ Break(k, n)) /\ over
Attempt(k, n, over) == \/ Answer(k, n) /\ over
                       \/ Break(k, n) /\ over = (tries'[k][n] = Attempts)

\* A connect server runs an attempt the caller has given up.
Arrive(k, n, try) ==
  /\ <<k, n, try>> \in late /\ k \notin down
  /\ late' = late \ {<<k, n, try>>}
  /\ inbox' = Handled(k, n)
  /\ UNCHANGED <<busVars, bootVars, subVars, work, down, tries, faults, dead>>
-------------------------------------------------------------------------------
(* The subscriber: Task.Push. *)

Early(n) == IF boot = "done" THEN early ELSE n

\* A single message: the channel is chosen and evaluated before the send.
TakeSingle(i) ==
  /\ sub = 0 /\ bus # <<>> /\ log[Head(bus)].op = "single"
  /\ sub' = Head(bus) /\ bus' = Tail(bus)
  /\ slot' = IF pushChannel[i] = Nil THEN NilSlot ELSE i
  /\ early' = Early(Head(bus))
  /\ UNCHANGED <<log, bootVars, todo, aired, work, netVars, dead>>

\* The send waits while the channel is full; on a nil channel it waits for ever.
HasRoom_Always(i) == TRUE
HasRoom_OneLess(i) == Len(pushChannel[i]) < PushChanSize - 1
HasRoom(i) == Len(pushChannel[i]) < PushChanSize
SendSingle ==
  /\ slot \in Slots /\ HasRoom(slot)
  /\ pushChannel' = [pushChannel EXCEPT ![slot] = Append(@, sub)]
  /\ sub' = 0 /\ slot' = NoSlot
  /\ UNCHANGED <<busVars, boot, clients, todo, early, aired, work, netVars, dead>>

\* broadcastRoom...ToConnect: one call after the other, in the order of a Go map.
TakeRoom ==
  /\ sub = 0 /\ bus # <<>> /\ log[Head(bus)].op # "single"
  /\ bus' = Tail(bus)
  /\ todo' = IF clients = Nil THEN {} ELSE clients
  /\ sub' = IF todo' = {} THEN 0 ELSE Head(bus)
  /\ aired' = IF todo' = {} THEN aired \cup {Head(bus)} ELSE aired
  /\ early' = Early(Head(bus))
  /\ UNCHANGED <<log, bootVars, slot, work, netVars, dead>>

Rest(k) == todo \ {k}
CallRoom(k) ==
  /\ k \in todo /\ \A o \in todo \ {k} : tries[o][sub] = 0
  /\ \E over \in BOOLEAN :
       /\ Attempt(k, sub, over)
       /\ todo' = IF over THEN Rest(k) ELSE todo
       /\ sub' = IF todo' = {} THEN 0 ELSE sub
       /\ aired' = IF todo' = {} THEN aired \cup {sub} ELSE aired
  /\ UNCHANGED <<busVars, bootVars, slot, early, work, down, dead>>
-------------------------------------------------------------------------------
(* A worker: processSinglePush. *)

Receive(i) ==
  /\ work[i] = 0 /\ pushChannel[i] # Nil /\ pushChannel[i] # <<>>
  /\ work' = [work EXCEPT ![i] = Head(pushChannel[i])]
  /\ pushChannel' = [pushChannel EXCEPT ![i] = Tail(@)]
  /\ UNCHANGED <<busVars, boot, clients, subVars, netVars, dead>>

\* RpcConnectClientList[serverId].Call of a serverId nothing is under is a call on a nil
\* interface.
CallSingle(i) ==
  LET n == work[i]
      k == log[n].server IN
  /\ n # 0
  /\ IF clients # Nil /\ k \in clients /\ UnderServerId(k)
     THEN /\ \E over \in BOOLEAN : Attempt(k, n, over) /\ work' = IF over THEN [work EXCEPT ![i] = 0] ELSE work
          /\ UNCHANGED dead
     ELSE dead' = n /\ UNCHANGED <<callVars, work>>
  /\ UNCHANGED <<busVars, bootVars, subVars, down>>

\* A connect server dies.
Down(k) ==
  /\ k \notin down /\ faults < MaxFault
  /\ down' = down \cup {k} /\ faults' = faults + 1
  /\ UNCHANGED <<busVars, bootVars, subVars, work, inbox, tries, late, dead>>
-------------------------------------------------------------------------------
Run == \/ Subscribe \/ MakeClients \/ (\E k \in Servers : AddClient(k))
       \/ \E i \in Slots : GoPush(i)
Subscriber == (\E i \in Slots : TakeSingle(i)) \/ SendSingle \/ TakeRoom
              \/ \E k \in Servers : CallRoom(k)
Worker(i) == Receive(i) \/ CallSingle(i)

Next ==
  \/ \E m \in Content : Publish(m)
  \/ \E k \in Servers : Down(k)
  \/ \E k \in Servers, n \in 1 .. Len(log), try \in 1 .. Attempts : Arrive(k, n, try)
  \/ dead = Alive /\ (Run \/ Subscriber \/ \E i \in Slots : Worker(i))

Spec == Init /\ [][Next]_vars

\* Every goroutine of a live process runs when it can.
Fairness == /\ WF_vars(dead = Alive /\ Run) /\ WF_vars(dead = Alive /\ Subscriber)
            /\ \A i \in Slots : WF_vars(dead = Alive /\ Worker(i))
FairSpec == Spec /\ Fairness
-------------------------------------------------------------------------------
TypeOK ==
  /\ log \in Seq(Messages) /\ bus \in Seq(1 .. Len(log))
  /\ boot \in {"subscribe", "discover", "push", "done"}
  /\ (clients = Nil \/ clients \subseteq Servers)
  /\ \A i \in Slots : pushChannel[i] = Nil \/ (pushChannel[i] \in Seq(1 .. Len(log)) /\
                                               Len(pushChannel[i]) <= PushChanSize)
  /\ sub \in 0 .. Len(log) /\ slot \in Slots \cup {NoSlot, NilSlot} /\ todo \subseteq Servers
  /\ work \in [Slots -> 0 .. Len(log)] /\ early \in 0 .. Len(log) /\ aired \subseteq 1 .. Len(log)
  /\ \A k \in Servers : inbox[k] \in Seq([id : 1 .. Len(log), op : {"single", "room", "count", "info"},
                                          body : {"text", "empty", "count", "users"}])
  /\ down \subseteq Servers /\ faults \in 0 .. MaxFault
  /\ tries \in [Servers -> [1 .. MaxMsg -> 0 .. Attempts]]
  /\ late \subseteq Servers \X (1 .. Len(log)) \X (1 .. Attempts)
  /\ dead \in MapRace .. Len(log)
-------------------------------------------------------------------------------
(* Properties. *)

Got(k) == {inbox[k][j].id : j \in DOMAIN inbox[k]}

\* Room messages are taken one at a time, so every connect server first gets them in
\* the order they were published, although an attempt that broke may still arrive
\* later, unless every attempt to call it with one broke.  The ones taken after Run had
\* finished reach every server of the list that is alive, but for such a call
\* (task/push.go Push, task/rpc.go broadcast...).
IsRoom(k, j) == inbox[k][j].op # "single"
InOrder(k) ==
  \A i, j \in DOMAIN inbox[k] :
    i < j /\ IsRoom(k, i) /\ IsRoom(k, j) /\ inbox[k][j].id < inbox[k][i].id =>
      Failed(k, inbox[k][j].id) \/ \E p \in 1 .. i - 1 : inbox[k][p].id = inbox[k][j].id
RoomStream ==
  \A k \in Registered :
    /\ InOrder(k)
    /\ \A n \in aired : n > early /\ k \notin down /\ ~Failed(k, n) => n \in Got(k)

\* A single message for a server that was registered under its serverId never kills the
\* task process: Run fills the list of clients before any worker exists (task/task.go Run).
KnownNeverKills ==
  dead \in DOMAIN log => ~(log[dead].server \in Registered /\ UnderServerId(log[dead].server))

\* Once Run has finished, what is on the subscription gets to its connect server, or
\* to every one of them, or the calls broke: full worker channels hold the subscriber up
\* but never stop it.
Addressed(n) == IF log[n].op = "single" THEN {log[n].server} \cap Servers ELSE Registered
Served(n) == \/ dead # Alive
             \/ n \in DOMAIN log /\ \A k \in Addressed(n) : k \in down \/ n \in Got(k) \/ Failed(k, n)
MessagesArrive ==
  \A n \in 1 .. MaxMsg : boot = "done" /\ slot # NilSlot /\ n \in ToSet(bus) ~> Served(n)
===============================================================================
