------------------------------ MODULE Membership ------------------------------
(***************************************************************************)
(* What the rooms of a bucket promise, with no list, lock or count in it:  *)
(* a connection enters one room, once, never a retired one and never while *)
(* a message is on its way through; and a message reaches everybody who    *)
(* stays, nobody who came later, and nobody twice.                         *)
(***************************************************************************)
CONSTANTS
  Sessions,   \* connections
  Room,       \* rooms, those of one id made one after the other included
  Routines,   \* goroutines that broadcast
  Nil         \* no room

VARIABLES
  at,         \* the room of each connection
  entered,    \* the connections that have been in a room
  retired,    \* the rooms nobody can enter any more
  walk,       \* the room each goroutine broadcasts to
  audience,   \* who was in the room when the broadcast began
  reached     \* who has the message

vars == <<at, entered, retired, walk, audience, reached>>

Members(o) == {s \in Sessions : at[s] = o}

Init ==
  /\ at = [s \in Sessions |-> Nil] /\ entered = {} /\ retired = {}
  /\ walk = [w \in Routines |-> Nil]
  /\ audience = [w \in Routines |-> {}] /\ reached = [w \in Routines |-> {}]

Enter(s, o) ==
  /\ s \notin entered /\ o \notin retired
  /\ \A w \in Routines : walk[w] # o
  /\ at' = [at EXCEPT ![s] = o]
  /\ entered' = entered \cup {s}
  /\ UNCHANGED <<retired, walk, audience, reached>>

Leave(s) ==
  /\ at[s] # Nil
  /\ at' = [at EXCEPT ![s] = Nil]
  /\ UNCHANGED <<entered, retired, walk, audience, reached>>

Retire(o) ==
  /\ Members(o) = {}
  /\ retired' = retired \cup {o}
  /\ UNCHANGED <<at, entered, walk, audience, reached>>

Begin(w, o) ==
  /\ walk[w] = Nil
  /\ walk' = [walk EXCEPT ![w] = o]
  /\ audience' = [audience EXCEPT ![w] = Members(o)]
  /\ UNCHANGED <<at, entered, retired, reached>>

Reach(w, s) ==
  /\ walk[w] # Nil /\ s \in audience[w] \ reached[w]
  /\ reached' = [reached EXCEPT ![w] = @ \cup {s}]
  /\ UNCHANGED <<at, entered, retired, walk, audience>>

End(w) ==
  /\ walk[w] # Nil /\ Members(walk[w]) \subseteq reached[w]
  /\ walk' = [walk EXCEPT ![w] = Nil]
  /\ audience' = [audience EXCEPT ![w] = {}]
  /\ reached' = [reached EXCEPT ![w] = {}]
  /\ UNCHANGED <<at, entered, retired>>

Next == \/ \E s \in Sessions : Leave(s)
        \/ \E o \in Room : Retire(o) \/ \E s \in Sessions : Enter(s, o)
        \/ \E w \in Routines : End(w) \/ \E o \in Room : Begin(w, o)
        \/ \E w \in Routines, s \in Sessions : Reach(w, s)

Spec == Init /\ [][Next]_vars
===============================================================================
