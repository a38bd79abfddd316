------------------------------ MODULE MCBroadcast ------------------------------
(* Instances of Broadcast for TLC. *)
EXTENDS Broadcast, TLC

CONSTANTS c1, c2, k1, k2

\* A bucket with no connection of the room, and one with both.
OneSided == << <<>>, <<c2, c1>> >>

TwoCallers == {k1, k2}

\* The subscriber of a task process, and a worker.
Mixed   == {<<k1, Room>>, <<k2, c1>>}
OneIdle == {c1}

\* One goroutine, which four calls can fill; two, of which one gets two of three calls.
Narrow == [RoutineAmount |-> 1, RoutineSize |-> 1, MaxMsg |-> 4]
Wide   == [RoutineAmount |-> 2, RoutineSize |-> 2, MaxMsg |-> 3]
Both   == {Narrow, Wide}
===============================================================================
