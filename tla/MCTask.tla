-------------------------------- MODULE MCTask --------------------------------
(* Instances of Task for TLC. *)
EXTENDS Task, TLC

CONSTANTS k1, k2

TwoServers   == {k1, k2}

\* What etcd holds when the task process starts: "=&tps=0", or calls that were counted.
Metered == [k \in Servers |-> IF k = k1 THEN "idle" ELSE "other"]

\* To a user of either server, one of which has a value that is not stripped (like a user
\* without a server, he is on none that is listed), and to a room.
BusyContent  == {PushMsg(k1), PushMsg(k2), RoomMsg}
===============================================================================
