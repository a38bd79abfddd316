------------------------------ MODULE MCDelivery ------------------------------
(* Instances of Delivery for TLC. *)
EXTENDS Delivery, TLC

CONSTANTS s1, s2, s3, u1, u2, u3, k1, k2

ThreeSessions == {s1, s2, s3}
ThreeUsers    == {u1, u2, u3}
SomeRooms     == {-1, 1, 2}

\* Two Buckets per server.
TwoBuckets == [u \in Users |-> IF u = u3 THEN 2 ELSE 1]

\* Two connect servers.
TwoServers == [s \in Sessions |-> IF s = s1 THEN k1 ELSE k2]

\* Two users; the first may come back on another server.  Calls are retried.
Failing == [request |-> {<<s1, u1, 1>>, <<s2, u1, 1>>, <<s2, u2, 1>>},
            join |-> 1, retry |-> 1, crash |-> 0, loss |-> 0, push |-> 0]

\* A process dies with a retried call in it while a message is under way.
Dying   == [request |-> {<<s1, u1, 1>>},
            join |-> 1, retry |-> 1, crash |-> 1, loss |-> 0, push |-> 1]

\* Tabs of one user in one room, on the same server or not, and another user, who may
\* ask for no room.
Tabs == [request |-> {<<s1, u1, 1>>, <<s2, u1, 1>>, <<s3, u1, 1>>, <<s3, u2, -1>>},
         join |-> 1, retry |-> 0, crash |-> 0, loss |-> 0, push |-> 0]

\* A message while a user comes back on another server or on the same one; a key is
\* lost, a process dies.
Moving  == [request |-> {<<s1, u1, 1>>, <<s2, u1, 2>>},
            join |-> 1, retry |-> 0, crash |-> 1, loss |-> 1, push |-> 1]
Staying == [request |-> {<<s2, u1, -1>>, <<s2, u1, 1>>, <<s3, u1, 1>>},
            join |-> 1, retry |-> 0, crash |-> 0, loss |-> 0, push |-> 1]

\* Two messages to a user whose key is lost.
Unknown == [request |-> {<<s1, u1, 1>>},
            join |-> 1, retry |-> 0, crash |-> 0, loss |-> 1, push |-> 2]

\* Two connect messages on a connection, the second for another user or the same again.
Again == [request |-> {<<s1, u1, 1>>, <<s1, u2, -1>>, <<s2, u1, 2>>},
          join |-> 2, retry |-> 0, crash |-> 0, loss |-> 0, push |-> 1]

\* The same where both connections are on one server: the Channel the first one finds
\* when it leaves is the second one's, which has become another user, of its Bucket or not.
Swap == [request |-> {<<s2, u1, 1>>, <<s3, u1, 1>>, <<s3, u2, 1>>, <<s3, u3, 1>>},
         join |-> 2, retry |-> 0, crash |-> 1, loss |-> 0, push |-> 0]

Traffics == {Failing, Dying, Tabs, Moving, Staying, Unknown, Again, Swap}
===============================================================================
