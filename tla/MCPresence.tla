------------------------------ MODULE MCPresence ------------------------------
(* An instance of Presence for TLC. *)
EXTENDS Presence, TLC

CONSTANTS s1, s2, u1, k1, k2

TwoSessions == {s1, s2}
OneUser     == {u1}
OneRoom     == {1}

\* Two connect servers.
TwoServers  == [s \in Sessions |-> IF s = s1 THEN k1 ELSE k2]

\* Two tabs of one user, in one room.
TwoTabs     == {[request |-> {<<s1, u1, 1>>, <<s2, u1, 1>>},
                 join |-> 1, retry |-> 0, crash |-> 0, loss |-> 0, push |-> 0]}
===============================================================================
