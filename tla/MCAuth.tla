-------------------------------- MODULE MCAuth --------------------------------
(* Instances of Auth for TLC. *)
EXTENDS Auth, TLC

CONSTANTS ann, bob, c1, c2

OneName  == {ann}
TwoNames == {ann, bob}
Registered == <<ann>>

OneConn  == {c1}
TwoConns == {c1, c2}
Pool     == Permutations(TwoConns)

All       == {"register", "login", "logout", "connect"}
Logins    == {"login"}

\* Clients that wait for each answer and a pool that keeps its connections; or requests
\* that overlap, and a pool that closes one.
ApartOrTogether == {[requests |-> 5, active |-> 1, aged |-> 0], [requests |-> 3, active |-> 2, aged |-> 1]}
TwoTogether     == {[requests |-> 2, active |-> 2, aged |-> 0]}
===============================================================================
