-------------------------------- MODULE MCApi --------------------------------
(* Instances of Api for TLC. *)
EXTENDS Api, TLC

CONSTANTS q1, q2, u1, u2

TwoRequests == {q1, q2}
TwoUsers    == {u1, u2}
OneKnown    == {u1}
AllRoutes   == DOMAIN Plan
===============================================================================
